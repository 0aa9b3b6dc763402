-------------------------- MODULE RunPromiseProofs --------------------------
(***************************************************************************)
(* What RunDispatch tells the outside and what it tells itself: the phone  *)
(* leases, the outcomes against the tasks of DuoPlus, and the refinement   *)
(* of OnceOnlySubmission, for every instance of the constants.             *)
(*                                                                         *)
(* RunDispatchProofs shows that all steps but two are Quiet; here the same *)
(* steps are shown to be Steady, which is what the rows, the memories and  *)
(* the phones need of them.                                                *)
(***************************************************************************)
EXTENDS RunDispatchProofs

\* The task exists at DuoPlus; once it does, it never ceases to.
Existing == {"live", "replaying", "done", "failed", "cancelled"}

\* What may have become of a task that was once seen so.
After(seen) ==
  CASE seen = "done" -> {"done"}
    [] seen = "cancelled" -> {"cancelled"}
    [] seen = "failed" -> {"failed", "replaying", "done", "cancelled"}
    [] seen = "live" -> Existing
    [] OTHER -> Remote

\* What a row of scheduler_runs says is, or was, so.
RowHolds(row, remote) ==
  /\ row.task => remote \in Existing
  /\ remote \in After(row.duo)
  /\ row.sub # "never" => row.status # "pending"
  /\ row.status = "succeeded" => remote = "done"

\* What each step takes for granted of the steps before it.
PcHolds(pc, seen, sub, remote) ==
  /\ pc \in {"sync", "rerun", "reopen", "replayed", "rejected", "refused"} =>
       seen # "none"
  /\ pc \in {"rerun", "reopen", "replayed", "rejected"} => seen = "failed"
  /\ pc \in {"ack", "validate", "store"} => remote \in Existing
  /\ pc = "withdrawn" => remote = "cancelled"
  /\ pc \in {"reply", "ack", "ambiguous", "denied"} => sub # "never"

MemoryHolds(m, row, remote) ==
  /\ m.known => remote \in Existing
  /\ remote \in After(m.seen)
  /\ PcHolds(m.pc, m.seen, row.sub, remote)

RowsInv ==
  \A r \in Run : /\ RowHolds(run[r], task[r])
                 /\ task[r] # "none" => sends[r] = 1

\* A worker before its last update may write only to an open run.
WorkersInv ==
  \A w \in Worker : mem[w].pc # "idle" =>
    /\ MemoryHolds(mem[w], Row(w), task[Job(w)])
    /\ mem[w].pc # "release" /\ Leased(Job(w), w) => Row(w).status \in Open

\* The run's task is on its phone, or its worker stands before addTask.
Engaged(r) == OnPhone(r) \/ \E w \in Worker : At(w, "add") /\ Job(w) = r

\* The lease of a phone keeps every other run's first task from it.
PhonesInv ==
  /\ PhoneLeaseOwned
  /\ \A p \in Phone, r \in Run :
       phone[p].run \notin {NoRun, r} /\ PhoneOf[r] = p => ~Engaged(r)
  /\ \A r, s \in Run :
       r # s /\ PhoneOf[r] = PhoneOf[s] => ~(Engaged(r) /\ Engaged(s))

-----------------------------------------------------------------------------
(* What a step does *)

\* DuoPlus only ever moves a task forward.
Forward(a, b) ==
  \/ b = a
  \/ a = "sent" /\ b \in {"live", "none"}
  \/ a \in {"live", "replaying"} /\ b \in {"done", "failed", "cancelled"}
  \/ a = "failed" /\ b = "replaying"

Onward(a, b) == Forward(a, b) \/ (a = "none" /\ b = "sent")

\* A closed run stays closed.  An open one may be marked as submitted; it is
\* closed without being marked, unless as failed, removed only unmarked, and
\* successful only if its task is.
RowMoves(old, new, remote) ==
  \/ new.status = old.status /\ (new.sub # "never" <=> old.sub # "never")
  \/ /\ old.status \in Open /\ new.status \in Open
     /\ old.sub # "never" => new.sub # "never"
  \/ /\ old.status \in Open /\ new.status \notin Open
     /\ old.sub # "never" => new.sub # "never"
     /\ new.sub # "never" => old.sub # "never" \/ new.status = "failed"
     /\ new.status = "removed" => new.sub = "never"
     /\ new.status = "succeeded" => remote = "done"

\* A worker the step is not about keeps what it knows and gains no lease.
Untouched(w) ==
  /\ mem'[w] = mem[w]
  /\ \A r \in Run : run'[r].owner = w =>
       run[r].owner = w /\ (run[r].status \in Open => run'[r].status \in Open)

\* The worker the step is about knows what its next step takes for granted.
Prepared(w) ==
  LET m == mem'[w] IN m.pc # "idle" =>
    /\ MemoryHolds(m, run'[m.run], task'[m.run])
    /\ m.pc # "release" /\ run'[m.run].owner = w => run'[m.run].status \in Open

RowsMove ==
  \A r \in Run : /\ RowMoves(run[r], run'[r], task[r])
                 /\ RowHolds(run'[r], task[r])
                 /\ Forward(task[r], task'[r])

WorkersMove == \A w \in Worker : Untouched(w) \/ Prepared(w)

\* No lease is taken, and those that stay are still their runs'.
LeasesKept ==
  \A p \in Phone : LET r == phone'[p].run IN
    r # NoRun => r = phone[p].run /\ run'[r].ptok /\ run'[r].owner # NoWorker

\* What every step but Authorize, AddTask and the two Acquires does.
Steady == Quiet /\ RowsMove /\ WorkersMove /\ LeasesKept

Known == TypeOK /\ SubmissionInv /\ RowsInv /\ WorkersInv /\ PhonesInv

LEMMA ForwardKeeps ==
  ASSUME NEW a \in Remote, NEW b \in Remote, Forward(a, b)
  PROVE  /\ a \in Existing => b \in Existing
         /\ \A seen \in Seen : a \in After(seen) => b \in After(seen)
         /\ a = "done" => b = "done"
         /\ a = "cancelled" => b = "cancelled"
BY DEF Forward, Existing, After, Seen, Remote

LEMMA OnwardKeeps ==
  ASSUME NEW a \in Remote, NEW b \in Remote, Onward(a, b)
  PROVE  /\ a \in Existing => b \in Existing
         /\ \A seen \in Seen : a \in After(seen) => b \in After(seen)
         /\ a = "done" => b = "done"
         /\ a = "cancelled" => b = "cancelled"
<1>1. CASE Forward(a, b)
  BY <1>1, ForwardKeeps
<1>2. CASE a = "none" /\ b = "sent"
  BY <1>2 DEF Existing, After, Seen, Remote
<1> QED
  BY <1>1, <1>2 DEF Onward

\* Rows and memories stay true when rows move as they may and tasks forward.
LEMMA FactsKeep ==
  ASSUME Known, TypeOK', WorkersMove,
         \A r \in Run : /\ RowMoves(run[r], run'[r], task[r])
                        /\ RowHolds(run'[r], task[r])
                        /\ Onward(task[r], task'[r])
                        /\ task'[r] # "none" => sends'[r] = 1
  PROVE  RowsInv' /\ WorkersInv'
<1>1. \A r \in Run :
        /\ task[r] \in Remote /\ task'[r] \in Remote
        /\ run[r] \in RunRow /\ run'[r] \in RunRow /\ run'[r].duo \in Seen
  BY Names DEF Known, TypeOK, StoreTypeOK, RunRow
<1>2. RowsInv'
  <2> SUFFICES ASSUME NEW r \in Run
               PROVE  RowHolds(run'[r], task'[r]) /\ (task'[r] # "none" => sends'[r] = 1)
    BY DEF RowsInv
  <2>1. /\ task[r] \in Existing => task'[r] \in Existing
        /\ \A seen \in Seen : task[r] \in After(seen) => task'[r] \in After(seen)
        /\ task[r] = "done" => task'[r] = "done"
    BY <1>1, OnwardKeeps
  <2>2. RowHolds(run'[r], task[r]) /\ run'[r].duo \in Seen
    BY <1>1
  <2> QED
    BY <2>1, <2>2 DEF RowHolds
<1>3. WorkersInv'
  <2> SUFFICES ASSUME NEW w \in Worker, mem'[w].pc # "idle"
               PROVE  LET r == mem'[w].run IN
                      /\ MemoryHolds(mem'[w], run'[r], task'[r])
                      /\ mem'[w].pc # "release" /\ run'[r].owner = w =>
                           run'[r].status \in Open
    BY DEF WorkersInv, Row, Job, Leased
  <2>1. CASE Prepared(w)
    BY <2>1 DEF Prepared
  <2>2. CASE Untouched(w)
    <3> DEFINE r == mem[w].run
    <3>1. mem'[w] = mem[w] /\ r \in Run /\ mem[w].pc # "idle" /\ mem[w].seen \in Seen
      BY <2>2, BusyJob DEF Known, Untouched, Job, Memory
    <3>2. /\ MemoryHolds(mem[w], run[r], task[r])
          /\ mem[w].pc # "release" /\ run[r].owner = w => run[r].status \in Open
      BY <3>1 DEF Known, WorkersInv, Row, Job, Leased
    <3>3. run[r].sub # "never" => run'[r].sub # "never"
      BY <3>1 DEF RowMoves
    <3>4. /\ task[r] \in Existing => task'[r] \in Existing
          /\ \A seen \in Seen : task[r] \in After(seen) => task'[r] \in After(seen)
          /\ task[r] = "cancelled" => task'[r] = "cancelled"
      BY <1>1, <3>1, OnwardKeeps
    <3>5. MemoryHolds(mem[w], run'[r], task'[r])
      BY <3>1, <3>2, <3>3, <3>4 DEF MemoryHolds, PcHolds
    <3> QED
      BY <2>2, <3>1, <3>2, <3>5 DEF Untouched
  <2> QED
    BY <2>1, <2>2 DEF WorkersMove
<1> QED
  BY <1>2, <1>3

\* Only Authorize brings a run closer to its phone.
LEMMA EngagedKeeps ==
  ASSUME Known, TypeOK', Quiet, RowsMove
  PROVE  \A r \in Run : /\ Engaged(r)' => Engaged(r)
                        /\ task'[r] # "none" => sends'[r] = 1
BY DEF Engaged, OnPhone, Known, RowsInv, RowsMove, Forward, Quiet, At, Job

LEMMA SteadyKeeps ==
  ASSUME Known, TypeOK', Steady
  PROVE  Known'
<1>1. SubmissionInv'
  BY QuietKeeps DEF Known, Steady
<1>2. \A r \in Run : (Engaged(r)' => Engaged(r)) /\ (task'[r] # "none" => sends'[r] = 1)
  BY EngagedKeeps DEF Steady
<1>3. RowsInv' /\ WorkersInv'
  <2>1. \A r \in Run : /\ RowMoves(run[r], run'[r], task[r])
                       /\ RowHolds(run'[r], task[r])
                       /\ Onward(task[r], task'[r])
    <3> SUFFICES ASSUME NEW r \in Run
                 PROVE  /\ RowMoves(run[r], run'[r], task[r])
                        /\ RowHolds(run'[r], task[r])
                        /\ Onward(task[r], task'[r])
      OBVIOUS
    <3>1. RowMoves(run[r], run'[r], task[r]) /\ RowHolds(run'[r], task[r])
      BY DEF Steady, RowsMove
    <3>2. Forward(task[r], task'[r])
      BY DEF Steady, RowsMove
    <3> QED
      BY <3>1, <3>2 DEF Onward
  <2> QED
    BY <1>2, <2>1, FactsKeep DEF Steady
<1>4. PhonesInv'
  <2>1. /\ PhoneLeaseOwned
        /\ \A p \in Phone, r \in Run :
             phone[p].run \notin {NoRun, r} /\ PhoneOf[r] = p => ~Engaged(r)
        /\ \A r, s \in Run :
             r # s /\ PhoneOf[r] = PhoneOf[s] => ~(Engaged(r) /\ Engaged(s))
    BY DEF Known, PhonesInv
  <2>2. PhoneLeaseOwned'
    BY <2>1 DEF PhoneLeaseOwned, Steady, LeasesKept
  <2>3. \A p \in Phone, r \in Run :
          phone'[p].run \notin {NoRun, r} /\ PhoneOf[r] = p => ~Engaged(r)'
    BY <1>2, <2>1 DEF Steady, LeasesKept
  <2> QED
    BY <1>2, <2>1, <2>2, <2>3 DEF PhonesInv
<1> QED
  BY <1>1, <1>3, <1>4 DEF Known

-----------------------------------------------------------------------------
(* The shapes of steps *)

\* Rows are left alone, or phones too.
LEMMA RowsStill ==
  ASSUME Known, UNCHANGED run, \A r \in Run : Forward(task[r], task'[r])
  PROVE  RowsMove
BY DEF Known, RowsInv, RowsMove, RowMoves

LEMMA LeasesStill ==
  ASSUME Known, UNCHANGED <<run, phone>>
  PROVE  LeasesKept
BY DEF Known, PhonesInv, PhoneLeaseOwned, LeasesKept, TypeOK, StoreTypeOK

LEMMA TasksStill ==
  ASSUME UNCHANGED task PROVE \A r \in Run : Forward(task[r], task'[r])
BY DEF Forward

LEMMA OthersStill ==
  ASSUME TypeOK, NEW w \in Worker, NEW m, mem' = [mem EXCEPT ![w] = m],
         NEW v \in Worker \ {w}, UNCHANGED run
  PROVE  Untouched(v)
BY DEF TypeOK, Untouched

LEMMA BusyKnows ==
  ASSUME Known, NEW w \in Worker, mem[w].pc # "idle"
  PROVE  /\ Job(w) \in Run /\ Row(w) \in RunRow /\ mem[w] \in Memory
         /\ Row(w) = run[Job(w)]
         /\ MemoryHolds(mem[w], Row(w), task[Job(w)])
         /\ RowHolds(Row(w), task[Job(w)])
         /\ mem[w].pc # "release" /\ Row(w).owner = w => Row(w).status \in Open
BY BusyJob DEF Known, WorkersInv, RowsInv, Row, Leased

\* A worker goes on, and perhaps notes what it saw.
LEMMA MoveSteady ==
  ASSUME Known, NEW w \in Worker, mem[w].pc \notin {"idle", "release"},
         NEW m, mem' = [mem EXCEPT ![w] = m],
         m.run = mem[w].run, m.known = mem[w].known,
         task'[Job(w)] \in After(m.seen),
         PcHolds(m.pc, m.seen, Row(w).sub, task'[Job(w)]),
         UNCHANGED run, LeasesKept, \A r \in Run : Forward(task[r], task'[r]),
         Quiet, TypeOK'
  PROVE  Steady
<1>1. RowsMove
  BY RowsStill
<1>2. UNCHANGED run
  OBVIOUS
<1>3. mem'[w] = m
  BY DEF Known, TypeOK
<1>4. Prepared(w)
  <2>1. Job(w) \in Run /\ task[Job(w)] \in Remote /\ task'[Job(w)] \in Remote
    BY BusyKnows DEF Known, TypeOK
  <2>2. m.known => task'[Job(w)] \in Existing
    BY <2>1, BusyKnows, ForwardKeeps DEF MemoryHolds
  <2>3. Row(w).owner = w => Row(w).status \in Open
    BY BusyKnows
  <2> QED
    BY <1>2, <1>3, <2>2, <2>3 DEF Prepared, MemoryHolds, Job, Row
<1>5. \A v \in Worker \ {w} : Untouched(v)
  BY <1>2, OthersStill DEF Known
<1> QED
  BY <1>1, <1>4, <1>5 DEF Steady, WorkersMove

LEMMA GotoSteady ==
  ASSUME Known, NEW w \in Worker, mem[w].pc \notin {"idle", "release"},
         NEW next \in Pc, Goto(w, next),
         task'[Job(w)] \in After(mem[w].seen),
         PcHolds(next, mem[w].seen, Row(w).sub, task'[Job(w)]),
         UNCHANGED <<run, phone>>, \A r \in Run : Forward(task[r], task'[r]),
         Quiet, TypeOK'
  PROVE  Steady
<1> DEFINE m == [mem[w] EXCEPT !.pc = next]
<1>1. mem' = [mem EXCEPT ![w] = m]
  BY DEF Goto, Known, TypeOK
<1>2. /\ m.run = mem[w].run /\ m.known = mem[w].known
      /\ m.seen = mem[w].seen /\ m.pc = next
  BY BusyKnows DEF Memory
<1> HIDE DEF m
<1> QED
  BY <1>1, <1>2, LeasesStill, MoveSteady

LEMMA FinishSteady ==
  ASSUME Known, NEW w \in Worker, Finish(w), UNCHANGED <<storeVars, task>>, Quiet
  PROVE  Steady
<1>1. RowsMove /\ LeasesKept
  BY RowsStill, LeasesStill, TasksStill DEF storeVars
<1>2. Prepared(w)
  BY DEF Finish, Idle, Prepared, Known, TypeOK
<1>3. \A v \in Worker \ {w} : Untouched(v)
  BY OthersStill DEF Finish, Known, storeVars
<1> QED
  BY <1>1, <1>2, <1>3 DEF Steady, WorkersMove

\* A row that worker w may put in place of its own before going to next.
Writable(w, row, next) ==
  /\ row.owner = Row(w).owner /\ row.ptok = Row(w).ptok
  /\ RowHolds(row, task[Job(w)])
  /\ row.status \in Open \cup Terminal
  /\ Row(w).sub # "never" => row.sub # "never"
  /\ row.status \in Terminal =>
       /\ next = "release"
       /\ row.sub # "never" => Row(w).sub # "never" \/ row.status = "failed"

LEMMA OpenOrNot == Open \cap Terminal = {} /\ "removed" \notin Open \cup Terminal
BY DEF Open, Terminal

LEMMA UpdateSteady ==
  ASSUME Known, NEW w \in Worker, mem[w].pc \notin {"idle", "release"},
         Leased(Job(w), w),
         NEW row, NEW m, Writable(w, row, m.pc), UpdateRun(Job(w), row),
         mem' = [mem EXCEPT ![w] = m],
         m.run = mem[w].run, m.known = mem[w].known, m.seen = mem[w].seen,
         PcHolds(m.pc, m.seen, row.sub, task[Job(w)]),
         UNCHANGED task, Quiet
  PROVE  Steady
<1> DEFINE r == Job(w)
<1>1. /\ r \in Run /\ Row(w) = run[r] /\ MemoryHolds(mem[w], Row(w), task[r])
      /\ run[r].owner = w /\ run[r].status \in Open
  BY BusyKnows DEF Leased
<1>2. run' = [run EXCEPT ![r] = row] /\ UNCHANGED phone
  BY DEF UpdateRun
<1>3. run'[r] = row /\ \A s \in Run \ {r} : run'[s] = run[s]
  BY <1>1, <1>2 DEF Known, TypeOK, StoreTypeOK
<1>4. RowsMove
  <2> SUFFICES ASSUME NEW s \in Run
               PROVE  RowMoves(run[s], run'[s], task[s]) /\ RowHolds(run'[s], task[s])
    BY TasksStill DEF RowsMove
  <2>1. CASE s = r
    BY <1>1, <1>3, <2>1, OpenOrNot DEF Writable, RowMoves, RowHolds
  <2>2. CASE s # r
    BY <1>3, <2>2 DEF RowMoves, Known, RowsInv
  <2> QED
    BY <2>1, <2>2
<1>5. LeasesKept
  <2>1. PhoneLeaseOwned /\ NoRun \notin Run /\ \A p \in Phone : phone[p].run \in Run \cup {NoRun}
    BY StoreAssumption DEF Known, PhonesInv, TypeOK, StoreTypeOK, PhoneRow
  <2> QED
    BY <1>1, <1>2, <1>3, <2>1 DEF LeasesKept, PhoneLeaseOwned, Writable
<1>6. Prepared(w)
  <2>1. mem'[w] = m
    BY DEF Known, TypeOK
  <2>2. m.pc # "release" => row.status \in Open
    BY DEF Writable
  <2> QED
    BY <1>1, <1>3, <2>1, <2>2 DEF Prepared, MemoryHolds, Job
<1>7. ASSUME NEW v \in Worker \ {w}
      PROVE  Untouched(v)
  BY <1>1, <1>3 DEF Untouched, Writable, Known, TypeOK
<1> QED
  BY <1>4, <1>5, <1>6, <1>7 DEF Steady, WorkersMove

LEMMA WriteSteady ==
  ASSUME Known, NEW w \in Worker, mem[w].pc \notin {"idle", "release"},
         NEW row, NEW next \in Pc, Writable(w, row, next), WriteOnly(w, row, next),
         PcHolds(next, mem[w].seen, row.sub, task[Job(w)]), Quiet, TypeOK'
  PROVE  Steady
<1>1. UNCHANGED task /\ task[Job(w)] \in After(mem[w].seen) /\ mem[w] \in Memory
  BY BusyKnows DEF WriteOnly, MemoryHolds
<1>2. CASE Fenced(Job(w), w) /\ UpdateRun(Job(w), row) /\ Goto(w, next)
  <2> DEFINE m == [mem[w] EXCEPT !.pc = next]
  <2>1. mem' = [mem EXCEPT ![w] = m]
    BY <1>2 DEF Goto, Known, TypeOK
  <2>2. /\ m.run = mem[w].run /\ m.known = mem[w].known
        /\ m.seen = mem[w].seen /\ m.pc = next
    BY <1>1 DEF Memory
  <2> HIDE DEF m
  <2> QED
    BY <1>1, <1>2, <2>1, <2>2, UpdateSteady DEF Fenced
<1>3. CASE Finish(w) /\ UNCHANGED storeVars
  BY <1>1, <1>3, FinishSteady
<1>4. CASE /\ Goto(w, IF At(w, "fail") THEN "release" ELSE "fail")
           /\ UNCHANGED storeVars
  <2> DEFINE pc == IF At(w, "fail") THEN "release" ELSE "fail"
  <2>1. pc \in Pc /\ PcHolds(pc, mem[w].seen, Row(w).sub, task'[Job(w)])
    BY DEF Pc, PcHolds
  <2>2. Goto(w, pc)
    BY <1>4
  <2> HIDE DEF pc
  <2> QED
    BY <1>1, <1>4, <2>1, <2>2, TasksStill, GotoSteady DEF storeVars
<1> QED
  BY <1>2, <1>3, <1>4 DEF WriteOnly, Write

-----------------------------------------------------------------------------
(* The rows that are written *)

LEMMA DeferredWritable ==
  ASSUME Known, NEW w \in Worker, mem[w].pc # "idle", NEW next,
         NEW status \in {"retry_wait", "preparing", "monitored"}, NEW stage, NEW n
  PROVE  /\ Writable(w, Deferred(w, status, stage, n), next)
         /\ Deferred(w, status, stage, n).sub = Row(w).sub
<1> DEFINE row == Deferred(w, status, stage, n)
<1>1. /\ row.owner = Row(w).owner /\ row.ptok = Row(w).ptok
      /\ row.task = Row(w).task /\ row.duo = Row(w).duo
      /\ row.sub = Row(w).sub /\ row.status = status
  BY BusyKnows DEF Deferred, RunRow
<1> HIDE DEF row
<1>2. RowHolds(row, task[Job(w)])
  BY <1>1, BusyKnows DEF RowHolds
<1>3. status \in Open \ Terminal
  BY DEF Open, Terminal
<1> QED
  BY <1>1, <1>2, <1>3 DEF Writable, row

\* A worker's last word: the row of a closed run.
LEMMA ClosedWritable ==
  ASSUME Known, NEW w \in Worker, mem[w].pc # "idle",
         NEW row \in WideRow, NEW outcome \in Terminal,
         row.owner = Row(w).owner, row.ptok = Row(w).ptok,
         row.task => task[Job(w)] \in Existing, task[Job(w)] \in After(row.duo),
         row.sub = Row(w).sub \/ row.sub # "never",
         row.sub # "never" => Row(w).sub # "never" \/ outcome = "failed",
         outcome = "succeeded" => task[Job(w)] = "done"
  PROVE  Writable(w, Closed(row, outcome), "release")
<1> DEFINE closed == Closed(row, outcome)
<1>1. /\ closed.owner = row.owner /\ closed.ptok = row.ptok
      /\ closed.task = row.task /\ closed.duo = row.duo
      /\ closed.sub = row.sub /\ closed.status = outcome
  BY DEF Closed, WideRow
<1> HIDE DEF closed
<1>2. outcome # "pending"
  BY DEF Terminal
<1>3. RowHolds(closed, task[Job(w)])
  BY <1>1, <1>2 DEF RowHolds
<1> QED
  BY <1>1, <1>3 DEF Writable, closed

\* The worker's own row, closed as it is.
LEMMA OwnClosed ==
  ASSUME Known, NEW w \in Worker, mem[w].pc # "idle",
         NEW outcome \in {"failed", "cancelled"}
  PROVE  /\ Writable(w, Closed(Row(w), outcome), "release")
         /\ Closed(Row(w), outcome) \in WideRow
<1>1. Row(w) \in WideRow /\ outcome \in Terminal
  BY BusyKnows, RunRowIsWide DEF Terminal
<1>2. (Row(w).task => task[Job(w)] \in Existing) /\ task[Job(w)] \in After(Row(w).duo)
  BY BusyKnows DEF RowHolds
<1> QED
  BY <1>1, <1>2, ClosedWritable, ClosedRow

LEMMA Submitted ==
  ASSUME Known, NEW w \in Worker, mem[w].pc # "idle", task[Job(w)] \in Existing
  PROVE  sends[Job(w)] = 1 /\ Row(w).sub # "never"
BY BusyKnows DEF Known, RowsInv, SubmissionInv, Existing

\* What a worker that saw the task may say of it.
LEMMA SeenExists ==
  ASSUME Known, NEW w \in Worker, mem[w].pc # "idle", mem[w].seen # "none"
  PROVE  /\ task[Job(w)] \in Existing
         /\ task[Job(w)] \in After(mem[w].seen)
         /\ sends[Job(w)] = 1 /\ Row(w).sub # "never"
         /\ mem[w].seen \in {"live", "done", "failed", "cancelled"}
<1>1. mem[w].seen \in Seen /\ task[Job(w)] \in After(mem[w].seen)
  BY BusyKnows DEF MemoryHolds, Memory
<1>2. task[Job(w)] \in Existing
  BY <1>1 DEF After, Existing, Seen
<1> QED
  BY <1>1, <1>2, Submitted DEF Seen

\* syncTask's row, on top of which the status is set.
LEMMA TaskRowHolds ==
  ASSUME Known, NEW w \in Worker, mem[w].pc # "idle", mem[w].seen # "none"
  PROVE  LET row == WithTask(Row(w), mem[w].seen) IN
         /\ row \in WideRow /\ row.owner = Row(w).owner /\ row.ptok = Row(w).ptok
         /\ row.task => task[Job(w)] \in Existing
         /\ task[Job(w)] \in After(row.duo) /\ row.sub = "accepted"
<1>1. Row(w) \in RunRow /\ mem[w].seen \in DuoStatus
  BY BusyNumbers DEF Known
<1>2. WithTask(Row(w), mem[w].seen) \in WideRow
  BY <1>1, TaskRow
<1>3. LET row == WithTask(Row(w), mem[w].seen) IN
      /\ row.owner = Row(w).owner /\ row.ptok = Row(w).ptok
      /\ row.duo = mem[w].seen /\ row.sub = "accepted"
  BY <1>1 DEF WithTask, RunRow
<1> QED
  BY <1>2, <1>3, SeenExists

-----------------------------------------------------------------------------
(* Runs that may already have a task *)

LEMMA ExistingSteady ==
  ASSUME Known, NEW w \in Worker,
         \/ Wait(w) \/ GiveUp(w) \/ SyncLive(w) \/ SyncTerminal(w)
         \/ RerunRejected(w) \/ Replayed(w)
  PROVE  TypeOK' /\ Steady
<1>1. TypeOK' /\ Quiet
  BY ExistingSteps DEF Known
<1>2. mem[w].pc \notin {"idle", "release"} /\ "release" \in Pc
  BY DEF Wait, GiveUp, SyncLive, SyncTerminal, RerunRejected, Replayed, At, Pc
<1>3. ASSUME NEW row, WriteOnly(w, row, "release"), Writable(w, row, "release")
      PROVE  Steady
  BY <1>1, <1>2, <1>3, WriteSteady DEF PcHolds
<1>4. CASE Wait(w)
  BY <1>1, <1>2, <1>3, <1>4, DeferredWritable DEF Wait
<1>5. CASE GiveUp(w)
  <2> DEFINE s == IF ~mem[w].known /\ Row(w).sub = "never" THEN "unknown"
                  ELSE Row(w).sub
             closed == Closed(Row(w), "failed")
             row == [closed EXCEPT !.sub = s]
  <2>1. WriteOnly(w, row, "release")
    BY <1>5 DEF GiveUp
  <2>2. closed \in WideRow /\ Writable(w, closed, "release")
    BY <1>2, OwnClosed
  <2>3. closed.status = "failed"
    BY <1>2, BusyKnows DEF Closed, RunRow
  <2>4. /\ row.owner = closed.owner /\ row.ptok = closed.ptok
        /\ row.task = closed.task /\ row.duo = closed.duo
        /\ row.sub = s /\ row.status = "failed"
    BY <2>2, <2>3 DEF WideRow
  <2>5. Row(w).sub # "never" => s # "never"
    OBVIOUS
  <2> HIDE DEF row, closed, s
  <2>6. Writable(w, row, "release")
    BY <2>2, <2>3, <2>4, <2>5 DEF Writable, RowHolds
  <2> QED
    BY <1>1, <1>3, <2>1, <2>6
<1>6. CASE SyncLive(w) \/ Replayed(w)
  <2>1. mem[w].seen # "none" /\ (Replayed(w) => mem[w].seen = "failed")
    BY <1>2, <1>6, BusyKnows DEF SyncLive, Replayed, At, MemoryHolds, PcHolds
  <2> DEFINE told == WithTask(Row(w), mem[w].seen)
  <2>2. /\ told \in WideRow /\ told.owner = Row(w).owner /\ told.ptok = Row(w).ptok
        /\ told.task => task[Job(w)] \in Existing
        /\ task[Job(w)] \in After(told.duo) /\ told.sub = "accepted"
    BY <1>2, <2>1, TaskRowHolds
  <2>3. \/ WriteOnly(w, [told EXCEPT !.status = "monitored", !.stage = "monitor_task"],
                     "release")
        \/ WriteOnly(w, [told EXCEPT !.status = "monitored", !.stage = "monitor_task",
                           !.attempts = Current(w) + 1], "release")
    BY <1>6, <2>1 DEF SyncLive, Replayed
  <2> HIDE DEF told
  <2>4. ASSUME NEW row, \E n : row = [told EXCEPT !.status = "monitored",
                                        !.stage = "monitor_task", !.attempts = n]
                       \/ row = [told EXCEPT !.status = "monitored",
                                        !.stage = "monitor_task"]
        PROVE  Writable(w, row, "release")
    <3>1. /\ row.owner = told.owner /\ row.ptok = told.ptok
          /\ row.task = told.task /\ row.duo = told.duo
          /\ row.sub = told.sub /\ row.status = "monitored"
      BY <2>2, <2>4 DEF WideRow
    <3> QED
      BY <2>2, <3>1 DEF Writable, RowHolds, Open, Terminal
  <2> QED
    BY <1>1, <1>3, <2>3, <2>4
<1>7. CASE SyncTerminal(w) \/ RerunRejected(w)
  <2>1. mem[w].seen # "none" /\ (RerunRejected(w) => mem[w].seen = "failed")
    BY <1>2, <1>7, BusyKnows DEF SyncTerminal, RerunRejected, At, MemoryHolds, PcHolds
  <2> DEFINE told == WithTask(Row(w), mem[w].seen)
  <2>2. PICK o \in {OutcomeOf(mem[w].seen), "failed"} :
          WriteOnly(w, Closed(told, o), "release")
    BY <1>7, <2>1 DEF SyncTerminal, RerunRejected
  <2>3. o \in Terminal /\ (o = "succeeded" => task[Job(w)] = "done")
    BY <1>2, <2>1, SeenExists, OutcomeIsTerminal DEF OutcomeOf, Terminal, After
  <2>4. /\ told \in WideRow /\ told.owner = Row(w).owner /\ told.ptok = Row(w).ptok
        /\ told.task => task[Job(w)] \in Existing
        /\ task[Job(w)] \in After(told.duo) /\ told.sub = "accepted"
    BY <1>2, <2>1, TaskRowHolds
  <2>5. Row(w).sub # "never"
    BY <1>2, <2>1, SeenExists
  <2> HIDE DEF told
  <2>6. Writable(w, Closed(told, o), "release")
    BY <1>2, <2>3, <2>4, <2>5, ClosedWritable
  <2> QED
    BY <1>1, <1>3, <2>2, <2>6
<1> QED
  BY <1>1, <1>4, <1>5, <1>6, <1>7

-----------------------------------------------------------------------------
(* A new run, but for its leases, its fence and its addTask *)

LEMMA SightIsTrue ==
  ASSUME TypeOK, NEW r \in Run
  PROVE  /\ task[r] \in After(Visible(r)) /\ Visible(r) \in Seen
         /\ Visible(r) # "none" => task[r] \in Existing
BY DEF TypeOK, Visible, After, Existing, Remote, Seen

LEMMA LookUpSteady ==
  ASSUME Known, NEW w \in Worker,
         Probe(w) \/ Recheck(w) \/ Locate(w) \/ Resolve(w)
  PROVE  TypeOK' /\ Steady
<1>1. TypeOK' /\ Quiet
  BY LookUpSteps DEF Known
<1>2. mem[w].pc \notin {"idle", "release"}
  BY DEF Probe, Recheck, Locate, Resolve, At
<1>3. PICK missing \in {"prepare", "release", "missing"} : LookUp(w, "sync", missing)
  BY DEF Probe, Recheck, Locate, Resolve
<1>4. PICK s \in Seen, next \in {"sync", missing} :
        /\ mem' = [mem EXCEPT ![w] = [mem[w] EXCEPT !.seen = s, !.pc = next]]
        /\ s \in {"none", Visible(Job(w))} /\ (next = "sync" => s # "none")
  <2>1. Visible(Job(w)) \in Seen /\ "none" \in Seen
    BY <1>2, SightIsTrue, BusyKnows DEF Known, Seen
  <2>2. CASE mem' = [mem EXCEPT ![w].seen = Visible(Job(w)),
               ![w].pc = IF Visible(Job(w)) = "none" THEN missing ELSE "sync"]
    BY <1>3, <2>1, <2>2 DEF Known, TypeOK
  <2>3. CASE mem' = [mem EXCEPT ![w].seen = "none", ![w].pc = missing]
    BY <1>3, <2>1, <2>3 DEF Known, TypeOK
  <2> QED
    BY <1>3, <2>2, <2>3 DEF LookUp
<1> DEFINE m == [mem[w] EXCEPT !.seen = s, !.pc = next]
<1>5. m.run = mem[w].run /\ m.known = mem[w].known /\ m.seen = s /\ m.pc = next
  BY <1>2, BusyKnows DEF Memory
<1>6. mem' = [mem EXCEPT ![w] = m]
  BY <1>4
<1> HIDE DEF m
<1>7. UNCHANGED <<run, phone, task>>
  BY <1>3 DEF LookUp, storeVars
<1>8. task'[Job(w)] \in After(s)
  BY <1>2, <1>4, <1>7, BusyKnows, SightIsTrue DEF Known, After, TypeOK
<1>9. PcHolds(next, s, Row(w).sub, task'[Job(w)])
  BY <1>3, <1>4 DEF PcHolds
<1> QED
  BY <1>1, <1>2, <1>5, <1>6, <1>7, <1>8, <1>9, LeasesStill, TasksStill, MoveSteady

LEMMA PhoneSteady ==
  ASSUME Known, NEW w \in Worker,
         NoPhone(w) \/ PhoneReady(w) \/ PhoneNotReady(w) \/ Requeue(w)
  PROVE  TypeOK' /\ Steady
<1>1. TypeOK' /\ Quiet
  BY PhoneSteps DEF Known
<1>2. mem[w].pc \notin {"idle", "release"}
  BY DEF NoPhone, PhoneReady, PhoneNotReady, Requeue, At
<1>3. ASSUME NEW status \in {"retry_wait", "preparing", "monitored"},
             NEW stage, NEW n, NEW next \in {"release", "authorize", "recheck"},
             WriteOnly(w, Deferred(w, status, stage, n), next)
      PROVE  Steady
  BY <1>1, <1>2, <1>3, DeferredWritable, WriteSteady DEF PcHolds, Pc
<1>4. CASE NoPhone(w)
  <2>1. PICK stage :
          WriteOnly(w, Deferred(w, "retry_wait", stage, Row(w).attempts), "release")
    BY <1>4 DEF NoPhone
  <2> QED
    BY <1>1, <1>3, <2>1
<1>5. CASE PhoneReady(w)
  BY <1>1, <1>3, <1>5 DEF PhoneReady
<1>6. CASE PhoneNotReady(w)
  <2> DEFINE n == mem[w].att + 1
             closed == Closed(Row(w), "failed")
             row == [closed EXCEPT !.attempts = n]
  <2>1. CASE WriteOnly(w, Deferred(w, "preparing", "prepare_phone", Row(w).attempts),
                       "release")
    BY <1>1, <1>3, <2>1
  <2>2. CASE WriteOnly(w, Deferred(w, "retry_wait", "prepare_phone", n), "release")
    BY <1>1, <1>3, <2>2
  <2>3. CASE WriteOnly(w, row, "release")
    <3>1. closed \in WideRow /\ Writable(w, closed, "release")
      BY <1>2, OwnClosed
    <3>2. /\ row.owner = closed.owner /\ row.ptok = closed.ptok
          /\ row.task = closed.task /\ row.duo = closed.duo
          /\ row.sub = closed.sub /\ row.status = closed.status
      BY <3>1 DEF WideRow
    <3> HIDE DEF row, closed
    <3>3. Writable(w, row, "release")
      BY <3>1, <3>2 DEF Writable, RowHolds
    <3> QED
      BY <1>1, <1>2, <2>3, <3>3, WriteSteady DEF PcHolds, Pc
  <2>4. CASE Goto(w, "permanent") /\ UNCHANGED <<storeVars, task, sends>>
    BY <1>1, <1>2, <2>4, BusyKnows, TasksStill, GotoSteady
    DEF PcHolds, Pc, MemoryHolds, storeVars
  <2> QED
    <3>1. CASE n >= MaxAttempts
      BY <1>6, <2>1, <2>3, <2>4, <3>1 DEF PhoneNotReady
    <3>2. CASE ~(n >= MaxAttempts)
      BY <1>6, <2>1, <2>2, <2>4, <3>2 DEF PhoneNotReady
    <3> QED
      BY <3>1, <3>2
<1>7. CASE Requeue(w)
  BY <1>1, <1>3, <1>7 DEF Requeue
<1> QED
  BY <1>4, <1>5, <1>6, <1>7

LEMMA AnswerSteady ==
  ASSUME Known, NEW w \in Worker,
         \/ AddReply(w) \/ RecordUnknown(w) \/ RecordAccepted(w)
         \/ Validate(w) \/ Orphan(w) \/ Store(w)
  PROVE  TypeOK' /\ Steady
<1>1. TypeOK' /\ Quiet
  BY AnswerSteps DEF Known
<1>2. mem[w].pc \notin {"idle", "release"}
  BY DEF AddReply, RecordUnknown, RecordAccepted, Validate, Orphan, Store, At
<1>3. /\ Job(w) \in Run /\ Row(w) \in RunRow /\ mem[w] \in Memory
      /\ Row(w) = run[Job(w)] /\ task[Job(w)] \in Remote
      /\ MemoryHolds(mem[w], Row(w), task[Job(w)])
      /\ RowHolds(Row(w), task[Job(w)])
      /\ Leased(Job(w), w) => Row(w).status \in Open
  BY <1>2, BusyKnows DEF Known, Leased, TypeOK
<1>4. task[Job(w)] \in After(mem[w].seen)
      /\ PcHolds(mem[w].pc, mem[w].seen, Row(w).sub, task[Job(w)])
  BY <1>3 DEF MemoryHolds
<1>5. CASE AddReply(w) \/ Validate(w)
  <2>1. UNCHANGED <<run, phone, task>>
    BY <1>5 DEF AddReply, Validate, storeVars
  <2>2. PICK next \in {"ack", "ambiguous", "denied", "store", "orphan"} :
          /\ Goto(w, next)
          /\ next = "ack" => task[Job(w)] \notin {"none", "sent"}
          /\ next \in {"ack", "ambiguous", "denied"} => mem[w].pc = "reply"
          /\ next = "store" => mem[w].pc = "validate"
    BY <1>5 DEF AddReply, Validate, At
  <2>3. PcHolds(next, mem[w].seen, Row(w).sub, task'[Job(w)])
    BY <1>3, <1>4, <2>1, <2>2 DEF PcHolds, Existing, Remote
  <2> QED
    BY <1>1, <1>2, <1>4, <2>1, <2>2, <2>3, TasksStill, GotoSteady DEF Pc
<1>6. CASE RecordUnknown(w) \/ RecordAccepted(w)
  <2>1. PICK s \in {"unknown", "accepted"}, next \in {"requeue", "permanent", "validate"} :
          Record(w, s, next) /\ (next = "validate" => mem[w].pc = "ack")
    BY <1>6 DEF RecordUnknown, RecordAccepted, At
  <2>2. Row(w).sub # "never"
    BY <1>4, <1>6 DEF PcHolds, RecordUnknown, RecordAccepted, At
  <2>3. CASE /\ Fenced(Job(w), w)
             /\ UpdateRun(Job(w), [Row(w) EXCEPT !.sub = s, !.stage = "resolve_task"])
             /\ mem' = [mem EXCEPT ![w].pc = next, ![w].stage = "resolve_task"]
    <3> DEFINE row == [Row(w) EXCEPT !.sub = s, !.stage = "resolve_task"]
               m == [mem[w] EXCEPT !.pc = next, !.stage = "resolve_task"]
    <3>1. /\ row.owner = Row(w).owner /\ row.ptok = Row(w).ptok
          /\ row.task = Row(w).task /\ row.duo = Row(w).duo
          /\ row.sub = s /\ row.status = Row(w).status
      BY <1>3 DEF RunRow
    <3>2. /\ m.run = mem[w].run /\ m.known = mem[w].known
          /\ m.seen = mem[w].seen /\ m.pc = next
      BY <1>3 DEF Memory
    <3>3. mem' = [mem EXCEPT ![w] = m] /\ UpdateRun(Job(w), row)
      BY <2>3 DEF Known, TypeOK
    <3> HIDE DEF row, m
    <3>4. Writable(w, row, next)
      BY <1>3, <2>2, <2>3, <3>1 DEF Writable, RowHolds, Open, Terminal, Fenced
    <3>5. PcHolds(next, mem[w].seen, row.sub, task[Job(w)])
      BY <1>4, <2>1 DEF PcHolds
    <3> QED
      BY <1>1, <1>2, <2>1, <2>3, <3>2, <3>3, <3>4, <3>5, UpdateSteady
      DEF Fenced, Record
  <2>4. CASE Finish(w) /\ UNCHANGED storeVars
    BY <1>1, <2>1, <2>4, FinishSteady DEF Record
  <2> QED
    BY <2>1, <2>3, <2>4 DEF Record
<1>7. CASE Orphan(w)
  <2>1. task' = task \/ /\ Visible(Job(w)) = "live"
                        /\ task' = [task EXCEPT ![Job(w)] = "cancelled"]
    BY <1>7 DEF Orphan
  <2>2. \A r \in Run : Forward(task[r], task'[r])
    BY <1>3, <2>1 DEF Forward, Visible, Known, TypeOK, Remote
  <2>3. UNCHANGED <<run, phone>> /\ Goto(w, "release")
    BY <1>7 DEF Orphan, storeVars
  <2>4. task'[Job(w)] \in After(mem[w].seen)
    BY <1>1, <1>3, <1>4, <2>2, ForwardKeeps DEF TypeOK, Memory
  <2> QED
    BY <1>1, <1>2, <2>2, <2>3, <2>4, GotoSteady DEF PcHolds, Pc
<1>8. CASE Store(w)
  <2>1. PICK id \in BOOLEAN :
          WriteOnly(w, [Row(w) EXCEPT !.status = "preparing", !.sub = "accepted",
                                      !.stage = "resolve_task", !.task = id],
                    "locate")
    BY <1>8 DEF Store
  <2> DEFINE row == [Row(w) EXCEPT !.status = "preparing", !.sub = "accepted",
                                   !.stage = "resolve_task", !.task = id]
  <2>2. /\ row.owner = Row(w).owner /\ row.ptok = Row(w).ptok
        /\ row.duo = Row(w).duo /\ row.sub = "accepted" /\ row.status = "preparing"
    BY <1>3 DEF RunRow
  <2>3. WriteOnly(w, row, "locate")
    BY <2>1
  <2> HIDE DEF row
  <2>4. task[Job(w)] \in Existing
    BY <1>4, <1>8 DEF PcHolds, Store, At
  <2>5. Writable(w, row, "locate")
    BY <1>3, <2>2, <2>4 DEF Writable, RowHolds, Open, Terminal
  <2> QED
    BY <1>1, <1>2, <2>3, <2>5, WriteSteady DEF PcHolds, Pc
<1> QED
  BY <1>1, <1>5, <1>6, <1>7, <1>8

-----------------------------------------------------------------------------
(* Replays, cancellation, handlers *)

LEMMA ReplaySteady ==
  ASSUME Known, NEW w \in Worker, SyncFailed(w) \/ Rerun(w) \/ Reopen(w)
  PROVE  TypeOK' /\ Steady
<1>1. TypeOK' /\ Quiet
  BY ReplaySteps DEF Known
<1>2. mem[w].pc \notin {"idle", "release"}
  BY DEF SyncFailed, Rerun, Reopen, At
<1>3. /\ Job(w) \in Run /\ mem[w] \in Memory
      /\ task[Job(w)] \in After(mem[w].seen)
      /\ PcHolds(mem[w].pc, mem[w].seen, Row(w).sub, task[Job(w)])
  BY <1>2, BusyKnows DEF MemoryHolds
<1>4. mem[w].seen = "failed"
  BY <1>3 DEF SyncFailed, Rerun, Reopen, At, PcHolds
<1>5. UNCHANGED <<run, phone>>
  BY DEF SyncFailed, Rerun, Reopen, storeVars
<1>6. \A r \in Run : Forward(task[r], task'[r])
  BY <1>3 DEF SyncFailed, Rerun, Reopen, Forward, Known, TypeOK
<1>7. PICK next \in {"rerun", "reopen", "rejected", "replayed", "fail"} : Goto(w, next)
  BY DEF SyncFailed, Rerun, Reopen
<1>8. task'[Job(w)] \in After(mem[w].seen)
  BY <1>1, <1>3, <1>6, ForwardKeeps DEF Known, TypeOK, Memory
<1>9. PcHolds(next, mem[w].seen, Row(w).sub, task'[Job(w)]) /\ next \in Pc
  BY <1>4, <1>7 DEF PcHolds, Pc
<1> QED
  BY <1>1, <1>2, <1>5, <1>6, <1>7, <1>8, <1>9, GotoSteady

LEMMA CancelSteady ==
  ASSUME Known, NEW w \in Worker,
         \/ CancelLookUp(w) \/ WithdrawSettled(w) \/ Withdraw(w)
         \/ Withdrawn(w) \/ WithdrawRefused(w)
  PROVE  TypeOK' /\ Steady
<1>1. TypeOK' /\ Quiet
  BY CancelSteps DEF Known
<1>2. mem[w].pc \notin {"idle", "release"} /\ "release" \in Pc
  BY DEF CancelLookUp, WithdrawSettled, Withdraw, Withdrawn, WithdrawRefused, At, Pc
<1>3. /\ Job(w) \in Run /\ Row(w) \in RunRow /\ mem[w] \in Memory
      /\ Row(w) = run[Job(w)] /\ task[Job(w)] \in Remote
      /\ RowHolds(Row(w), task[Job(w)])
      /\ mem[w].known => task[Job(w)] \in Existing
      /\ task[Job(w)] \in After(mem[w].seen)
      /\ PcHolds(mem[w].pc, mem[w].seen, Row(w).sub, task[Job(w)])
  BY <1>2, BusyKnows DEF MemoryHolds, Known, TypeOK
<1>4. ASSUME NEW row, WriteOnly(w, row, "release"), Writable(w, row, "release")
      PROVE  Steady
  BY <1>1, <1>2, <1>4, WriteSteady DEF PcHolds
<1>5. CASE CancelLookUp(w)
  <2> DEFINE fallback == IF ~mem[w].known THEN "none"
                         ELSE IF Row(w).duo = "none" THEN "live" ELSE Row(w).duo
             sees == IF Visible(Job(w)) = "none" \/ ~Asks(w) THEN fallback
                     ELSE Visible(Job(w))
  <2>1. PICK s \in {fallback, sees} :
          mem' = [mem EXCEPT ![w] = [mem[w] EXCEPT !.seen = s, !.pc = "withdraw"]]
    BY <1>5 DEF CancelLookUp, Known, TypeOK
  <2>2. task[Job(w)] \in After(fallback)
    BY <1>3 DEF RowHolds, After
  <2>3. task[Job(w)] \in After(sees)
    BY <1>3, <2>2, SightIsTrue DEF Known
  <2> HIDE DEF fallback, sees
  <2> DEFINE m == [mem[w] EXCEPT !.seen = s, !.pc = "withdraw"]
  <2>4. /\ m.run = mem[w].run /\ m.known = mem[w].known
        /\ m.seen = s /\ m.pc = "withdraw"
    BY <1>3 DEF Memory
  <2>5. mem' = [mem EXCEPT ![w] = m]
    BY <2>1
  <2> HIDE DEF m
  <2>6. UNCHANGED <<run, phone, task>>
    BY <1>5 DEF CancelLookUp, storeVars
  <2>7. task'[Job(w)] \in After(s) /\ PcHolds("withdraw", s, Row(w).sub, task'[Job(w)])
    BY <2>1, <2>2, <2>3, <2>6 DEF PcHolds
  <2> QED
    BY <1>1, <1>2, <2>4, <2>5, <2>6, <2>7, LeasesStill, TasksStill, MoveSteady
<1>6. CASE WithdrawSettled(w)
  <2> DEFINE seen == mem[w].seen
             told == [Row(w) EXCEPT !.task = TRUE, !.duo = seen]
             row == IF seen = "none" THEN Row(w) ELSE told
  <2>1. WriteOnly(w, Closed(row, OutcomeOf(seen)), "release")
    BY <1>6 DEF WithdrawSettled
  <2>2. CASE seen = "none"
    <3>1. row = Row(w) /\ OutcomeOf(seen) = "cancelled"
      BY <2>2 DEF OutcomeOf
    <3> QED
      BY <1>1, <1>2, <1>4, <2>1, <3>1, OwnClosed
  <2>3. CASE seen # "none"
    <3>1. /\ task[Job(w)] \in Existing /\ task[Job(w)] \in After(seen)
          /\ Row(w).sub # "never" /\ seen \in DuoStatus
      BY <1>2, <2>3, SeenExists DEF DuoStatus
    <3>2. /\ told \in WideRow /\ told.owner = Row(w).owner /\ told.ptok = Row(w).ptok
          /\ told.duo = seen /\ told.sub = Row(w).sub
      BY <1>3, <3>1, RunRowIsWide DEF WideRow
    <3>3. row = told
      BY <2>3
    <3>4. OutcomeOf(seen) \in Terminal
          /\ (OutcomeOf(seen) = "succeeded" => task[Job(w)] = "done")
      BY <3>1, OutcomeIsTerminal DEF OutcomeOf, After
    <3> HIDE DEF told, row
    <3> QED
      BY <1>1, <1>2, <1>4, <2>1, <3>1, <3>2, <3>3, <3>4, ClosedWritable
  <2> QED
    BY <2>2, <2>3
<1>7. CASE Withdraw(w)
  <2>1. mem[w].seen = "live" /\ UNCHANGED <<run, phone>>
    BY <1>7 DEF Withdraw, storeVars
  <2>2. \/ task' = task
        \/ /\ Visible(Job(w)) = "live"
           /\ task' = [task EXCEPT ![Job(w)] = "cancelled"]
    BY <1>7 DEF Withdraw
  <2>3. \A r \in Run : Forward(task[r], task'[r])
    BY <1>3, <2>2 DEF Forward, Visible, Known, TypeOK, Remote
  <2>4. task'[Job(w)] \in After(mem[w].seen)
    BY <1>1, <1>3, <2>3, ForwardKeeps DEF TypeOK, Memory
  <2>5. PICK next \in {"withdrawn", "refused"} :
          Goto(w, next) /\ (next = "withdrawn" => task'[Job(w)] = "cancelled")
    BY <1>3, <1>7 DEF Withdraw, Known, TypeOK
  <2>6. PcHolds(next, mem[w].seen, Row(w).sub, task'[Job(w)]) /\ next \in Pc
    BY <2>1, <2>5 DEF PcHolds, Pc
  <2> QED
    BY <1>1, <1>2, <2>1, <2>3, <2>4, <2>5, <2>6, GotoSteady
<1>8. CASE Withdrawn(w)
  <2> DEFINE told == [Row(w) EXCEPT !.task = TRUE, !.duo = "cancelled"]
  <2>1. WriteOnly(w, Closed(told, "cancelled"), "release")
    BY <1>8 DEF Withdrawn
  <2>2. task[Job(w)] = "cancelled"
    BY <1>3, <1>8 DEF Withdrawn, At, PcHolds
  <2>3. /\ told \in WideRow /\ told.owner = Row(w).owner /\ told.ptok = Row(w).ptok
        /\ told.duo = "cancelled" /\ told.sub = Row(w).sub
    BY <1>3, RunRowIsWide DEF WideRow, DuoStatus
  <2> HIDE DEF told
  <2>4. Writable(w, Closed(told, "cancelled"), "release")
    BY <1>2, <2>2, <2>3, ClosedWritable DEF Terminal, Existing, After
  <2> QED
    BY <1>1, <1>4, <2>1, <2>4
<1>9. CASE WithdrawRefused(w)
  <2> DEFINE told == [Row(w) EXCEPT !.task = TRUE]
  <2>1. CASE WriteOnly(w, Closed(told, "failed"), "release")
    <3>1. mem[w].seen # "none"
      BY <1>3, <1>9 DEF WithdrawRefused, At, PcHolds
    <3>2. task[Job(w)] \in Existing
      BY <1>2, <3>1, SeenExists
    <3>3. /\ told \in WideRow /\ told.owner = Row(w).owner /\ told.ptok = Row(w).ptok
          /\ told.duo = Row(w).duo /\ told.sub = Row(w).sub
      BY <1>3, RunRowIsWide DEF WideRow
    <3> HIDE DEF told
    <3>4. Writable(w, Closed(told, "failed"), "release")
      BY <1>2, <1>3, <3>2, <3>3, ClosedWritable DEF Terminal, RowHolds
    <3> QED
      BY <1>1, <1>4, <2>1, <3>4
  <2>2. CASE WriteOnly(w, Deferred(w, "retry_wait", "cancel_task", mem[w].att + 1),
                       "release")
    BY <1>1, <1>2, <1>4, <2>2, DeferredWritable
  <2> QED
    BY <1>9, <2>1, <2>2 DEF WithdrawRefused
<1> QED
  BY <1>1, <1>5, <1>6, <1>7, <1>8, <1>9

LEMMA UnlockedFields ==
  ASSUME NEW row \in RunRow
  PROVE  LET u == Unlocked(row) IN
         /\ u \in RunRow /\ u.owner = NoWorker /\ u.status = row.status
         /\ u.sub = row.sub /\ u.task = row.task /\ u.duo = row.duo
BY DEF Unlocked, RunRow

\* The leases that stay when some runs drop theirs are those of other runs.
LEMMA FreedPhones ==
  ASSUME Known, NEW rs, NEW p \in Phone, PhonesWithout(rs)[p].run # NoRun
  PROVE  LET r == phone[p].run IN
         /\ PhonesWithout(rs)[p].run = r /\ r \in Run \ rs
         /\ run[r].ptok /\ run[r].owner # NoWorker
<1>1. PhonesWithout(rs)[p] = phone[p]
      /\ ~\E r \in rs : PhoneOf[r] = p /\ HoldsPhone(r)
  BY DEF PhonesWithout, Unleased
<1>2. phone[p].run \in Run
  BY <1>1 DEF Known, TypeOK, StoreTypeOK, PhoneRow
<1>3. LET r == phone[p].run IN PhoneOf[r] = p /\ run[r].ptok /\ run[r].owner # NoWorker
  BY <1>1 DEF Known, PhonesInv, PhoneLeaseOwned
<1> QED
  BY <1>1, <1>2, <1>3 DEF HoldsPhone

LEMMA HandlerSteady ==
  ASSUME Known, NEW w \in Worker,
         \/ CallFails(w) \/ FailTransient(w) \/ FailPermanent(w)
         \/ FailUnrecorded(w) \/ ReleasePhone(w) \/ Release(w)
  PROVE  TypeOK' /\ Steady
<1>1. TypeOK' /\ Quiet
  BY HandlerSteps DEF Known
<1>2. mem[w].pc # "idle"
  BY DEF CallFails, Throws, FailTransient, FailPermanent, FailUnrecorded,
    ReleasePhone, FreesEarly, Release, At
<1>3. /\ Job(w) \in Run /\ Row(w) \in RunRow /\ mem[w] \in Memory
      /\ Row(w) = run[Job(w)]
      /\ task[Job(w)] \in After(mem[w].seen)
      /\ PcHolds(mem[w].pc, mem[w].seen, Row(w).sub, task[Job(w)])
  BY <1>2, BusyKnows DEF MemoryHolds
<1>4. UNCHANGED task
  BY DEF CallFails, FailTransient, FailPermanent, FailUnrecorded,
    ReleasePhone, Release, WriteOnly
<1>5. CASE CallFails(w) \/ FailUnrecorded(w)
  <2>1. PICK next \in {"fail", "permanent", "release"} : Goto(w, next)
    BY <1>5 DEF CallFails, FailUnrecorded
  <2>2. mem[w].pc # "release" /\ UNCHANGED <<run, phone>>
    BY <1>5 DEF CallFails, Throws, FailUnrecorded, At, storeVars
  <2>3. PcHolds(next, mem[w].seen, Row(w).sub, task'[Job(w)]) /\ next \in Pc
    BY <2>1 DEF PcHolds, Pc
  <2> QED
    BY <1>1, <1>2, <1>3, <1>4, <2>1, <2>2, <2>3, TasksStill, GotoSteady
<1>6. CASE FailTransient(w)
  <2> DEFINE n == mem[w].att + 1
             closed == Closed(Row(w), "failed")
             row == [closed EXCEPT !.attempts = n]
  <2>1. mem[w].pc # "release"
    BY <1>6 DEF FailTransient, At
  <2>2. CASE WriteOnly(w, Deferred(w, "retry_wait", mem[w].stage, n), "release")
    BY <1>1, <1>2, <2>1, <2>2, DeferredWritable, WriteSteady DEF PcHolds, Pc
  <2>3. CASE WriteOnly(w, row, "release")
    <3>1. closed \in WideRow /\ Writable(w, closed, "release")
      BY <1>2, OwnClosed
    <3>2. /\ row.owner = closed.owner /\ row.ptok = closed.ptok
          /\ row.task = closed.task /\ row.duo = closed.duo
          /\ row.sub = closed.sub /\ row.status = closed.status
      BY <3>1 DEF WideRow
    <3> HIDE DEF row, closed
    <3>3. Writable(w, row, "release")
      BY <3>1, <3>2 DEF Writable, RowHolds
    <3> QED
      BY <1>1, <1>2, <2>1, <2>3, <3>3, WriteSteady DEF PcHolds, Pc
  <2> QED
    BY <1>6, <2>2, <2>3 DEF FailTransient
<1>7. CASE FailPermanent(w)
  <2>1. WriteOnly(w, Closed(Row(w), "failed"), "release") /\ mem[w].pc # "release"
    BY <1>7 DEF FailPermanent, At
  <2> QED
    BY <1>1, <1>2, <2>1, OwnClosed, WriteSteady DEF PcHolds, Pc
<1>8. CASE ReleasePhone(w)
  <2> DEFINE m == [mem[w] EXCEPT !.held = FALSE]
  <2>1. /\ m.run = mem[w].run /\ m.known = mem[w].known
        /\ m.seen = mem[w].seen /\ m.pc = mem[w].pc
    BY <1>3 DEF Memory
  <2>2. mem' = [mem EXCEPT ![w] = m]
    BY <1>8 DEF ReleasePhone, Known, TypeOK
  <2> HIDE DEF m
  <2>3. UNCHANGED run /\ mem[w].pc # "release"
    BY <1>8 DEF ReleasePhone, ReleasePhoneLease, FreesEarly
  <2>4. LeasesKept
    <3>1. CASE phone' = phone
      BY <2>3, <3>1, LeasesStill
    <3>2. CASE phone' = PhonesWithout({Job(w)})
      BY <2>3, <3>2, FreedPhones DEF LeasesKept
    <3> QED
      BY <1>8, <3>1, <3>2 DEF ReleasePhone, ReleasePhoneLease
  <2> QED
    BY <1>1, <1>2, <1>3, <1>4, <2>1, <2>2, <2>3, <2>4, TasksStill, MoveSteady
<1>9. CASE Release(w)
  <2>1. CASE ~Leased(Job(w), w) \/ UNCHANGED storeVars
    BY <1>1, <1>4, <1>9, <2>1, FinishSteady
    DEF Release, ReleaseRunLease, storeVars
  <2>2. CASE Leased(Job(w), w) /\ ReleaseRunLease(Job(w), w)
    <3> DEFINE r == Job(w)
               row == Unlocked(run[r])
    <3>1. /\ run' = [run EXCEPT ![r] = row] /\ phone' = PhonesWithout({r})
          /\ mem' = [mem EXCEPT ![w] = Idle]
      BY <1>9, <2>2 DEF Release, ReleaseRunLease, Finish
    <3>2. /\ row \in RunRow /\ row.owner = NoWorker /\ row.status = run[r].status
          /\ row.sub = run[r].sub /\ row.task = run[r].task /\ row.duo = run[r].duo
      BY <1>3, UnlockedFields
    <3> HIDE DEF row
    <3>3. run'[r] = row /\ \A s \in Run \ {r} : run'[s] = run[s]
      BY <1>3, <3>1 DEF Known, TypeOK, StoreTypeOK
    <3>4. RowsMove
      BY <1>3, <1>4, <3>2, <3>3, TasksStill
      DEF RowsMove, RowMoves, RowHolds, Known, RowsInv
    <3>5. LeasesKept
      BY <3>1, <3>3, FreedPhones DEF LeasesKept
    <3>6. Prepared(w)
      BY <3>1 DEF Prepared, Idle, Known, TypeOK
    <3>7. \A v \in Worker \ {w} : Untouched(v)
      BY <3>1, <3>2, <3>3, StoreAssumption DEF Untouched, Known, TypeOK
    <3> QED
      BY <1>1, <3>4, <3>5, <3>6, <3>7 DEF Steady, WorkersMove
  <2> QED
    BY <1>9, <2>1, <2>2 DEF Release
<1> QED
  BY <1>1, <1>5, <1>6, <1>7, <1>8, <1>9

-----------------------------------------------------------------------------
(* Reaping, claiming, and the environment *)

LEMMA ReapedFields ==
  ASSUME NEW row \in RunRow
  PROVE  LET q == Reaped(row) IN
         /\ q \in RunRow /\ q.owner = NoWorker
         /\ q.sub = row.sub /\ q.task = row.task /\ q.duo = row.duo
         /\ q.status \in {row.status, "retry_wait", "failed"}
<1> DEFINE u == Unlocked(row)
<1>1. /\ u \in RunRow /\ u.owner = NoWorker /\ u.status = row.status
      /\ u.sub = row.sub /\ u.task = row.task /\ u.duo = row.duo
  BY UnlockedFields
<1>2. \A status \in {"retry_wait", "failed"}, stage \in Stage :
        LET q == [u EXCEPT !.status = status, !.stage = stage] IN
        /\ q.owner = NoWorker /\ q.status = status
        /\ q.sub = row.sub /\ q.task = row.task /\ q.duo = row.duo
  BY <1>1 DEF RunRow
<1>3. Reaped(row) \in RunRow
  BY ReapedRow
<1> QED
  BY <1>1, <1>2, <1>3, Names DEF Reaped

\* Reaping ends leases and some runs that were never submitted, no more.
LEMMA ReapingMoves ==
  ASSUME Known, NEW r \in Run
  PROVE  LET row == RowsAfterReaping[r] IN
         /\ RowMoves(run[r], row, task[r]) /\ RowHolds(row, task[r])
         /\ row.status \in Open => run[r].status \in Open
         /\ r \notin Expired => row = run[r]
         /\ r \in Expired => row.owner = NoWorker
<1>1. run[r] \in RunRow /\ RowHolds(run[r], task[r])
  BY DEF Known, TypeOK, StoreTypeOK, RowsInv
<1>2. CASE r \notin Expired
  BY <1>1, <1>2 DEF RowsAfterReaping, RowMoves
<1>3. CASE r \in Expired
  <2> DEFINE row == Reaped(run[r])
  <2>1. RowsAfterReaping[r] = row
    BY <1>3 DEF RowsAfterReaping
  <2>2. /\ row.owner = NoWorker
        /\ row.sub = run[r].sub /\ row.task = run[r].task /\ row.duo = run[r].duo
        /\ row.status \in {run[r].status, "retry_wait", "failed"}
    BY <1>1, ReapedFields
  <2> HIDE DEF row
  <2>3. run[r].status \in Open
    BY <1>3 DEF Expired, Reapable, Open
  <2>4. RowMoves(run[r], row, task[r]) /\ RowHolds(row, task[r])
    BY <1>1, <2>2, <2>3 DEF RowMoves, RowHolds, Open
  <2> QED
    BY <1>3, <2>1, <2>2, <2>3, <2>4
<1> QED
  BY <1>2, <1>3

LEMMA RoutingSteady ==
  ASSUME Known, NEW w \in Worker, NEW r \in Run,
         \/ Claim(w, r) \/ ReapTick(w) \/ Begin(w) \/ NotRenewed(w)
         \/ TickDeadline(w) \/ Promote(w)
  PROVE  TypeOK' /\ Steady
<1>1. TypeOK' /\ Quiet
  BY RoutingSteps DEF Known
<1>2. UNCHANGED task
  BY DEF Claim, ReapTick, Begin, NotRenewed, TickDeadline, Promote
<1>3. RowsAfterReaping \in [Run -> RunRow]
  BY Reaping DEF Known
<1>4. CASE Claim(w, r)
  <2> DEFINE row == RowsAfterReaping[r]
             new == Claimed(row, w)
             m == [Idle EXCEPT !.pc = "begin", !.run = r, !.att = run'[r].attempts,
                    !.stage = run'[r].stage, !.known = run'[r].task,
                    !.cancel = run'[r].cancel]
  <2>1. /\ run' = [RowsAfterReaping EXCEPT ![r] = new]
        /\ phone' = PhonesWithout(Expired) /\ mem' = [mem EXCEPT ![w] = m]
        /\ row.status \in Open
    BY <1>4 DEF Claim, ClaimDueRun, Claimable
  <2>2. /\ new.owner = w /\ new.ptok = row.ptok /\ new.status = row.status
        /\ new.sub = row.sub /\ new.task = row.task /\ new.duo = row.duo
    BY <1>3 DEF Claimed, RunRow
  <2>3. m.pc = "begin" /\ m.run = r /\ m.known = run'[r].task /\ m.seen = "none"
    BY DEF Idle
  <2> HIDE DEF new, m
  <2>4. run'[r] = new /\ \A s \in Run \ {r} : run'[s] = RowsAfterReaping[s]
    BY <1>3, <2>1
  <2>5. mem'[w] = m /\ \A v \in Worker \ {w} : mem'[v] = mem[v]
    BY <2>1 DEF Known, TypeOK
  <2>6. RowsMove
    BY <1>2, <2>2, <2>4, ReapingMoves, TasksStill DEF RowsMove, RowMoves, RowHolds
  <2>7. Prepared(w)
    <3>1. RowHolds(new, task[r]) /\ task'[r] = task[r] /\ task[r] \in Remote
      BY <1>2, <2>4, <2>6 DEF RowsMove, Known, TypeOK
    <3> QED
      BY <2>1, <2>2, <2>3, <2>4, <2>5, <3>1
      DEF Prepared, MemoryHolds, PcHolds, RowHolds, After
  <2>8. ASSUME NEW v \in Worker \ {w}
        PROVE  Untouched(v)
    <3> SUFFICES ASSUME NEW s \in Run, run'[s].owner = v
                 PROVE  run'[s] = run[s]
      BY <2>5 DEF Untouched
    <3>1. s # r /\ s \notin Expired
      BY <2>2, <2>4, ReapingMoves, StoreAssumption
    <3> QED
      BY <2>4, <3>1, ReapingMoves
  <2>9. LeasesKept
    BY <2>1, <2>2, <2>4, ReapingMoves, FreedPhones, StoreAssumption DEF LeasesKept
  <2> QED
    BY <1>1, <2>6, <2>7, <2>8, <2>9 DEF Steady, WorkersMove
<1>5. CASE ReapTick(w)
  <2>1. run' = RowsAfterReaping /\ phone' = PhonesWithout(Expired) /\ UNCHANGED mem
    BY <1>5 DEF ReapTick, ReapOnly
  <2>2. RowsMove
    BY <1>2, <2>1, ReapingMoves, TasksStill DEF RowsMove
  <2>3. ASSUME NEW v \in Worker
        PROVE  Untouched(v)
    <3> SUFFICES ASSUME NEW s \in Run, run'[s].owner = v
                 PROVE  run'[s] = run[s]
      BY <2>1 DEF Untouched
    <3> QED
      BY <2>1, ReapingMoves, StoreAssumption
  <2>4. LeasesKept
    BY <2>1, ReapingMoves, FreedPhones DEF LeasesKept
  <2> QED
    BY <1>1, <2>2, <2>3, <2>4 DEF Steady, WorkersMove
<1>6. CASE Begin(w) \/ TickDeadline(w)
  <2>1. mem[w].pc \notin {"idle", "release"} /\ UNCHANGED <<run, phone>>
    BY <1>6 DEF Begin, TickDeadline, At, storeVars
  <2>2. PICK next \in {"cancel", "promote", "reacquire", "acquire", "permanent",
                       "abort", "release"} : Goto(w, next)
    BY <1>6 DEF Begin, RouteOf, TickDeadline
  <2>3. task'[Job(w)] \in After(mem[w].seen) /\ next \in Pc
    BY <1>2, <2>1, <2>2, BusyKnows DEF MemoryHolds, Pc
  <2>4. PcHolds(next, mem[w].seen, Row(w).sub, task'[Job(w)])
    BY <2>2 DEF PcHolds
  <2> QED
    BY <1>1, <1>2, <2>1, <2>2, <2>3, <2>4, TasksStill, GotoSteady
<1>7. CASE NotRenewed(w)
  BY <1>1, <1>7, FinishSteady DEF NotRenewed
<1>8. CASE Promote(w)
  <2> DEFINE s == IF Row(w).sub = "attempting" THEN "unknown" ELSE Row(w).sub
             row == [Row(w) EXCEPT !.sub = s, !.stage = "resolve_task"]
             m == [mem[w] EXCEPT !.pc = "reacquire", !.stage = "resolve_task"]
  <2>1. mem[w].pc \notin {"idle", "release"}
    BY <1>8 DEF Promote, At
  <2>2. /\ Row(w) \in RunRow /\ mem[w] \in Memory /\ RowHolds(Row(w), task[Job(w)])
        /\ Leased(Job(w), w) => Row(w).status \in Open
    BY <2>1, BusyKnows DEF Leased
  <2>3. CASE Finish(w) /\ UNCHANGED storeVars
    BY <1>1, <1>2, <2>3, FinishSteady
  <2>4. CASE /\ Fenced(Job(w), w) /\ UpdateRun(Job(w), row)
             /\ mem' = [mem EXCEPT ![w].pc = "reacquire", ![w].stage = "resolve_task"]
    <3>1. /\ row.owner = Row(w).owner /\ row.ptok = Row(w).ptok
          /\ row.task = Row(w).task /\ row.duo = Row(w).duo
          /\ row.sub = s /\ row.status = Row(w).status
      BY <2>2 DEF RunRow
    <3>2. /\ m.run = mem[w].run /\ m.known = mem[w].known
          /\ m.seen = mem[w].seen /\ m.pc = "reacquire"
      BY <2>2 DEF Memory
    <3>3. mem' = [mem EXCEPT ![w] = m] /\ UpdateRun(Job(w), row)
      BY <2>4 DEF Known, TypeOK
    <3>4. s # "never" <=> Row(w).sub # "never"
      OBVIOUS
    <3> HIDE DEF row, m, s
    <3>5. Writable(w, row, "reacquire")
      BY <2>2, <2>4, <3>1, <3>4 DEF Writable, RowHolds, Open, Terminal, Fenced
    <3> QED
      BY <1>1, <1>2, <2>1, <2>4, <3>2, <3>3, <3>5, UpdateSteady DEF PcHolds, Fenced
  <2> QED
    BY <1>8, <2>3, <2>4 DEF Promote
<1> QED
  BY <1>1, <1>4, <1>5, <1>6, <1>7, <1>8

LEMMA EnvironmentSteady ==
  ASSUME Known,
         \/ \E w \in Worker : Crash(w)
         \/ \E r \in Run : \/ LeaseExpires(r) \/ UserCancels(r)
                           \/ UserTogglesSchedule(r) \/ UserRemovesPlan(r)
                           \/ DuoPlusTakes(r) \/ DuoPlusFinishes(r)
         \/ \E p \in Phone : PhoneLeaseExpires(p)
  PROVE  TypeOK' /\ Steady
<1>1. TypeOK' /\ Quiet
  BY EnvironmentSteps DEF Known
<1>2. CASE \E w \in Worker : Crash(w)
  BY <1>1, <1>2, FinishSteady DEF Crash
<1>3. ASSUME UNCHANGED <<mem, run>>, LeasesKept,
             \A r \in Run : Forward(task[r], task'[r])
      PROVE  Steady
  BY <1>1, <1>3, RowsStill DEF Steady, WorkersMove, Untouched
<1>4. CASE \E r \in Run : UserTogglesSchedule(r) \/ DuoPlusTakes(r) \/ DuoPlusFinishes(r)
  <2>1. UNCHANGED <<mem, run, phone>>
    BY <1>4 DEF UserTogglesSchedule, SetScheduleEnabled, DuoPlusTakes,
      DuoPlusFinishes, storeVars
  <2>2. \A r \in Run : Forward(task[r], task'[r])
    BY <1>4 DEF UserTogglesSchedule, DuoPlusTakes, DuoPlusFinishes, Forward,
      Known, TypeOK
  <2> QED
    BY <1>1, <1>3, <2>1, <2>2, LeasesStill
<1>5. CASE \E p \in Phone : PhoneLeaseExpires(p)
  <2>1. PICK p \in Phone : /\ UNCHANGED <<mem, run, task>>
                           /\ phone' = [phone EXCEPT ![p].fresh = FALSE]
    BY <1>5 DEF PhoneLeaseExpires, ExpirePhoneLease
  <2>2. \A q \in Phone : phone'[q].run = phone[q].run
    BY <2>1 DEF Known, TypeOK, StoreTypeOK, PhoneRow
  <2>3. LeasesKept
    BY <2>1, <2>2 DEF Known, PhonesInv, PhoneLeaseOwned, LeasesKept
  <2> QED
    BY <1>1, <1>3, <2>1, <2>3, TasksStill
<1>6. CASE \E r \in Run : LeaseExpires(r) \/ UserCancels(r) \/ UserRemovesPlan(r)
  <2>1. PICK r \in Run : LeaseExpires(r) \/ UserCancels(r) \/ UserRemovesPlan(r)
    BY <1>6
  <2>2. UNCHANGED <<mem, phone, task>> /\ run[r] \in RunRow
    BY <2>1 DEF LeaseExpires, ExpireRunLease, UserCancels, RequestCancel,
      UserRemovesPlan, RemovePristinePlan, Known, TypeOK, StoreTypeOK
  <2>3. PICK row : /\ run' = [run EXCEPT ![r] = row]
                   /\ row.owner = run[r].owner /\ row.ptok = run[r].ptok
                   /\ row.sub = run[r].sub /\ row.task = run[r].task
                   /\ row.duo = run[r].duo
                   /\ \/ row.status = run[r].status
                      \/ /\ row.status = "removed" /\ run[r].status = "pending"
                         /\ run[r].owner = NoWorker
    <3>1. CASE LeaseExpires(r)
      <4> WITNESS [run[r] EXCEPT !.fresh = FALSE]
      <4> QED
        BY <2>2, <3>1 DEF LeaseExpires, ExpireRunLease, RunRow
    <3>2. CASE UserCancels(r)
      <4> WITNESS [run[r] EXCEPT !.cancel = TRUE]
      <4> QED
        BY <2>2, <3>2 DEF UserCancels, RequestCancel, RunRow
    <3>3. CASE UserRemovesPlan(r)
      <4> WITNESS [run[r] EXCEPT !.status = "removed"]
      <4> QED
        BY <2>2, <3>3 DEF UserRemovesPlan, RemovePristinePlan, RunRow
    <3> QED
      BY <2>1, <3>1, <3>2, <3>3
  <2>4. run'[r] = row /\ \A s \in Run \ {r} : run'[s] = run[s]
    BY <2>3 DEF Known, TypeOK, StoreTypeOK
  <2>5. RowHolds(run[r], task[r])
    BY DEF Known, RowsInv
  <2>6. RowsMove
    <3>1. RowMoves(run[r], row, task[r]) /\ RowHolds(row, task[r])
      BY <2>3, <2>5 DEF RowMoves, RowHolds, Open
    <3> QED
      BY <2>2, <2>4, <3>1, TasksStill DEF RowsMove, RowMoves, Known, RowsInv
  <2>7. \A v \in Worker : Untouched(v)
    BY <2>2, <2>3, <2>4, StoreAssumption DEF Untouched
  <2>8. LeasesKept
    BY <2>2, <2>3, <2>4 DEF LeasesKept, Known, PhonesInv, PhoneLeaseOwned,
      TypeOK, StoreTypeOK, PhoneRow
  <2> QED
    BY <1>1, <2>6, <2>7, <2>8 DEF Steady, WorkersMove
<1> QED
  BY <1>1, <1>2, <1>4, <1>5, <1>6

-----------------------------------------------------------------------------
(* The three steps that are not Steady *)

\* A run on its phone, or about to be, is one the other-run scan of
\* acquire_phone_lease sees.
LEMMA EngagedOccupies ==
  ASSUME Known, NEW r \in Run, Engaged(r)
  PROVE  OccupiesPhone(run[r]) /\ run[r].sub # "never"
<1>1. /\ run[r] \in RunRow /\ task[r] \in Remote /\ RowHolds(run[r], task[r])
      /\ task[r] # "none" => sends[r] = 1
      /\ run[r].sub = "never" => sends[r] = 0
  BY DEF Known, TypeOK, StoreTypeOK, RowsInv, SubmissionInv
<1>2. run[r].sub # "never" /\ task[r] \in {"none", "sent", "live"}
  <2>1. CASE OnPhone(r)
    BY <1>1, <2>1 DEF OnPhone
  <2>2. CASE \E w \in Worker : At(w, "add") /\ Job(w) = r
    BY <1>1, <2>2 DEF At, Known, SubmissionInv
  <2> QED
    BY <2>1, <2>2 DEF Engaged
<1>3. task[r] \in After(run[r].duo)
  BY <1>1 DEF RowHolds
<1>4. run[r].duo \notin Finished
  BY <1>2, <1>3 DEF After, Finished
<1> QED
  BY <1>1, <1>2, <1>4 DEF OccupiesPhone, RunRow, Submission

LEMMA AcquireKeeps ==
  ASSUME Known, NEW w \in Worker, AcquireNew(w) \/ AcquireExisting(w)
  PROVE  Quiet /\ RowsMove /\ Known'
<1>1. PICK next \in {"probe", "resolve"} :
        /\ mem[w].pc \notin {"idle", "release"} /\ AcquirePhoneLease(Job(w), w)
        /\ mem' = [mem EXCEPT ![w].pc = next, ![w].held = TRUE]
        /\ UNCHANGED <<task, sends>>
  BY DEF AcquireNew, AcquireExisting, Acquire, At
<1>2. TypeOK' /\ Quiet
  BY AcquireSteps DEF Known
<1> DEFINE r == Job(w)
           p == PhoneOf[r]
           on == [Row(w) EXCEPT !.ptok = TRUE,
                    !.status = IF ExistingTask(Row(w)) THEN @ ELSE "preparing"]
           begun == [on EXCEPT !.stage = "prepare_phone", !.attempts = Row(w).attempts + 1]
           row == IF StartsAttempt(Row(w)) THEN begun ELSE on
           m == [mem[w] EXCEPT !.pc = next, !.held = TRUE]
<1>3. /\ r \in Run /\ p \in Phone /\ Row(w) \in RunRow /\ mem[w] \in Memory
      /\ Row(w) = run[r] /\ MemoryHolds(mem[w], Row(w), task[r])
      /\ RowHolds(Row(w), task[r])
  BY <1>1, BusyKnows, StoreAssumption
<1>4. /\ Row(w).owner = w /\ Row(w).status \in Open
      /\ \A s \in Run \ {r} : PhoneOf[s] = p => ~OccupiesPhone(run[s])
  BY <1>1 DEF AcquirePhoneLease, Acquirable, LiveLease, Leased, Row
<1>5. /\ on.ptok /\ on.owner = w /\ on.status \in {Row(w).status, "preparing"}
      /\ on.sub = Row(w).sub /\ on.task = Row(w).task /\ on.duo = Row(w).duo
      /\ on \in WideRow
  BY <1>3, <1>4, RunRowIsWide DEF WideRow, Open, Status
<1> HIDE DEF on
<1>6. /\ row.ptok /\ row.owner = w
      /\ row.status \in {Row(w).status, "preparing"} /\ row.status \in Open
      /\ row.sub = Row(w).sub /\ row.task = Row(w).task /\ row.duo = Row(w).duo
  BY <1>4, <1>5 DEF WideRow, Open
<1>7. /\ run' = [run EXCEPT ![r] = row]
      /\ phone' = [phone EXCEPT ![p] = [run |-> r, fresh |-> TRUE]]
  BY <1>1 DEF AcquirePhoneLease, Row, on
<1>8. m.run = r /\ m.pc = next /\ m.known = mem[w].known /\ m.seen = mem[w].seen
  BY <1>3 DEF Memory, Job
<1>9. mem' = [mem EXCEPT ![w] = m]
  BY <1>1 DEF Known, TypeOK
<1> HIDE DEF row, m
<1>10. /\ run'[r] = row /\ \A s \in Run \ {r} : run'[s] = run[s]
       /\ mem'[w] = m /\ \A v \in Worker \ {w} : mem'[v] = mem[v]
       /\ phone'[p].run = r /\ \A q \in Phone \ {p} : phone'[q] = phone[q]
  BY <1>3, <1>7, <1>9 DEF Known, TypeOK, StoreTypeOK
<1>11. RowsMove
  <2>1. RowMoves(run[r], row, task[r])
    BY <1>3, <1>4, <1>6 DEF RowMoves
  <2>2. RowHolds(row, task[r])
    BY <1>1, <1>3, <1>4, <1>6 DEF RowHolds, AcquirePhoneLease, Open
  <2> QED
    BY <1>1, <1>10, <2>1, <2>2, TasksStill DEF RowsMove, RowMoves, Known, RowsInv
<1>12. WorkersMove
  <2>1. Prepared(w)
    <3>1. /\ mem[w].known => task[r] \in Existing
          /\ task[r] \in After(mem[w].seen)
      BY <1>3 DEF MemoryHolds
    <3>2. PcHolds(next, mem[w].seen, row.sub, task[r])
      BY <1>1 DEF PcHolds
    <3>3. MemoryHolds(m, row, task'[r])
      BY <1>1, <1>8, <3>1, <3>2 DEF MemoryHolds
    <3> QED
      BY <1>6, <1>8, <1>10, <3>3 DEF Prepared
  <2>2. ASSUME NEW v \in Worker \ {w} PROVE Untouched(v)
    BY <1>6, <1>10 DEF Untouched
  <2> QED
    BY <2>1, <2>2 DEF WorkersMove
<1>13. \A s \in Run : (Engaged(s)' => Engaged(s)) /\ (task'[s] # "none" => sends'[s] = 1)
  BY <1>2, <1>11, EngagedKeeps
<1>14. RowsInv' /\ WorkersInv'
  <2>1. \A s \in Run : Onward(task[s], task'[s])
    BY <1>1 DEF Onward, Forward
  <2> QED
    BY <1>2, <1>11, <1>12, <1>13, <2>1, FactsKeep DEF RowsMove
<1>15. PhonesInv'
  <2>1. \A s \in Run \ {r} : PhoneOf[s] = p => ~Engaged(s)
    BY <1>4, EngagedOccupies
  <2>2. /\ \A q \in Phone : LET s == phone[q].run IN
             s # NoRun => PhoneOf[s] = q /\ run[s].ptok /\ run[s].owner # NoWorker
        /\ \A q \in Phone, s \in Run :
             phone[q].run \notin {NoRun, s} /\ PhoneOf[s] = q => ~Engaged(s)
        /\ \A q \in Phone : phone[q].run \in Run \cup {NoRun}
    BY DEF Known, PhonesInv, PhoneLeaseOwned, TypeOK, StoreTypeOK, PhoneRow
  <2>3. PhoneLeaseOwned'
    BY <1>3, <1>6, <1>10, <2>2, StoreAssumption DEF PhoneLeaseOwned
  <2>4. \A q \in Phone, s \in Run :
          phone'[q].run \notin {NoRun, s} /\ PhoneOf[s] = q => ~Engaged(s)'
    BY <1>10, <1>13, <2>1, <2>2
  <2>5. \A s, t \in Run :
          s # t /\ PhoneOf[s] = PhoneOf[t] => ~(Engaged(s)' /\ Engaged(t)')
    BY <1>13 DEF Known, PhonesInv
  <2> QED
    BY <2>3, <2>4, <2>5 DEF PhonesInv
<1> QED
  BY <1>2, <1>11, <1>14, <1>15, QuietKeeps DEF Known

LEMMA AuthorizeKeeps ==
  ASSUME Known, NEW w \in Worker, Authorize(w)
  PROVE  UNCHANGED sends /\ RowsMove /\ Known'
<1>1. TypeOK' /\ SubmissionInv'
  BY AuthorizeStep DEF Known
<1>2. mem[w].pc \notin {"idle", "release"}
  BY DEF Authorize, At
<1> DEFINE r == Job(w)
<1>3. /\ r \in Run /\ Row(w) \in RunRow /\ mem[w] \in Memory /\ Row(w) = run[r]
      /\ MemoryHolds(mem[w], Row(w), task[r]) /\ RowHolds(Row(w), task[r])
  BY <1>2, BusyKnows
<1>4. CASE /\ AuthorizeRunSubmission(r, w)
           /\ Goto(w, "add") \/ Goto(w, "fail")
           /\ UNCHANGED <<task, sends>>
  <2>1. PICK next \in {"add", "fail"} : Goto(w, next)
    BY <1>4
  <2> DEFINE row == SubmissionBegun(Row(w))
             m == [mem[w] EXCEPT !.pc = next]
  <2>2. /\ Row(w).status = "preparing" /\ Row(w).owner = w
        /\ phone[PhoneOf[r]].run = r
    BY <1>4 DEF AuthorizeRunSubmission, Authorizable, LiveLease, Leased, LivePhone,
      HoldsPhone, Row
  <2>3. /\ row.sub = "attempting" /\ row.status = "preparing" /\ row.owner = w
        /\ row.ptok = Row(w).ptok /\ row.task = Row(w).task /\ row.duo = Row(w).duo
    BY <1>3, <2>2 DEF SubmissionBegun, RunRow
  <2>4. m.run = r /\ m.pc = next /\ m.known = mem[w].known /\ m.seen = mem[w].seen
    BY <1>3 DEF Memory, Job
  <2>5. /\ run' = [run EXCEPT ![r] = row] /\ UNCHANGED phone
        /\ mem' = [mem EXCEPT ![w] = m]
    BY <1>4, <2>1 DEF AuthorizeRunSubmission, Goto, Row, Known, TypeOK
  <2> HIDE DEF row, m
  <2>6. /\ run'[r] = row /\ \A s \in Run \ {r} : run'[s] = run[s]
        /\ mem'[w] = m /\ \A v \in Worker \ {w} : mem'[v] = mem[v]
    BY <1>3, <2>5 DEF Known, TypeOK, StoreTypeOK
  <2>7. RowsMove
    <3>1. RowMoves(run[r], row, task[r]) /\ RowHolds(row, task[r])
      BY <1>3, <2>2, <2>3 DEF RowMoves, RowHolds, Open
    <3> QED
      BY <1>4, <2>6, <3>1, TasksStill DEF RowsMove, RowMoves, Known, RowsInv
  <2>8. WorkersMove
    <3>1. Prepared(w)
      <4>1. /\ mem[w].known => task[r] \in Existing
            /\ task[r] \in After(mem[w].seen)
        BY <1>3 DEF MemoryHolds
      <4>2. PcHolds(next, mem[w].seen, row.sub, task[r])
        BY <2>1 DEF PcHolds
      <4>3. MemoryHolds(m, row, task'[r])
        BY <1>4, <2>4, <4>1, <4>2 DEF MemoryHolds
      <4> QED
        BY <2>3, <2>4, <2>6, <4>3 DEF Prepared, Open
    <3>2. ASSUME NEW v \in Worker \ {w} PROVE Untouched(v)
      BY <2>3, <2>6 DEF Untouched
    <3> QED
      BY <3>1, <3>2 DEF WorkersMove
  <2>9. \A s \in Run : /\ Onward(task[s], task'[s])
                       /\ task'[s] # "none" => sends'[s] = 1
    BY <1>4 DEF Onward, Forward, Known, RowsInv
  <2>10. RowsInv' /\ WorkersInv'
    BY <1>1, <2>7, <2>8, <2>9, FactsKeep DEF RowsMove
  <2>11. \A s \in Run \ {r} : Engaged(s)' => Engaged(s)
    BY <1>3, <1>4, <2>4, <2>6 DEF Engaged, OnPhone, At, Job
  <2>12. \A s \in Run \ {r} : PhoneOf[s] = PhoneOf[r] => ~Engaged(s)
    BY <1>3, <2>2, StoreAssumption DEF Known, PhonesInv
  <2>13. PhonesInv'
    <3>1. PhoneLeaseOwned'
      <4>1. \A p \in Phone : LET s == phone[p].run IN
              s # NoRun => /\ s \in Run /\ PhoneOf[s] = p /\ run[s].ptok
                           /\ run[s].owner # NoWorker
        BY DEF Known, PhonesInv, PhoneLeaseOwned, TypeOK, StoreTypeOK, PhoneRow
      <4> QED
        BY <1>3, <2>3, <2>5, <2>6, <4>1, StoreAssumption DEF PhoneLeaseOwned
    <3>2. \A p \in Phone, s \in Run :
            phone'[p].run \notin {NoRun, s} /\ PhoneOf[s] = p => ~Engaged(s)'
      BY <2>2, <2>5, <2>11 DEF Known, PhonesInv
    <3>3. \A s, t \in Run :
            s # t /\ PhoneOf[s] = PhoneOf[t] => ~(Engaged(s)' /\ Engaged(t)')
      BY <2>11, <2>12 DEF Known, PhonesInv
    <3> QED
      BY <3>1, <3>2, <3>3 DEF PhonesInv
  <2> QED
    BY <1>1, <1>4, <2>7, <2>10, <2>13 DEF Known
<1>5. CASE WriteOnly(w, Deferred(w, "retry_wait", "resolve_task", Row(w).attempts),
                     "release")
  <2>1. "release" \in Pc \ {"idle", "add"} /\ "resolve_task" \in Stage
        /\ Row(w).attempts \in Nat /\ HistoryOK'
    BY <1>2, BusyNumbers, FaultCount DEF Pc, Stage, Authorize, AllFaults, Known
  <2>2. Quiet
    BY <1>2, <1>3, <1>5, <2>1, DeferStep DEF Known
  <2>3. Steady
    BY <1>1, <1>2, <1>5, <2>1, <2>2, DeferredWritable, WriteSteady DEF PcHolds
  <2> QED
    BY <1>1, <2>2, <2>3, SteadyKeeps DEF Steady, Quiet
<1> QED
  BY <1>4, <1>5 DEF Authorize

LEMMA AddTaskKeeps ==
  ASSUME Known, NEW w \in Worker, AddTask(w)
  PROVE  /\ Known'
         /\ \/ UNCHANGED sends /\ RowsMove
            \/ /\ UNCHANGED run /\ run[Job(w)].sub # "never" /\ sends[Job(w)] = 0
               /\ sends' = [sends EXCEPT ![Job(w)] = 1] /\ Job(w) \in Run
<1>1. TypeOK' /\ SubmissionInv'
  BY AddTaskStep DEF Known
<1>2. mem[w].pc = "add" /\ UNCHANGED <<run, phone>>
  BY DEF AddTask, At, storeVars
<1> DEFINE r == Job(w)
<1>3. /\ r \in Run /\ Row(w) = run[r] /\ mem[w] \in Memory
      /\ MemoryHolds(mem[w], Row(w), task[r])
      /\ Row(w).owner = w => Row(w).status \in Open
      /\ run[r].sub # "never" /\ sends[r] = 0
  BY <1>2, BusyKnows DEF Known, SubmissionInv
<1>4. task[r] = "none"
  BY <1>3 DEF Known, RowsInv, TypeOK, Remote
<1>5. CASE /\ sends' = [sends EXCEPT ![r] = @ + 1]
           /\ task' = [task EXCEPT ![r] = "sent"]
           /\ Goto(w, "reply")
  <2> DEFINE m == [mem[w] EXCEPT !.pc = "reply"]
  <2>1. /\ sends' = [sends EXCEPT ![r] = 1]
        /\ \A s \in Run : sends'[s] = IF s = r THEN 1 ELSE sends[s]
        /\ \A s \in Run : task'[s] = IF s = r THEN "sent" ELSE task[s]
    BY <1>3, <1>5 DEF Known, TypeOK
  <2>2. mem' = [mem EXCEPT ![w] = m]
    BY <1>5 DEF Goto, Known, TypeOK
  <2>3. m.run = r /\ m.pc = "reply" /\ m.known = mem[w].known /\ m.seen = mem[w].seen
    BY <1>3 DEF Memory, Job
  <2> HIDE DEF m
  <2>4. mem'[w] = m /\ \A v \in Worker \ {w} : mem'[v] = mem[v]
    BY <2>2 DEF Known, TypeOK
  <2>5. \A s \in Run : Onward(task[s], task'[s])
    BY <1>4, <2>1 DEF Onward, Forward
  <2>6. WorkersMove
    <3>1. Prepared(w)
      <4>1. task[r] \in Remote /\ task'[r] \in Remote /\ Onward(task[r], task'[r])
        BY <1>1, <1>3, <2>5 DEF Known, TypeOK
      <4>2. /\ mem[w].known => task'[r] \in Existing
            /\ task'[r] \in After(mem[w].seen)
        BY <1>3, <4>1, OnwardKeeps DEF MemoryHolds, Memory
      <4>3. PcHolds("reply", mem[w].seen, Row(w).sub, task'[r])
        BY <1>3 DEF PcHolds
      <4>4. MemoryHolds(m, Row(w), task'[r])
        BY <2>3, <4>2, <4>3 DEF MemoryHolds
      <4> QED
        BY <1>2, <1>3, <2>3, <2>4, <4>4 DEF Prepared
    <3>2. ASSUME NEW v \in Worker \ {w} PROVE Untouched(v)
      BY <1>2, <2>4 DEF Untouched
    <3> QED
      BY <3>1, <3>2 DEF WorkersMove
  <2>7. \A s \in Run : RowMoves(run[s], run'[s], task[s]) /\ RowHolds(run'[s], task[s])
    BY <1>2 DEF RowMoves, Known, RowsInv
  <2>8. \A s \in Run : task'[s] # "none" => sends'[s] = 1
    BY <2>1 DEF Known, RowsInv
  <2>9. RowsInv' /\ WorkersInv'
    BY <1>1, <2>5, <2>6, <2>7, <2>8, FactsKeep
  <2>10. \A s \in Run : Engaged(s)' => Engaged(s)
    <3> SUFFICES ASSUME NEW s \in Run, Engaged(s)'
                 PROVE  Engaged(s)
      OBVIOUS
    <3>1. CASE s = r
      BY <1>2, <3>1 DEF Engaged, At
    <3>2. CASE s # r
      BY <2>1, <2>3, <2>4, <3>2 DEF Engaged, OnPhone, At, Job
    <3> QED
      BY <3>1, <3>2
  <2>11. PhonesInv'
    BY <1>2, <2>10 DEF Known, PhonesInv, PhoneLeaseOwned
  <2> QED
    BY <1>1, <1>2, <1>3, <2>1, <2>9, <2>11 DEF Known
<1>6. CASE Goto(w, "ambiguous") /\ UNCHANGED <<task, sends>>
  <2>1. Quiet
    BY <1>6 DEF Quiet, Goto, Known, TypeOK, Memory, AddTask, storeVars
  <2>2. "ambiguous" \in Pc /\ PcHolds("ambiguous", mem[w].seen, Row(w).sub, task'[r])
    BY <1>3 DEF Pc, PcHolds
  <2>3. task'[r] \in After(mem[w].seen)
    BY <1>3, <1>6 DEF MemoryHolds
  <2>4. Steady
    BY <1>1, <1>2, <1>6, <2>1, <2>2, <2>3, TasksStill, GotoSteady
  <2> QED
    BY <1>1, <1>6, <2>4, SteadyKeeps DEF Steady
<1> QED
  BY <1>5, <1>6 DEF AddTask

-----------------------------------------------------------------------------
(* The invariant, step by step, and what each step is in the promise *)

\* A step that sends nothing and moves rows as they may is one of the promise.
LEMMA RowsKeepPromise ==
  ASSUME Known, TypeOK', RowsMove, UNCHANGED sends
  PROVE  Promise!Next
<1> SUFFICES ASSUME NEW r \in Run
             PROVE  Promise!Stays(r) \/ Promise!Decide(r) \/ Promise!Settle(r)
  BY DEF Promise!Next
<1>1. /\ RowMoves(run[r], run'[r], task[r])
      /\ run[r] \in RunRow /\ run'[r] \in RunRow
      /\ task[r] = "done" => sends[r] = 1
  BY DEF RowsMove, Known, TypeOK, StoreTypeOK, RowsInv
<1>2. CASE /\ run'[r].status = run[r].status
           /\ run'[r].sub # "never" <=> run[r].sub # "never"
  BY <1>2 DEF Promise!Stays
<1>3. CASE /\ run[r].status \in Open /\ run'[r].status \in Open
           /\ run[r].sub # "never" => run'[r].sub # "never"
  BY <1>3 DEF Promise!Stays, Promise!Decide
<1>4. CASE /\ run[r].status \in Open /\ run'[r].status \notin Open
           /\ run[r].sub # "never" => run'[r].sub # "never"
           /\ run'[r].sub # "never" => run[r].sub # "never" \/ run'[r].status = "failed"
           /\ run'[r].status = "removed" => run'[r].sub = "never"
           /\ run'[r].status = "succeeded" => task[r] = "done"
  <2>1. run'[r].status \in Promise!Outcome \ {"none"}
    BY <1>1, <1>4 DEF RunRow, Status, Terminal, Promise!Outcome
  <2> QED
    BY <1>1, <1>4, <2>1 DEF Promise!Settle
<1> QED
  BY <1>1, <1>2, <1>3, <1>4 DEF RowMoves

LEMMA SendKeepsPromise ==
  ASSUME Known, NEW r \in Run, UNCHANGED run, run[r].sub # "never",
         sends[r] = 0, sends' = [sends EXCEPT ![r] = 1]
  PROVE  Promise!Next
<1>1. \A s \in Run : sends'[s] = IF s = r THEN 1 ELSE sends[s]
  BY DEF Known, TypeOK
<1>2. Promise!Send(r)
  BY <1>1 DEF Promise!Send
<1>3. \A s \in Run \ {r} : Promise!Stays(s)
  BY <1>1 DEF Promise!Stays
<1> QED
  BY <1>2, <1>3 DEF Promise!Next

LEMMA SteadyPromise ==
  ASSUME Known, TypeOK' /\ Steady
  PROVE  Known' /\ Promise!Next
BY SteadyKeeps, RowsKeepPromise DEF Steady, Quiet

LEMMA PromiseStep ==
  ASSUME Known, [Next]_vars
  PROVE  Known' /\ [Promise!Next]_(Promise!vars)
<1>1. CASE UNCHANGED vars
  <2>1. TypeOK' /\ Quiet
    BY <1>1 DEF vars, Known, TypeOK, StoreTypeOK, HistoryOK, Quiet
  <2>2. RowsMove /\ LeasesKept
    BY <1>1, RowsStill, LeasesStill, TasksStill DEF vars
  <2>3. WorkersMove
    BY <1>1 DEF vars, WorkersMove, Untouched
  <2> QED
    BY <2>1, <2>2, <2>3, SteadyPromise DEF Steady
<1>2. CASE \E w \in Worker, r \in Run : Claim(w, r)
  BY <1>2, RoutingSteady, SteadyPromise
<1>3. CASE \E w \in Worker : ReapTick(w)
  <2>1. PICK w \in Worker : ReapTick(w)
    BY <1>3
  <2>2. PICK r \in Run : TRUE
    BY <2>1 DEF ReapTick, ReapOnly, Expired
  <2> QED
    BY <2>1, <2>2, RoutingSteady, SteadyPromise
<1>4. ASSUME NEW w \in Worker, Work(w)
      PROVE  Known' /\ Promise!Next
  <2>1. CASE Begin(w) \/ NotRenewed(w) \/ TickDeadline(w) \/ Promote(w)
    <3>1. Job(w) \in Run
      BY <2>1, BusyJob DEF Begin, NotRenewed, TickDeadline, Promote, At, Known
    <3> QED
      BY <2>1, <3>1, RoutingSteady, SteadyPromise
  <2>2. CASE AcquireNew(w) \/ AcquireExisting(w)
    BY <2>2, AcquireKeeps, RowsKeepPromise DEF Known, Quiet
  <2>3. CASE Probe(w) \/ Recheck(w) \/ Locate(w) \/ Resolve(w)
    BY <2>3, LookUpSteady, SteadyPromise
  <2>4. CASE NoPhone(w) \/ PhoneReady(w) \/ PhoneNotReady(w) \/ Requeue(w)
    BY <2>4, PhoneSteady, SteadyPromise
  <2>5. CASE Authorize(w)
    BY <2>5, AuthorizeKeeps, RowsKeepPromise DEF Known
  <2>6. CASE AddTask(w)
    BY <2>6, AddTaskKeeps, RowsKeepPromise, SendKeepsPromise DEF Known
  <2>7. CASE \/ AddReply(w) \/ RecordUnknown(w) \/ RecordAccepted(w)
             \/ Validate(w) \/ Orphan(w) \/ Store(w)
    BY <2>7, AnswerSteady, SteadyPromise
  <2>8. CASE \/ Wait(w) \/ GiveUp(w) \/ SyncLive(w) \/ SyncTerminal(w)
             \/ RerunRejected(w) \/ Replayed(w)
    BY <2>8, ExistingSteady, SteadyPromise
  <2>9. CASE SyncFailed(w) \/ Rerun(w) \/ Reopen(w)
    BY <2>9, ReplaySteady, SteadyPromise
  <2>10. CASE \/ CancelLookUp(w) \/ WithdrawSettled(w) \/ Withdraw(w)
              \/ Withdrawn(w) \/ WithdrawRefused(w)
    BY <2>10, CancelSteady, SteadyPromise
  <2>11. CASE \/ CallFails(w) \/ FailTransient(w) \/ FailPermanent(w)
              \/ FailUnrecorded(w) \/ Release(w)
    BY <2>11, HandlerSteady, SteadyPromise
  <2> QED
    BY <1>4, <2>1, <2>2, <2>3, <2>4, <2>5, <2>6, <2>7, <2>8, <2>9, <2>10, <2>11
    DEF Work
<1>5. CASE \E w \in Worker : ReleasePhone(w)
  BY <1>5, HandlerSteady, SteadyPromise
<1>6. CASE \/ \E w \in Worker : Crash(w)
           \/ \E r \in Run : \/ LeaseExpires(r) \/ UserCancels(r)
                             \/ UserTogglesSchedule(r) \/ UserRemovesPlan(r)
                             \/ DuoPlusTakes(r) \/ DuoPlusFinishes(r)
           \/ \E p \in Phone : PhoneLeaseExpires(p)
  BY <1>6, EnvironmentSteady, SteadyPromise
<1> QED
  BY <1>1, <1>2, <1>3, <1>4, <1>5, <1>6 DEF Next

LEMMA InitiallyKnown == Init => Known /\ Promise!Init
<1> SUFFICES ASSUME Init PROVE Known /\ Promise!Init
  OBVIOUS
<1>1. TypeOK /\ SubmissionInv
  BY InitialState
<1>2. RowsInv
  <2>1. NewRow.task = FALSE /\ NewRow.duo = "none" /\ NewRow.sub = "never"
        /\ NewRow.status = "pending"
    BY DEF NewRow
  <2>2. RowHolds(NewRow, "none")
    BY <2>1 DEF RowHolds, After, Remote
  <2> QED
    BY <2>2 DEF Init, StoreInit, RowsInv
<1>3. WorkersInv
  BY DEF Init, WorkersInv, Idle
<1>4. PhonesInv
  <2>1. \A p \in Phone : phone[p].run = NoRun
    BY DEF Init, StoreInit, Unleased
  <2>2. \A r \in Run : ~Engaged(r)
    BY DEF Init, Engaged, OnPhone, At, Idle
  <2> QED
    BY <2>1, <2>2 DEF PhonesInv, PhoneLeaseOwned
<1>5. Promise!Init
  BY DEF Promise!Init, Init, StoreInit, NewRow, Open
<1> QED
  BY <1>1, <1>2, <1>3, <1>4, <1>5 DEF Known

LEMMA AlwaysKnown == Spec => []Known
<1>1. Known /\ [Next]_vars => Known'
  BY PromiseStep
<1> QED
  BY <1>1, InitiallyKnown, PTL DEF Spec

-----------------------------------------------------------------------------
(* Cancellation *)

\* A task that does not exist, or no longer.
Gone(remote) == remote \in {"none", "cancelled"}

\* A worker that found no task was right, as long as it has the run.
CancelInv ==
  /\ CancelledRunIsOver
  /\ \A w \in Worker :
       At(w, "withdraw") /\ mem[w].seen = "none" /\ Leased(Job(w), w) =>
         Job(w) \in missed \/ task[Job(w)] = "none"

\* A step that keeps this, unless it sends a task.
CancelMoves ==
  /\ missed \subseteq missed'
  /\ \A r \in Run : run'[r].status = "cancelled" =>
       run[r].status = "cancelled" \/ r \in missed' \/ Gone(task'[r])
  /\ \A w \in Worker : mem'[w].pc = "withdraw" =>
       \/ mem'[w] = mem[w] /\ \A r \in Run : run'[r].owner = w => run[r].owner = w
       \/ /\ mem'[w].run \in Run
          /\ mem'[w].seen = "none" =>
               mem'[w].run \in missed' \/ task'[mem'[w].run] = "none"

LEMMA CancelMovesKeep ==
  ASSUME Known, TypeOK', CancelInv, CancelMoves,
         \A r \in Run : Forward(task[r], task'[r])
  PROVE  CancelInv'
<1>1. \A r \in Run : /\ task[r] = "none" => task'[r] = "none"
                     /\ Gone(task[r]) => Gone(task'[r])
  BY DEF Forward, Gone
<1>2. CancelledRunIsOver'
  BY <1>1 DEF CancelInv, CancelMoves, CancelledRunIsOver, Gone
<1>3. ASSUME NEW w \in Worker, mem'[w].pc = "withdraw", mem'[w].seen = "none",
             run'[mem'[w].run].owner = w
      PROVE  mem'[w].run \in missed' \/ task'[mem'[w].run] = "none"
  <2>1. CASE /\ mem'[w].run \in Run
             /\ mem'[w].seen = "none" =>
                  mem'[w].run \in missed' \/ task'[mem'[w].run] = "none"
    BY <1>3, <2>1
  <2>2. CASE mem'[w] = mem[w] /\ \A r \in Run : run'[r].owner = w => run[r].owner = w
    <3>1. Job(w) \in Run /\ mem'[w].run = Job(w)
      BY <1>3, <2>2, BusyJob DEF Known, Job
    <3>2. Job(w) \in missed \/ task[Job(w)] = "none"
      BY <1>3, <2>2, <3>1 DEF CancelInv, At, Leased
    <3> QED
      BY <1>1, <3>1, <3>2 DEF CancelMoves
  <2> QED
    BY <1>3, <2>1, <2>2 DEF CancelMoves
<1> QED
  BY <1>2, <1>3 DEF CancelInv, At, Job, Leased

\* A worker goes on to anything but cancelTasks.
LEMMA GoOnCancel ==
  ASSUME Known, NEW w \in Worker, NEW m, m.pc # "withdraw",
         mem' = [mem EXCEPT ![w] = m], UNCHANGED <<run, missed>>
  PROVE  CancelMoves
BY DEF Known, TypeOK, CancelMoves

LEMMA GotoCancel ==
  ASSUME Known, NEW w \in Worker, mem[w].pc # "idle",
         NEW next \in Pc \ {"withdraw"}, Goto(w, next), UNCHANGED <<run, missed>>
  PROVE  CancelMoves
<1> DEFINE m == [mem[w] EXCEPT !.pc = next]
<1>1. mem' = [mem EXCEPT ![w] = m]
  BY DEF Goto, Known, TypeOK
<1>2. m.pc # "withdraw"
  BY BusyKnows DEF Memory
<1> HIDE DEF m
<1> QED
  BY <1>1, <1>2, GoOnCancel

LEMMA FinishCancel ==
  ASSUME Known, NEW w \in Worker, Finish(w), UNCHANGED <<run, missed>>
  PROVE  CancelMoves
BY GoOnCancel DEF Finish, Idle

\* It records a cancellation only if the task is gone.
LEMMA UpdateCancel ==
  ASSUME Known, NEW w \in Worker, mem[w].pc # "idle",
         NEW row, UpdateRun(Job(w), row), row.owner = Row(w).owner,
         row.status = "cancelled" =>
           Row(w).status = "cancelled" \/ Job(w) \in missed \/ Gone(task[Job(w)]),
         NEW m, m.pc # "withdraw", mem' = [mem EXCEPT ![w] = m],
         UNCHANGED <<task, missed>>
  PROVE  CancelMoves
<1> DEFINE r == Job(w)
<1>1. r \in Run /\ Row(w) = run[r]
  BY BusyKnows
<1>2. run'[r] = row /\ \A s \in Run \ {r} : run'[s] = run[s]
  BY <1>1 DEF UpdateRun, Known, TypeOK, StoreTypeOK
<1>3. \A v \in Worker : IF v = w THEN mem'[v].pc # "withdraw" ELSE mem'[v] = mem[v]
  BY DEF Known, TypeOK
<1> QED
  BY <1>1, <1>2, <1>3 DEF CancelMoves

LEMMA WriteCancel ==
  ASSUME Known, NEW w \in Worker, mem[w].pc # "idle",
         NEW row, row.owner = Row(w).owner,
         row.status = "cancelled" /\ Leased(Job(w), w) =>
           Row(w).status = "cancelled" \/ Job(w) \in missed \/ Gone(task[Job(w)]),
         NEW next \in Pc \ {"withdraw"}, WriteOnly(w, row, next),
         UNCHANGED missed
  PROVE  CancelMoves
<1>1. CASE /\ Fenced(Job(w), w) /\ WithinBudget(row)
           /\ UpdateRun(Job(w), row)
           /\ Goto(w, next)
  <2> DEFINE m == [mem[w] EXCEPT !.pc = next]
  <2>1. mem' = [mem EXCEPT ![w] = m]
    BY <1>1 DEF Goto, Known, TypeOK
  <2>2. m.pc # "withdraw" /\ UNCHANGED task
    BY BusyKnows DEF Memory, WriteOnly
  <2> HIDE DEF m
  <2> QED
    BY <1>1, <2>1, <2>2, UpdateCancel DEF Fenced
<1>2. CASE Finish(w) /\ UNCHANGED storeVars
  BY <1>2, FinishCancel DEF storeVars
<1>3. CASE /\ Goto(w, IF At(w, "fail") THEN "release" ELSE "fail")
           /\ UNCHANGED storeVars
  <2>1. {"release", "fail"} \subseteq Pc \ {"withdraw"}
    BY DEF Pc
  <2> QED
    BY <1>3, <2>1, GotoCancel DEF storeVars
<1> QED
  BY <1>1, <1>2, <1>3 DEF WriteOnly, Write

\* An update that leaves the run open, or closes it otherwise.
LEMMA DeferCancel ==
  ASSUME Known, NEW w \in Worker, mem[w].pc # "idle", NEW row,
         row.owner = Row(w).owner, row.status # "cancelled",
         NEW next \in Pc \ {"withdraw"}, WriteOnly(w, row, next), UNCHANGED missed
  PROVE  CancelMoves
BY WriteCancel

LEMMA DeferredOpen ==
  ASSUME Known, NEW w \in Worker, mem[w].pc # "idle",
         NEW status \in Open, NEW stage, NEW attempts
  PROVE  /\ Deferred(w, status, stage, attempts).status # "cancelled"
         /\ Deferred(w, status, stage, attempts).owner = Row(w).owner
BY BusyKnows DEF Deferred, RunRow, Open

LEMMA StillMissed ==
  ASSUME NoFault \/ \E kind \in AllFaults : Fault(kind)
  PROVE  UNCHANGED missed
BY DEF NoFault, Fault

LEMMA RoutingCancel ==
  ASSUME Known, NEW w \in Worker, NEW r \in Run,
         \/ Claim(w, r) \/ ReapTick(w) \/ Begin(w) \/ NotRenewed(w)
         \/ TickDeadline(w) \/ Promote(w)
  PROVE  CancelMoves
<1>1. UNCHANGED missed
  BY StillMissed DEF Claim, ReapTick, Begin, NotRenewed, TickDeadline, Promote,
    AllFaults
<1>2. \A s \in Run : /\ RowsAfterReaping[s].status = "cancelled" =>
                          run[s].status = "cancelled"
                     /\ \A v \in Worker : RowsAfterReaping[s].owner = v => run[s].owner = v
                     /\ RowsAfterReaping[s] \in RunRow
  BY StoreAssumption, ReapedFields DEF RowsAfterReaping, Known, TypeOK, StoreTypeOK
<1>3. CASE Claim(w, r)
  <2>1. /\ run' = [RowsAfterReaping EXCEPT ![r] = Claimed(RowsAfterReaping[r], w)]
        /\ mem'[w].pc = "begin" /\ \A v \in Worker \ {w} : mem'[v] = mem[v]
    BY <1>3 DEF Claim, ClaimDueRun, Known, TypeOK, Idle
  <2>2. \A s \in Run : run'[s] = IF s = r THEN Claimed(RowsAfterReaping[r], w)
                                 ELSE RowsAfterReaping[s]
    BY <2>1 DEF RowsAfterReaping
  <2>3. /\ Claimed(RowsAfterReaping[r], w).status = RowsAfterReaping[r].status
        /\ Claimed(RowsAfterReaping[r], w).owner = w
    BY <1>2 DEF Claimed, RunRow
  <2> QED
    BY <1>1, <1>2, <2>1, <2>2, <2>3 DEF CancelMoves
<1>4. CASE ReapTick(w)
  BY <1>1, <1>2, <1>4 DEF ReapTick, ReapOnly, CancelMoves
<1>5. CASE Begin(w) \/ NotRenewed(w) \/ TickDeadline(w)
  <2>1. {RouteOf(w), "permanent", "abort", "release"} \subseteq Pc \ {"withdraw"}
    BY DEF RouteOf, Pc
  <2>2. mem[w].pc # "idle" /\ UNCHANGED run
    BY <1>5 DEF Begin, NotRenewed, TickDeadline, At, storeVars
  <2>3. \/ Finish(w)
        \/ \E next \in {RouteOf(w), "permanent", "abort", "release"} : Goto(w, next)
    BY <1>5 DEF Begin, NotRenewed, TickDeadline
  <2> QED
    BY <1>1, <2>1, <2>2, <2>3, GotoCancel, FinishCancel
<1>6. CASE Promote(w)
  <2>1. mem[w].pc # "idle" /\ UNCHANGED task
    BY <1>6 DEF Promote, At
  <2> DEFINE m == [mem[w] EXCEPT !.pc = "reacquire", !.stage = "resolve_task"]
  <2>2. m.pc # "withdraw"
    BY <2>1, BusyKnows DEF Memory
  <2>3. \/ Finish(w) /\ UNCHANGED storeVars
        \/ \E s \in Submission :
             /\ UpdateRun(Job(w), [Row(w) EXCEPT !.sub = s, !.stage = "resolve_task"])
             /\ mem' = [mem EXCEPT ![w] = m]
    <3>1. Row(w).sub \in Submission
      BY <2>1, BusyKnows DEF RunRow
    <3> QED
      BY <1>6, <3>1 DEF Promote, Submission, Known, TypeOK
  <2>4. \A s \in Submission :
          LET row == [Row(w) EXCEPT !.sub = s, !.stage = "resolve_task"]
          IN row.owner = Row(w).owner /\ row.status = Row(w).status
    BY <2>1, BusyKnows DEF RunRow
  <2> HIDE DEF m
  <2> QED
    BY <1>1, <2>1, <2>2, <2>3, <2>4, FinishCancel, UpdateCancel DEF storeVars
<1> QED
  BY <1>3, <1>4, <1>5, <1>6

LEMMA PhoneCancel ==
  ASSUME Known, NEW w \in Worker,
         \/ AcquireNew(w) \/ AcquireExisting(w) \/ NoPhone(w) \/ PhoneReady(w)
         \/ PhoneNotReady(w) \/ Authorize(w) \/ Requeue(w)
  PROVE  CancelMoves
<1>1. mem[w].pc # "idle" /\ UNCHANGED missed
  BY StillMissed DEF AcquireNew, AcquireExisting, Acquire, NoPhone, PhoneReady,
    PhoneNotReady, Authorize, Requeue, At, AllFaults
<1>2. /\ {"release", "authorize", "recheck", "add", "fail", "permanent"}
           \subseteq Pc \ {"withdraw"}
      /\ {"retry_wait", "preparing"} \subseteq Open
  BY DEF Pc, Open
<1>3. Row(w) \in RunRow /\ mem[w] \in Memory /\ Job(w) \in Run /\ Row(w) = run[Job(w)]
  BY <1>1, BusyKnows
<1>4. ASSUME NEW next \in {"probe", "resolve"}, AcquirePhoneLease(Job(w), w),
             mem' = [mem EXCEPT ![w].pc = next, ![w].held = TRUE],
             UNCHANGED task
      PROVE  CancelMoves
  <2> DEFINE m == [mem[w] EXCEPT !.pc = next, !.held = TRUE]
  <2>1. mem' = [mem EXCEPT ![w] = m]
    BY <1>4 DEF Known, TypeOK
  <2>2. m.pc # "withdraw"
    BY <1>3 DEF Memory
  <2>3. PICK row : run' = [run EXCEPT ![Job(w)] = row] /\ row.owner = Row(w).owner
                   /\ row.status \in {Row(w).status, "preparing"}
    <3> DEFINE on == [Row(w) EXCEPT !.ptok = TRUE,
                        !.status = IF ExistingTask(Row(w)) THEN @ ELSE "preparing"]
               first == [on EXCEPT !.stage = "prepare_phone",
                                   !.attempts = Row(w).attempts + 1]
    <3>1. /\ on.owner = Row(w).owner /\ on.status \in {Row(w).status, "preparing"}
          /\ first.owner = Row(w).owner /\ first.status = on.status
      BY <1>3 DEF RunRow
    <3>2. \/ run' = [run EXCEPT ![Job(w)] = on]
          \/ run' = [run EXCEPT ![Job(w)] = first]
      BY <1>3, <1>4 DEF AcquirePhoneLease
    <3> HIDE DEF on, first
    <3> QED
      BY <3>1, <3>2
  <2>4. run'[Job(w)] = row /\ \A s \in Run \ {Job(w)} : run'[s] = run[s]
    BY <1>3, <2>3 DEF Known, TypeOK, StoreTypeOK
  <2>5. \A v \in Worker : IF v = w THEN mem'[v].pc # "withdraw" ELSE mem'[v] = mem[v]
    BY <2>1, <2>2 DEF Known, TypeOK
  <2> QED
    BY <1>1, <1>3, <2>3, <2>4, <2>5 DEF CancelMoves
<1>5. ASSUME NEW status \in {"retry_wait", "preparing"}, NEW stage, NEW attempts,
             NEW next \in {"release", "authorize", "recheck"},
             WriteOnly(w, Deferred(w, status, stage, attempts), next)
      PROVE  CancelMoves
  <2> DEFINE row == Deferred(w, status, stage, attempts)
  <2>1. row.status # "cancelled" /\ row.owner = Row(w).owner
    BY <1>1, <1>2, DeferredOpen
  <2>2. WriteOnly(w, row, next)
    BY <1>5
  <2> HIDE DEF row
  <2> QED
    BY <1>1, <1>2, <2>1, <2>2, DeferCancel
<1>6. CASE AcquireNew(w) \/ AcquireExisting(w)
  BY <1>4, <1>6 DEF AcquireNew, AcquireExisting, Acquire
<1>7. CASE NoPhone(w) \/ PhoneReady(w) \/ Requeue(w)
  BY <1>5, <1>7 DEF NoPhone, PhoneReady, Requeue
<1>8. CASE PhoneNotReady(w)
  <2> DEFINE n == mem[w].att + 1
             row == [Closed(Row(w), "failed") EXCEPT !.attempts = n]
  <2>1. CASE WriteOnly(w, row, "release")
    <3>1. row.status # "cancelled" /\ row.owner = Row(w).owner
      BY <1>3 DEF Closed, RunRow
    <3> HIDE DEF row
    <3> QED
      BY <1>1, <1>2, <2>1, <3>1, DeferCancel
  <2>2. CASE Goto(w, "permanent") /\ UNCHANGED storeVars
    BY <1>1, <1>2, <2>2, GotoCancel DEF storeVars
  <2>3. \/ WriteOnly(w, Deferred(w, "preparing", "prepare_phone", Row(w).attempts), "release")
        \/ WriteOnly(w, Deferred(w, "retry_wait", "prepare_phone", n), "release")
        \/ WriteOnly(w, row, "release")
        \/ Goto(w, "permanent") /\ UNCHANGED storeVars
    BY <1>8 DEF PhoneNotReady
  <2> QED
    BY <1>5, <2>1, <2>2, <2>3
<1>9. CASE Authorize(w)
  <2>1. CASE /\ AuthorizeRunSubmission(Job(w), w) /\ UNCHANGED <<task, sends>>
             /\ Goto(w, "add") \/ Goto(w, "fail")
    <3>1. PICK next \in {"add", "fail"} : Goto(w, next)
      BY <2>1
    <3> DEFINE m == [mem[w] EXCEPT !.pc = next]
               row == SubmissionBegun(Row(w))
    <3>2. mem' = [mem EXCEPT ![w] = m] /\ UpdateRun(Job(w), row)
      BY <1>3, <2>1, <3>1 DEF Goto, Known, TypeOK, StoreTypeOK,
        AuthorizeRunSubmission, UpdateRun
    <3>3. m.pc # "withdraw" /\ row.owner = Row(w).owner /\ row.status = Row(w).status
      BY <1>3 DEF Memory, SubmissionBegun, RunRow
    <3> HIDE DEF m, row
    <3> QED
      BY <1>1, <2>1, <3>2, <3>3, UpdateCancel
  <2>2. CASE WriteOnly(w, Deferred(w, "retry_wait", "resolve_task", Row(w).attempts),
                       "release")
    BY <1>5, <2>2
  <2> QED
    BY <1>9, <2>1, <2>2 DEF Authorize
<1> QED
  BY <1>6, <1>7, <1>8, <1>9

LEMMA LookUpCancel ==
  ASSUME Known, NEW w \in Worker,
         Probe(w) \/ Recheck(w) \/ Locate(w) \/ Resolve(w)
  PROVE  CancelMoves
<1>1. mem[w].pc # "idle" /\ UNCHANGED <<run, missed>>
  BY StillMissed DEF Probe, Recheck, Locate, Resolve, LookUp, At, storeVars, AllFaults
<1>2. PICK seen, next : /\ next \in {"sync", "prepare", "release", "missing"}
                        /\ mem' = [mem EXCEPT ![w].seen = seen, ![w].pc = next]
  BY DEF Probe, Recheck, Locate, Resolve, LookUp
<1> DEFINE m == [mem[w] EXCEPT !.seen = seen, !.pc = next]
<1>3. mem' = [mem EXCEPT ![w] = m] /\ m.pc # "withdraw"
  BY <1>1, <1>2, BusyKnows DEF Memory, Known, TypeOK
<1> HIDE DEF m
<1> QED
  BY <1>1, <1>3, GoOnCancel

LEMMA AnswerCancel ==
  ASSUME Known, NEW w \in Worker,
         \/ AddReply(w) \/ RecordUnknown(w) \/ RecordAccepted(w)
         \/ Validate(w) \/ Orphan(w) \/ Store(w)
  PROVE  CancelMoves
<1>1. mem[w].pc # "idle" /\ UNCHANGED missed
  BY StillMissed DEF AddReply, RecordUnknown, RecordAccepted, Record, Validate,
    Orphan, Store, At, AllFaults
<1>2. {"ack", "ambiguous", "denied", "requeue", "permanent", "validate", "store",
       "orphan", "release", "locate"} \subseteq Pc \ {"withdraw"}
  BY DEF Pc
<1>3. Row(w) \in RunRow /\ mem[w] \in Memory
  BY <1>1, BusyKnows
<1>4. CASE AddReply(w) \/ Validate(w) \/ Orphan(w)
  <2>1. UNCHANGED run
    BY <1>4 DEF AddReply, Validate, Orphan, storeVars
  <2>2. PICK next \in {"ack", "ambiguous", "denied", "store", "orphan", "release"} :
          Goto(w, next)
    BY <1>4 DEF AddReply, Validate, Orphan
  <2> QED
    BY <1>1, <1>2, <2>1, <2>2, GotoCancel
<1>5. CASE RecordUnknown(w) \/ RecordAccepted(w)
  <2>1. PICK sub, next : /\ next \in {"requeue", "permanent", "validate"}
                         /\ Record(w, sub, next)
    BY <1>5 DEF RecordUnknown, RecordAccepted
  <2> DEFINE m == [mem[w] EXCEPT !.pc = next, !.stage = "resolve_task"]
             row == [Row(w) EXCEPT !.sub = sub, !.stage = "resolve_task"]
  <2>2. CASE Finish(w) /\ UNCHANGED storeVars
    BY <1>1, <2>2, FinishCancel DEF storeVars
  <2>3. CASE /\ UpdateRun(Job(w), row)
             /\ mem' = [mem EXCEPT ![w].pc = next, ![w].stage = "resolve_task"]
    <3>1. mem' = [mem EXCEPT ![w] = m]
      BY <2>3 DEF Known, TypeOK
    <3>2. m.pc # "withdraw" /\ row.owner = Row(w).owner /\ row.status = Row(w).status
      BY <1>3, <2>1 DEF Memory, RunRow
    <3>3. UpdateRun(Job(w), row) /\ UNCHANGED task
      BY <2>1, <2>3 DEF Record
    <3> HIDE DEF m, row
    <3> QED
      BY <1>1, <3>1, <3>2, <3>3, UpdateCancel
  <2> QED
    BY <2>1, <2>2, <2>3 DEF Record
<1>6. CASE Store(w)
  <2>1. PICK id \in BOOLEAN :
          WriteOnly(w, [Row(w) EXCEPT !.status = "preparing", !.sub = "accepted",
                                      !.stage = "resolve_task", !.task = id], "locate")
    BY <1>6 DEF Store
  <2> DEFINE row == [Row(w) EXCEPT !.status = "preparing", !.sub = "accepted",
                                   !.stage = "resolve_task", !.task = id]
  <2>2. row.owner = Row(w).owner /\ row.status # "cancelled"
    BY <1>3 DEF RunRow
  <2>3. WriteOnly(w, row, "locate")
    BY <2>1
  <2> HIDE DEF row
  <2> QED
    BY <1>1, <1>2, <2>2, <2>3, DeferCancel
<1> QED
  BY <1>4, <1>5, <1>6

LEMMA ClosedFields ==
  ASSUME NEW row \in WideRow, NEW outcome
  PROVE  Closed(row, outcome).owner = row.owner /\ Closed(row, outcome).status = outcome
BY DEF Closed, WideRow

\* What a lookup saw cancelled is.
LEMMA SeenCancelled ==
  ASSUME Known, NEW w \in Worker, mem[w].pc # "idle", mem[w].seen = "cancelled"
  PROVE  Gone(task[Job(w)])
BY BusyKnows DEF MemoryHolds, After, Gone

LEMMA ExistingCancel ==
  ASSUME Known, NEW w \in Worker,
         \/ Wait(w) \/ GiveUp(w) \/ SyncLive(w) \/ SyncTerminal(w)
         \/ RerunRejected(w) \/ Replayed(w)
  PROVE  CancelMoves
<1>1. mem[w].pc # "idle" /\ UNCHANGED missed
  BY DEF Wait, GiveUp, SyncLive, SyncTerminal, RerunRejected, Replayed, At, NoFault
<1>2. "release" \in Pc \ {"withdraw"} /\ {"retry_wait", "monitored"} \subseteq Open
  BY DEF Pc, Open
<1>3. Row(w) \in RunRow /\ mem[w] \in Memory
  BY <1>1, BusyKnows
<1>4. ASSUME NEW row, WriteOnly(w, row, "release"), row.owner = Row(w).owner,
             row.status # "cancelled" \/ Gone(task[Job(w)])
      PROVE  CancelMoves
  BY <1>1, <1>2, <1>4, WriteCancel
<1>5. \A seen : /\ WithTask(Row(w), seen).owner = Row(w).owner
                /\ seen \in DuoStatus => WithTask(Row(w), seen) \in WideRow
  BY <1>3, RunRowIsWide DEF WithTask, RunRow, WideRow, Submission
<1>6. CASE Wait(w)
  BY <1>1, <1>2, <1>4, <1>6, DeferredOpen DEF Wait
<1>7. CASE GiveUp(w)
  <2> DEFINE closed == Closed(Row(w), "failed")
             s == IF ~mem[w].known /\ Row(w).sub = "never" THEN "unknown" ELSE Row(w).sub
             row == [closed EXCEPT !.sub = s]
  <2>1. row.owner = Row(w).owner /\ row.status # "cancelled"
    BY <1>3 DEF Closed, RunRow
  <2>2. WriteOnly(w, row, "release")
    BY <1>7 DEF GiveUp
  <2> HIDE DEF row
  <2> QED
    BY <1>4, <2>1, <2>2
<1>8. CASE SyncLive(w)
  <2> DEFINE row == [WithTask(Row(w), "live") EXCEPT !.status = "monitored",
                                                     !.stage = "monitor_task"]
  <2>1. row.owner = Row(w).owner /\ row.status # "cancelled"
    BY <1>3 DEF WithTask, RunRow
  <2>2. WriteOnly(w, row, "release")
    BY <1>8 DEF SyncLive
  <2> HIDE DEF row
  <2> QED
    BY <1>4, <2>1, <2>2
<1>9. CASE SyncTerminal(w)
  <2> DEFINE row == Closed(WithTask(Row(w), mem[w].seen), OutcomeOf(mem[w].seen))
  <2>1. mem[w].seen \in {"done", "failed", "cancelled"} /\ WriteOnly(w, row, "release")
    BY <1>9 DEF SyncTerminal
  <2>2. row.owner = Row(w).owner /\ row.status = OutcomeOf(mem[w].seen)
    BY <1>5, <2>1, ClosedFields DEF DuoStatus
  <2>3. mem[w].seen = "cancelled" \/ OutcomeOf(mem[w].seen) # "cancelled"
    BY <2>1 DEF OutcomeOf
  <2> HIDE DEF row
  <2> QED
    BY <1>1, <1>4, <2>1, <2>2, <2>3, SeenCancelled
<1>10. CASE RerunRejected(w)
  <2> DEFINE row == Closed(WithTask(Row(w), "failed"), "failed")
  <2>1. row.owner = Row(w).owner /\ row.status # "cancelled"
    BY <1>5, ClosedFields DEF DuoStatus
  <2>2. WriteOnly(w, row, "release")
    BY <1>10 DEF RerunRejected
  <2> HIDE DEF row
  <2> QED
    BY <1>4, <2>1, <2>2
<1>11. CASE Replayed(w)
  <2> DEFINE row == [WithTask(Row(w), "failed") EXCEPT !.status = "monitored",
                       !.stage = "monitor_task", !.attempts = Current(w) + 1]
  <2>1. row.owner = Row(w).owner /\ row.status # "cancelled"
    BY <1>3 DEF WithTask, RunRow
  <2>2. WriteOnly(w, row, "release")
    BY <1>11 DEF Replayed
  <2> HIDE DEF row
  <2> QED
    BY <1>4, <2>1, <2>2
<1> QED
  BY <1>6, <1>7, <1>8, <1>9, <1>10, <1>11

LEMMA ReplayCancel ==
  ASSUME Known, NEW w \in Worker, SyncFailed(w) \/ Rerun(w) \/ Reopen(w)
  PROVE  CancelMoves
<1>1. mem[w].pc # "idle" /\ UNCHANGED <<run, missed>>
  BY StillMissed DEF SyncFailed, Rerun, Reopen, At, storeVars, AllFaults
<1>2. {"rerun", "reopen", "fail", "rejected", "replayed"} \subseteq Pc \ {"withdraw"}
  BY DEF Pc
<1>3. PICK next \in {"rerun", "reopen", "fail", "rejected", "replayed"} : Goto(w, next)
  BY DEF SyncFailed, Rerun, Reopen
<1> QED
  BY <1>1, <1>2, <1>3, GotoCancel

LEMMA WithdrawCancel ==
  ASSUME Known, CancelInv, NEW w \in Worker,
         \/ CancelLookUp(w) \/ WithdrawSettled(w) \/ Withdraw(w)
         \/ Withdrawn(w) \/ WithdrawRefused(w)
  PROVE  CancelMoves
<1>1. mem[w].pc # "idle"
  BY DEF CancelLookUp, WithdrawSettled, Withdraw, Withdrawn, WithdrawRefused, At
<1>2. /\ {"release", "withdrawn", "refused"} \subseteq Pc \ {"withdraw"}
      /\ "retry_wait" \in Open
  BY DEF Pc, Open
<1>3. /\ Row(w) \in RunRow /\ Row(w) \in WideRow /\ mem[w] \in Memory
      /\ Job(w) \in Run /\ mem[w].seen \in DuoStatus
  BY <1>1, BusyKnows, RunRowIsWide DEF Memory, Seen, DuoStatus
<1>4. ~CancelLookUp(w) => UNCHANGED missed
  BY StillMissed DEF WithdrawSettled, Withdraw, Withdrawn, WithdrawRefused, AllFaults
<1>5. ASSUME NEW row, WriteOnly(w, row, "release"), row.owner = Row(w).owner,
             row.status = "cancelled" /\ Leased(Job(w), w) =>
               Job(w) \in missed \/ Gone(task[Job(w)]),
             UNCHANGED missed
      PROVE  CancelMoves
  BY <1>1, <1>2, <1>5, WriteCancel
<1>6. CASE CancelLookUp(w)
  <2>1. PICK seen : /\ mem' = [mem EXCEPT ![w].seen = seen, ![w].pc = "withdraw"]
                    /\ MissIf(Job(w), seen = "none" /\ task[Job(w)] # "none")
    BY <1>6 DEF CancelLookUp
  <2>2. UNCHANGED <<run, task>>
    BY <1>6 DEF CancelLookUp, storeVars
  <2>3. /\ \A v \in Worker \ {w} : mem'[v] = mem[v]
        /\ mem'[w].run = Job(w) /\ mem'[w].seen = seen
    BY <1>3, <2>1 DEF Known, TypeOK, Memory, Job
  <2>4. /\ missed \subseteq missed'
        /\ seen = "none" => Job(w) \in missed' \/ task[Job(w)] = "none"
    BY <2>1 DEF MissIf
  <2> QED
    BY <1>3, <2>2, <2>3, <2>4 DEF CancelMoves
<1>7. CASE WithdrawSettled(w)
  <2> DEFINE seen == mem[w].seen
             row == IF seen = "none" THEN Row(w)
                    ELSE [Row(w) EXCEPT !.task = TRUE, !.duo = seen]
             closed == Closed(row, OutcomeOf(seen))
  <2>1. WriteOnly(w, closed, "release") /\ seen # "live" /\ At(w, "withdraw")
    BY <1>7 DEF WithdrawSettled
  <2>2. row \in WideRow /\ row.owner = Row(w).owner
    BY <1>3 DEF WideRow
  <2>3. closed.owner = Row(w).owner /\ closed.status = OutcomeOf(seen)
    BY <2>2, ClosedFields
  <2>4. OutcomeOf(seen) # "cancelled" \/ seen \in {"none", "cancelled"}
    BY <1>3, <2>1 DEF OutcomeOf, DuoStatus
  <2>5. ASSUME seen = "none", Leased(Job(w), w)
        PROVE  Job(w) \in missed \/ Gone(task[Job(w)])
    BY <2>1, <2>5 DEF CancelInv, Gone
  <2>6. UNCHANGED missed
    BY <1>7 DEF WithdrawSettled, NoFault
  <2> HIDE DEF row, closed
  <2> QED
    BY <1>1, <1>5, <2>1, <2>3, <2>4, <2>5, <2>6, SeenCancelled
<1>8. CASE Withdraw(w)
  <2>1. PICK next \in {"withdrawn", "refused"} : Goto(w, next)
    BY <1>8 DEF Withdraw
  <2>2. UNCHANGED <<run, missed>>
    BY <1>8, StillMissed DEF Withdraw, storeVars, AllFaults
  <2> QED
    BY <1>1, <1>2, <2>1, <2>2, GotoCancel
<1>9. CASE Withdrawn(w)
  <2> DEFINE told == [Row(w) EXCEPT !.task = TRUE, !.duo = "cancelled"]
             row == Closed(told, "cancelled")
  <2>1. WriteOnly(w, row, "release") /\ UNCHANGED missed /\ mem[w].pc = "withdrawn"
    BY <1>9 DEF Withdrawn, NoFault, At
  <2>2. told \in WideRow /\ told.owner = Row(w).owner
    BY <1>3 DEF WideRow, DuoStatus
  <2>3. row.owner = Row(w).owner
    BY <2>2, ClosedFields
  <2>4. Gone(task[Job(w)])
    BY <1>1, <2>1, BusyKnows DEF MemoryHolds, PcHolds, Gone
  <2> HIDE DEF row
  <2> QED
    BY <1>5, <2>1, <2>3, <2>4
<1>10. CASE WithdrawRefused(w)
  <2> DEFINE told == [Row(w) EXCEPT !.task = TRUE]
             row == Closed(told, "failed")
             later == Deferred(w, "retry_wait", "cancel_task", mem[w].att + 1)
  <2>1. UNCHANGED missed /\ (WriteOnly(w, row, "release") \/ WriteOnly(w, later, "release"))
    BY <1>10 DEF WithdrawRefused, NoFault
  <2>2. told \in WideRow /\ told.owner = Row(w).owner
    BY <1>3 DEF WideRow
  <2>3. row.owner = Row(w).owner /\ row.status = "failed"
    BY <2>2, ClosedFields
  <2>4. later.owner = Row(w).owner /\ later.status # "cancelled"
    BY <1>1, <1>2, DeferredOpen
  <2> HIDE DEF row, later
  <2> QED
    BY <1>5, <2>1, <2>3, <2>4
<1> QED
  BY <1>6, <1>7, <1>8, <1>9, <1>10

LEMMA HandlerCancel ==
  ASSUME Known, NEW w \in Worker,
         \/ CallFails(w) \/ FailTransient(w) \/ FailPermanent(w)
         \/ FailUnrecorded(w) \/ ReleasePhone(w) \/ Release(w)
  PROVE  CancelMoves
<1>1. mem[w].pc # "idle" /\ UNCHANGED missed
  BY StillMissed DEF CallFails, Throws, FailTransient, FailPermanent,
    FailUnrecorded, ReleasePhone, FreesEarly, Release, At, AllFaults
<1>2. {"release", "fail", "permanent"} \subseteq Pc \ {"withdraw"} /\ "retry_wait" \in Open
  BY DEF Pc, Open
<1>3. /\ Row(w) \in RunRow /\ Row(w) \in WideRow /\ mem[w] \in Memory
      /\ Job(w) \in Run /\ Row(w) = run[Job(w)]
  BY <1>1, BusyKnows, RunRowIsWide
<1>4. CASE CallFails(w) \/ FailUnrecorded(w)
  <2>1. UNCHANGED run
    BY <1>4 DEF CallFails, FailUnrecorded, storeVars
  <2>2. PICK next \in {"fail", "permanent", "release"} : Goto(w, next)
    BY <1>4 DEF CallFails, FailUnrecorded
  <2> QED
    BY <1>1, <1>2, <2>1, <2>2, GotoCancel
<1>5. CASE FailTransient(w)
  <2> DEFINE n == mem[w].att + 1
             closed == Closed(Row(w), "failed")
             row == [closed EXCEPT !.attempts = n]
             later == Deferred(w, "retry_wait", mem[w].stage, n)
  <2>1. WriteOnly(w, row, "release") \/ WriteOnly(w, later, "release")
    BY <1>5 DEF FailTransient
  <2>2. row.owner = Row(w).owner /\ row.status = "failed"
    BY <1>3 DEF Closed, RunRow
  <2>3. later.owner = Row(w).owner /\ later.status # "cancelled"
    BY <1>1, <1>2, DeferredOpen
  <2> HIDE DEF row, later
  <2> QED
    BY <1>1, <1>2, <2>1, <2>2, <2>3, DeferCancel
<1>6. CASE FailPermanent(w)
  <2> DEFINE row == Closed(Row(w), "failed")
  <2>1. WriteOnly(w, row, "release")
    BY <1>6 DEF FailPermanent
  <2>2. row.owner = Row(w).owner /\ row.status = "failed"
    BY <1>3, ClosedFields
  <2> HIDE DEF row
  <2> QED
    BY <1>1, <1>2, <2>1, <2>2, DeferCancel
<1>7. CASE ReleasePhone(w)
  <2> DEFINE m == [mem[w] EXCEPT !.held = FALSE]
  <2>1. mem' = [mem EXCEPT ![w] = m] /\ UNCHANGED run
    BY <1>7 DEF ReleasePhone, ReleasePhoneLease, Known, TypeOK
  <2>2. m.pc # "withdraw"
    BY <1>3, <1>7 DEF ReleasePhone, FreesEarly, Memory
  <2> HIDE DEF m
  <2> QED
    BY <1>1, <2>1, <2>2, GoOnCancel
<1>8. CASE Release(w)
  <2>1. CASE ~Leased(Job(w), w) \/ UNCHANGED storeVars
    BY <1>1, <1>8, <2>1, FinishCancel DEF Release, ReleaseRunLease, storeVars
  <2>2. CASE Leased(Job(w), w) /\ ReleaseRunLease(Job(w), w)
    <3> DEFINE r == Job(w)
               row == Unlocked(run[r])
    <3>1. /\ run' = [run EXCEPT ![r] = row] /\ mem' = [mem EXCEPT ![w] = Idle]
      BY <1>8, <2>2 DEF Release, ReleaseRunLease, Finish
    <3>2. row.owner = NoWorker /\ row.status = run[r].status
      BY <1>3, UnlockedFields
    <3> HIDE DEF row
    <3>3. run'[r] = row /\ \A s \in Run \ {r} : run'[s] = run[s]
      BY <1>3, <3>1 DEF Known, TypeOK, StoreTypeOK
    <3>4. /\ mem'[w].pc # "withdraw"
          /\ \A v \in Worker \ {w} : mem'[v] = mem[v]
      BY <3>1 DEF Idle, Known, TypeOK
    <3> QED
      BY <1>1, <1>3, <3>2, <3>3, <3>4, StoreAssumption DEF CancelMoves
  <2> QED
    BY <1>8, <2>1, <2>2 DEF Release
<1> QED
  BY <1>4, <1>5, <1>6, <1>7, <1>8

LEMMA EnvironmentCancel ==
  ASSUME Known,
         \/ \E w \in Worker : Crash(w)
         \/ \E r \in Run : \/ LeaseExpires(r) \/ UserCancels(r)
                           \/ UserTogglesSchedule(r) \/ UserRemovesPlan(r)
                           \/ DuoPlusTakes(r) \/ DuoPlusFinishes(r)
         \/ \E p \in Phone : PhoneLeaseExpires(p)
  PROVE  CancelMoves
<1>1. UNCHANGED missed
  BY StillMissed DEF Crash, LeaseExpires, UserCancels, UserTogglesSchedule,
    UserRemovesPlan, DuoPlusTakes, DuoPlusFinishes, PhoneLeaseExpires, AllFaults
<1>2. CASE \E w \in Worker : Crash(w)
  BY <1>1, <1>2, FinishCancel DEF Crash, storeVars
<1>3. CASE \/ \E r \in Run : UserTogglesSchedule(r) \/ DuoPlusTakes(r) \/ DuoPlusFinishes(r)
           \/ \E p \in Phone : PhoneLeaseExpires(p)
  <2>1. UNCHANGED <<mem, run>>
    BY <1>3 DEF UserTogglesSchedule, SetScheduleEnabled, DuoPlusTakes,
      DuoPlusFinishes, PhoneLeaseExpires, ExpirePhoneLease, storeVars
  <2> QED
    BY <1>1, <2>1 DEF CancelMoves
<1>4. CASE \E r \in Run : LeaseExpires(r) \/ UserCancels(r) \/ UserRemovesPlan(r)
  <2>1. PICK r \in Run : LeaseExpires(r) \/ UserCancels(r) \/ UserRemovesPlan(r)
    BY <1>4
  <2>2. UNCHANGED mem /\ run[r] \in RunRow
    BY <2>1 DEF LeaseExpires, UserCancels, UserRemovesPlan, Known, TypeOK, StoreTypeOK
  <2>3. PICK row : /\ run' = [run EXCEPT ![r] = row] /\ row.owner = run[r].owner
                   /\ row.status \in {run[r].status, "removed"}
    BY <2>1, <2>2 DEF LeaseExpires, ExpireRunLease, UserCancels, RequestCancel,
      UserRemovesPlan, RemovePristinePlan, RunRow
  <2>4. run'[r] = row /\ \A s \in Run \ {r} : run'[s] = run[s]
    BY <2>3 DEF Known, TypeOK, StoreTypeOK
  <2> QED
    BY <1>1, <2>2, <2>3, <2>4 DEF CancelMoves
<1> QED
  BY <1>2, <1>3, <1>4

\* addTask itself: whoever sends it without the run's lease is too late for
\* the worker that is cancelling, and is counted as missed.
LEMMA AddTaskCancel ==
  ASSUME Known, CancelInv, NEW w \in Worker, AddTask(w)
  PROVE  CancelInv'
<1>1. mem[w].pc = "add" /\ UNCHANGED run
  BY DEF AddTask, At, storeVars
<1> DEFINE r == Job(w)
<1>2. /\ r \in Run /\ Row(w) = run[r] /\ mem[w] \in Memory
      /\ Leased(r, w) => run[r].status \in Open
  BY <1>1, BusyKnows DEF Leased
<1>3. CASE /\ task' = [task EXCEPT ![r] = "sent"] /\ Goto(w, "reply")
           /\ MissIf(r, ~Fenced(r, w))
  <2>1. \A s \in Run \ {r} : task'[s] = task[s]
    BY <1>3 DEF Known, TypeOK
  <2>2. mem'[w].pc = "reply" /\ \A v \in Worker \ {w} : mem'[v] = mem[v]
    BY <1>2, <1>3 DEF Goto, Known, TypeOK, Memory
  <2>3. missed \subseteq missed' /\ (~Fenced(r, w) => r \in missed')
    BY <1>3 DEF MissIf
  <2>4. run[r].status = "cancelled" => r \in missed'
    BY <1>2, <2>3 DEF Fenced, Open
  <2>5. CancelledRunIsOver'
    BY <1>1, <2>1, <2>3, <2>4 DEF CancelInv, CancelledRunIsOver
  <2>6. ASSUME NEW v \in Worker, mem'[v].pc = "withdraw", mem'[v].seen = "none",
               run'[mem'[v].run].owner = v
        PROVE  mem'[v].run \in missed' \/ task'[mem'[v].run] = "none"
    <3>1. v # w /\ mem'[v] = mem[v]
      BY <2>2, <2>6
    <3>2. Job(v) \in Run /\ mem'[v].run = Job(v)
      BY <2>6, <3>1, BusyJob DEF Known, Job
    <3>3. Job(v) \in missed \/ task[Job(v)] = "none"
      BY <1>1, <2>6, <3>1, <3>2 DEF CancelInv, At, Leased
    <3>4. Job(v) = r => r \in missed'
      BY <1>1, <2>3, <2>6, <3>1, <3>2 DEF Fenced, Leased
    <3> QED
      BY <2>1, <2>3, <3>2, <3>3, <3>4
  <2> QED
    BY <2>5, <2>6 DEF CancelInv, At, Job, Leased
<1>4. CASE Goto(w, "ambiguous") /\ UNCHANGED <<task, missed>>
  <2>1. "ambiguous" \in Pc \ {"withdraw"}
    BY DEF Pc
  <2>2. CancelMoves /\ \A s \in Run : Forward(task[s], task'[s])
    BY <1>1, <1>4, <2>1, GotoCancel, TasksStill
  <2> QED
    BY <2>2, AddTaskKeeps, CancelMovesKeep DEF Known
<1> QED
  BY <1>3, <1>4 DEF AddTask, Fault

LEMMA SteadyCancel ==
  ASSUME Known, CancelInv, TypeOK', RowsMove, CancelMoves
  PROVE  CancelInv'
BY CancelMovesKeep DEF RowsMove

LEMMA CancelStep ==
  ASSUME Known, CancelInv, [Next]_vars
  PROVE  CancelInv'
<1>1. CASE UNCHANGED vars
  <2>1. TypeOK' /\ CancelMoves /\ RowsMove
    BY <1>1, RowsStill, TasksStill DEF vars, Known, TypeOK, StoreTypeOK, HistoryOK,
      CancelMoves
  <2> QED
    BY <2>1, SteadyCancel
<1>2. CASE \E w \in Worker, r \in Run : Claim(w, r)
  BY <1>2, RoutingSteady, RoutingCancel, SteadyCancel DEF Steady
<1>3. CASE \E w \in Worker : ReapTick(w)
  <2>1. PICK w \in Worker : ReapTick(w)
    BY <1>3
  <2>2. PICK r \in Run : TRUE
    BY <2>1 DEF ReapTick, ReapOnly, Expired
  <2> QED
    BY <2>1, <2>2, RoutingSteady, RoutingCancel, SteadyCancel DEF Steady
<1>4. ASSUME NEW w \in Worker, Work(w)
      PROVE  CancelInv'
  <2>1. CASE Begin(w) \/ NotRenewed(w) \/ TickDeadline(w) \/ Promote(w)
    <3>1. Job(w) \in Run
      BY <2>1, BusyJob DEF Begin, NotRenewed, TickDeadline, Promote, At, Known
    <3> QED
      BY <2>1, <3>1, RoutingSteady, RoutingCancel, SteadyCancel DEF Steady
  <2>2. CASE AcquireNew(w) \/ AcquireExisting(w)
    BY <2>2, AcquireKeeps, PhoneCancel, SteadyCancel DEF Known
  <2>3. CASE Probe(w) \/ Recheck(w) \/ Locate(w) \/ Resolve(w)
    BY <2>3, LookUpSteady, LookUpCancel, SteadyCancel DEF Steady
  <2>4. CASE NoPhone(w) \/ PhoneReady(w) \/ PhoneNotReady(w) \/ Requeue(w)
    BY <2>4, PhoneSteady, PhoneCancel, SteadyCancel DEF Steady
  <2>5. CASE Authorize(w)
    BY <2>5, AuthorizeKeeps, PhoneCancel, SteadyCancel DEF Known
  <2>6. CASE AddTask(w)
    BY <2>6, AddTaskCancel
  <2>7. CASE \/ AddReply(w) \/ RecordUnknown(w) \/ RecordAccepted(w)
             \/ Validate(w) \/ Orphan(w) \/ Store(w)
    BY <2>7, AnswerSteady, AnswerCancel, SteadyCancel DEF Steady
  <2>8. CASE \/ Wait(w) \/ GiveUp(w) \/ SyncLive(w) \/ SyncTerminal(w)
             \/ RerunRejected(w) \/ Replayed(w)
    BY <2>8, ExistingSteady, ExistingCancel, SteadyCancel DEF Steady
  <2>9. CASE SyncFailed(w) \/ Rerun(w) \/ Reopen(w)
    BY <2>9, ReplaySteady, ReplayCancel, SteadyCancel DEF Steady
  <2>10. CASE \/ CancelLookUp(w) \/ WithdrawSettled(w) \/ Withdraw(w)
              \/ Withdrawn(w) \/ WithdrawRefused(w)
    BY <2>10, CancelSteady, WithdrawCancel, SteadyCancel DEF Steady
  <2>11. CASE \/ CallFails(w) \/ FailTransient(w) \/ FailPermanent(w)
              \/ FailUnrecorded(w) \/ Release(w)
    BY <2>11, HandlerSteady, HandlerCancel, SteadyCancel DEF Steady
  <2> QED
    BY <1>4, <2>1, <2>2, <2>3, <2>4, <2>5, <2>6, <2>7, <2>8, <2>9, <2>10, <2>11
    DEF Work
<1>5. CASE \E w \in Worker : ReleasePhone(w)
  BY <1>5, HandlerSteady, HandlerCancel, SteadyCancel DEF Steady
<1>6. CASE \/ \E w \in Worker : Crash(w)
           \/ \E r \in Run : \/ LeaseExpires(r) \/ UserCancels(r)
                             \/ UserTogglesSchedule(r) \/ UserRemovesPlan(r)
                             \/ DuoPlusTakes(r) \/ DuoPlusFinishes(r)
           \/ \E p \in Phone : PhoneLeaseExpires(p)
  BY <1>6, EnvironmentSteady, EnvironmentCancel, SteadyCancel DEF Steady
<1> QED
  BY <1>1, <1>2, <1>3, <1>4, <1>5, <1>6 DEF Next

-----------------------------------------------------------------------------
(* The theorems *)

\* acquire_phone_lease, release_run_lease and reap_expired_run_leases keep a
\* phone's lease reachable: its run still has an owner and the phone token, so
\* no phone is ever leased to a run nobody will release it for.
THEOREM LeasesAreOwned == Spec => []PhoneLeaseOwned
<1>1. Known => PhoneLeaseOwned
  BY DEF Known, PhonesInv
<1> QED
  BY <1>1, AlwaysKnown, PTL

\* The other-run scan of acquire_phone_lease and the phone check of
\* authorize_run_submission keep the first tasks of two runs apart on a phone,
\* for every crash, overrun, lost answer and lagging lookup.
THEOREM FirstTasksApart == Spec => []NoConcurrentFirstTasks
<1>1. Known => NoConcurrentFirstTasks
  BY DEF Known, PhonesInv, Engaged, NoConcurrentFirstTasks
<1> QED
  BY <1>1, AlwaysKnown, PTL

\* syncTask records success for the run's own task only, and only once DuoPlus
\* has finished it; no later step undoes either.
THEOREM SuccessIsTrue == Spec => []SucceededMatchesProvider
<1>1. Known => SucceededMatchesProvider
  BY DEF Known, RowsInv, RowHolds, SucceededMatchesProvider
<1> QED
  BY <1>1, AlwaysKnown, PTL

\* cancelForDisabledSchedule records a run as cancelled only when its task does
\* not exist or was withdrawn, for any two workers on the run, any loss and any
\* crash between its lookup, cancelTasks and the update; what it could not have
\* known is in missed, and nothing else is.
THEOREM CancelledRunsAreOver == Spec => []CancelledRunIsOver
<1>1. Init => CancelInv
  <2>1. Init => \A r \in Run : run[r].status = "pending"
    BY DEF Init, StoreInit, NewRow
  <2>2. Init => \A w \in Worker : mem[w].pc = "idle"
    BY DEF Init, Idle
  <2> QED
    BY <2>1, <2>2 DEF CancelInv, CancelledRunIsOver, At
<1>2. Known /\ CancelInv /\ [Next]_vars => CancelInv'
  BY CancelStep
<1>3. CancelInv => CancelledRunIsOver
  BY DEF CancelInv
<1> QED
  BY <1>1, <1>2, <1>3, AlwaysKnown, PTL DEF Spec

\* The scheduler, with its workers, leases, stages and faults, does no more
\* with a run than OnceOnlySubmission allows: each step of it is a step of the
\* promise for every run at once, or changes nothing the promise speaks of.
THEOREM KeepsThePromise == Spec => SubmitsOnceOnly
<1>1. Init => Promise!Init
  BY InitiallyKnown
<1>2. Known /\ [Next]_vars => [Promise!Next]_(Promise!vars)
  BY PromiseStep
<1> QED
  BY <1>1, <1>2, AlwaysKnown, PTL DEF Spec, SubmitsOnceOnly, Promise!Spec
=============================================================================
