------------------------- MODULE RunDispatchProofs -------------------------
(***************************************************************************)
(* Type correctness of RunDispatch and AtMostOneSubmission, for every set  *)
(* of runs, workers and phones, every attempt limit and every fault budget.*)
(***************************************************************************)
EXTENDS RunDispatch, TLAPS

\* A row a handler may try to write: the attempt limit is the table's to keep.
WideRow == [status : Status, stage : Stage, sub : Submission,
            task : BOOLEAN, duo : DuoStatus, attempts : Nat, cancel : BOOLEAN,
            owner : Worker \cup {NoWorker}, fresh : BOOLEAN, ptok : BOOLEAN]

\* What every step but Authorize and AddTask does to the submission: a
\* recorded attempt stays recorded, nothing is sent, and no worker comes to
\* the addTask call.
Quiet ==
  /\ \A r \in Run : run[r].sub # "never" => run'[r].sub # "never"
  /\ sends' = sends
  /\ \A w \in Worker : mem'[w].pc = "add" =>
       mem[w].pc = "add" /\ mem'[w].run = mem[w].run

\* A worker that is not idle works on a run.
LEMMA BusyJob ==
  ASSUME TypeOK, NEW w \in Worker, mem[w].pc # "idle"
  PROVE  Job(w) \in Run /\ Row(w) \in RunRow /\ mem[w] \in Memory
BY DEF TypeOK, StoreTypeOK, Job, Row, Memory

LEMMA RunRowIsWide == ASSUME NEW row \in RunRow PROVE row \in WideRow
BY DEF RunRow, WideRow

\* Faults stay within their budget.
LEMMA FaultCount ==
  ASSUME TypeOK, \/ NoFault \/ \E kind \in AllFaults : Fault(kind)
  PROVE  HistoryOK'
BY FaultAssumption DEF TypeOK, HistoryOK, NoFault, Fault, Inject

\* The same where a step may miss a task.
LEMMA MissCount ==
  ASSUME TypeOK, NEW r \in Run, NEW unseen, MissIf(r, unseen),
         UNCHANGED faults \/ \E kind \in AllFaults : Inject(kind)
  PROVE  HistoryOK'
BY FaultAssumption DEF TypeOK, HistoryOK, MissIf, Inject

\* A step that only moves one worker and perhaps the remote tasks.
LEMMA MoveStep ==
  ASSUME TypeOK, NEW w \in Worker, mem[w].pc # "idle",
         NEW next \in Pc \ {"idle", "add"}, Goto(w, next),
         UNCHANGED storeVars, UNCHANGED sends,
         task' \in [Run -> Remote], HistoryOK'
  PROVE  TypeOK' /\ Quiet
BY DEF TypeOK, StoreTypeOK, storeVars, Goto, Memory, Quiet

\* A worker that ends, by itself or in a crash.
LEMMA FinishStep ==
  ASSUME TypeOK, NEW w \in Worker, Finish(w),
         UNCHANGED storeVars, UNCHANGED sends,
         task' \in [Run -> Remote], HistoryOK'
  PROVE  TypeOK' /\ Quiet
BY StoreAssumption
   DEF TypeOK, StoreTypeOK, storeVars, Finish, Idle, Memory, Quiet, Pc, Stage, Seen

\* One fenced update, whatever becomes of it.
LEMMA WriteStep ==
  ASSUME TypeOK, NEW w \in Worker, mem[w].pc # "idle",
         NEW row \in WideRow, Row(w).sub # "never" => row.sub # "never",
         NEW next \in Pc \ {"idle", "add"}, WriteOnly(w, row, next),
         HistoryOK'
  PROVE  TypeOK' /\ Quiet
<1>1. Job(w) \in Run
  BY BusyJob
<1>2. task' \in [Run -> Remote] /\ UNCHANGED sends
  BY DEF WriteOnly, TypeOK
<1>3. CASE /\ Fenced(Job(w), w) /\ WithinBudget(row)
           /\ UpdateRun(Job(w), row)
           /\ Goto(w, next)
  <2>1. row \in RunRow
    BY <1>3, StoreAssumption DEF WithinBudget, WideRow, RunRow
  <2>2. StoreTypeOK'
    BY <1>1, <1>3, <2>1 DEF UpdateRun, TypeOK, StoreTypeOK
  <2>3. /\ mem' \in [Worker -> Memory]
        /\ \A v \in Worker : mem'[v].run = NoRun <=> mem'[v].pc = "idle"
        /\ \A v \in Worker : mem'[v].pc = "add" =>
             mem[v].pc = "add" /\ mem'[v].run = mem[v].run
    BY <1>3 DEF Goto, TypeOK, Memory
  <2>4. \A r \in Run : run[r].sub # "never" => run'[r].sub # "never"
    BY <1>1, <1>3 DEF UpdateRun, TypeOK, StoreTypeOK, Row
  <2> QED
    BY <1>2, <2>2, <2>3, <2>4 DEF TypeOK, Quiet
<1>4. CASE Finish(w) /\ UNCHANGED storeVars
  BY <1>2, <1>4, FinishStep
<1>5. CASE /\ Goto(w, IF At(w, "fail") THEN "release" ELSE "fail")
           /\ UNCHANGED storeVars
  <2> DEFINE pc == IF At(w, "fail") THEN "release" ELSE "fail"
  <2>1. pc \in Pc \ {"idle", "add"}
    BY DEF Pc
  <2>2. Goto(w, pc)
    BY <1>5
  <2> HIDE DEF pc
  <2> QED
    BY <1>2, <1>5, <2>1, <2>2, MoveStep
<1> QED
  BY <1>3, <1>4, <1>5 DEF WriteOnly, Write

-----------------------------------------------------------------------------
(* The rows the handlers write *)

LEMMA Names ==
  /\ Terminal \subseteq Status
  /\ {"retry_wait", "preparing", "monitored"} \subseteq Status
  /\ {"pending", "prepare_phone", "submit_task", "resolve_task",
      "monitor_task", "cancel_task", "complete", "error"} = Stage
  /\ "never" \in Submission /\ "unknown" \in Submission /\ "accepted" \in Submission
  /\ Seen = DuoStatus
BY DEF Terminal, Status, Open, Stage, Submission, Seen, DuoStatus

LEMMA DeferredRow ==
  ASSUME NEW w \in Worker, Row(w) \in RunRow,
         NEW status \in Status, NEW stage \in Stage, NEW n \in Nat
  PROVE  /\ Deferred(w, status, stage, n) \in WideRow
         /\ Row(w).sub # "never" => Deferred(w, status, stage, n).sub # "never"
BY DEF Deferred, RunRow, WideRow

LEMMA ClosedRow ==
  ASSUME NEW row \in WideRow, NEW o \in Terminal
  PROVE  Closed(row, o) \in WideRow /\ Closed(row, o).sub = row.sub
BY Names DEF Closed, WideRow

LEMMA KnownRow ==
  ASSUME NEW row \in RunRow
  PROVE  [row EXCEPT !.task = TRUE] \in WideRow
         /\ [row EXCEPT !.task = TRUE].sub = row.sub
BY RunRowIsWide DEF WideRow

LEMMA SeenRow ==
  ASSUME NEW row \in RunRow, NEW seen \in DuoStatus
  PROVE  [row EXCEPT !.task = TRUE, !.duo = seen] \in WideRow
         /\ [row EXCEPT !.task = TRUE, !.duo = seen].sub = row.sub
BY RunRowIsWide DEF WideRow

LEMMA TaskRow ==
  ASSUME NEW row \in RunRow, NEW seen \in DuoStatus
  PROVE  WithTask(row, seen) \in WideRow /\ WithTask(row, seen).sub = "accepted"
BY RunRowIsWide, Names DEF WithTask, WideRow

LEMMA OutcomeIsTerminal == ASSUME NEW seen PROVE OutcomeOf(seen) \in Terminal
BY DEF OutcomeOf, Terminal

\* What a busy worker's memory and row may be used for.
LEMMA BusyNumbers ==
  ASSUME TypeOK, NEW w \in Worker, mem[w].pc # "idle"
  PROVE  /\ Job(w) \in Run /\ Row(w) \in RunRow
         /\ mem[w].stage \in Stage /\ mem[w].seen \in DuoStatus
         /\ mem[w].att \in Nat /\ mem[w].att + 1 \in Nat /\ Current(w) + 1 \in Nat
         /\ Row(w).attempts \in Nat
         /\ Row(w) \in WideRow
<1>1. Row(w) \in RunRow /\ mem[w] \in Memory /\ Job(w) \in Run
  BY BusyJob
<1>2. /\ mem[w].stage \in Stage /\ mem[w].seen \in Seen
      /\ mem[w].att \in 0 .. MaxAttempts
  BY <1>1 DEF Memory
<1>3. Row(w).attempts \in 0 .. MaxAttempts
  BY <1>1 DEF RunRow
<1>4. MaxAttempts \in Nat
  BY StoreAssumption
<1>5. Current(w) + 1 \in Nat
  BY <1>2, <1>4 DEF Current
<1> QED
  BY <1>1, <1>2, <1>3, <1>4, <1>5, Names, RunRowIsWide

-----------------------------------------------------------------------------
(* Runs that may already have a task *)

LEMMA ExistingSteps ==
  ASSUME TypeOK, NEW w \in Worker,
         \/ Wait(w) \/ GiveUp(w) \/ SyncLive(w) \/ SyncTerminal(w)
         \/ RerunRejected(w) \/ Replayed(w)
  PROVE  TypeOK' /\ Quiet
<1>1. mem[w].pc # "idle"
  BY DEF Wait, GiveUp, SyncLive, SyncTerminal, RerunRejected, Replayed, At
<1>2. HistoryOK'
  BY FaultCount DEF Wait, GiveUp, SyncLive, SyncTerminal, RerunRejected, Replayed
<1>3. "release" \in Pc \ {"idle", "add"}
  BY DEF Pc
<1>4. CASE Wait(w)
  <2>1. CASE mem[w].known
    <3>1. WriteOnly(w, Deferred(w, "monitored", "monitor_task", Row(w).attempts),
                    "release")
      BY <1>4, <2>1 DEF Wait
    <3> QED
      BY <1>1, <1>2, <1>3, <3>1, Names, BusyNumbers, DeferredRow, WriteStep
  <2>2. CASE ~mem[w].known
    <3>1. WriteOnly(w, Deferred(w, "retry_wait", "resolve_task", Row(w).attempts),
                    "release")
      BY <1>4, <2>2 DEF Wait
    <3> QED
      BY <1>1, <1>2, <1>3, <3>1, Names, BusyNumbers, DeferredRow, WriteStep
  <2> QED
    BY <2>1, <2>2
<1>5. CASE GiveUp(w)
  <2> DEFINE s == IF ~mem[w].known /\ Row(w).sub = "never" THEN "unknown"
                  ELSE Row(w).sub
             row == [Closed(Row(w), "failed") EXCEPT !.sub = s]
  <2>1. WriteOnly(w, row, "release")
    BY <1>5 DEF GiveUp
  <2>2. Closed(Row(w), "failed") \in WideRow
    BY <1>1, BusyNumbers, ClosedRow DEF Terminal
  <2>3. s \in Submission /\ (Row(w).sub # "never" => s # "never")
    BY <1>1, BusyNumbers, Names DEF RunRow
  <2>4. row \in WideRow /\ row.sub = s
    BY <2>2, <2>3 DEF WideRow
  <2> HIDE DEF s, row
  <2> QED
    BY <1>1, <1>2, <1>3, <2>1, <2>3, <2>4, WriteStep
<1>6. CASE SyncLive(w)
  <2> DEFINE row == [WithTask(Row(w), "live") EXCEPT !.status = "monitored",
                                                    !.stage = "monitor_task"]
  <2>1. WriteOnly(w, row, "release")
    BY <1>6 DEF SyncLive
  <2>2. WithTask(Row(w), "live") \in WideRow
        /\ WithTask(Row(w), "live").sub = "accepted"
    BY <1>1, BusyNumbers, TaskRow DEF DuoStatus
  <2>3. row \in WideRow /\ row.sub # "never"
    BY <2>2, Names DEF WideRow
  <2> HIDE DEF row
  <2> QED
    BY <1>1, <1>2, <1>3, <2>1, <2>3, WriteStep
<1>7. CASE SyncTerminal(w)
  <2> DEFINE row == Closed(WithTask(Row(w), mem[w].seen), OutcomeOf(mem[w].seen))
  <2>1. WriteOnly(w, row, "release")
    BY <1>7 DEF SyncTerminal
  <2>2. WithTask(Row(w), mem[w].seen) \in WideRow /\ WithTask(Row(w), mem[w].seen).sub = "accepted"
    BY <1>1, BusyNumbers, TaskRow
  <2>3. row \in WideRow /\ row.sub = "accepted"
    BY <2>2, OutcomeIsTerminal, ClosedRow
  <2> HIDE DEF row
  <2> QED
    BY <1>1, <1>2, <1>3, <2>1, <2>3, WriteStep
<1>8. CASE RerunRejected(w)
  <2> DEFINE row == Closed(WithTask(Row(w), "failed"), "failed")
  <2>1. WriteOnly(w, row, "release")
    BY <1>8 DEF RerunRejected
  <2>2. WithTask(Row(w), "failed") \in WideRow /\ WithTask(Row(w), "failed").sub = "accepted"
    BY <1>1, BusyNumbers, TaskRow DEF DuoStatus
  <2>3. row \in WideRow /\ row.sub = "accepted"
    BY <2>2, ClosedRow DEF Terminal
  <2> HIDE DEF row
  <2> QED
    BY <1>1, <1>2, <1>3, <2>1, <2>3, WriteStep
<1>9. CASE Replayed(w)
  <2> DEFINE row == [WithTask(Row(w), "failed") EXCEPT !.status = "monitored",
                       !.stage = "monitor_task", !.attempts = Current(w) + 1]
  <2>1. WriteOnly(w, row, "release")
    BY <1>9 DEF Replayed
  <2>2. WithTask(Row(w), "failed") \in WideRow
        /\ WithTask(Row(w), "failed").sub = "accepted"
    BY <1>1, BusyNumbers, TaskRow DEF DuoStatus
  <2>3. row \in WideRow /\ row.sub # "never"
    BY <1>1, <2>2, Names, BusyNumbers DEF WideRow
  <2> HIDE DEF row
  <2> QED
    BY <1>1, <1>2, <1>3, <2>1, <2>3, WriteStep
<1> QED
  BY <1>4, <1>5, <1>6, <1>7, <1>8, <1>9

-----------------------------------------------------------------------------
(* Statements of the store *)

LEMMA UnlockedRow ==
  ASSUME NEW row \in RunRow
  PROVE  Unlocked(row) \in RunRow /\ Unlocked(row).sub = row.sub
BY DEF Unlocked, RunRow

LEMMA ReapedRow ==
  ASSUME NEW row \in RunRow
  PROVE  Reaped(row) \in RunRow /\ Reaped(row).sub = row.sub
<1> DEFINE u == Unlocked(row)
<1>1. u \in RunRow /\ u.sub = row.sub
  BY UnlockedRow
<1>2. \A status \in Status, stage \in Stage :
        /\ [u EXCEPT !.status = status, !.stage = stage] \in RunRow
        /\ [u EXCEPT !.status = status, !.stage = stage].sub = row.sub
  BY <1>1 DEF RunRow
<1>3. "failed" \in Status
  BY Names DEF Terminal
<1> QED
  BY <1>1, <1>2, <1>3, Names DEF Reaped

LEMMA ClaimedRow ==
  ASSUME NEW row \in RunRow, NEW w \in Worker
  PROVE  Claimed(row, w) \in RunRow /\ Claimed(row, w).sub = row.sub
BY Names DEF Claimed, RunRow

LEMMA Reaping ==
  ASSUME TypeOK
  PROVE  /\ RowsAfterReaping \in [Run -> RunRow]
         /\ \A r \in Run : RowsAfterReaping[r].sub = run[r].sub
BY ReapedRow DEF RowsAfterReaping, TypeOK, StoreTypeOK

LEMMA PhoneRows ==
  ASSUME TypeOK, NEW rs
  PROVE  PhonesWithout(rs) \in [Phone -> PhoneRow]
BY DEF PhonesWithout, TypeOK, StoreTypeOK, PhoneRow, Unleased

\* A step of the database alone, or with a worker that does not come to "add".
LEMMA StoreStep ==
  ASSUME TypeOK, run' \in [Run -> RunRow], phone' \in [Phone -> PhoneRow],
         opened' \in [Run -> SUBSET Nat], enabled' \in [Run -> BOOLEAN],
         \A r \in Run : run[r].sub # "never" => run'[r].sub # "never",
         UNCHANGED sends, task' \in [Run -> Remote], HistoryOK',
         mem' \in [Worker -> Memory],
         \A w \in Worker : mem'[w].run = NoRun <=> mem'[w].pc = "idle",
         \A w \in Worker : mem'[w].pc = "add" =>
           mem[w].pc = "add" /\ mem'[w].run = mem[w].run
  PROVE  TypeOK' /\ Quiet
BY DEF TypeOK, StoreTypeOK, Quiet

\* What a worker's move does to the memories of all of them.
LEMMA Moved ==
  ASSUME TypeOK, NEW w \in Worker, mem[w].pc # "idle",
         NEW next \in Pc \ {"idle", "add"}, NEW m \in Memory,
         m.run = mem[w].run, m.pc = next, mem' = [mem EXCEPT ![w] = m]
  PROVE  /\ mem' \in [Worker -> Memory]
         /\ \A v \in Worker : mem'[v].run = NoRun <=> mem'[v].pc = "idle"
         /\ \A v \in Worker : mem'[v].pc = "add" =>
              mem[v].pc = "add" /\ mem'[v].run = mem[v].run
BY DEF TypeOK

\* A move that also keeps something for the steps to come.
LEMMA NoteStep ==
  ASSUME TypeOK, NEW w \in Worker, mem[w].pc # "idle",
         NEW next \in Pc \ {"idle", "add"}, NEW m \in Memory,
         m.run = mem[w].run, m.pc = next, mem' = [mem EXCEPT ![w] = m],
         UNCHANGED storeVars, UNCHANGED sends,
         task' \in [Run -> Remote], HistoryOK'
  PROVE  TypeOK' /\ Quiet
<1>1. /\ mem' \in [Worker -> Memory]
      /\ \A v \in Worker : mem'[v].run = NoRun <=> mem'[v].pc = "idle"
      /\ \A v \in Worker : mem'[v].pc = "add" =>
           mem[v].pc = "add" /\ mem'[v].run = mem[v].run
  BY Moved
<1> QED
  BY <1>1 DEF TypeOK, StoreTypeOK, storeVars, Quiet

\* A submission state recorded, unless the lease is gone.
LEMMA RecordStep ==
  ASSUME TypeOK, NEW w \in Worker, mem[w].pc # "idle",
         NEW s \in Submission, Row(w).sub # "never" => s # "never",
         NEW next \in Pc \ {"idle", "add"},
         \/ /\ UpdateRun(Job(w), [Row(w) EXCEPT !.sub = s, !.stage = "resolve_task"])
            /\ mem' = [mem EXCEPT ![w].pc = next, ![w].stage = "resolve_task"]
         \/ Finish(w) /\ UNCHANGED storeVars,
         UNCHANGED sends, task' \in [Run -> Remote], HistoryOK'
  PROVE  TypeOK' /\ Quiet
<1> DEFINE row == [Row(w) EXCEPT !.sub = s, !.stage = "resolve_task"]
           m == [mem[w] EXCEPT !.pc = next, !.stage = "resolve_task"]
<1>1. Row(w) \in RunRow /\ mem[w] \in Memory /\ Job(w) \in Run
  BY BusyJob
<1>2. "resolve_task" \in Stage
  BY Names
<1>3. row \in RunRow /\ row.sub = s
  BY <1>1, <1>2 DEF RunRow
<1>4. m \in Memory /\ m.run = mem[w].run /\ m.pc = next
  BY <1>1, <1>2 DEF Memory
<1>5. \/ UpdateRun(Job(w), row) /\ mem' = [mem EXCEPT ![w] = m]
      \/ Finish(w) /\ UNCHANGED storeVars
  OBVIOUS
<1> HIDE DEF row, m
<1>6. CASE UpdateRun(Job(w), row) /\ mem' = [mem EXCEPT ![w] = m]
  <2>1. /\ run' \in [Run -> RunRow]
        /\ \A q \in Run : run[q].sub # "never" => run'[q].sub # "never"
    BY <1>1, <1>3, <1>6 DEF UpdateRun, TypeOK, StoreTypeOK, Row
  <2>2. /\ mem' \in [Worker -> Memory]
        /\ \A v \in Worker : mem'[v].run = NoRun <=> mem'[v].pc = "idle"
        /\ \A v \in Worker : mem'[v].pc = "add" =>
             mem[v].pc = "add" /\ mem'[v].run = mem[v].run
    BY <1>4, <1>6, Moved
  <2>3. phone' \in [Phone -> PhoneRow] /\ opened' \in [Run -> SUBSET Nat]
        /\ enabled' \in [Run -> BOOLEAN]
    BY <1>6 DEF UpdateRun, TypeOK, StoreTypeOK
  <2> QED
    BY <2>1, <2>2, <2>3, StoreStep
<1>7. CASE Finish(w) /\ UNCHANGED storeVars
  BY <1>7, FinishStep
<1> QED
  BY <1>5, <1>6, <1>7

LEMMA LookUpStep ==
  ASSUME TypeOK, NEW w \in Worker, mem[w].pc # "idle",
         NEW found \in Pc \ {"idle", "add"}, NEW missing \in Pc \ {"idle", "add"},
         LookUp(w, found, missing)
  PROVE  TypeOK' /\ Quiet
<1>1. mem[w] \in Memory /\ Job(w) \in Run
  BY BusyJob
<1>2. Visible(Job(w)) \in Seen
  BY <1>1 DEF Visible, TypeOK, Remote, Seen
<1>3. PICK s \in Seen, next \in {found, missing} :
        mem' = [mem EXCEPT ![w] = [mem[w] EXCEPT !.seen = s, !.pc = next]]
  <2>1. CASE mem' = [mem EXCEPT ![w].seen = Visible(Job(w)),
                ![w].pc = IF Visible(Job(w)) = "none" THEN missing ELSE found]
    BY <1>2, <2>1 DEF TypeOK
  <2>2. CASE mem' = [mem EXCEPT ![w].seen = "none", ![w].pc = missing]
    BY <2>2 DEF TypeOK, Seen
  <2> QED
    BY <2>1, <2>2 DEF LookUp
<1> DEFINE m == [mem[w] EXCEPT !.seen = s, !.pc = next]
<1>4. m \in Memory /\ m.run = mem[w].run /\ m.pc = next
  BY <1>1, <1>3 DEF Memory
<1>5. HistoryOK'
  BY FaultCount DEF LookUp, AllFaults
<1>6. UNCHANGED storeVars /\ UNCHANGED sends /\ task' \in [Run -> Remote]
  BY DEF LookUp, TypeOK
<1>7. mem' = [mem EXCEPT ![w] = m]
  BY <1>3
<1> HIDE DEF m
<1> QED
  BY <1>3, <1>4, <1>5, <1>6, <1>7, NoteStep

-----------------------------------------------------------------------------
(* Claiming, and the way to the phone lease *)

LEMMA RoutingSteps ==
  ASSUME TypeOK, NEW w \in Worker, NEW r \in Run,
         \/ Claim(w, r) \/ ReapTick(w) \/ Begin(w) \/ NotRenewed(w)
         \/ TickDeadline(w) \/ Promote(w)
  PROVE  TypeOK' /\ Quiet
<1>1. HistoryOK'
  BY FaultCount
  DEF Claim, ReapTick, Begin, NotRenewed, TickDeadline, Promote, AllFaults
<1>2. task' \in [Run -> Remote] /\ UNCHANGED sends
  BY DEF Claim, ReapTick, Begin, NotRenewed, TickDeadline, Promote, TypeOK
<1>3. phone' \in [Phone -> PhoneRow] /\ opened' \in [Run -> SUBSET Nat]
      /\ enabled' \in [Run -> BOOLEAN]
  BY PhoneRows DEF Claim, ClaimDueRun, ReapTick, ReapOnly, Begin, NotRenewed,
    TickDeadline, Promote, UpdateRun, storeVars, TypeOK, StoreTypeOK
<1>4. CASE Claim(w, r)
  <2>1. run' = [RowsAfterReaping EXCEPT ![r] = Claimed(@, w)]
    BY <1>4 DEF Claim, ClaimDueRun
  <2>2. /\ run' \in [Run -> RunRow]
        /\ \A s \in Run : run'[s].sub = run[s].sub
    BY <2>1, Reaping, ClaimedRow
  <2> DEFINE m == [Idle EXCEPT !.pc = "begin", !.run = r, !.att = run'[r].attempts,
                    !.stage = run'[r].stage, !.known = run'[r].task,
                    !.cancel = run'[r].cancel]
  <2>3. mem' = [mem EXCEPT ![w] = m]
    BY <1>4 DEF Claim
  <2>4. m \in Memory /\ m.run \in Run /\ m.pc = "begin"
    <3>1. /\ run'[r].attempts \in 0 .. MaxAttempts /\ run'[r].stage \in Stage
          /\ run'[r].task \in BOOLEAN /\ run'[r].cancel \in BOOLEAN
      BY <2>2 DEF RunRow
    <3>2. "begin" \in Pc /\ "none" \in Seen
      BY DEF Pc, Seen
    <3> QED
      BY <3>1, <3>2 DEF Idle, Memory
  <2> HIDE DEF m
  <2>5. /\ mem' \in [Worker -> Memory]
        /\ \A v \in Worker : mem'[v].run = NoRun <=> mem'[v].pc = "idle"
        /\ \A v \in Worker : mem'[v].pc = "add" =>
             mem[v].pc = "add" /\ mem'[v].run = mem[v].run
    BY <2>3, <2>4, StoreAssumption DEF TypeOK
  <2> QED
    BY <1>1, <1>2, <1>3, <2>2, <2>5, StoreStep
<1>5. CASE ReapTick(w)
  <2>1. run' = RowsAfterReaping /\ UNCHANGED mem
    BY <1>5 DEF ReapTick, ReapOnly
  <2>2. /\ run' \in [Run -> RunRow]
        /\ \A s \in Run : run'[s].sub = run[s].sub
    BY <2>1, Reaping
  <2> QED
    BY <1>1, <1>2, <1>3, <2>1, <2>2, StoreStep DEF TypeOK
<1>6. CASE Begin(w)
  <2>1. RouteOf(w) \in Pc \ {"idle", "add"}
    BY DEF RouteOf, Pc
  <2>2. {"permanent", "abort"} \subseteq Pc \ {"idle", "add"}
    BY DEF Pc
  <2>3. PICK next \in Pc \ {"idle", "add"} : Goto(w, next)
    BY <1>6, <2>1, <2>2 DEF Begin
  <2>4. mem[w].pc # "idle" /\ UNCHANGED storeVars
    BY <1>6 DEF Begin, At
  <2> QED
    BY <1>1, <1>2, <2>3, <2>4, MoveStep
<1>7. CASE NotRenewed(w)
  BY <1>1, <1>2, <1>7, FinishStep DEF NotRenewed
<1>8. CASE TickDeadline(w)
  <2>1. mem[w].pc # "idle" /\ UNCHANGED storeVars /\ Goto(w, "release")
    BY <1>8 DEF TickDeadline, At
  <2>2. "release" \in Pc \ {"idle", "add"}
    BY DEF Pc
  <2> QED
    BY <1>1, <1>2, <2>1, <2>2, MoveStep
<1>9. CASE Promote(w)
  <2> DEFINE s == IF Row(w).sub = "attempting" THEN "unknown" ELSE Row(w).sub
  <2>1. mem[w].pc # "idle"
    BY <1>9 DEF Promote, At
  <2>2. s \in Submission /\ (Row(w).sub # "never" => s # "never")
    BY <2>1, BusyNumbers, Names DEF RunRow
  <2>3. "reacquire" \in Pc \ {"idle", "add"}
    BY DEF Pc
  <2>4. \/ /\ UpdateRun(Job(w), [Row(w) EXCEPT !.sub = s, !.stage = "resolve_task"])
           /\ mem' = [mem EXCEPT ![w].pc = "reacquire", ![w].stage = "resolve_task"]
        \/ Finish(w) /\ UNCHANGED storeVars
    BY <1>9 DEF Promote
  <2> HIDE DEF s
  <2> QED
    BY <1>1, <1>2, <2>1, <2>2, <2>3, <2>4, RecordStep
<1> QED
  BY <1>4, <1>5, <1>6, <1>7, <1>8, <1>9

-----------------------------------------------------------------------------
(* A new run, but for its fence and its addTask *)

LEMMA AcquireSteps ==
  ASSUME TypeOK, NEW w \in Worker, AcquireNew(w) \/ AcquireExisting(w)
  PROVE  TypeOK' /\ Quiet
<1>1. PICK next \in {"probe", "resolve"} :
        /\ mem[w].pc # "idle" /\ AcquirePhoneLease(Job(w), w)
        /\ mem' = [mem EXCEPT ![w].pc = next, ![w].held = TRUE]
        /\ NoFault /\ UNCHANGED <<task, sends>>
  BY DEF AcquireNew, AcquireExisting, Acquire, At
<1>2. Job(w) \in Run /\ Row(w) \in RunRow /\ mem[w] \in Memory
  BY <1>1, BusyJob
<1> DEFINE n == Row(w).attempts + 1
           on == [Row(w) EXCEPT !.ptok = TRUE,
                    !.status = IF ExistingTask(Row(w)) THEN @ ELSE "preparing"]
           row == IF StartsAttempt(Row(w))
                    THEN [on EXCEPT !.stage = "prepare_phone", !.attempts = n]
                    ELSE on
           m == [mem[w] EXCEPT !.pc = next, !.held = TRUE]
<1>3. on \in RunRow /\ on.sub = Row(w).sub /\ on.attempts = Row(w).attempts
  BY <1>2, Names DEF RunRow
<1>4. n \in Nat /\ (StartsAttempt(Row(w)) => n \in 0 .. MaxAttempts)
  <2>1. Row(w).attempts \in 0 .. MaxAttempts /\ MaxAttempts \in Nat \ {0}
    BY <1>2, StoreAssumption DEF RunRow
  <2>2. ASSUME StartsAttempt(Row(w))
        PROVE  Row(w).attempts < MaxAttempts
    BY <1>1, <2>1, <2>2
    DEF StartsAttempt, AcquirePhoneLease, Acquirable, Row
  <2> QED
    BY <2>1, <2>2
<1>5. row \in RunRow /\ row.sub = Row(w).sub
  <2> HIDE DEF on, n
  <2> QED
    BY <1>3, <1>4, Names DEF RunRow
<1>6. m \in Memory /\ m.run = mem[w].run /\ m.pc = next
  BY <1>2 DEF Memory, Pc
<1>7. run' = [run EXCEPT ![Job(w)] = row] /\ mem' = [mem EXCEPT ![w] = m]
  BY <1>1 DEF AcquirePhoneLease, Row
<1>8. /\ phone' \in [Phone -> PhoneRow] /\ opened' \in [Run -> SUBSET Nat]
      /\ enabled' \in [Run -> BOOLEAN]
  <2>1. phone' = [phone EXCEPT ![PhoneOf[Job(w)]] = [run |-> Job(w), fresh |-> TRUE]]
    BY <1>1 DEF AcquirePhoneLease
  <2>2. [run |-> Job(w), fresh |-> TRUE] \in PhoneRow
    BY <1>2 DEF PhoneRow
  <2>3. opened' = opened \/ opened' = [opened EXCEPT ![Job(w)] = @ \cup {n}]
    BY <1>1 DEF AcquirePhoneLease, Row
  <2> HIDE DEF n
  <2> QED
    BY <1>1, <1>2, <1>4, <2>1, <2>2, <2>3
    DEF AcquirePhoneLease, TypeOK, StoreTypeOK
<1> HIDE DEF row, m
<1>9. /\ run' \in [Run -> RunRow]
      /\ \A q \in Run : run[q].sub # "never" => run'[q].sub # "never"
  BY <1>2, <1>5, <1>7 DEF TypeOK, StoreTypeOK, Row
<1>10. next \in Pc \ {"idle", "add"} /\ mem[w].pc # "idle"
  BY <1>1 DEF Pc
<1>11. /\ mem' \in [Worker -> Memory]
       /\ \A v \in Worker : mem'[v].run = NoRun <=> mem'[v].pc = "idle"
       /\ \A v \in Worker : mem'[v].pc = "add" =>
            mem[v].pc = "add" /\ mem'[v].run = mem[v].run
  BY <1>6, <1>7, <1>10, Moved
<1>12. /\ HistoryOK' /\ UNCHANGED sends /\ task' \in [Run -> Remote]
  BY <1>1, FaultCount DEF TypeOK
<1> QED
  BY <1>8, <1>9, <1>11, <1>12, StoreStep

\* A deferral of the worker's row, which a handler may phrase several ways.
LEMMA DeferStep ==
  ASSUME TypeOK, NEW w \in Worker, mem[w].pc # "idle",
         NEW status \in {"retry_wait", "preparing", "monitored"},
         NEW stage \in Stage, NEW n \in Nat,
         NEW next \in Pc \ {"idle", "add"},
         WriteOnly(w, Deferred(w, status, stage, n), next),
         HistoryOK'
  PROVE  TypeOK' /\ Quiet
BY Names, BusyNumbers, DeferredRow, WriteStep

LEMMA LookUpSteps ==
  ASSUME TypeOK, NEW w \in Worker,
         Probe(w) \/ Recheck(w) \/ Locate(w) \/ Resolve(w)
  PROVE  TypeOK' /\ Quiet
<1>1. {"sync", "prepare", "release", "missing"} \subseteq Pc \ {"idle", "add"}
  BY DEF Pc
<1>2. PICK next \in {"prepare", "release", "missing"} : LookUp(w, "sync", next)
  BY DEF Probe, Recheck, Locate, Resolve
<1>3. mem[w].pc # "idle"
  BY DEF Probe, Recheck, Locate, Resolve, At
<1> QED
  BY <1>1, <1>2, <1>3, LookUpStep

LEMMA PhoneSteps ==
  ASSUME TypeOK, NEW w \in Worker,
         NoPhone(w) \/ PhoneReady(w) \/ PhoneNotReady(w) \/ Requeue(w)
  PROVE  TypeOK' /\ Quiet
<1>1. mem[w].pc # "idle"
  BY DEF NoPhone, PhoneReady, PhoneNotReady, Requeue, At
<1>2. HistoryOK'
  BY FaultCount DEF NoPhone, PhoneReady, PhoneNotReady, Requeue, AllFaults
<1>3. {"release", "authorize", "recheck", "permanent"} \subseteq Pc \ {"idle", "add"}
  BY DEF Pc
<1>4. /\ mem[w].stage \in Stage /\ Row(w).attempts \in Nat /\ mem[w].att + 1 \in Nat
      /\ {"prepare_phone", "submit_task", "resolve_task"} \subseteq Stage
  BY <1>1, BusyNumbers, Names
<1>5. CASE NoPhone(w)
  <2>1. PICK stage \in Stage :
          WriteOnly(w, Deferred(w, "retry_wait", stage, Row(w).attempts), "release")
    BY <1>4, <1>5 DEF NoPhone
  <2> QED
    BY <1>1, <1>2, <1>3, <1>4, <2>1, DeferStep
<1>6. CASE PhoneReady(w)
  <2>1. WriteOnly(w, Deferred(w, "preparing", "submit_task", Row(w).attempts),
                  "authorize")
    BY <1>6 DEF PhoneReady
  <2> QED
    BY <1>1, <1>2, <1>3, <1>4, <2>1, DeferStep
<1>7. CASE PhoneNotReady(w)
  <2> DEFINE n == mem[w].att + 1
             closed == [Closed(Row(w), "failed") EXCEPT !.attempts = n]
  <2>1. closed \in WideRow /\ closed.sub = Row(w).sub
    <3>1. Closed(Row(w), "failed") \in WideRow
          /\ Closed(Row(w), "failed").sub = Row(w).sub
      BY <1>1, BusyNumbers, ClosedRow DEF Terminal
    <3> QED
      BY <1>4, <3>1 DEF WideRow
  <2>2. CASE WriteOnly(w, Deferred(w, "preparing", "prepare_phone", Row(w).attempts),
                       "release")
    BY <1>1, <1>2, <1>3, <1>4, <2>2, DeferStep
  <2>3. CASE WriteOnly(w, closed, "release")
    <3> HIDE DEF closed
    <3> QED
      BY <1>1, <1>2, <1>3, <2>1, <2>3, WriteStep
  <2>4. CASE WriteOnly(w, Deferred(w, "retry_wait", "prepare_phone", n), "release")
    BY <1>1, <1>2, <1>3, <1>4, <2>4, DeferStep
  <2>5. CASE Goto(w, "permanent") /\ UNCHANGED <<storeVars, task, sends>>
    BY <1>1, <1>2, <1>3, <2>5, MoveStep DEF TypeOK
  <2> QED
    <3>1. CASE n >= MaxAttempts
      BY <1>7, <2>2, <2>3, <2>5, <3>1 DEF PhoneNotReady
    <3>2. CASE ~(n >= MaxAttempts)
      BY <1>7, <2>2, <2>4, <2>5, <3>2 DEF PhoneNotReady
    <3> QED
      BY <3>1, <3>2
<1>8. CASE Requeue(w)
  <2>1. WriteOnly(w, Deferred(w, "retry_wait", "resolve_task", mem[w].att + 1),
                  "recheck")
    BY <1>8 DEF Requeue
  <2> QED
    BY <1>1, <1>2, <1>3, <1>4, <2>1, DeferStep
<1> QED
  BY <1>5, <1>6, <1>7, <1>8

LEMMA AnswerSteps ==
  ASSUME TypeOK, NEW w \in Worker,
         \/ AddReply(w) \/ RecordUnknown(w) \/ RecordAccepted(w)
         \/ Validate(w) \/ Orphan(w) \/ Store(w)
  PROVE  TypeOK' /\ Quiet
<1>1. mem[w].pc # "idle"
  BY DEF AddReply, RecordUnknown, RecordAccepted, Validate, Orphan, Store, At
<1>2. HistoryOK'
  BY FaultCount DEF AddReply, RecordUnknown, RecordAccepted, Record, Validate,
    Orphan, Store, AllFaults
<1>3. {"ack", "ambiguous", "denied", "requeue", "permanent", "validate", "store",
       "orphan", "release", "locate"} \subseteq Pc \ {"idle", "add"}
  BY DEF Pc
<1>4. UNCHANGED sends
  BY DEF AddReply, RecordUnknown, RecordAccepted, Record, Validate, Orphan,
    Store, WriteOnly
<1>5. Job(w) \in Run /\ Row(w) \in RunRow
  BY <1>1, BusyJob
<1>6. CASE AddReply(w)
  <2>1. PICK next \in {"ack", "ambiguous", "denied"} : Goto(w, next)
    BY <1>6 DEF AddReply
  <2>2. UNCHANGED storeVars /\ task' \in [Run -> Remote]
    BY <1>6 DEF AddReply, TypeOK
  <2> QED
    BY <1>1, <1>2, <1>3, <1>4, <2>1, <2>2, MoveStep
<1>7. CASE RecordUnknown(w) \/ RecordAccepted(w)
  <2>1. PICK s \in {"unknown", "accepted"},
             next \in {"requeue", "permanent", "validate"} : Record(w, s, next)
    BY <1>7 DEF RecordUnknown, RecordAccepted
  <2>2. task' \in [Run -> Remote]
    BY <2>1 DEF Record, TypeOK
  <2>3. \/ /\ UpdateRun(Job(w), [Row(w) EXCEPT !.sub = s, !.stage = "resolve_task"])
           /\ mem' = [mem EXCEPT ![w].pc = next, ![w].stage = "resolve_task"]
        \/ Finish(w) /\ UNCHANGED storeVars
    BY <2>1 DEF Record
  <2>4. s \in Submission /\ s # "never"
    BY <2>1, Names
  <2> QED
    BY <1>1, <1>2, <1>3, <1>4, <2>2, <2>3, <2>4, RecordStep
<1>8. CASE Validate(w)
  <2>1. PICK next \in {"store", "orphan"} : Goto(w, next)
    BY <1>8 DEF Validate
  <2>2. UNCHANGED storeVars /\ task' \in [Run -> Remote]
    BY <1>8 DEF Validate, TypeOK
  <2> QED
    BY <1>1, <1>2, <1>3, <1>4, <2>1, <2>2, MoveStep
<1>9. CASE Orphan(w)
  <2>1. task' \in [Run -> Remote]
    BY <1>5, <1>9 DEF Orphan, TypeOK, Remote
  <2>2. UNCHANGED storeVars /\ Goto(w, "release")
    BY <1>9 DEF Orphan
  <2> QED
    BY <1>1, <1>2, <1>3, <1>4, <2>1, <2>2, MoveStep
<1>10. CASE Store(w)
  <2>1. PICK id \in BOOLEAN :
          WriteOnly(w, [Row(w) EXCEPT !.status = "preparing", !.sub = "accepted",
                                      !.stage = "resolve_task", !.task = id],
                    "locate")
    BY <1>10 DEF Store
  <2> DEFINE row == [Row(w) EXCEPT !.status = "preparing", !.sub = "accepted",
                                   !.stage = "resolve_task", !.task = id]
  <2>2. row \in WideRow /\ row.sub = "accepted"
    BY <1>5, RunRowIsWide, Names DEF WideRow
  <2>3. WriteOnly(w, row, "locate")
    BY <2>1
  <2> HIDE DEF row
  <2> QED
    BY <1>1, <1>2, <1>3, <2>2, <2>3, WriteStep
<1> QED
  BY <1>6, <1>7, <1>8, <1>9, <1>10

-----------------------------------------------------------------------------
(* Replays, cancellation, handlers *)

LEMMA ReplaySteps ==
  ASSUME TypeOK, NEW w \in Worker, SyncFailed(w) \/ Rerun(w) \/ Reopen(w)
  PROVE  TypeOK' /\ Quiet
<1>1. mem[w].pc # "idle"
  BY DEF SyncFailed, Rerun, Reopen, At
<1>2. HistoryOK'
  BY FaultCount DEF SyncFailed, Rerun, Reopen, AllFaults
<1>3. {"rerun", "reopen", "rejected", "replayed", "fail"} \subseteq Pc \ {"idle", "add"}
  BY DEF Pc
<1>4. UNCHANGED sends /\ Job(w) \in Run
  BY <1>1, BusyJob DEF SyncFailed, Rerun, Reopen
<1>5. CASE SyncFailed(w)
  <2>1. Goto(w, "rerun") /\ UNCHANGED storeVars /\ task' \in [Run -> Remote]
    BY <1>5 DEF SyncFailed, TypeOK
  <2> QED
    BY <1>1, <1>2, <1>3, <1>4, <2>1, MoveStep
<1>6. CASE Rerun(w)
  <2>1. PICK next \in {"reopen", "rejected", "fail"} : Goto(w, next)
    BY <1>6 DEF Rerun
  <2>2. UNCHANGED storeVars /\ task' \in [Run -> Remote]
    BY <1>4, <1>6 DEF Rerun, TypeOK, Remote
  <2> QED
    BY <1>1, <1>2, <1>3, <1>4, <2>1, <2>2, MoveStep
<1>7. CASE Reopen(w)
  <2> DEFINE n == Current(w) + 1
  <2>1. n \in Nat
    BY <1>1, BusyNumbers
  <2>2. PICK next \in {"replayed", "fail"} : Goto(w, next)
    BY <1>7 DEF Reopen
  <2>3. opened' = opened \/ opened' = [opened EXCEPT ![Job(w)] = @ \cup {n}]
    BY <1>7 DEF Reopen
  <2> HIDE DEF n
  <2>4. opened' \in [Run -> SUBSET Nat]
    BY <1>4, <2>1, <2>3 DEF TypeOK, StoreTypeOK
  <2>5. /\ UNCHANGED <<run, phone, enabled, task>>
    BY <1>7 DEF Reopen
  <2> DEFINE m == [mem[w] EXCEPT !.pc = next]
  <2>6. m \in Memory /\ m.run = mem[w].run /\ m.pc = next
    BY <1>1, <1>3, <2>2, BusyJob DEF Memory
  <2>7. mem' = [mem EXCEPT ![w] = m]
    BY <2>2 DEF Goto
  <2> HIDE DEF m
  <2>8. next \in Pc \ {"idle", "add"}
    BY <1>3, <2>2
  <2>9. /\ mem' \in [Worker -> Memory]
        /\ \A v \in Worker : mem'[v].run = NoRun <=> mem'[v].pc = "idle"
        /\ \A v \in Worker : mem'[v].pc = "add" =>
             mem[v].pc = "add" /\ mem'[v].run = mem[v].run
    BY <1>1, <2>6, <2>7, <2>8, Moved
  <2> QED
    BY <1>2, <1>4, <2>4, <2>5, <2>9, StoreStep DEF TypeOK, StoreTypeOK
<1> QED
  BY <1>5, <1>6, <1>7

LEMMA CancelSteps ==
  ASSUME TypeOK, NEW w \in Worker,
         \/ CancelLookUp(w) \/ WithdrawSettled(w) \/ Withdraw(w)
         \/ Withdrawn(w) \/ WithdrawRefused(w)
  PROVE  TypeOK' /\ Quiet
<1>1. mem[w].pc # "idle"
  BY DEF CancelLookUp, WithdrawSettled, Withdraw, Withdrawn, WithdrawRefused, At
<1>2. HistoryOK'
  <2>1. CASE CancelLookUp(w)
    <3>1. Job(w) \in Run
      BY <1>1, BusyJob
    <3>2. \/ UNCHANGED faults
          \/ \E kind \in AllFaults : Inject(kind)
      BY <2>1 DEF CancelLookUp, AllFaults
    <3>3. PICK seen : MissIf(Job(w), seen = "none" /\ task[Job(w)] # "none")
      BY <2>1 DEF CancelLookUp
    <3> QED
      BY <3>1, <3>2, <3>3, MissCount
  <2>2. CASE ~CancelLookUp(w)
    BY <2>2, FaultCount DEF WithdrawSettled, Withdraw, Withdrawn,
      WithdrawRefused, AllFaults
  <2> QED
    BY <2>1, <2>2
<1>3. {"withdraw", "withdrawn", "refused", "release"} \subseteq Pc \ {"idle", "add"}
  BY DEF Pc
<1>4. /\ UNCHANGED sends
      /\ Job(w) \in Run /\ Row(w) \in RunRow /\ mem[w] \in Memory
      /\ mem[w].seen \in DuoStatus
  BY <1>1, BusyNumbers, BusyJob DEF CancelLookUp, WithdrawSettled, Withdraw,
    Withdrawn, WithdrawRefused, WriteOnly
<1>5. CASE CancelLookUp(w)
  <2> DEFINE fallback == IF ~mem[w].known THEN "none"
                         ELSE IF Row(w).duo = "none" THEN "live" ELSE Row(w).duo
             sees == IF Visible(Job(w)) = "none" \/ ~Asks(w) THEN fallback
                     ELSE Visible(Job(w))
  <2>1. fallback \in Seen /\ sees \in Seen
    BY <1>4 DEF RunRow, DuoStatus, Seen, Visible, TypeOK, Remote
  <2>2. PICK s \in {fallback, sees} :
          mem' = [mem EXCEPT ![w] = [mem[w] EXCEPT !.seen = s, !.pc = "withdraw"]]
    BY <1>5 DEF CancelLookUp, TypeOK
  <2> HIDE DEF fallback, sees
  <2> DEFINE m == [mem[w] EXCEPT !.seen = s, !.pc = "withdraw"]
  <2>3. m \in Memory /\ m.run = mem[w].run /\ m.pc = "withdraw"
    BY <1>3, <1>4, <2>1, <2>2 DEF Memory
  <2>4. UNCHANGED storeVars /\ task' \in [Run -> Remote]
    BY <1>5 DEF CancelLookUp, TypeOK
  <2>5. mem' = [mem EXCEPT ![w] = m]
    BY <2>2
  <2> HIDE DEF m
  <2> QED
    BY <1>1, <1>2, <1>3, <1>4, <2>3, <2>4, <2>5, NoteStep
<1>6. CASE WithdrawSettled(w)
  <2> DEFINE seen == mem[w].seen
             known == [Row(w) EXCEPT !.task = TRUE, !.duo = seen]
             row == IF seen = "none" THEN Row(w) ELSE known
  <2>1. WriteOnly(w, Closed(row, OutcomeOf(seen)), "release")
    BY <1>6 DEF WithdrawSettled
  <2>2. known \in WideRow /\ known.sub = Row(w).sub
    BY <1>4, SeenRow
  <2>3. row \in WideRow /\ row.sub = Row(w).sub
    BY <1>4, <2>2, RunRowIsWide
  <2> HIDE DEF row
  <2>4. Closed(row, OutcomeOf(seen)) \in WideRow
        /\ Closed(row, OutcomeOf(seen)).sub = Row(w).sub
    BY <2>3, OutcomeIsTerminal, ClosedRow
  <2> QED
    BY <1>1, <1>2, <1>3, <2>1, <2>4, WriteStep
<1>7. CASE Withdraw(w)
  <2>1. PICK next \in {"withdrawn", "refused"} : Goto(w, next)
    BY <1>7 DEF Withdraw
  <2>2. UNCHANGED storeVars /\ task' \in [Run -> Remote]
    BY <1>4, <1>7 DEF Withdraw, TypeOK, Remote
  <2> QED
    BY <1>1, <1>2, <1>3, <1>4, <2>1, <2>2, MoveStep
<1>8. CASE Withdrawn(w)
  <2> DEFINE known == [Row(w) EXCEPT !.task = TRUE, !.duo = "cancelled"]
             row == Closed(known, "cancelled")
  <2>1. WriteOnly(w, row, "release")
    BY <1>8 DEF Withdrawn
  <2>2. known \in WideRow /\ known.sub = Row(w).sub
    BY <1>4, SeenRow DEF DuoStatus
  <2> HIDE DEF known
  <2>3. row \in WideRow /\ row.sub = Row(w).sub
    BY <2>2, ClosedRow DEF Terminal
  <2> HIDE DEF row
  <2> QED
    BY <1>1, <1>2, <1>3, <2>1, <2>3, WriteStep
<1>9. CASE WithdrawRefused(w)
  <2> DEFINE known == [Row(w) EXCEPT !.task = TRUE]
             row == Closed(known, "failed")
  <2>1. known \in WideRow /\ known.sub = Row(w).sub
    BY <1>4, KnownRow
  <2>2. CASE WriteOnly(w, row, "release")
    <3> HIDE DEF known
    <3>1. row \in WideRow /\ row.sub = Row(w).sub
      BY <2>1, ClosedRow DEF Terminal
    <3> HIDE DEF row
    <3> QED
      BY <1>1, <1>2, <1>3, <2>2, <3>1, WriteStep
  <2>3. CASE WriteOnly(w, Deferred(w, "retry_wait", "cancel_task", mem[w].att + 1),
                       "release")
    BY <1>1, <1>2, <1>3, <2>3, BusyNumbers, Names, DeferStep
  <2> QED
    BY <1>9, <2>2, <2>3 DEF WithdrawRefused
<1> QED
  BY <1>5, <1>6, <1>7, <1>8, <1>9

LEMMA HandlerSteps ==
  ASSUME TypeOK, NEW w \in Worker,
         \/ CallFails(w) \/ FailTransient(w) \/ FailPermanent(w)
         \/ FailUnrecorded(w) \/ ReleasePhone(w) \/ Release(w)
  PROVE  TypeOK' /\ Quiet
<1>1. mem[w].pc # "idle"
  BY DEF CallFails, Throws, FailTransient, FailPermanent, FailUnrecorded,
    ReleasePhone, FreesEarly, Release, At
<1>2. HistoryOK'
  <2>1. CASE Release(w)
    <3>1. Job(w) \in Run
      BY <1>1, BusyJob
    <3>2. CASE NoFault
      BY <3>2, FaultCount
    <3>3. CASE lost' = lost \cup {Job(w)} /\ Inject("net") /\ UNCHANGED missed
      BY <3>1, <3>3, FaultAssumption DEF TypeOK, HistoryOK, Inject
    <3> QED
      BY <2>1, <3>2, <3>3 DEF Release
  <2> QED
    BY <2>1, FaultCount DEF CallFails, FailTransient, FailPermanent, FailUnrecorded,
      ReleasePhone, AllFaults
<1>3. {"fail", "permanent", "release"} \subseteq Pc \ {"idle", "add"}
  BY DEF Pc
<1>4. /\ UNCHANGED sends /\ task' \in [Run -> Remote]
      /\ Job(w) \in Run /\ Row(w) \in RunRow /\ mem[w] \in Memory
  BY <1>1, BusyJob DEF CallFails, FailTransient, FailPermanent, FailUnrecorded,
    ReleasePhone, Release, WriteOnly, TypeOK
<1>5. Closed(Row(w), "failed") \in WideRow
      /\ Closed(Row(w), "failed").sub = Row(w).sub
  BY <1>1, BusyNumbers, ClosedRow DEF Terminal
<1>6. CASE CallFails(w)
  <2>1. PICK next \in {"fail", "permanent"} : Goto(w, next)
    BY <1>6 DEF CallFails
  <2>2. UNCHANGED storeVars
    BY <1>6 DEF CallFails
  <2> QED
    BY <1>1, <1>2, <1>3, <1>4, <2>1, <2>2, MoveStep
<1>7. CASE FailTransient(w)
  <2> DEFINE n == mem[w].att + 1
             row == [Closed(Row(w), "failed") EXCEPT !.attempts = n]
  <2>1. n \in Nat /\ mem[w].stage \in Stage
    BY <1>1, BusyNumbers
  <2>2. row \in WideRow /\ row.sub = Row(w).sub
    BY <1>5, <2>1 DEF WideRow
  <2>3. CASE WriteOnly(w, row, "release")
    <3> HIDE DEF row
    <3> QED
      BY <1>1, <1>2, <1>3, <2>2, <2>3, WriteStep
  <2>4. CASE WriteOnly(w, Deferred(w, "retry_wait", mem[w].stage, n), "release")
    BY <1>1, <1>2, <1>3, <2>1, <2>4, DeferStep
  <2> QED
    BY <1>7, <2>3, <2>4 DEF FailTransient
<1>8. CASE FailPermanent(w)
  <2>1. WriteOnly(w, Closed(Row(w), "failed"), "release")
    BY <1>8 DEF FailPermanent
  <2> QED
    BY <1>1, <1>2, <1>3, <1>5, <2>1, WriteStep
<1>9. CASE FailUnrecorded(w)
  <2>1. Goto(w, "release") /\ UNCHANGED storeVars
    BY <1>9 DEF FailUnrecorded
  <2> QED
    BY <1>1, <1>2, <1>3, <1>4, <2>1, MoveStep
<1>10. CASE ReleasePhone(w)
  <2> DEFINE m == [mem[w] EXCEPT !.held = FALSE]
  <2>1. m \in Memory /\ m.run = mem[w].run /\ m.pc = mem[w].pc
    BY <1>4 DEF Memory
  <2>2. mem' = [mem EXCEPT ![w] = m]
    BY <1>10 DEF ReleasePhone
  <2>3. mem[w].pc \in Pc \ {"idle", "add"}
    BY <1>4, <1>10 DEF ReleasePhone, FreesEarly, Memory
  <2>4. UNCHANGED <<run, opened, enabled>> /\ phone' \in [Phone -> PhoneRow]
    BY <1>10, PhoneRows DEF ReleasePhone, ReleasePhoneLease, TypeOK, StoreTypeOK
  <2> HIDE DEF m
  <2>5. /\ mem' \in [Worker -> Memory]
        /\ \A v \in Worker : mem'[v].run = NoRun <=> mem'[v].pc = "idle"
        /\ \A v \in Worker : mem'[v].pc = "add" =>
             mem[v].pc = "add" /\ mem'[v].run = mem[v].run
    BY <1>1, <2>1, <2>2, <2>3, Moved
  <2> QED
    BY <1>2, <1>4, <2>4, <2>5, StoreStep DEF TypeOK, StoreTypeOK
<1>11. CASE Release(w)
  <2>1. /\ run' \in [Run -> RunRow]
        /\ \A q \in Run : run'[q].sub = run[q].sub
    <3>1. run' = run \/ run' = [run EXCEPT ![Job(w)] = Unlocked(Row(w))]
      BY <1>11 DEF Release, ReleaseRunLease, Row, storeVars
    <3>2. Unlocked(Row(w)) \in RunRow /\ Unlocked(Row(w)).sub = run[Job(w)].sub
      BY <1>4, UnlockedRow DEF Row
    <3> QED
      BY <1>4, <3>1, <3>2 DEF TypeOK, StoreTypeOK
  <2>2. /\ phone' \in [Phone -> PhoneRow] /\ opened' \in [Run -> SUBSET Nat]
        /\ enabled' \in [Run -> BOOLEAN]
    BY <1>11, PhoneRows DEF Release, ReleaseRunLease, storeVars, TypeOK, StoreTypeOK
  <2>3. /\ mem' \in [Worker -> Memory]
        /\ \A v \in Worker : mem'[v].run = NoRun <=> mem'[v].pc = "idle"
        /\ \A v \in Worker : mem'[v].pc = "add" =>
             mem[v].pc = "add" /\ mem'[v].run = mem[v].run
    BY <1>11, StoreAssumption
    DEF Release, Finish, Idle, Memory, TypeOK, Pc, Stage, Seen
  <2> QED
    BY <1>2, <1>4, <2>1, <2>2, <2>3, StoreStep
<1> QED
  BY <1>6, <1>7, <1>8, <1>9, <1>10, <1>11

-----------------------------------------------------------------------------
(* The environment *)

LEMMA EnvironmentSteps ==
  ASSUME TypeOK,
         \/ \E w \in Worker : Crash(w)
         \/ \E r \in Run : \/ LeaseExpires(r) \/ UserCancels(r)
                           \/ UserTogglesSchedule(r) \/ UserRemovesPlan(r)
                           \/ DuoPlusTakes(r) \/ DuoPlusFinishes(r)
         \/ \E p \in Phone : PhoneLeaseExpires(p)
  PROVE  TypeOK' /\ Quiet
<1>1. HistoryOK'
  BY FaultCount DEF Crash, LeaseExpires, UserCancels, UserTogglesSchedule,
    UserRemovesPlan, DuoPlusTakes, DuoPlusFinishes, PhoneLeaseExpires, AllFaults
<1>2. UNCHANGED sends /\ task' \in [Run -> Remote]
  BY DEF Crash, LeaseExpires, UserCancels, UserTogglesSchedule, UserRemovesPlan,
    DuoPlusTakes, DuoPlusFinishes, PhoneLeaseExpires, TypeOK, Remote
<1>3. CASE \E w \in Worker : Crash(w)
  BY <1>1, <1>2, <1>3, FinishStep DEF Crash
<1>4. ASSUME ~\E w \in Worker : Crash(w)
      PROVE  TypeOK' /\ Quiet
  <2>1. UNCHANGED mem
    BY <1>4 DEF LeaseExpires, UserCancels, UserTogglesSchedule, UserRemovesPlan,
      DuoPlusTakes, DuoPlusFinishes, PhoneLeaseExpires
  <2>2. /\ run' \in [Run -> RunRow]
        /\ \A q \in Run : run'[q].sub = run[q].sub
    <3>1. \A row \in RunRow :
            /\ [row EXCEPT !.fresh = FALSE] \in RunRow
            /\ [row EXCEPT !.cancel = TRUE] \in RunRow
            /\ [row EXCEPT !.status = "removed"] \in RunRow
      BY DEF RunRow, Status
    <3>2. PICK r : \/ run' = run
                   \/ r \in Run /\ run' = [run EXCEPT ![r].fresh = FALSE]
                   \/ r \in Run /\ run' = [run EXCEPT ![r].cancel = TRUE]
                   \/ r \in Run /\ run' = [run EXCEPT ![r].status = "removed"]
      BY <1>4 DEF LeaseExpires, ExpireRunLease, UserCancels, RequestCancel,
        UserTogglesSchedule, SetScheduleEnabled, UserRemovesPlan,
        RemovePristinePlan, DuoPlusTakes, DuoPlusFinishes, storeVars,
        PhoneLeaseExpires, ExpirePhoneLease
    <3>3. \A q \in Run : run[q] \in RunRow
      BY DEF TypeOK, StoreTypeOK
    <3>4. /\ [run[r] EXCEPT !.fresh = FALSE].sub = run[r].sub
          /\ [run[r] EXCEPT !.cancel = TRUE].sub = run[r].sub
          /\ [run[r] EXCEPT !.status = "removed"].sub = run[r].sub
          \/ r \notin Run
      BY <3>3 DEF RunRow
    <3> QED
      BY <3>1, <3>2, <3>3, <3>4 DEF TypeOK, StoreTypeOK
  <2>3. /\ phone' \in [Phone -> PhoneRow] /\ opened' \in [Run -> SUBSET Nat]
        /\ enabled' \in [Run -> BOOLEAN]
    BY <1>4 DEF LeaseExpires, ExpireRunLease, UserCancels, RequestCancel,
      UserTogglesSchedule, SetScheduleEnabled, UserRemovesPlan,
      RemovePristinePlan, DuoPlusTakes, DuoPlusFinishes, storeVars,
      PhoneLeaseExpires, ExpirePhoneLease, TypeOK, StoreTypeOK, PhoneRow
  <2> QED
    BY <1>1, <1>2, <2>1, <2>2, <2>3, StoreStep DEF TypeOK
<1> QED
  BY <1>3, <1>4

-----------------------------------------------------------------------------
(* The fence *)

\* Why addTask goes out once: nothing is sent for a run whose attempt is not
\* recorded, and the one worker that recorded it alone stands before addTask.
SubmissionInv ==
  /\ \A r \in Run : sends[r] <= 1 /\ (run[r].sub = "never" => sends[r] = 0)
  /\ \A w \in Worker : mem[w].pc = "add" =>
       run[Job(w)].sub # "never" /\ sends[Job(w)] = 0
  /\ \A v, w \in Worker :
       v # w /\ mem[v].pc = "add" /\ mem[w].pc = "add" => Job(v) # Job(w)

LEMMA QuietKeeps ==
  ASSUME TypeOK, SubmissionInv, Quiet
  PROVE  SubmissionInv'
BY BusyJob DEF SubmissionInv, Quiet, Job

LEMMA AuthorizeStep ==
  ASSUME TypeOK, SubmissionInv, NEW w \in Worker, Authorize(w)
  PROVE  TypeOK' /\ SubmissionInv'
<1>1. mem[w].pc # "idle" /\ mem[w].pc # "add"
  BY DEF Authorize, At
<1>2. Job(w) \in Run /\ Row(w) \in RunRow /\ mem[w] \in Memory
      /\ Row(w).attempts \in Nat
  BY <1>1, BusyJob, BusyNumbers
<1>3. HistoryOK'
  BY FaultCount DEF Authorize, AllFaults
<1>4. CASE /\ AuthorizeRunSubmission(Job(w), w)
           /\ \/ Goto(w, "add") /\ NoFault
              \/ Goto(w, "fail") /\ Fault("net")
           /\ UNCHANGED <<task, sends>>
  <2> DEFINE row == SubmissionBegun(Row(w))
  <2>1. row \in RunRow /\ row.sub = "attempting"
    BY <1>2, Names DEF SubmissionBegun, RunRow, Submission
  <2>2. run[Job(w)].sub = "never"
    BY <1>4 DEF AuthorizeRunSubmission, Authorizable
  <2>3. run' = [run EXCEPT ![Job(w)] = row] /\ UNCHANGED <<phone, opened, enabled>>
    BY <1>4 DEF AuthorizeRunSubmission, Row
  <2> HIDE DEF row
  <2>4. PICK next \in {"add", "fail"} : mem' = [mem EXCEPT ![w].pc = next]
    BY <1>4 DEF Goto
  <2>5. mem' \in [Worker -> Memory]
        /\ \A v \in Worker : mem'[v].run = NoRun <=> mem'[v].pc = "idle"
    BY <1>1, <2>4 DEF TypeOK, Memory, Pc
  <2>6. TypeOK'
    BY <1>2, <1>3, <1>4, <2>1, <2>3, <2>5 DEF TypeOK, StoreTypeOK
  <2>7. \A r \in Run : run'[r].sub = IF r = Job(w) THEN "attempting" ELSE run[r].sub
    BY <1>2, <2>1, <2>3 DEF TypeOK, StoreTypeOK
  <2>8. /\ \A v \in Worker : Job(v)' = Job(v)
        /\ \A v \in Worker : mem'[v].pc = "add" => v = w \/ mem[v].pc = "add"
    BY <2>4 DEF Job, TypeOK, Memory
  <2>9. \A v \in Worker : mem[v].pc = "add" => Job(v) # Job(w) /\ Job(v) \in Run
    BY <2>2, BusyJob DEF SubmissionInv
  <2>10. UNCHANGED sends /\ sends[Job(w)] = 0
    BY <1>2, <1>4, <2>2 DEF SubmissionInv
  <2>11. \A r \in Run : sends'[r] <= 1 /\ (run'[r].sub = "never" => sends'[r] = 0)
    BY <2>7, <2>10 DEF SubmissionInv
  <2>12. \A v \in Worker : mem'[v].pc = "add" =>
           run'[Job(v)'].sub # "never" /\ sends'[Job(v)'] = 0
    BY <1>2, <2>7, <2>8, <2>9, <2>10 DEF SubmissionInv
  <2>13. \A u, v \in Worker :
           u # v /\ mem'[u].pc = "add" /\ mem'[v].pc = "add" => Job(u)' # Job(v)'
    BY <2>8, <2>9 DEF SubmissionInv
  <2> QED
    BY <2>6, <2>11, <2>12, <2>13 DEF SubmissionInv
<1>5. CASE WriteOnly(w, Deferred(w, "retry_wait", "resolve_task", Row(w).attempts),
                     "release")
  <2>1. "release" \in Pc \ {"idle", "add"} /\ "resolve_task" \in Stage
    BY DEF Pc, Stage
  <2> QED
    BY <1>1, <1>2, <1>3, <1>5, <2>1, DeferStep, QuietKeeps
<1> QED
  BY <1>4, <1>5 DEF Authorize

LEMMA AddTaskStep ==
  ASSUME TypeOK, SubmissionInv, NEW w \in Worker, AddTask(w)
  PROVE  TypeOK' /\ SubmissionInv'
<1>1. mem[w].pc = "add"
  BY DEF AddTask, At
<1>2. Job(w) \in Run /\ mem[w] \in Memory
  BY <1>1, BusyJob
<1>3. HistoryOK'
  BY <1>2, FaultCount, MissCount DEF AddTask, AllFaults
<1>4. UNCHANGED storeVars
  BY DEF AddTask
<1>5. CASE /\ sends' = [sends EXCEPT ![Job(w)] = @ + 1]
           /\ task' = [task EXCEPT ![Job(w)] = "sent"]
           /\ Goto(w, "reply")
  <2>1. TypeOK'
    BY <1>1, <1>2, <1>3, <1>4, <1>5
    DEF TypeOK, StoreTypeOK, storeVars, Goto, Memory, Pc, Remote
  <2>2. /\ sends[Job(w)] = 0 /\ run[Job(w)].sub # "never"
        /\ \A v \in Worker : v # w /\ mem[v].pc = "add" => Job(v) # Job(w)
    BY <1>1 DEF SubmissionInv
  <2>3. \A r \in Run : sends'[r] = IF r = Job(w) THEN 1 ELSE sends[r]
    BY <1>2, <1>5, <2>2 DEF TypeOK
  <2>4. /\ \A v \in Worker : Job(v)' = Job(v)
        /\ \A v \in Worker : mem'[v].pc = "add" => v # w /\ mem[v].pc = "add"
    BY <1>5 DEF Goto, Job, TypeOK, Memory
  <2>5. \A v \in Worker : mem[v].pc = "add" => Job(v) \in Run
    BY BusyJob
  <2>6. UNCHANGED run
    BY <1>4 DEF storeVars
  <2> QED
    BY <2>1, <2>2, <2>3, <2>4, <2>5, <2>6 DEF SubmissionInv
<1>6. CASE Goto(w, "ambiguous") /\ UNCHANGED <<task, sends>>
  <2>1. "ambiguous" \in Pc \ {"idle", "add"}
    BY DEF Pc
  <2>2. TypeOK' /\ Quiet
    BY <1>1, <1>3, <1>4, <1>6, <2>1, MoveStep DEF TypeOK
  <2> QED
    BY <2>2, QuietKeeps
<1> QED
  BY <1>5, <1>6 DEF AddTask

-----------------------------------------------------------------------------
(* The theorems *)

LEMMA InitialState == Init => TypeOK /\ SubmissionInv
<1> SUFFICES ASSUME Init PROVE TypeOK /\ SubmissionInv
  OBVIOUS
<1>1. NewRow \in RunRow
  BY StoreAssumption
  DEF NewRow, RunRow, Status, Open, Stage, Submission, DuoStatus
<1>2. Unleased \in PhoneRow
  BY DEF Unleased, PhoneRow
<1>3. StoreTypeOK
  BY <1>1, <1>2 DEF Init, StoreInit, StoreTypeOK
<1>4. Idle \in Memory
  BY StoreAssumption DEF Idle, Memory, Pc, Stage, Seen
<1>5. TypeOK
  BY <1>3, <1>4, FaultAssumption DEF Init, TypeOK, HistoryOK, Idle, Remote
<1>6. SubmissionInv
  BY DEF Init, SubmissionInv, Idle
<1> QED
  BY <1>5, <1>6

\* Every step keeps both invariants: all but two are Quiet.
LEMMA Step ==
  ASSUME TypeOK, SubmissionInv, [Next]_vars
  PROVE  TypeOK' /\ SubmissionInv'
<1>1. CASE UNCHANGED vars
  BY <1>1 DEF vars, TypeOK, StoreTypeOK, HistoryOK, SubmissionInv, Job
<1>2. CASE \E w \in Worker, r \in Run : Claim(w, r)
  BY <1>2, RoutingSteps, QuietKeeps
<1>3. CASE \E w \in Worker : ReapTick(w)
  <2>1. PICK w \in Worker : ReapTick(w)
    BY <1>3
  <2>2. PICK r \in Run : TRUE
    BY <2>1 DEF ReapTick, ReapOnly, Expired
  <2> QED
    BY <2>1, <2>2, RoutingSteps, QuietKeeps
<1>4. ASSUME NEW w \in Worker, Work(w)
      PROVE  TypeOK' /\ SubmissionInv'
  <2>1. CASE Begin(w) \/ NotRenewed(w) \/ TickDeadline(w) \/ Promote(w)
    <3>1. Job(w) \in Run
      BY <2>1, BusyJob DEF Begin, NotRenewed, TickDeadline, Promote, At
    <3> QED
      BY <2>1, <3>1, RoutingSteps, QuietKeeps
  <2>2. CASE AcquireNew(w) \/ AcquireExisting(w)
    BY <2>2, AcquireSteps, QuietKeeps
  <2>3. CASE Probe(w) \/ Recheck(w) \/ Locate(w) \/ Resolve(w)
    BY <2>3, LookUpSteps, QuietKeeps
  <2>4. CASE NoPhone(w) \/ PhoneReady(w) \/ PhoneNotReady(w) \/ Requeue(w)
    BY <2>4, PhoneSteps, QuietKeeps
  <2>5. CASE Authorize(w)
    BY <2>5, AuthorizeStep
  <2>6. CASE AddTask(w)
    BY <2>6, AddTaskStep
  <2>7. CASE \/ AddReply(w) \/ RecordUnknown(w) \/ RecordAccepted(w)
             \/ Validate(w) \/ Orphan(w) \/ Store(w)
    BY <2>7, AnswerSteps, QuietKeeps
  <2>8. CASE \/ Wait(w) \/ GiveUp(w) \/ SyncLive(w) \/ SyncTerminal(w)
             \/ RerunRejected(w) \/ Replayed(w)
    BY <2>8, ExistingSteps, QuietKeeps
  <2>9. CASE SyncFailed(w) \/ Rerun(w) \/ Reopen(w)
    BY <2>9, ReplaySteps, QuietKeeps
  <2>10. CASE \/ CancelLookUp(w) \/ WithdrawSettled(w) \/ Withdraw(w)
              \/ Withdrawn(w) \/ WithdrawRefused(w)
    BY <2>10, CancelSteps, QuietKeeps
  <2>11. CASE \/ CallFails(w) \/ FailTransient(w) \/ FailPermanent(w)
              \/ FailUnrecorded(w) \/ Release(w)
    BY <2>11, HandlerSteps, QuietKeeps
  <2> QED
    BY <1>4, <2>1, <2>2, <2>3, <2>4, <2>5, <2>6, <2>7, <2>8, <2>9, <2>10, <2>11
    DEF Work
<1>5. CASE \E w \in Worker : ReleasePhone(w)
  BY <1>5, HandlerSteps, QuietKeeps
<1>6. CASE \/ \E w \in Worker : Crash(w)
           \/ \E r \in Run : \/ LeaseExpires(r) \/ UserCancels(r)
                             \/ UserTogglesSchedule(r) \/ UserRemovesPlan(r)
                             \/ DuoPlusTakes(r) \/ DuoPlusFinishes(r)
           \/ \E p \in Phone : PhoneLeaseExpires(p)
  BY <1>6, EnvironmentSteps, QuietKeeps
<1> QED
  BY <1>1, <1>2, <1>3, <1>4, <1>5, <1>6 DEF Next

\* Every reachable row, phone, worker memory and remote task is well formed;
\* in particular neither acquire_phone_lease nor a reconciliation ever leaves a
\* row of scheduler_runs above its attempt limit.
THEOREM TypeCorrect == Spec => []TypeOK
<1>1. TypeOK /\ SubmissionInv /\ [Next]_vars => (TypeOK /\ SubmissionInv)'
  BY Step
<1> QED
  BY <1>1, InitialState, PTL DEF Spec

\* addTask leaves at most once for a run, for every number of workers, runs
\* and faults: the fence of authorize_run_submission holds across crashes,
\* lease overruns and lost answers.
THEOREM SubmitsAtMostOnce == Spec => []AtMostOneSubmission
<1>1. TypeOK /\ SubmissionInv /\ [Next]_vars => (TypeOK /\ SubmissionInv)'
  BY Step
<1>2. SubmissionInv => AtMostOneSubmission
  BY DEF SubmissionInv, AtMostOneSubmission
<1> QED
  BY <1>1, <1>2, InitialState, PTL DEF Spec
=============================================================================
