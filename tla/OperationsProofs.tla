-------------------------- MODULE OperationsProofs --------------------------
(***************************************************************************)
(* What operators see and steer, for every size: DeviceCycle and Console,  *)
(* which share no state, and the instance in which they run beside         *)
(* PhonePower.                                                             *)
(*                                                                         *)
(* DeviceCycle, for every program, whatever its tasks, phases and days:    *)
(* phases are worked through in turn, the profile's score and completion   *)
(* follow from the runs, and a cancelled cycle ends.  Two things carry     *)
(* that proof.  The gate is monotone: credits are only added and a         *)
(* succeeded run is never touched again, so what the gate once admitted    *)
(* stays justified (GateStays).  And refresh_profile_readiness, which      *)
(* every transaction on the cycle calls, keeps profile and cycle together  *)
(* when it is given a status the cycle may take (ProfileRefreshKeeps).     *)
(*                                                                         *)
(* Console, for any number of schedules, cycles and saved sections, and of *)
(* refreshes and calls under way: nothing is shown that the server has not *)
(* had.  That must hold of every answer that is still on its way too, and  *)
(* of what a call will show if it is accepted; the server only moves on    *)
(* (MovesOn), so what has once been read stays true of it (WasStays).      *)
(* That runs and versions stay within the edits that may be made takes the *)
(* calls on their way into account: each has been counted as an edit and   *)
(* may yet add to any entry (EditsCounted).                                *)
(***************************************************************************)
EXTENDS MCOperations, FiniteSetTheorems, TLAPS

-----------------------------------------------------------------------------
(* The device cycle.                                                       *)

WorkRow == [status : WorkStatus, sub : {"never", "unknown", "accepted"},
            cancel : BOOLEAN, closed : 0..MaxDay]

\* Before its activation a cycle has neither work nor a profile to lose.
BeforeActivation ==
  /\ creator \in {"start", "inserted"} =>
       /\ \A t \in Task : work[t].status = "absent" /\ work[t].sub = "never"
       /\ credited = {} /\ profile.state \in {"new", "retired"}
  /\ creator = "start" => cycle = "absent"
  /\ creator = "inserted" => cycle \in {"provisioning", "cancelled"}

\* A row that an update holds is open, so no success is ever overwritten.
HeldRowsOpen == \A t \in closing : work[t].status \in OpenWork

\* What the operator's transaction checked still holds when it sets the status.
StillSettable == manager # "none" => Settable(manager)

RetiredIsCancelled == profile.state = "retired" => cycle = "cancelled"

\* What profile and cycle say of the runs.
Agreed ==
  /\ SubmittedInTurn /\ ReadyWasEarned /\ ScoreIsTheWork /\ CompletedTogether
  /\ CancelledCycleEnds /\ RetiredIsCancelled

CycleInv ==
  /\ CycleTypeOK /\ BeforeActivation /\ HeldRowsOpen /\ StillSettable /\ Agreed

\* Rows w in place of the present ones: successes stay as they are.
SuccessesStay(w) ==
  \A t \in Task : work[t].status = "succeeded" =>
    w[t].status = "succeeded" /\ w[t].closed = work[t].closed

\* ... nothing is reopened, and no request to cancel is forgotten.
NothingReopens(w) ==
  \A t \in Task : w[t].status \in OpenWork =>
    work[t].status \in OpenWork /\ (work[t].cancel => w[t].cancel)

\* ... and a row is submitted only through the gate.
GatedOnly(w) ==
  \A t \in Task : w[t].sub # "never" =>
    work[t].sub # "never" \/ GateAllows(work, credited, Rank(t))

-----------------------------------------------------------------------------
(* The gate *)

LEMMA Words ==
  /\ OpenWork \subseteq WorkStatus \ {"succeeded", "failed", "cancelled", "absent"}
  /\ {"succeeded", "failed", "cancelled"} \cap OpenWork = {}
BY DEF OpenWork, WorkStatus

LEMMA TaskFacts ==
  /\ IsFiniteSet(Task) /\ Required \subseteq Task /\ MaxDay \in Nat \ {0}
  /\ \A t \in Task : /\ PhaseOf[t] \in 0..4 /\ DayOf[t] \in Nat
                     /\ Rank(t) \in 1..4
  /\ \A rank \in 1..4 : PhaseStart[rank] \in Nat
  /\ MinRuns \in Nat /\ MinDays \in Nat /\ MaxTrouble \in Nat /\ MaxRequests \in Nat
BY CycleAssumption DEF Rank

\* Early credits and the days they were earned on only become more.
LEMMA AppsStayMet ==
  ASSUME CycleTypeOK, NEW w \in [Task -> WorkRow], NEW c \in SUBSET Task,
         credited \subseteq c, \A t \in credited : w[t].closed = work[t].closed,
         AppsMet(work, credited)
  PROVE  AppsMet(w, c)
<1> DEFINE early == {t \in credited : PhaseOf[t] \in {0, 1} /\ DayOf[t] < PhaseStart[2]}
           now == {t \in c : PhaseOf[t] \in {0, 1} /\ DayOf[t] < PhaseStart[2]}
           days == {work[t].closed : t \in early}
           daysNow == {w[t].closed : t \in now}
<1>1. Cardinality(early) >= MinRuns /\ Cardinality(days) >= MinDays
  BY DEF AppsMet
<1>2. early \in SUBSET now /\ now \in SUBSET Task
  OBVIOUS
<1>3. days \in SUBSET daysNow /\ daysNow \in SUBSET (0..MaxDay)
  BY <1>2 DEF WorkRow
<1>4. IsFiniteSet(now) /\ IsFiniteSet(daysNow)
  <2>1. IsFiniteSet(0..MaxDay)
    <3>1. 0 \in Int /\ MaxDay \in Int
      BY TaskFacts
    <3> QED
      BY <3>1, FS_Interval
  <2> QED
    BY <1>2, <1>3, <2>1, FS_Subset, TaskFacts
<1> HIDE DEF early, now, days, daysNow
<1>5. Cardinality(early) <= Cardinality(now) /\ Cardinality(days) <= Cardinality(daysNow)
  BY <1>2, <1>3, <1>4, FS_Subset
<1>6. /\ Cardinality(early) \in Nat /\ Cardinality(now) \in Nat
      /\ Cardinality(days) \in Nat /\ Cardinality(daysNow) \in Nat
  BY <1>2, <1>3, <1>4, FS_Subset, FS_CardinalityType
<1>7. Cardinality(now) >= MinRuns /\ Cardinality(daysNow) >= MinDays
  BY <1>1, <1>5, <1>6, TaskFacts
<1> QED
  BY <1>7 DEF AppsMet, now, daysNow

\* What the gate asks of the earlier phases.
LEMMA GateMeans ==
  ASSUME NEW w, NEW c, NEW rank \in 1..4, GateAllows(w, c, rank)
  PROVE  /\ \A u \in Required :
              PhaseOf[u] # 0 /\ PhaseOf[u] < rank => w[u].status = "succeeded"
         /\ rank > 1 => AppsMet(w, c)
BY DEF GateAllows, Missing, Finished

\* Once in turn, always in turn.
LEMMA GateStays ==
  ASSUME CycleInv, work' \in [Task -> WorkRow], credited' \in SUBSET Task,
         credited \subseteq credited', SuccessesStay(work'), GatedOnly(work')
  PROVE  SubmittedInTurn'
<1> SUFFICES ASSUME NEW t \in Task, work'[t].sub # "never"
             PROVE  /\ \A u \in Required :
                         PhaseOf[u] # 0 /\ PhaseOf[u] < Rank(t) =>
                           work'[u].status = "succeeded"
                    /\ Rank(t) > 1 => AppsMet(work', credited')
  BY DEF SubmittedInTurn
<1>1. Rank(t) \in 1..4 /\ Required \subseteq Task
  BY TaskFacts
<1>2. /\ \A u \in Required :
           PhaseOf[u] # 0 /\ PhaseOf[u] < Rank(t) => work[u].status = "succeeded"
      /\ Rank(t) > 1 => AppsMet(work, credited)
  BY <1>1, GateMeans DEF GatedOnly, CycleInv, Agreed, SubmittedInTurn
<1>3. \A u \in credited : work'[u].closed = work[u].closed
  BY DEF CycleInv, CycleTypeOK, Agreed, ScoreIsTheWork, SuccessesStay
<1>4. AppsMet(work, credited) => AppsMet(work', credited')
  BY <1>3, AppsStayMet DEF CycleInv
<1> QED
  BY <1>1, <1>2, <1>4 DEF SuccessesStay

-----------------------------------------------------------------------------
(* refresh_profile_readiness *)

LEMMA StateMeans ==
  ASSUME CycleTypeOK, NEW status \in CycleStatus, NEW w, NEW c
  PROVE  LET s == NextState(status, w, c) IN
         /\ s \in ProfileState
         /\ s = "retired" <=> profile.state = "retired" \/ status = "cancelled"
         /\ s = "completed" <=>
              /\ profile.state # "retired" /\ status # "cancelled"
              /\ profile.state = "completed" \/ WholeDone(w, c)
         /\ s = "ready" => profile.state = "ready" \/ GateAllows(w, c, 2)
BY DEF NextState, ProfileState

\* The rows, the credits and the status that a transaction on the cycle may
\* refresh the profile with.
Refreshable(status, on, w, c) ==
  /\ w \in [Task -> WorkRow] /\ c \in SUBSET Task /\ on \in [Task -> BOOLEAN]
  /\ credited \subseteq c /\ \A t \in c : w[t].status = "succeeded"
  /\ SuccessesStay(w)
  /\ \/ status = cycle
     \/ /\ cycle \notin {"completed", "cancelled"}
        /\ status \in {"active", "paused", "blocked", "cancelled"}
  /\ status = "completed" => \A t \in Task : w[t].status \notin OpenWork
  /\ status = "cancelled" =>
       \A t \in Task : ~on[t] /\ (w[t].status \in OpenWork => w[t].cancel)

LEMMA ProfileRefreshKeeps ==
  ASSUME CycleInv, NEW status, NEW on, NEW w, NEW c,
         Refreshable(status, on, w, c), Refresh(status, on, w, c),
         work' = w, credited' = c, SubmittedInTurn'
  PROVE  /\ Agreed'
         /\ profile' \in [state : ProfileState, earned : 0..Cardinality(Task)]
         /\ cycle' \in {status, "completed"} /\ cycle' \in CycleStatus
         /\ enabled' \in [Task -> BOOLEAN]
<1> DEFINE s == NextState(status, w, c)
           whole == WholeDone(w, c) /\ status \notin {"completed", "cancelled"}
<1>1. status \in CycleStatus
  BY DEF CycleInv, CycleTypeOK, CycleStatus, Refreshable
<1>2. /\ s \in ProfileState
      /\ s = "retired" <=> profile.state = "retired" \/ status = "cancelled"
      /\ s = "completed" <=> /\ profile.state # "retired" /\ status # "cancelled"
                             /\ profile.state = "completed" \/ WholeDone(w, c)
      /\ s = "ready" => profile.state = "ready" \/ GateAllows(w, c, 2)
  BY <1>1, StateMeans DEF CycleInv
<1> HIDE DEF s
<1>3. profile' = [state |-> s, earned |-> Cardinality(c)]
  BY DEF Refresh, s
<1>4. cycle' = IF whole THEN "completed" ELSE status
  BY DEF Refresh
<1>5. enabled' \in [Task -> BOOLEAN] /\ (~whole => enabled' = on)
  BY DEF Refresh, Refreshable
<1>6. Cardinality(c) \in 0..Cardinality(Task)
  BY TaskFacts, FS_Subset, FS_CardinalityType DEF Refreshable
<1>7. /\ profile.state = "completed" <=> cycle = "completed"
      /\ profile.state = "retired" => cycle = "cancelled"
      /\ cycle = "completed" =>
           \A t \in Required : work[t].status = "succeeded"
      /\ profile.state = "ready" =>
           \A u \in Required : PhaseOf[u] = 1 => work[u].status = "succeeded"
  BY DEF CycleInv, Agreed, CompletedTogether, RetiredIsCancelled, ReadyWasEarned
<1>8. ReadyWasEarned'
  <2> SUFFICES ASSUME s = "ready", NEW u \in Required, PhaseOf[u] = 1
               PROVE  w[u].status = "succeeded"
    BY <1>3 DEF ReadyWasEarned
  <2>1. CASE profile.state = "ready"
    BY <1>7, <2>1, TaskFacts DEF Refreshable, SuccessesStay
  <2>2. CASE GateAllows(w, c, 2)
    <3>1. \A v \in Required : PhaseOf[v] # 0 /\ PhaseOf[v] < 2 => w[v].status = "succeeded"
      BY <2>2, GateMeans
    <3> QED
      BY <3>1
  <2> QED
    BY <1>2, <2>1, <2>2
<1>9. ScoreIsTheWork'
  BY <1>3 DEF ScoreIsTheWork, Refreshable
<1>10. CompletedTogether'
  <2>1. s = "completed" <=> cycle' = "completed"
    BY <1>2, <1>4, <1>7 DEF Refreshable
  <2>2. ASSUME cycle' = "completed"
        PROVE  /\ \A t \in Required : w[t].status = "succeeded"
               /\ \A t \in Task : w[t].status \notin OpenWork
    <3>1. CASE whole
      BY <3>1 DEF WholeDone, Finished
    <3>2. CASE ~whole
      <4>1. status = "completed" /\ cycle = "completed"
        BY <1>4, <2>2, <3>2 DEF Refreshable
      <4> QED
        BY <1>7, <4>1, TaskFacts DEF Refreshable, SuccessesStay
    <3> QED
      BY <3>1, <3>2
  <2> QED
    BY <1>3, <2>1, <2>2 DEF CompletedTogether
<1>11. CancelledCycleEnds'
  BY <1>4, <1>5 DEF CancelledCycleEnds, Refreshable
<1>12. RetiredIsCancelled'
  BY <1>2, <1>3, <1>4, <1>7 DEF RetiredIsCancelled, Refreshable
<1> QED
  BY <1>1, <1>2, <1>3, <1>4, <1>5, <1>6, <1>8, <1>9, <1>10, <1>11, <1>12
  DEF Agreed, CycleStatus

\* Steps that leave the cycle and its profile alone.
LEMMA RowsKeep ==
  ASSUME CycleInv, work' \in [Task -> WorkRow],
         UNCHANGED <<cycle, enabled, credited, profile>>,
         SuccessesStay(work'), NothingReopens(work'), GatedOnly(work')
  PROVE  Agreed'
<1>1. credited' \in SUBSET Task /\ credited \subseteq credited'
  BY DEF CycleInv, CycleTypeOK
<1>2. SubmittedInTurn'
  BY <1>1, GateStays
<1>3. ReadyWasEarned'
  BY TaskFacts DEF CycleInv, Agreed, ReadyWasEarned, SuccessesStay
<1>4. ScoreIsTheWork'
  BY DEF CycleInv, CycleTypeOK, Agreed, ScoreIsTheWork, SuccessesStay
<1>5. CompletedTogether'
  BY TaskFacts DEF CycleInv, Agreed, CompletedTogether, SuccessesStay, NothingReopens
<1>6. CancelledCycleEnds' /\ RetiredIsCancelled'
  BY DEF CycleInv, Agreed, CancelledCycleEnds, RetiredIsCancelled, NothingReopens
<1> QED
  BY <1>2, <1>3, <1>4, <1>5, <1>6 DEF Agreed

-----------------------------------------------------------------------------
(* The steps *)

LEMMA SetFields ==
  ASSUME CycleTypeOK, NEW t \in Task, NEW status \in WorkStatus,
         NEW sub \in {"never", "unknown", "accepted"}, Set(t, status, sub)
  PROVE  /\ work' \in [Task -> WorkRow]
         /\ \A u \in Task \ {t} : work'[u] = work[u]
         /\ work'[t].status = status /\ work'[t].sub = sub
         /\ work'[t].cancel = work[t].cancel /\ work'[t].closed = work[t].closed
BY DEF Set, CycleTypeOK, WorkRow

\* A worker's steps up to the submission and the lookup after it.
LEMMA WorkerKeeps ==
  ASSUME CycleInv, NEW t \in Task,
         Prepare(t) \/ Submit(t) \/ PutBack(t) \/ FindTask(t)
  PROVE  CycleInv'
<1>1. /\ t \notin closing /\ work[t].status \in OpenWork
      /\ UNCHANGED <<cycle, creator, enabled, credited, profile, closing, manager>>
      /\ UNCHANGED <<day, asked>>
      /\ remote' \in SUBSET Task /\ trouble' \in 0..MaxTrouble
  BY TaskFacts DEF Prepare, Submit, PutBack, FindTask, OpenWork, Trouble,
    CycleInv, CycleTypeOK
<1>2. PICK status \in OpenWork, sub \in {"never", "unknown", "accepted"} :
        /\ Set(t, status, sub)
        /\ sub # "never" => work[t].sub # "never" \/ GateAllows(work, credited, Rank(t))
  BY DEF Prepare, Submit, PutBack, FindTask, OpenWork
<1>3. /\ work' \in [Task -> WorkRow]
      /\ \A u \in Task \ {t} : work'[u] = work[u]
      /\ work'[t].status = status /\ work'[t].sub = sub
      /\ work'[t].cancel = work[t].cancel /\ work'[t].closed = work[t].closed
  BY <1>2, SetFields, Words DEF CycleInv
<1>4. SuccessesStay(work') /\ NothingReopens(work') /\ GatedOnly(work')
  BY <1>1, <1>2, <1>3, Words DEF SuccessesStay, NothingReopens, GatedOnly
<1>5. Agreed'
  BY <1>1, <1>3, <1>4, RowsKeep
<1>6. CycleTypeOK'
  BY <1>1, <1>3 DEF CycleInv, CycleTypeOK, WorkRow
<1>7. BeforeActivation'
  BY <1>1, Words DEF CycleInv, BeforeActivation
<1>8. HeldRowsOpen' /\ StillSettable'
  BY <1>1, <1>3 DEF CycleInv, CycleTypeOK, HeldRowsOpen, StillSettable, Settable
<1> QED
  BY <1>5, <1>6, <1>7, <1>8 DEF CycleInv

\* Steps that touch no row: requests, beginnings of an update, time.
LEMMA RowsStay ==
  ASSUME CycleInv, UNCHANGED <<work, cycle, enabled, credited, profile>>
  PROVE  Agreed' /\ work' \in [Task -> WorkRow]
<1>1. work' \in [Task -> WorkRow]
  BY DEF CycleInv, CycleTypeOK, WorkRow
<1>2. SuccessesStay(work') /\ NothingReopens(work') /\ GatedOnly(work')
  BY DEF SuccessesStay, NothingReopens, GatedOnly
<1> QED
  BY <1>1, <1>2, RowsKeep

LEMMA QuietKeeps ==
  ASSUME CycleInv,
         \/ CreateCycle \/ ResumeRefused \/ NextDay
         \/ \E status \in {"paused", "active", "cancelled"} : Ask(status)
         \/ \E t \in Task : BeginClose(t)
         \/ UNCHANGED cycleVars
  PROVE  CycleInv'
<1>1. CASE CreateCycle
  <2>1. /\ cycle = "absent" /\ cycle' = "provisioning" /\ creator' = "inserted"
        /\ UNCHANGED <<work, enabled, credited, profile, closing, manager>>
        /\ UNCHANGED <<day, remote, trouble, asked>>
        /\ creator = "start"
    BY <1>1 DEF CreateCycle, CycleInv, BeforeActivation
  <2>2. manager = "none"
    BY <2>1 DEF CycleInv, StillSettable, Settable, CycleTypeOK
  <2>3. Agreed'
    BY <2>1 DEF CycleInv, Agreed, SubmittedInTurn, ReadyWasEarned, ScoreIsTheWork,
      CompletedTogether, CancelledCycleEnds, RetiredIsCancelled, AppsMet
  <2> QED
    BY <2>1, <2>2, <2>3 DEF CycleInv, CycleTypeOK, CycleStatus, BeforeActivation,
      HeldRowsOpen, StillSettable
<1>2. CASE ~CreateCycle
  <2>1. UNCHANGED <<work, cycle, enabled, credited, profile, creator, remote>>
    BY <1>2 DEF ResumeRefused, NextDay, Ask, BeginClose, cycleVars
  <2>2. Agreed'
    BY <2>1, RowsStay
  <2>3. BeforeActivation'
    BY <2>1 DEF CycleInv, BeforeActivation
  <2>4. HeldRowsOpen' /\ closing' \in SUBSET Task
    BY <1>2, <2>1 DEF CycleInv, CycleTypeOK, HeldRowsOpen, ResumeRefused, NextDay, Ask,
      BeginClose, cycleVars
  <2>5. StillSettable' /\ manager' \in {"none", "paused", "active", "cancelled"}
    BY <1>2, <2>1 DEF CycleInv, CycleTypeOK, StillSettable, Settable, ResumeRefused,
      NextDay, Ask, BeginClose, cycleVars
  <2>6. day' \in 1..MaxDay /\ trouble' \in 0..MaxTrouble /\ asked' \in 0..MaxRequests
    BY <1>2, TaskFacts DEF CycleInv, CycleTypeOK, ResumeRefused, NextDay, Ask,
      BeginClose, cycleVars
  <2> QED
    BY <2>1, <2>2, <2>3, <2>4, <2>5, <2>6 DEF CycleInv, CycleTypeOK
<1> QED
  BY <1>1, <1>2

LEMMA ClosedFields ==
  ASSUME CycleInv, NEW t \in closing, NEW outcome \in Outcomes(t)
  PROVE  /\ t \in Task /\ work[t].status \in OpenWork
         /\ outcome \in {"succeeded", "failed", "cancelled"}
         /\ Closed(t, outcome) \in [Task -> WorkRow]
         /\ \A u \in Task \ {t} : Closed(t, outcome)[u] = work[u]
         /\ Closed(t, outcome)[t].status = outcome
         /\ Closed(t, outcome)[t].sub = work[t].sub
         /\ SuccessesStay(Closed(t, outcome)) /\ NothingReopens(Closed(t, outcome))
         /\ GatedOnly(Closed(t, outcome))
<1> DEFINE w == Closed(t, outcome)
<1>1. /\ t \in Task /\ work[t].status \in OpenWork
      /\ outcome \in {"succeeded", "failed", "cancelled"}
  BY DEF CycleInv, CycleTypeOK, HeldRowsOpen, Outcomes
<1>2. /\ w \in [Task -> WorkRow]
      /\ \A u \in Task \ {t} : w[u] = work[u]
      /\ w[t].status = outcome /\ w[t].sub = work[t].sub
  <2>1. day \in 0..MaxDay /\ work \in [Task -> WorkRow]
    BY TaskFacts DEF CycleInv, CycleTypeOK, WorkRow
  <2>2. outcome \in WorkStatus
    BY <1>1 DEF WorkStatus
  <2> DEFINE closedRow == [work[t] EXCEPT !.status = outcome, !.closed = day]
  <2>3. closedRow \in WorkRow /\ closedRow.status = outcome /\ closedRow.sub = work[t].sub
    BY <1>1, <2>1, <2>2 DEF WorkRow
  <2>4. w = [work EXCEPT ![t] = closedRow]
    BY <1>1, <2>1 DEF Closed
  <2> HIDE DEF closedRow
  <2> QED
    BY <1>1, <2>1, <2>3, <2>4
<1> HIDE DEF w
<1>3. SuccessesStay(w) /\ NothingReopens(w) /\ GatedOnly(w)
  BY <1>1, <1>2, Words DEF SuccessesStay, NothingReopens, GatedOnly
<1> QED
  BY <1>1, <1>2, <1>3 DEF w

\* Closing a run refreshes the profile with the cycle's own status.
LEMMA CloseKeeps ==
  ASSUME CycleInv, NEW t \in Task, Close(t)
  PROVE  CycleInv'
<1>1. PICK outcome \in Outcomes(t) :
        /\ work' = Closed(t, outcome) /\ credited' = Credit(t, outcome)
        /\ Refresh(cycle, enabled, Closed(t, outcome), Credit(t, outcome))
  BY DEF Close
<1>2. /\ t \in closing /\ manager = "none" /\ closing' = closing \ {t}
      /\ remote' = remote \ {t} /\ UNCHANGED <<day, creator, manager, trouble, asked>>
  BY DEF Close
<1> DEFINE w == Closed(t, outcome)
           c == Credit(t, outcome)
<1>3. /\ work[t].status \in OpenWork
      /\ w \in [Task -> WorkRow] /\ \A u \in Task \ {t} : w[u] = work[u]
      /\ w[t].status = outcome
      /\ SuccessesStay(w) /\ NothingReopens(w) /\ GatedOnly(w)
  BY <1>2, ClosedFields
<1>4. work' = w /\ credited' = c /\ Refresh(cycle, enabled, w, c)
  BY <1>1
<1>5. /\ c \in SUBSET Task /\ credited \subseteq c
      /\ \A u \in c \ credited : u = t /\ outcome = "succeeded"
  BY DEF Credit, CycleInv, CycleTypeOK
<1> HIDE DEF w, c
<1>6. SubmittedInTurn'
  BY <1>3, <1>4, <1>5, GateStays
<1>7. \A u \in c : w[u].status = "succeeded"
  BY <1>3, <1>5 DEF CycleInv, CycleTypeOK, Agreed, ScoreIsTheWork, SuccessesStay
<1>8. Refreshable(cycle, enabled, w, c)
  BY <1>3, <1>5, <1>7
  DEF Refreshable, CycleInv, CycleTypeOK, Agreed, CompletedTogether,
    CancelledCycleEnds, NothingReopens
<1>9. /\ Agreed' /\ cycle' \in CycleStatus /\ enabled' \in [Task -> BOOLEAN]
      /\ profile' \in [state : ProfileState, earned : 0..Cardinality(Task)]
  BY <1>4, <1>6, <1>8, ProfileRefreshKeeps
<1>10. CycleTypeOK'
  BY <1>2, <1>3, <1>4, <1>5, <1>9 DEF CycleInv, CycleTypeOK, WorkRow
<1>11. BeforeActivation'
  BY <1>2, <1>3, Words DEF CycleInv, BeforeActivation
<1>12. HeldRowsOpen' /\ StillSettable'
  BY <1>2, <1>3, <1>4 DEF CycleInv, CycleTypeOK, HeldRowsOpen, StillSettable
<1> QED
  BY <1>9, <1>10, <1>11, <1>12 DEF CycleInv

\* Whichever transaction a deadlock ends, profile and cycle stay as they were.
LEMMA DeadlockKeeps ==
  ASSUME CycleInv, NEW t \in Task, Deadlock(t)
  PROVE  CycleInv'
<1>1. /\ t \in closing
      /\ UNCHANGED <<day, cycle, creator, enabled, credited, profile, trouble, asked>>
  BY DEF Deadlock
<1>2. CASE UNCHANGED <<work, closing, remote>> /\ manager' = "none"
  <2>1. Agreed'
    BY <1>1, <1>2, RowsStay
  <2> QED
    BY <1>1, <1>2, <2>1
    DEF CycleInv, CycleTypeOK, BeforeActivation, HeldRowsOpen, StillSettable
<1>3. CASE /\ \E outcome \in Outcomes(t) : work' = Closed(t, outcome)
           /\ closing' = closing \ {t} /\ remote' = remote \ {t} /\ UNCHANGED manager
  <2>1. PICK outcome \in Outcomes(t) : work' = Closed(t, outcome)
    BY <1>3
  <2>2. /\ work[t].status \in OpenWork
        /\ work' \in [Task -> WorkRow] /\ \A u \in Task \ {t} : work'[u] = work[u]
        /\ SuccessesStay(work') /\ NothingReopens(work') /\ GatedOnly(work')
    BY <1>1, <2>1, ClosedFields
  <2>3. Agreed'
    BY <1>1, <2>2, RowsKeep
  <2>4. CycleTypeOK'
    BY <1>1, <1>3, <2>2 DEF CycleInv, CycleTypeOK, WorkRow
  <2>5. BeforeActivation'
    BY <1>1, <2>2, Words DEF CycleInv, BeforeActivation
  <2>6. HeldRowsOpen' /\ StillSettable'
    BY <1>1, <1>3, <2>2 DEF CycleInv, CycleTypeOK, HeldRowsOpen, StillSettable, Settable
  <2> QED
    BY <2>3, <2>4, <2>5, <2>6 DEF CycleInv
<1> QED
  BY <1>2, <1>3 DEF Deadlock

LEMMA RecreditKeeps ==
  ASSUME CycleInv, NEW t \in Task, Recredit(t)
  PROVE  CycleInv'
<1> DEFINE c == credited \cup {t}
<1>1. /\ work[t].status = "succeeded" /\ credited' = c /\ UNCHANGED work
      /\ Refresh(cycle, enabled, work, c) /\ manager = "none"
      /\ UNCHANGED <<day, creator, remote, closing, manager, trouble, asked>>
  BY DEF Recredit
<1>2. work \in [Task -> WorkRow] /\ c \in SUBSET Task
  BY DEF CycleInv, CycleTypeOK, WorkRow
<1>3. SuccessesStay(work) /\ GatedOnly(work)
  BY DEF SuccessesStay, GatedOnly
<1>4. SubmittedInTurn'
  BY <1>1, <1>2, <1>3, GateStays
<1>5. Refreshable(cycle, enabled, work, c)
  BY <1>1, <1>2, <1>3
  DEF Refreshable, CycleInv, CycleTypeOK, Agreed, ScoreIsTheWork, CompletedTogether,
    CancelledCycleEnds
<1>6. /\ Agreed' /\ cycle' \in CycleStatus /\ enabled' \in [Task -> BOOLEAN]
      /\ profile' \in [state : ProfileState, earned : 0..Cardinality(Task)]
  BY <1>1, <1>4, <1>5, ProfileRefreshKeeps
<1>7. CycleTypeOK' /\ HeldRowsOpen' /\ StillSettable'
  BY <1>1, <1>2, <1>6 DEF CycleInv, CycleTypeOK, HeldRowsOpen, StillSettable
<1>8. BeforeActivation'
  BY <1>1 DEF CycleInv, BeforeActivation
<1> QED
  BY <1>6, <1>7, <1>8 DEF CycleInv

\* The operator's transaction: its rows, its rules, then the profile.
LEMMA StatusSetKeeps ==
  ASSUME CycleInv, StatusSet
  PROVE  CycleInv'
<1> DEFINE w == [t \in Task |-> IF manager = "cancelled" /\ t \in Touched(manager)
                                THEN AskCancel(work[t]) ELSE work[t]]
           on == [t \in Task |-> /\ manager = "active" /\ DayOf[t] > day
                                 /\ work[t].status # "absent"]
<1>1. /\ work' = w /\ Refresh(manager, on, w, credited) /\ manager' = "none"
      /\ manager # "none"
      /\ UNCHANGED <<day, creator, remote, credited, closing, trouble, asked>>
  BY DEF StatusSet
<1>2. /\ manager \in {"paused", "active", "cancelled"}
      /\ cycle \in {"provisioning", "active", "paused", "blocked"}
      /\ creator = "inserted" => manager = "cancelled" /\ cycle = "provisioning"
      /\ creator # "start"
  BY <1>1 DEF CycleInv, CycleTypeOK, StillSettable, Settable, BeforeActivation
<1>3. /\ w \in [Task -> WorkRow] /\ on \in [Task -> BOOLEAN]
      /\ \A t \in Task : /\ w[t].status = work[t].status /\ w[t].sub = work[t].sub
                         /\ w[t].closed = work[t].closed
                         /\ work[t].cancel => w[t].cancel
                         /\ manager = "cancelled" /\ w[t].status \in OpenWork =>
                              ~on[t] /\ w[t].cancel
                         /\ manager = "cancelled" => ~on[t]
  <2> SUFFICES ASSUME NEW t \in Task
               PROVE  /\ w[t] \in WorkRow /\ w[t].status = work[t].status
                      /\ w[t].sub = work[t].sub /\ w[t].closed = work[t].closed
                      /\ work[t].cancel => w[t].cancel
                      /\ manager = "cancelled" /\ w[t].status \in OpenWork => w[t].cancel
    OBVIOUS
  <2>1. /\ work[t] \in WorkRow
        /\ AskCancel(work[t]) \in WorkRow /\ AskCancel(work[t]).cancel
        /\ AskCancel(work[t]).status = work[t].status
        /\ AskCancel(work[t]).sub = work[t].sub
        /\ AskCancel(work[t]).closed = work[t].closed
    BY DEF AskCancel, CycleInv, CycleTypeOK, WorkRow
  <2>2. manager = "cancelled" /\ work[t].status \in OpenWork => t \in Touched(manager)
    BY DEF Touched
  <2> QED
    BY <2>1, <2>2
<1> HIDE DEF w, on
<1>4. SuccessesStay(w) /\ GatedOnly(w)
  BY <1>3 DEF SuccessesStay, GatedOnly
<1>5. credited \in SUBSET Task
  BY DEF CycleInv, CycleTypeOK
<1>6. SubmittedInTurn'
  BY <1>1, <1>3, <1>4, <1>5, GateStays
<1>7. Refreshable(manager, on, w, credited)
  BY <1>2, <1>3, <1>4, <1>5 DEF Refreshable, CycleInv, Agreed, ScoreIsTheWork
<1>8. /\ Agreed' /\ cycle' \in {manager, "completed"} /\ cycle' \in CycleStatus
      /\ enabled' \in [Task -> BOOLEAN]
      /\ profile' \in [state : ProfileState, earned : 0..Cardinality(Task)]
  BY <1>1, <1>6, <1>7, ProfileRefreshKeeps
<1>9. CycleTypeOK'
  BY <1>1, <1>3, <1>8 DEF CycleInv, CycleTypeOK, WorkRow
<1>10. BeforeActivation'
  <2>1. CASE creator = "inserted"
    <3>1. manager = "cancelled" /\ manager \in CycleStatus
      BY <1>2, <2>1 DEF CycleStatus
    <3>2. profile' = [state |-> NextState(manager, w, credited),
                      earned |-> Cardinality(credited)]
          /\ cycle' = "cancelled"
      BY <1>1, <3>1 DEF Refresh
    <3>3. NextState(manager, w, credited) = "retired"
      BY <3>1 DEF NextState
    <3> QED
      BY <1>1, <1>3, <2>1, <3>2, <3>3 DEF CycleInv, BeforeActivation
  <2>2. CASE creator # "inserted"
    BY <1>1, <1>2, <2>2 DEF BeforeActivation
  <2> QED
    BY <2>1, <2>2
<1>11. HeldRowsOpen' /\ StillSettable'
  BY <1>1, <1>3 DEF CycleInv, CycleTypeOK, HeldRowsOpen, StillSettable
<1> QED
  BY <1>8, <1>9, <1>10, <1>11 DEF CycleInv

\* The creating request activates the cycle or, on a failure, marks it blocked.
LEMMA ActivateKeeps ==
  ASSUME CycleInv, Activate
  PROVE  CycleInv'
<1>1. /\ creator = "inserted" /\ manager = "none" /\ trouble' \in 0..MaxTrouble
      /\ creator' \in {"done", "failed"}
      /\ UNCHANGED <<day, remote, credited, closing, manager, asked>>
  BY TaskFacts DEF Activate, Trouble, CycleInv, CycleTypeOK
<1>2. /\ \A t \in Task : work[t].status = "absent" /\ work[t].sub = "never"
      /\ credited = {} /\ closing = {}
  BY <1>1, Words DEF CycleInv, CycleTypeOK, BeforeActivation, HeldRowsOpen
<1>3. CASE UNCHANGED <<cycle, enabled, work, profile>>
  <2>1. Agreed'
    BY <1>1, <1>3, RowsStay
  <2> QED
    BY <1>1, <1>2, <1>3, <2>1
    DEF CycleInv, CycleTypeOK, BeforeActivation, HeldRowsOpen, StillSettable
<1> DEFINE new == [NoWork EXCEPT !.status = "pending"]
           w == [t \in Task |-> new]
           on == [t \in Task |-> TRUE]
<1>4. CASE Activatable /\ work' = w /\ Refresh("active", on, w, credited)
  <2>1. new \in WorkRow /\ new.sub = "never"
    <3>1. NoWork \in WorkRow /\ NoWork.sub = "never"
      BY TaskFacts DEF NoWork, WorkRow, WorkStatus
    <3>2. "pending" \in WorkStatus
      BY DEF WorkStatus
    <3> QED
      BY <3>1, <3>2 DEF WorkRow
  <2> HIDE DEF new
  <2>2. w \in [Task -> WorkRow] /\ on \in [Task -> BOOLEAN]
        /\ \A t \in Task : w[t].sub = "never"
    BY <2>1
  <2> HIDE DEF w, on
  <2>3. SubmittedInTurn'
    BY <1>4, <2>2 DEF SubmittedInTurn
  <2>4. Refreshable("active", on, w, credited)
    BY <1>2, <1>4, <2>2 DEF Refreshable, SuccessesStay, Activatable
  <2>5. /\ Agreed' /\ cycle' \in CycleStatus /\ enabled' \in [Task -> BOOLEAN]
        /\ profile' \in [state : ProfileState, earned : 0..Cardinality(Task)]
    BY <1>1, <1>4, <2>3, <2>4, ProfileRefreshKeeps
  <2>6. CycleTypeOK'
    BY <1>1, <1>4, <2>2, <2>5 DEF CycleInv, CycleTypeOK, WorkRow
  <2> QED
    BY <1>1, <1>2, <2>5, <2>6
    DEF CycleInv, BeforeActivation, HeldRowsOpen, StillSettable
<1> QED
  BY <1>3, <1>4 DEF Activate

LEMMA MarkBlockedKeeps ==
  ASSUME CycleInv, MarkBlocked
  PROVE  CycleInv'
<1>1. /\ creator = "failed" /\ creator' = "done" /\ manager = "none"
      /\ UNCHANGED <<day, work, remote, credited, closing, manager, trouble, asked>>
  BY DEF MarkBlocked
<1>2. /\ work \in [Task -> WorkRow] /\ credited \in SUBSET Task
      /\ SuccessesStay(work) /\ GatedOnly(work)
  BY DEF CycleInv, CycleTypeOK, WorkRow, SuccessesStay, GatedOnly
<1>3. /\ Agreed' /\ cycle' \in CycleStatus /\ enabled' \in [Task -> BOOLEAN]
      /\ profile' \in [state : ProfileState, earned : 0..Cardinality(Task)]
  <2>1. CASE cycle \in {"completed", "cancelled"}
    <3>1. UNCHANGED <<cycle, enabled, profile>>
      BY <2>1 DEF MarkBlocked
    <3>2. Agreed'
      BY <1>1, <3>1, RowsStay
    <3> QED
      BY <3>1, <3>2 DEF CycleInv, CycleTypeOK
  <2>2. CASE cycle \notin {"completed", "cancelled"}
    <3> DEFINE on == IF cycle = "active" THEN [t \in Task |-> FALSE] ELSE enabled
    <3>1. Refresh("blocked", on, work, credited)
      BY <2>2 DEF MarkBlocked
    <3>2. on \in [Task -> BOOLEAN]
      BY DEF CycleInv, CycleTypeOK
    <3> HIDE DEF on
    <3>3. SubmittedInTurn'
      BY <1>1, <1>2, GateStays
    <3>4. Refreshable("blocked", on, work, credited)
      BY <1>2, <2>2, <3>2 DEF Refreshable, CycleInv, Agreed, ScoreIsTheWork
    <3> QED
      BY <1>1, <3>1, <3>3, <3>4, ProfileRefreshKeeps
  <2> QED
    BY <2>1, <2>2
<1> QED
  BY <1>1, <1>3
  DEF CycleInv, CycleTypeOK, BeforeActivation, HeldRowsOpen, StillSettable

-----------------------------------------------------------------------------
(* The theorems *)

LEMMA CycleStarts == CycleInit => CycleInv
<1> SUFFICES ASSUME CycleInit PROVE CycleInv
  OBVIOUS
<1>1. Cardinality({}) = 0 /\ Cardinality(Task) \in Nat
  BY FS_EmptySet, FS_CardinalityType, TaskFacts
<1>2. CycleTypeOK
  BY <1>1, TaskFacts DEF CycleInit, CycleTypeOK, CycleStatus, WorkStatus,
    ProfileState, NoWork
<1>3. Agreed
  BY <1>1 DEF CycleInit, NoWork, Agreed, SubmittedInTurn, ReadyWasEarned,
    ScoreIsTheWork, CompletedTogether, CancelledCycleEnds, RetiredIsCancelled
<1> QED
  BY <1>2, <1>3 DEF CycleInit, NoWork, CycleInv, BeforeActivation, HeldRowsOpen,
    StillSettable

LEMMA CycleStep ==
  ASSUME CycleInv, [CycleNext]_cycleVars
  PROVE  CycleInv'
<1>1. CASE Activate
  BY <1>1, ActivateKeeps
<1>2. CASE MarkBlocked
  BY <1>2, MarkBlockedKeeps
<1>3. CASE StatusSet
  BY <1>3, StatusSetKeeps
<1>4. CASE \E t \in Task : Prepare(t) \/ Submit(t) \/ PutBack(t) \/ FindTask(t)
  BY <1>4, WorkerKeeps
<1>5. CASE \E t \in Task : Close(t)
  BY <1>5, CloseKeeps
<1>6. CASE \E t \in Task : Deadlock(t)
  BY <1>6, DeadlockKeeps
<1>7. CASE \E t \in Task : Recredit(t)
  BY <1>7, RecreditKeeps
<1>8. CASE \/ CreateCycle \/ ResumeRefused \/ NextDay
           \/ \E status \in {"paused", "active", "cancelled"} : Ask(status)
           \/ \E t \in Task : BeginClose(t)
           \/ UNCHANGED cycleVars
  BY <1>8, QuietKeeps
<1> QED
  BY <1>1, <1>2, <1>3, <1>4, <1>5, <1>6, <1>7, <1>8 DEF CycleNext, SetStatus

LEMMA CycleAlways == CycleSpec => []CycleInv
<1>1. CycleInv /\ [CycleNext]_cycleVars => CycleInv'
  BY CycleStep
<1> QED
  BY <1>1, CycleStarts, PTL DEF CycleSpec

\* Rows, profile and cycle stay well formed; in particular the score never
\* exceeds the number of tasks.
THEOREM CycleTypeCorrect == CycleSpec => []CycleTypeOK
<1>1. CycleInv => CycleTypeOK
  BY DEF CycleInv
<1> QED
  BY <1>1, CycleAlways, PTL

\* What the phase gate promises, although the worker and the fence read it at
\* different times and a pause, a resumption or a late credit may come between:
\* no work of a phase is submitted before the required work of the phases
\* before it has succeeded, and no profile is ready before its warm-up has.
THEOREM PhasesAreInTurn == CycleSpec => []PhasesInTurn
<1>1. CycleInv => PhasesInTurn
  BY DEF CycleInv, Agreed, PhasesInTurn
<1> QED
  BY <1>1, CycleAlways, PTL

\* Also when a trigger loses a deadlock and its credit is made up later, the
\* score counts each success once; and profile and cycle are completed together
\* or not at all, with nothing required undone.
THEOREM ProfilesAreTheWork == CycleSpec => []ProfileIsTheWork
<1>1. CycleInv => ProfileIsTheWork
  BY DEF CycleInv, Agreed, ProfileIsTheWork
<1> QED
  BY <1>1, CycleAlways, PTL

\* A cancellation ends the cycle for good: no rule is enabled again and every
\* run still open has been asked to end, whichever request came in between.
THEOREM CancelledCyclesEnd == CycleSpec => []CancelledCycleEnds
<1>1. CycleInv => CancelledCycleEnds
  BY DEF CycleInv, Agreed
<1> QED
  BY <1>1, CycleAlways, PTL

-----------------------------------------------------------------------------
(* The dashboard.                                                          *)

\* The shapes of what the dashboard and the server hold, counts unbounded.
AnyRun == [count : Nat, life : {"going", "held", "over"}]
AnyState == [on : [Item -> RowStatus], run : [Item -> AnyRun],
             unit : [Unit -> UnitStatus], part : [Part -> Nat]]
AnyRefresh == [pc : {"idle", "list", "rest"}, got : AnyState,
               unread : SUBSET Section, lost : SUBSET Section]
Wanted == {"none", "on", "off", "gone", "open", "active", "paused", "cancelled", "saved"}
AnyCall == [pc : {"idle", "sent", "answered", "reread"},
            kind : {"none", "row", "edit", "run", "unit", "part"},
            id : Item \cup Unit \cup Part \cup {"none"}, want : Wanted,
            ok : BOOLEAN, reply : AnyRun]

ConsoleShapes ==
  /\ server \in AnyState /\ view \in AnyState
  /\ refresh \in [Slot -> AnyRefresh]
  /\ call \in [Call -> AnyCall]
  /\ seen \in [on : [Item -> SUBSET RowStatus], unit : [Unit -> SUBSET UnitStatus]]

\* Every entry of x is one the server has had; runs and versions only grow;
\* a schedule whose run is held counts as one that has been paused.
Was(x) ==
  /\ \A i \in Item : /\ x.on[i] \in seen.on[i] /\ x.run[i].count <= server.run[i].count
                     /\ x.run[i].life = "held" => "off" \in seen.on[i]
  /\ \A u \in Unit : x.unit[u] \in seen.unit[u]
  /\ \A p \in Part : x.part[p] <= server.part[p]

\* What a call asks for, and what an accepted one has been given.
CallHolds(q) ==
  /\ q.kind \in {"row", "edit", "run"} => q.id \in Item
  /\ q.kind = "unit" => q.id \in Unit /\ q.want \in UnitStatus
  /\ q.kind = "row" => q.want \in {"on", "off", "gone"}
  /\ q.kind = "part" => q.id \in Part
  /\ q.pc = "reread" => q.kind = "unit" /\ q.ok
  /\ q.ok =>
       /\ q.kind = "row" => q.want \in seen.on[q.id]
       /\ q.kind = "edit" => q.want \in {"on", "off"} \cap seen.on[q.id]
       /\ q.kind = "run" => /\ q.reply.count <= server.run[q.id].count
                            /\ q.reply.life = "going" /\ "on" \in seen.on[q.id]
       /\ q.kind = "unit" => q.want \in seen.unit[q.id]
       /\ q.kind = "part" => q.reply.count <= server.part[q.id]

ConsoleInv ==
  /\ ConsoleShapes
  /\ \A i \in Item : "absent" \in seen.on[i]
  /\ \A u \in Unit : "none" \in seen.unit[u]
  /\ Was(server) /\ Was(view)
  /\ \A k \in Slot : Was(refresh[k].got)
  /\ \A c \in Call : CallHolds(call[c])

LEMMA ConsoleStarts == ConsoleInit => ConsoleInv
<1> SUFFICES ASSUME ConsoleInit PROVE ConsoleInv
  OBVIOUS
<1>1. NothingYet \in AnyState /\ IdleRefresh \in AnyRefresh /\ IdleCall \in AnyCall
  BY DEF NothingYet, AnyState, AnyRefresh, AnyCall, AnyRun, NoRun, RowStatus, UnitStatus,
         IdleRefresh, IdleCall, Wanted, Section
<1>2. ConsoleShapes
  BY <1>1 DEF ConsoleInit, ConsoleShapes, AnyState, AnyRun, NoRun, RowStatus, UnitStatus
<1>3. Was(server) /\ Was(NothingYet)
  BY DEF ConsoleInit, Was, NothingYet, NoRun
<1>4. CallHolds(IdleCall)
  BY DEF CallHolds, IdleCall
<1> QED
  BY <1>2, <1>3, <1>4 DEF ConsoleInit, ConsoleInv, IdleRefresh

-----------------------------------------------------------------------------
(* The server only moves on.                                               *)

MovesOn ==
  /\ server' \in AnyState
  /\ seen' \in [on : [Item -> SUBSET RowStatus], unit : [Unit -> SUBSET UnitStatus]]
  /\ \A i \in Item : /\ seen.on[i] \subseteq seen'.on[i] /\ server'.on[i] \in seen'.on[i]
                     /\ server.run[i].count <= server'.run[i].count
                     /\ server'.run[i].life = "held" => "off" \in seen'.on[i]
  /\ \A u \in Unit : seen.unit[u] \subseteq seen'.unit[u] /\ server'.unit[u] \in seen'.unit[u]
  /\ \A p \in Part : server.part[p] <= server'.part[p]

LEMMA StandsStill == ConsoleInv /\ UNCHANGED <<server, seen>> => MovesOn
BY DEF ConsoleInv, ConsoleShapes, MovesOn, Was, AnyState, AnyRun

LEMMA BecomesMoves ==
  ASSUME ConsoleInv, NEW next \in AnyState, Becomes(next),
         \A i \in Item : server.run[i].count <= next.run[i].count,
         \A p \in Part : server.part[p] <= next.part[p]
  PROVE  MovesOn /\ server' = next
<1>1. /\ server' = next /\ next.on \in [Item -> RowStatus] /\ next.unit \in [Unit -> UnitStatus]
      /\ seen.on \in [Item -> SUBSET RowStatus] /\ seen.unit \in [Unit -> SUBSET UnitStatus]
  BY DEF ConsoleInv, ConsoleShapes, Becomes, AnyState
<1>2. /\ seen'.on = [i \in Item |-> seen.on[i] \cup {next.on[i]} \cup
                      (IF next.run[i].life = "held" THEN {"off"} ELSE {})]
      /\ seen'.unit = [u \in Unit |-> seen.unit[u] \cup {next.unit[u]}]
      /\ seen' = [on |-> seen'.on, unit |-> seen'.unit]
  BY DEF Becomes
<1>3. ASSUME NEW i \in Item
      PROVE  /\ seen'.on[i] \in SUBSET RowStatus
             /\ seen.on[i] \subseteq seen'.on[i] /\ next.on[i] \in seen'.on[i]
             /\ next.run[i].life = "held" => "off" \in seen'.on[i]
  BY <1>1, <1>2 DEF RowStatus
<1>4. seen'.on \in [Item -> SUBSET RowStatus]
  BY <1>2, <1>3
<1>5. /\ seen'.unit \in [Unit -> SUBSET UnitStatus]
      /\ \A u \in Unit : seen.unit[u] \subseteq seen'.unit[u] /\ next.unit[u] \in seen'.unit[u]
  BY <1>1, <1>2
<1>6. seen' \in [on : [Item -> SUBSET RowStatus], unit : [Unit -> SUBSET UnitStatus]]
  BY <1>2, <1>4, <1>5
<1> QED
  BY <1>1, <1>3, <1>5, <1>6 DEF MovesOn

LEMMA WasStays ==
  ASSUME ConsoleInv, MovesOn, NEW x \in AnyState, Was(x)
  PROVE  Was(x)'
<1>1. server \in AnyState /\ server' \in AnyState
  BY DEF ConsoleInv, ConsoleShapes, MovesOn
<1>2. ASSUME NEW i \in Item PROVE x.run[i].count <= server'.run[i].count
  <2>1. /\ x.run[i].count \in Nat /\ server.run[i].count \in Nat
        /\ server'.run[i].count \in Nat
    BY <1>1 DEF AnyState, AnyRun
  <2> QED
    BY <2>1 DEF Was, MovesOn
<1>3. ASSUME NEW p \in Part PROVE x.part[p] <= server'.part[p]
  <2>1. x.part[p] \in Nat /\ server.part[p] \in Nat /\ server'.part[p] \in Nat
    BY <1>1 DEF AnyState
  <2> QED
    BY <2>1 DEF Was, MovesOn
<1> QED
  BY <1>2, <1>3 DEF Was, MovesOn

LEMMA CallStays ==
  ASSUME ConsoleInv, MovesOn, NEW q \in AnyCall, CallHolds(q)
  PROVE  CallHolds(q)'
<1>1. server \in AnyState /\ server' \in AnyState /\ q.reply.count \in Nat
  BY DEF ConsoleInv, ConsoleShapes, MovesOn, AnyCall, AnyRun
<1>2. ASSUME q.kind = "run", q.ok
      PROVE  q.reply.count <= server'.run[q.id].count
  <2>1. q.id \in Item /\ q.reply.count <= server.run[q.id].count
    BY <1>2 DEF CallHolds
  <2>2. server.run[q.id].count \in Nat /\ server'.run[q.id].count \in Nat
    BY <1>1, <2>1 DEF AnyState, AnyRun
  <2> QED
    BY <1>1, <2>1, <2>2 DEF MovesOn
<1>3. ASSUME q.kind = "part", q.ok
      PROVE  q.reply.count <= server'.part[q.id]
  <2>1. q.id \in Part /\ q.reply.count <= server.part[q.id]
    BY <1>3 DEF CallHolds
  <2>2. server.part[q.id] \in Nat /\ server'.part[q.id] \in Nat
    BY <1>1, <2>1 DEF AnyState
  <2> QED
    BY <1>1, <2>1, <2>2 DEF MovesOn
<1> QED
  BY <1>2, <1>3 DEF CallHolds, MovesOn

\* A step is judged by what it makes of the view, the refreshes and the calls.
LEMMA Keeps ==
  ASSUME ConsoleInv, MovesOn,
         view' = view \/ (view' \in AnyState /\ Was(view)'),
         \/ refresh' = refresh
         \/ \E k \in Slot : \E r \in AnyRefresh :
              refresh' = [refresh EXCEPT ![k] = r] /\ Was(r.got)',
         \/ call' = call
         \/ \E c \in Call : \E q \in AnyCall :
              call' = [call EXCEPT ![c] = q] /\ CallHolds(q)'
  PROVE  ConsoleInv'
<1>1. view \in AnyState /\ refresh \in [Slot -> AnyRefresh] /\ call \in [Call -> AnyCall]
  BY DEF ConsoleInv, ConsoleShapes
<1>2. view' \in AnyState /\ Was(view)'
  BY <1>1, WasStays DEF ConsoleInv
<1>3. refresh' \in [Slot -> AnyRefresh] /\ \A k \in Slot : Was(refresh[k].got)'
  <2>1. ASSUME NEW k \in Slot PROVE refresh[k].got \in AnyState /\ Was(refresh[k].got)
    BY <1>1 DEF AnyRefresh, ConsoleInv
  <2>2. CASE refresh' = refresh
    BY <1>1, <2>1, <2>2, WasStays
  <2>3. ASSUME NEW k \in Slot, NEW r \in AnyRefresh,
               refresh' = [refresh EXCEPT ![k] = r], Was(r.got)'
        PROVE  refresh' \in [Slot -> AnyRefresh] /\ \A l \in Slot : Was(refresh[l].got)'
    <3>1. refresh'[k] = r /\ \A l \in Slot \ {k} : refresh'[l] = refresh[l]
      BY <1>1, <2>3
    <3>2. ASSUME NEW l \in Slot PROVE Was(refresh[l].got)'
      <4>1. CASE l = k
        BY <2>3, <3>1, <4>1
      <4>2. CASE l # k
        BY <2>1, <3>1, <4>2, WasStays
      <4> QED
        BY <4>1, <4>2
    <3> QED
      BY <1>1, <2>3, <3>2
  <2> QED
    BY <2>2, <2>3
<1>4. call' \in [Call -> AnyCall] /\ \A c \in Call : CallHolds(call[c])'
  <2>1. ASSUME NEW c \in Call PROVE call[c] \in AnyCall /\ CallHolds(call[c])
    BY <1>1 DEF ConsoleInv
  <2>2. CASE call' = call
    BY <1>1, <2>1, <2>2, CallStays
  <2>3. ASSUME NEW c \in Call, NEW q \in AnyCall,
               call' = [call EXCEPT ![c] = q], CallHolds(q)'
        PROVE  call' \in [Call -> AnyCall] /\ \A d \in Call : CallHolds(call[d])'
    <3>1. call'[c] = q /\ \A d \in Call \ {c} : call'[d] = call[d]
      BY <1>1, <2>3
    <3>2. ASSUME NEW d \in Call PROVE CallHolds(call[d])'
      <4>1. CASE d = c
        BY <2>3, <3>1, <4>1
      <4>2. CASE d # c
        BY <2>1, <3>1, <4>2, CallStays
      <4> QED
        BY <4>1, <4>2
    <3> QED
      BY <1>1, <2>3, <3>2
  <2> QED
    BY <2>2, <2>3
<1>5. ConsoleShapes'
  BY <1>2, <1>3, <1>4 DEF ConsoleShapes, MovesOn
<1>6. Was(server)'
  BY DEF Was, MovesOn, AnyState, AnyRun
<1> QED
  BY <1>2, <1>3, <1>4, <1>5, <1>6 DEF ConsoleInv, MovesOn

-----------------------------------------------------------------------------
(* The server's side.                                                      *)

LEMMA SetRowMoves ==
  ASSUME ConsoleInv, NEW i \in Item, NEW status \in RowStatus, Becomes(SetRow(i, status))
  PROVE  MovesOn /\ status \in seen'.on[i]
<1>1. server \in AnyState
  BY DEF ConsoleInv, ConsoleShapes
<1>2. /\ SetRow(i, status) \in AnyState
      /\ \A j \in Item : server.run[j].count <= SetRow(i, status).run[j].count
      /\ \A p \in Part : server.part[p] <= SetRow(i, status).part[p]
      /\ SetRow(i, status).on[i] = status
  BY <1>1 DEF SetRow, AnyState, AnyRun
<1> QED
  BY <1>2, BecomesMoves DEF MovesOn

LEMMA StartMoves ==
  ASSUME ConsoleInv, NEW i \in Item, Becomes([server EXCEPT !.run[i] = Started(i)])
  PROVE  /\ MovesOn /\ Started(i) \in AnyRun
         /\ server'.run[i] = Started(i)
<1> DEFINE next == [server EXCEPT !.run[i] = Started(i)]
<1>1. server \in AnyState
  BY DEF ConsoleInv, ConsoleShapes
<1>2. Started(i) \in AnyRun /\ server.run[i].count <= Started(i).count
  BY <1>1 DEF Started, AnyState, AnyRun
<1>3. /\ next \in AnyState /\ next.run[i] = Started(i)
      /\ \A j \in Item : server.run[j].count <= next.run[j].count
      /\ \A p \in Part : server.part[p] <= next.part[p]
  BY <1>1, <1>2 DEF AnyState, AnyRun
<1> QED
  BY <1>2, <1>3, BecomesMoves

LEMMA LifeMoves ==
  ASSUME ConsoleInv, NEW i \in Item, NEW life \in {"held", "over"},
         Becomes([server EXCEPT !.run[i].life = life])
  PROVE  MovesOn
<1>1. server \in AnyState /\ server.run \in [Item -> AnyRun]
  BY DEF ConsoleInv, ConsoleShapes, AnyState
<1>2. PICK y : y = [server.run[i] EXCEPT !.life = life]
  OBVIOUS
<1>3. y \in AnyRun /\ y.count = server.run[i].count
  BY <1>1, <1>2 DEF AnyRun
<1>4. PICK next : next = [server EXCEPT !.run[i] = y]
  OBVIOUS
<1>5. [server EXCEPT !.run[i].life = life] = next
  BY <1>1, <1>2, <1>4
<1>6. /\ next.on = server.on /\ next.unit = server.unit /\ next.part = server.part
      /\ next.run = [server.run EXCEPT ![i] = y]
      /\ next = [on |-> next.on, run |-> next.run, unit |-> next.unit, part |-> next.part]
  BY <1>1, <1>4 DEF AnyState
<1>7. next.run \in [Item -> AnyRun]
  BY <1>1, <1>3, <1>6
<1>8. next \in AnyState
  BY <1>1, <1>6, <1>7 DEF AnyState
<1>9. ASSUME NEW j \in Item PROVE server.run[j].count <= next.run[j].count
  <2>1. server.run[j].count \in Nat
    BY <1>1 DEF AnyRun
  <2>2. next.run[j] = IF j = i THEN y ELSE server.run[j]
    BY <1>1, <1>6
  <2> QED
    BY <1>3, <2>1, <2>2
<1>10. ASSUME NEW p \in Part PROVE server.part[p] <= next.part[p]
  BY <1>1, <1>6 DEF AnyState
<1> QED
  BY <1>5, <1>8, <1>9, <1>10, BecomesMoves

LEMMA SteerMoves ==
  ASSUME ConsoleInv, NEW u \in Unit, NEW status \in UnitStatus,
         Becomes([server EXCEPT !.unit[u] = status])
  PROVE  MovesOn /\ status \in seen'.unit[u]
<1> DEFINE next == [server EXCEPT !.unit[u] = status]
<1>1. server \in AnyState
  BY DEF ConsoleInv, ConsoleShapes
<1>2. /\ next \in AnyState /\ next.unit[u] = status
      /\ \A j \in Item : server.run[j].count <= next.run[j].count
      /\ \A p \in Part : server.part[p] <= next.part[p]
  BY <1>1 DEF AnyState, AnyRun
<1> QED
  BY <1>2, BecomesMoves DEF MovesOn

LEMMA SaveMoves ==
  ASSUME ConsoleInv, NEW p \in Part, Becomes([server EXCEPT !.part[p] = @ + 1])
  PROVE  MovesOn /\ server'.part[p] = server.part[p] + 1 /\ server.part[p] \in Nat
<1> DEFINE next == [server EXCEPT !.part[p] = @ + 1]
<1>1. server \in AnyState
  BY DEF ConsoleInv, ConsoleShapes
<1>2. /\ next \in AnyState /\ next.part[p] = server.part[p] + 1 /\ server.part[p] \in Nat
      /\ \A j \in Item : server.run[j].count <= next.run[j].count
      /\ \A o \in Part : server.part[o] <= next.part[o]
  BY <1>1 DEF AnyState, AnyRun
<1> QED
  BY <1>2, BecomesMoves

LEMMA ElsewhereKeeps == ConsoleInv /\ Elsewhere => ConsoleInv'
<1> SUFFICES ASSUME ConsoleInv, Elsewhere PROVE ConsoleInv'
  OBVIOUS
<1>1. ASSUME NEW i \in Item, NEW status \in {"on", "off", "gone"}, Becomes(SetRow(i, status))
      PROVE  MovesOn
  BY <1>1, SetRowMoves DEF RowStatus
<1>2. ASSUME NEW u \in Unit, NEW status \in {"active", "paused", "cancelled"},
             Becomes([server EXCEPT !.unit[u] = status])
      PROVE  MovesOn
  BY <1>2, SteerMoves DEF UnitStatus
<1>3. MovesOn
  BY <1>1, <1>2, StartMoves DEF Elsewhere, Queue
<1> QED
  BY <1>3, Keeps DEF Elsewhere

LEMMA OthersKeep ==
  ConsoleInv /\ (OthersMove \/ \E i \in Item : RunMoves(i)) => ConsoleInv'
<1>1. ConsoleInv /\ OthersMove => ConsoleInv'
  BY StandsStill, Keeps DEF OthersMove
<1>2. ASSUME ConsoleInv, NEW i \in Item, RunMoves(i) PROVE ConsoleInv'
  <2>1. MovesOn
    BY <1>2, LifeMoves DEF RunMoves
  <2> QED
    BY <1>2, <2>1, Keeps DEF RunMoves
<1> QED
  BY <1>1, <1>2

-----------------------------------------------------------------------------
(* Refreshes.                                                              *)

\* The limited lists hold what the server has, or nothing.
LEMMA ListingWas == ConsoleInv => Listing \in AnyState /\ Was(Listing)
<1> SUFFICES ASSUME ConsoleInv PROVE Listing \in AnyState /\ Was(Listing)
  OBVIOUS
<1>1. server \in AnyState /\ Was(server)
  BY DEF ConsoleInv, ConsoleShapes
<1>2. NoRun \in AnyRun /\ NoRun.count = 0 /\ NoRun.life = "over"
  BY DEF NoRun, AnyRun
<1>3. ASSUME NEW i \in Item
      PROVE  /\ Listing.on[i] \in RowStatus /\ Listing.on[i] \in seen.on[i]
             /\ Listing.run[i] \in AnyRun /\ Listing.run[i].count <= server.run[i].count
             /\ Listing.run[i].life = "held" => "off" \in seen.on[i]
  <2>1. server.run[i] \in AnyRun /\ server.run[i].count \in Nat /\ server.on[i] \in RowStatus
    BY <1>1 DEF AnyState, AnyRun
  <2>2. Listing.on[i] \in {server.on[i], "absent"} /\ Listing.run[i] \in {server.run[i], NoRun}
    BY DEF Listing
  <2> QED
    BY <1>1, <1>2, <2>1, <2>2 DEF Was, ConsoleInv, RowStatus
<1>4. ASSUME NEW u \in Unit
      PROVE  Listing.unit[u] \in UnitStatus /\ Listing.unit[u] \in seen.unit[u]
  <2>1. Listing.unit[u] \in {server.unit[u], "none"} /\ server.unit[u] \in UnitStatus
    BY <1>1 DEF Listing, AnyState
  <2> QED
    BY <1>1, <2>1 DEF Was, ConsoleInv, UnitStatus
<1>5. Listing.part = server.part
  BY DEF Listing
<1>6. Listing \in AnyState
  <2>1. PICK on, run, unit, version :
          /\ Listing = [on |-> on, run |-> run, unit |-> unit, part |-> version]
          /\ on = [i \in Item |-> on[i]] /\ run = [i \in Item |-> run[i]]
          /\ unit = [u \in Unit |-> unit[u]] /\ version = server.part
    BY DEF Listing
  <2> QED
    BY <1>1, <1>3, <1>4, <2>1 DEF AnyState
<1> QED
  BY <1>1, <1>3, <1>4, <1>5, <1>6 DEF Was

LEMMA RefreshKeeps ==
  ASSUME ConsoleInv, NEW k \in Slot,
         \/ BeginRefresh(k) \/ ReadList(k) \/ ReadListFails(k) \/ Apply(k)
         \/ \E s \in Section : ReadSection(k, s)
  PROVE  ConsoleInv'
<1> DEFINE r == refresh[k]
<1>1. /\ refresh \in [Slot -> AnyRefresh] /\ r \in AnyRefresh /\ Was(r.got)
      /\ server \in AnyState /\ view \in AnyState /\ Was(server) /\ Was(view)
      /\ r.got \in AnyState
  BY DEF ConsoleInv, ConsoleShapes, AnyRefresh
<1>2. MovesOn /\ UNCHANGED <<server, seen, call>>
  BY StandsStill DEF BeginRefresh, ReadList, ReadListFails, Apply, ReadSection
<1>3. IdleRefresh \in AnyRefresh /\ Was(IdleRefresh.got) /\ IdleRefresh.got \in AnyState
  <2>1. IdleRefresh.got = NothingYet /\ IdleRefresh \in AnyRefresh
    BY DEF IdleRefresh, AnyRefresh, NothingYet, AnyState, AnyRun, NoRun, RowStatus, UnitStatus,
           Section
  <2>2. Was(NothingYet)
    BY <1>1 DEF Was, NothingYet, NoRun, ConsoleInv, AnyState, AnyRun
  <2> QED
    BY <2>1, <2>2 DEF AnyRefresh
<1>4. ASSUME NEW q \in AnyRefresh, refresh' = [refresh EXCEPT ![k] = q], Was(q.got),
             view' = view
      PROVE  ConsoleInv'
  <2>1. q.got \in AnyState
    BY DEF AnyRefresh
  <2> QED
    BY <1>2, <1>4, <2>1, WasStays, Keeps
<1>5. CASE BeginRefresh(k)
  <2> DEFINE q == [r EXCEPT !.pc = "list"]
  <2>1. q \in AnyRefresh /\ q.got = r.got
    BY <1>1 DEF AnyRefresh
  <2>2. refresh' = [refresh EXCEPT ![k] = q] /\ view' = view
    BY <1>1, <1>5 DEF BeginRefresh
  <2> HIDE DEF q
  <2> QED
    BY <1>1, <1>4, <2>1, <2>2
<1>6. CASE ReadList(k)
  <2> DEFINE q == [r EXCEPT !.pc = "rest", !.got.on = Listing.on, !.unread = Section]
  <2>0. Listing \in AnyState /\ Was(Listing)
    BY ListingWas
  <2>1. q \in AnyRefresh /\ q.got = [r.got EXCEPT !.on = Listing.on]
    BY <1>1, <2>0 DEF AnyRefresh, AnyState
  <2>2. Was([r.got EXCEPT !.on = Listing.on])
    BY <1>1, <2>0 DEF Was, AnyState
  <2>3. refresh' = [refresh EXCEPT ![k] = q] /\ view' = view
    BY <1>1, <1>6 DEF ReadList, AnyRefresh
  <2> HIDE DEF q
  <2> QED
    BY <1>4, <2>1, <2>2, <2>3
<1>7. CASE ReadListFails(k)
  BY <1>3, <1>4, <1>7 DEF ReadListFails
<1>8. ASSUME NEW s \in Section, ReadSection(k, s)
      PROVE  ConsoleInv'
  <2>1. \/ refresh' = [refresh EXCEPT ![k].got[s] = Listing[s], ![k].unread = @ \ {s}]
        \/ refresh' = [refresh EXCEPT ![k].unread = @ \ {s}, ![k].lost = @ \cup {s}]
    BY <1>8 DEF ReadSection
  <2>2. CASE refresh' = [refresh EXCEPT ![k].unread = @ \ {s}, ![k].lost = @ \cup {s}]
    <3> DEFINE q == [r EXCEPT !.unread = @ \ {s}, !.lost = @ \cup {s}]
    <3>1. q \in AnyRefresh /\ q.got = r.got
      BY <1>1 DEF AnyRefresh
    <3>2. refresh' = [refresh EXCEPT ![k] = q] /\ view' = view
      BY <1>1, <1>8, <2>2 DEF ReadSection, AnyRefresh
    <3> HIDE DEF q
    <3> QED
      BY <1>1, <1>4, <3>1, <3>2
  <2>3. CASE refresh' = [refresh EXCEPT ![k].got[s] = Listing[s], ![k].unread = @ \ {s}]
    <3> DEFINE g == [r.got EXCEPT ![s] = Listing[s]]
               q == [r EXCEPT !.got = g, !.unread = @ \ {s}]
    <3>0. Listing \in AnyState /\ Was(Listing)
      BY ListingWas
    <3>1. g \in AnyState /\ Was(g)
      <4>1. CASE s = "run"
        BY <1>1, <3>0, <4>1 DEF AnyState, Was
      <4>2. CASE s = "unit"
        BY <1>1, <3>0, <4>2 DEF AnyState, Was
      <4>3. CASE s = "part"
        BY <1>1, <3>0, <4>3 DEF AnyState, Was
      <4> QED
        BY <4>1, <4>2, <4>3 DEF Section
    <3>2. refresh' = [refresh EXCEPT ![k] = q]
      BY <1>1, <2>3 DEF AnyRefresh
    <3> HIDE DEF g
    <3>3. q \in AnyRefresh /\ q.got = g
      BY <1>1, <3>1 DEF AnyRefresh
    <3>4. view' = view
      BY <1>8 DEF ReadSection
    <3> HIDE DEF q
    <3> QED
      BY <1>4, <3>1, <3>2, <3>3, <3>4
  <2> QED
    BY <2>1, <2>2, <2>3
<1>9. CASE Apply(k)
  <2>1. view' \in AnyState /\ Was(view')
    <3>1. PICK v : /\ view' = v
                   /\ v = [on |-> [i \in Item |-> ShownRow(i, r)],
                           run |-> [i \in Item |-> ShownRun(i, r)],
                           unit |-> IF "unit" \in r.lost THEN view.unit ELSE r.got.unit,
                           part |-> IF "part" \in r.lost THEN view.part ELSE r.got.part]
      BY <1>9 DEF Apply
    <3>2. ASSUME NEW i \in Item
          PROVE  /\ ShownRow(i, r) \in RowStatus /\ ShownRow(i, r) \in seen.on[i]
                 /\ ShownRun(i, r) \in AnyRun /\ ShownRun(i, r).count <= server.run[i].count
                 /\ ShownRun(i, r).life = "held" => "off" \in seen.on[i]
      <4>1. /\ NoRun \in AnyRun /\ NoRun.count = 0 /\ NoRun.life = "over"
            /\ server.run[i].count \in Nat
        BY <1>1 DEF NoRun, AnyRun, AnyState
      <4>2. r.got.run[i] \in AnyRun /\ view.run[i] \in AnyRun /\ r.got.on[i] \in RowStatus
        BY <1>1 DEF AnyState
      <4>3. ShownRun(i, r) \in {NoRun, view.run[i], r.got.run[i]}
        BY DEF ShownRun
      <4>4. /\ ShownRun(i, r) \in AnyRun /\ ShownRun(i, r).count <= server.run[i].count
            /\ ShownRun(i, r).life = "held" => "off" \in seen.on[i]
        BY <1>1, <4>1, <4>2, <4>3 DEF Was
      <4>5. \/ ShownRow(i, r) \in {"absent", r.got.on[i]}
            \/ ShownRow(i, r) = "off" /\ ShownRun(i, r).life = "held"
        BY DEF ShownRow, StatusFromRun
      <4> QED
        BY <1>1, <4>2, <4>4, <4>5 DEF Was, ConsoleInv, RowStatus
    <3>3. v \in AnyState
      BY <1>1, <3>1, <3>2 DEF AnyState
    <3>4. Was(v)
      BY <1>1, <3>1, <3>2 DEF Was
    <3> QED
      BY <3>1, <3>3, <3>4
  <2>2. view' \in AnyState /\ Was(view)'
    BY <1>2, <2>1 DEF Was
  <2>3. refresh' = [refresh EXCEPT ![k] = IdleRefresh] /\ Was(IdleRefresh.got)'
    BY <1>2, <1>3, <1>9, WasStays DEF Apply
  <2> QED
    BY <1>2, <1>3, <2>2, <2>3, Keeps
<1> QED
  BY <1>5, <1>6, <1>7, <1>8, <1>9

-----------------------------------------------------------------------------
(* The operator's calls.                                                   *)

\* One call becomes another, and the view stays or is set to what has been.
LEMMA CallBecomes ==
  ASSUME ConsoleInv, MovesOn, NEW c \in Call, NEW q \in AnyCall, CallHolds(q)',
         call' = [call EXCEPT ![c] = q], refresh' = refresh,
         view' = view \/ (view' \in AnyState /\ Was(view)')
  PROVE  ConsoleInv'
BY Keeps

LEMMA SendKeeps ==
  ASSUME ConsoleInv, NEW c \in Call, NEW kind \in {"row", "edit", "run", "unit", "part"},
         NEW id \in Item \cup Unit \cup Part, NEW want \in Wanted, Send(c, kind, id, want),
         kind \in {"row", "edit", "run"} => id \in Item,
         kind = "unit" => id \in Unit /\ want \in UnitStatus,
         kind = "row" => want \in {"on", "off", "gone"},
         kind = "part" => id \in Part
  PROVE  ConsoleInv'
<1>1. PICK q : q = [IdleCall EXCEPT !.pc = "sent", !.kind = kind, !.id = id, !.want = want]
  OBVIOUS
<1>2. /\ q = [pc |-> "sent", kind |-> kind, id |-> id, want |-> want, ok |-> FALSE,
              reply |-> NoRun]
      /\ call' = [call EXCEPT ![c] = q] /\ view' = view
      /\ UNCHANGED <<server, refresh, seen>>
  BY <1>1 DEF Send, IdleCall, WhenSent
<1>3. q \in AnyCall
  BY <1>2 DEF AnyCall, AnyRun, NoRun
<1>4. CallHolds(q)'
  BY <1>2 DEF CallHolds
<1> QED
  BY <1>2, <1>3, <1>4, StandsStill, CallBecomes

LEMMA RequestKeeps ==
  ASSUME ConsoleInv, NEW c \in Call,
         \/ \E i \in Item : \/ TogglePause(c, i) \/ SubmitSchedule(c, i)
                             \/ ConfirmRemove(c, i) \/ RunNowClick(c, i)
         \/ \E u \in Unit, status \in {"active", "paused", "cancelled"} :
              SetDeviceCycleStatus(c, u, status)
         \/ \E p \in Part : Save(c, p)
  PROVE  ConsoleInv'
<1>1. ASSUME NEW i \in Item, TogglePause(c, i) PROVE ConsoleInv'
  <2>1. ASSUME NEW want \in {"on", "off"}, Send(c, "row", i, want) PROVE ConsoleInv'
    BY <2>1, SendKeeps DEF Wanted
  <2> QED
    BY <1>1, <2>1 DEF TogglePause
<1>2. ASSUME NEW i \in Item, ConfirmRemove(c, i) PROVE ConsoleInv'
  BY <1>2, SendKeeps DEF ConfirmRemove, Wanted
<1>3. ASSUME NEW i \in Item, RunNowClick(c, i) PROVE ConsoleInv'
  BY <1>3, SendKeeps DEF RunNowClick, Wanted
<1>4. ASSUME NEW u \in Unit, NEW status \in {"active", "paused", "cancelled"},
             SetDeviceCycleStatus(c, u, status)
      PROVE  ConsoleInv'
  BY <1>4, SendKeeps DEF SetDeviceCycleStatus, Wanted, UnitStatus
<1>5. ASSUME NEW p \in Part, Save(c, p) PROVE ConsoleInv'
  BY <1>5, SendKeeps DEF Save, Wanted
<1>6. ASSUME NEW i \in Item, SubmitSchedule(c, i) PROVE ConsoleInv'
  BY <1>6, SendKeeps DEF SubmitSchedule, Wanted
<1> QED
  BY <1>1, <1>2, <1>3, <1>4, <1>5, <1>6

\* What an accepted request has made of the server, and the answer to it.
LEMMA Served ==
  ASSUME ConsoleInv, NEW q \in AnyCall, CallHolds(q), Accept(q)
  PROVE  /\ MovesOn /\ Reply(q) \in AnyRun /\ AnsweredRow(q) \in Wanted
         /\ q.kind # "edit" => AnsweredRow(q) = q.want
         /\ q.kind = "row" => q.want \in seen'.on[q.id]
         /\ q.kind = "edit" => AnsweredRow(q) \in {"on", "off"} \cap seen'.on[q.id]
         /\ q.kind = "run" => /\ Reply(q).count <= server'.run[q.id].count
                              /\ Reply(q).life = "going" /\ "on" \in seen'.on[q.id]
         /\ q.kind = "unit" => q.want \in seen'.unit[q.id]
         /\ q.kind = "part" => Reply(q).count <= server'.part[q.id]
<1>0. q.kind # "edit" => AnsweredRow(q) = q.want /\ AnsweredRow(q) \in Wanted
  BY DEF AnsweredRow, AnyCall
<1>1. NoRun \in AnyRun
  BY DEF NoRun, AnyRun
<1>2. CASE q.kind = "row" /\ Becomes(SetRow(q.id, q.want))
  <2>1. q.id \in Item /\ q.want \in RowStatus
    BY <1>2 DEF CallHolds, RowStatus
  <2> QED
    BY <1>0, <1>1, <1>2, <2>1, SetRowMoves DEF Reply
<1>3. CASE q.kind = "run" /\ CanRun(q.id) /\ Queue(q.id)
  <2>1. q.id \in Item /\ "on" \in seen.on[q.id]
    BY <1>3 DEF CallHolds, CanRun, ConsoleInv, Was
  <2>2. MovesOn /\ Started(q.id) \in AnyRun /\ server'.run[q.id] = Started(q.id)
    BY <1>3, <2>1, StartMoves DEF Queue
  <2>3. Reply(q) = Started(q.id) /\ Started(q.id).count \in Nat /\ Started(q.id).life = "going"
    BY <1>3, <2>2 DEF Reply, AnyRun, Started
  <2>4. "on" \in seen'.on[q.id]
    BY <2>1, <2>2 DEF MovesOn
  <2> QED
    BY <1>0, <1>3, <2>2, <2>3, <2>4
<1>4. CASE q.kind = "unit" /\ Becomes([server EXCEPT !.unit[q.id] = q.want])
  <2>1. q.id \in Unit /\ q.want \in UnitStatus
    BY <1>4 DEF CallHolds
  <2> QED
    BY <1>0, <1>1, <1>4, <2>1, SteerMoves DEF Reply
<1>5. CASE q.kind = "part" /\ Becomes([server EXCEPT !.part[q.id] = @ + 1])
  <2>1. q.id \in Part
    BY <1>5 DEF CallHolds
  <2>2. MovesOn /\ server'.part[q.id] = server.part[q.id] + 1 /\ server.part[q.id] \in Nat
    BY <1>5, <2>1, SaveMoves
  <2>3. Reply(q) = [count |-> server.part[q.id] + 1, life |-> "over"]
    BY <1>5 DEF Reply, NoRun
  <2>4. Reply(q) \in AnyRun /\ Reply(q).count = server.part[q.id] + 1
    BY <2>2, <2>3 DEF AnyRun
  <2> QED
    BY <1>0, <1>5, <2>2, <2>4
<1>6. CASE q.kind = "edit" /\ CanSet(q.id) /\ UNCHANGED <<server, seen>>
  <2>1. q.id \in Item /\ server.on[q.id] \in {"on", "off"} \cap seen.on[q.id]
    BY <1>6 DEF CallHolds, CanSet, Listed, ConsoleInv, Was
  <2>2. AnsweredRow(q) = server.on[q.id] /\ Reply(q) = NoRun
    BY <1>6 DEF AnsweredRow, Reply
  <2> QED
    BY <1>1, <1>6, <2>1, <2>2, StandsStill DEF Wanted
<1> QED
  BY <1>2, <1>3, <1>4, <1>5, <1>6 DEF Accept

LEMMA ServeKeeps == ASSUME ConsoleInv, NEW c \in Call, Serve(c) PROVE ConsoleInv'
<1>1. PICK q \in AnyCall : q = call[c] /\ CallHolds(q) /\ q.pc = "sent"
  BY DEF ConsoleInv, ConsoleShapes, Serve
<1>2. call \in [Call -> AnyCall] /\ UNCHANGED <<view, refresh>>
  BY DEF ConsoleInv, ConsoleShapes, Serve
<1>3. ASSUME MovesOn, call' = [call EXCEPT ![c].pc = "answered"]
      PROVE  ConsoleInv'
  <2>1. PICK answer : answer = [q EXCEPT !.pc = "answered"]
    OBVIOUS
  <2>2. answer \in AnyCall /\ call' = [call EXCEPT ![c] = answer]
    BY <1>1, <1>2, <1>3, <2>1 DEF AnyCall
  <2>3. /\ answer.pc = "answered" /\ answer.kind = q.kind /\ answer.id = q.id /\ answer.want = q.want
        /\ answer.ok = q.ok /\ answer.reply = q.reply
    BY <2>1 DEF AnyCall
  <2>4. CallHolds(answer)
    BY <1>1, <2>3 DEF CallHolds
  <2> QED
    BY <1>2, <1>3, <2>2, <2>4, CallStays, CallBecomes
<1>4. ASSUME Accept(q),
             call' = [call EXCEPT ![c].pc = "answered", ![c].ok = TRUE,
                                  ![c].want = AnsweredRow(q), ![c].reply = Reply(q)]
      PROVE  ConsoleInv'
  <2>1. /\ MovesOn /\ Reply(q) \in AnyRun /\ AnsweredRow(q) \in Wanted
        /\ q.kind # "edit" => AnsweredRow(q) = q.want
        /\ q.kind = "row" => q.want \in seen'.on[q.id]
        /\ q.kind = "edit" => AnsweredRow(q) \in {"on", "off"} \cap seen'.on[q.id]
        /\ q.kind = "run" => /\ Reply(q).count <= server'.run[q.id].count
                             /\ Reply(q).life = "going" /\ "on" \in seen'.on[q.id]
        /\ q.kind = "unit" => q.want \in seen'.unit[q.id]
        /\ q.kind = "part" => Reply(q).count <= server'.part[q.id]
    BY <1>1, <1>4, Served
  <2>2. PICK rep \in AnyRun, want \in Wanted : rep = Reply(q) /\ want = AnsweredRow(q)
    BY <2>1
  <2>3. PICK answer : answer = [q EXCEPT !.pc = "answered", !.ok = TRUE, !.want = want,
                                         !.reply = rep]
    OBVIOUS
  <2>4. answer \in AnyCall /\ call' = [call EXCEPT ![c] = answer]
    BY <1>1, <1>2, <1>4, <2>2, <2>3 DEF AnyCall
  <2>5. /\ answer.pc = "answered" /\ answer.kind = q.kind /\ answer.id = q.id /\ answer.want = want
        /\ answer.ok /\ answer.reply = rep
    BY <2>3 DEF AnyCall
  <2>6. CallHolds(answer)'
    BY <1>1, <2>1, <2>2, <2>5 DEF CallHolds
  <2> QED
    BY <1>2, <2>1, <2>4, <2>6, CallBecomes
<1>5. \/ Accept(q) /\ call' = [call EXCEPT ![c].pc = "answered", ![c].ok = TRUE,
                                  ![c].want = AnsweredRow(q), ![c].reply = Reply(q)]
      \/ Accept(q) /\ call' = [call EXCEPT ![c].pc = "answered"]
      \/ call' = [call EXCEPT ![c].pc = "answered"] /\ UNCHANGED <<server, seen>>
  BY <1>1 DEF Serve
<1>6. Accept(q) => MovesOn
  BY <1>1, Served
<1> QED
  BY <1>3, <1>4, <1>5, <1>6, StandsStill

LEMMA AnswerShows ==
  ASSUME ConsoleInv, NEW c \in Call, Answer(c)
  PROVE  view' = view \/ (view' \in AnyState /\ Was(view'))
<1>1. PICK q \in AnyCall : q = call[c] /\ CallHolds(q)
  BY DEF ConsoleInv, ConsoleShapes
<1>2. view \in AnyState /\ Was(view) /\ server \in AnyState
  BY DEF ConsoleInv, ConsoleShapes
<1>3. \A i \in Item : view.on[i] \in RowStatus /\ view.run[i] \in AnyRun
  BY <1>2 DEF AnyState
<1>4. NoRun \in AnyRun /\ NoRun.count = 0
  BY DEF NoRun, AnyRun
<1>5. ASSUME NEW i \in Item, NEW o \in RowStatus, NEW r \in AnyRun, o \in seen.on[i],
             r.count <= server.run[i].count, r.life = "held" => "off" \in seen.on[i],
             view' = [view EXCEPT !.on[i] = o, !.run[i] = r]
      PROVE  view' \in AnyState /\ Was(view')
  BY <1>2, <1>5 DEF AnyState, Was
<1>6. ASSUME NEW i \in Item, NEW o \in RowStatus, o \in seen.on[i],
             view' = [view EXCEPT !.on[i] = o]
      PROVE  view' \in AnyState /\ Was(view')
  BY <1>2, <1>6 DEF AnyState, Was
<1>7. ASSUME q.ok, q.kind = "part", view' = [view EXCEPT !.part[q.id] = q.reply.count]
      PROVE  view' \in AnyState /\ Was(view')
  <2>1. PICK n \in Nat : n = q.reply.count /\ q.id \in Part /\ n <= server.part[q.id]
    BY <1>1, <1>7 DEF CallHolds, AnyCall, AnyRun
  <2> QED
    BY <1>2, <1>7, <2>1 DEF AnyState, Was
<1>8. ASSUME NEW i \in Item, NEW on \in RowStatus, on \in seen.on[i]
      PROVE  StillListed(i, on) \in RowStatus /\ StillListed(i, on) \in seen.on[i]
  BY <1>8 DEF StillListed, ConsoleInv, RowStatus
<1>9. CASE q.ok /\ q.kind = "row"
  <2>1. q.id \in Item /\ q.want \in RowStatus /\ q.want \in seen.on[q.id]
    BY <1>1, <1>9 DEF CallHolds, RowStatus
  <2>2. CASE view' = [view EXCEPT !.on[q.id] = StillListed(q.id, q.want)]
    BY <1>6, <1>8, <2>1, <2>2
  <2>3. CASE view' = [view EXCEPT !.on[q.id] = "absent", !.run[q.id] = NoRun]
    <3>1. "absent" \in RowStatus /\ "absent" \in seen.on[q.id]
      BY <2>1 DEF ConsoleInv, RowStatus
    <3>2. NoRun.count <= server.run[q.id].count /\ NoRun.life # "held"
      BY <1>2, <1>4, <2>1 DEF AnyState, AnyRun, NoRun
    <3> QED
      BY <1>4, <1>5, <2>1, <2>3, <3>1, <3>2
  <2> QED
    BY <1>1, <1>9, <2>2, <2>3 DEF Answer
<1>10. CASE q.ok /\ q.kind = "edit"
  <2>1. q.id \in Item /\ q.want \in {"on", "off"} /\ q.want \in seen.on[q.id]
    BY <1>1, <1>10 DEF CallHolds
  <2>2. PICK o : o = StatusFromRun(view.run[q.id], q.want)
    OBVIOUS
  <2>3. o \in RowStatus /\ o \in seen.on[q.id]
    BY <1>2, <2>1, <2>2 DEF StatusFromRun, Was, RowStatus
  <2>4. view' = [view EXCEPT !.on[q.id] = StillListed(q.id, o)]
    BY <1>1, <1>10, <2>2 DEF Answer
  <2> QED
    BY <1>6, <1>8, <2>1, <2>3, <2>4
<1>11. CASE q.ok /\ q.kind = "run"
  <2>1. /\ q.id \in Item /\ q.reply \in AnyRun /\ q.reply.count <= server.run[q.id].count
        /\ q.reply.life = "going" /\ "on" \in seen.on[q.id]
    BY <1>1, <1>11 DEF CallHolds, AnyCall
  <2>2. PICK r \in AnyRun : /\ r = IF Listed(view.on[q.id]) THEN q.reply ELSE view.run[q.id]
                            /\ r.count <= server.run[q.id].count
                            /\ r.life = "held" => "off" \in seen.on[q.id]
    BY <1>2, <1>3, <2>1 DEF Was
  <2>3. PICK o \in RowStatus : o = StillListed(q.id, "on") /\ o \in seen.on[q.id]
    BY <1>8, <2>1 DEF RowStatus
  <2>4. StatusFromRun(q.reply, "on") = "on"
    BY <2>1 DEF StatusFromRun
  <2>5. view' = [view EXCEPT !.on[q.id] = StillListed(q.id, StatusFromRun(q.reply, "on")),
                             !.run[q.id] = IF Listed(view.on[q.id]) THEN q.reply ELSE @]
    BY <1>1, <1>11 DEF Answer
  <2>6. view' = [view EXCEPT !.on[q.id] = o, !.run[q.id] = r]
    BY <1>2, <2>1, <2>2, <2>3, <2>4, <2>5 DEF AnyState
  <2> QED
    BY <1>5, <2>1, <2>2, <2>3, <2>6
<1>12. CASE q.ok /\ q.kind = "part"
  BY <1>1, <1>7, <1>12 DEF Answer
<1>13. CASE view' = view
  BY <1>13
<1>14. view' = view \/ (q.ok /\ q.kind \in {"row", "edit", "run", "part"})
  BY <1>1 DEF Answer
<1> QED
  BY <1>9, <1>10, <1>11, <1>12, <1>13, <1>14

LEMMA AnswerKeeps == ASSUME ConsoleInv, NEW c \in Call, Answer(c) PROVE ConsoleInv'
<1>1. PICK q \in AnyCall : q = call[c] /\ CallHolds(q)
  BY DEF ConsoleInv, ConsoleShapes
<1>2. MovesOn /\ UNCHANGED <<server, refresh, seen>>
  BY StandsStill DEF Answer
<1>3. view' = view \/ (view' \in AnyState /\ Was(view)')
  BY <1>2, AnswerShows DEF Was
<1>4. IdleCall \in AnyCall /\ CallHolds(IdleCall)'
  BY DEF IdleCall, AnyCall, AnyRun, NoRun, Wanted, CallHolds
<1>5. PICK answer \in AnyCall :
        answer = IF q.kind = "unit" /\ q.ok THEN [q EXCEPT !.pc = "reread"] ELSE IdleCall
  BY <1>4 DEF AnyCall
<1>6. CallHolds(answer)'
  <2>1. CASE q.kind = "unit" /\ q.ok
    <3>1. /\ answer.pc = "reread" /\ answer.kind = q.kind /\ answer.id = q.id /\ answer.want = q.want
          /\ answer.ok = q.ok /\ answer.reply = q.reply
      BY <1>5, <2>1 DEF AnyCall
    <3>2. CallHolds(answer)
      BY <1>1, <2>1, <3>1 DEF CallHolds
    <3> QED
      BY <1>2, <3>2, CallStays
  <2>2. CASE ~(q.kind = "unit" /\ q.ok)
    BY <1>4, <1>5, <2>2
  <2> QED
    BY <2>1, <2>2
<1>7. call' = [call EXCEPT ![c] = answer]
  BY <1>1, <1>5 DEF Answer
<1> QED
  BY <1>2, <1>3, <1>6, <1>7, CallBecomes

LEMMA RereadKeeps == ASSUME ConsoleInv, NEW c \in Call, Reread(c) PROVE ConsoleInv'
<1>1. PICK q \in AnyCall : q = call[c] /\ CallHolds(q) /\ q.pc = "reread"
  BY DEF ConsoleInv, ConsoleShapes, Reread
<1>2. /\ view \in AnyState /\ server \in AnyState /\ Was(view) /\ Was(server)
      /\ q.id \in Unit /\ q.want \in UnitStatus /\ q.want \in seen.unit[q.id]
  BY <1>1 DEF ConsoleInv, ConsoleShapes, CallHolds
<1>3. MovesOn /\ UNCHANGED <<server, refresh, seen>>
  BY StandsStill DEF Reread
<1>4. ASSUME view' = [view EXCEPT !.unit = Listing.unit]
      PROVE  view' \in AnyState /\ Was(view')
  <2>1. Listing \in AnyState /\ Was(Listing)
    BY ListingWas
  <2> QED
    BY <1>2, <1>4, <2>1 DEF AnyState, Was
<1>5. ASSUME view' = [view EXCEPT !.unit[q.id] = IF @ = "none" THEN @ ELSE q.want]
      PROVE  view' \in AnyState /\ Was(view')
  <2>1. view.unit[q.id] \in UnitStatus /\ view.unit[q.id] \in seen.unit[q.id]
    BY <1>2 DEF AnyState, Was
  <2>2. PICK w \in UnitStatus :
          /\ w = IF view.unit[q.id] = "none" THEN view.unit[q.id] ELSE q.want
          /\ w \in seen.unit[q.id]
    BY <1>2, <2>1
  <2>3. view' = [view EXCEPT !.unit[q.id] = w]
    BY <1>2, <1>5, <2>2 DEF AnyState
  <2> QED
    BY <1>2, <2>2, <2>3 DEF AnyState, Was
<1>6. view' \in AnyState /\ Was(view)'
  BY <1>1, <1>3, <1>4, <1>5 DEF Reread, Was
<1>7. IdleCall \in AnyCall /\ CallHolds(IdleCall)'
  BY DEF IdleCall, AnyCall, AnyRun, NoRun, Wanted, CallHolds
<1> QED
  BY <1>3, <1>6, <1>7, CallBecomes DEF Reread

-----------------------------------------------------------------------------
LEMMA ConsoleSteps == ConsoleInv /\ [ConsoleNext]_consoleVars => ConsoleInv'
<1> SUFFICES ASSUME ConsoleInv, [ConsoleNext]_consoleVars PROVE ConsoleInv'
  OBVIOUS
<1>1. CASE UNCHANGED consoleVars
  BY <1>1, StandsStill, Keeps DEF consoleVars
<1>2. CASE ConsoleNext
  BY <1>2, ElsewhereKeeps, OthersKeep, RefreshKeeps, RequestKeeps, ServeKeeps, AnswerKeeps, RereadKeeps
     DEF ConsoleNext
<1> QED
  BY <1>1, <1>2

\* Whatever is refused, lost or overtaken, and however many refreshes and
\* calls overlap: every status the dashboard shows is one the server has had,
\* and no run count or version is shown that the server has not reached.
THEOREM NothingIsInvented == ConsoleSpec => []ShownWasTrue
<1>1. ConsoleInv => ShownWasTrue
  BY DEF ConsoleInv, ShownWasTrue, Was
<1> QED
  BY <1>1, ConsoleStarts, ConsoleSteps, PTL DEF ConsoleSpec

-----------------------------------------------------------------------------
(* The bounds of an instance: counts never pass the edits that made them.  *)

\* Calls the server has not had, each of which has been counted as an edit.
OnTheWay == {c \in Call : call[c].pc = "sent"}

EditsCounted ==
  /\ edits \in 0 .. MaxEdits /\ losses \in 0 .. MaxLosses
  /\ IsFiniteSet(OnTheWay)
  /\ \A i \in Item : server.run[i].count + Cardinality(OnTheWay) <= edits
  /\ \A p \in Part : server.part[p] + Cardinality(OnTheWay) <= edits + 1
  /\ \A i \in Item : view.on[i] # "gone"
  /\ reach \in Reach

\* What a step adds to the counts, another edit or a call that arrives makes up for.
LEMMA CountsKeep ==
  ASSUME ConsoleInv, ConsoleInv', EditsCounted, NEW new \in {0, 1}, NEW fewer \in {0, 1}, NEW more \in {0, 1},
         edits' = edits + new, edits' <= MaxEdits, losses' \in 0 .. MaxLosses,
         IsFiniteSet(OnTheWay'),
         Cardinality(OnTheWay') = Cardinality(OnTheWay) + more - fewer,
         \A i \in Item : server'.run[i].count <= server.run[i].count + new + fewer - more,
         \A p \in Part : server'.part[p] <= server.part[p] + new + fewer - more,
         \A i \in Item : view'.on[i] # "gone", reach' \in Reach
  PROVE  EditsCounted'
<1>1. /\ edits \in Nat /\ edits' \in 0 .. MaxEdits
      /\ Cardinality(OnTheWay) \in Nat /\ Cardinality(OnTheWay)' \in Nat
  BY FS_CardinalityType, ConsoleAssumption DEF EditsCounted
<1>2. ASSUME NEW i \in Item
      PROVE  server'.run[i].count + Cardinality(OnTheWay)' <= edits'
  <2>1. server.run[i].count \in Nat /\ server'.run[i].count \in Nat
    BY DEF ConsoleInv, ConsoleShapes, AnyState, AnyRun
  <2> QED
    BY <1>1, <2>1 DEF EditsCounted
<1>3. ASSUME NEW p \in Part
      PROVE  server'.part[p] + Cardinality(OnTheWay)' <= edits' + 1
  <2>1. server.part[p] \in Nat /\ server'.part[p] \in Nat
    BY DEF ConsoleInv, ConsoleShapes, AnyState
  <2> QED
    BY <1>1, <2>1 DEF EditsCounted
<1> QED
  BY <1>1, <1>2, <1>3 DEF EditsCounted

LEMMA SameCalls ==
  ASSUME ConsoleInv, NEW c \in Call, NEW q, call' = [call EXCEPT ![c] = q],
         (q.pc = "sent") <=> (call[c].pc = "sent")
  PROVE  OnTheWay' = OnTheWay
BY DEF ConsoleInv, ConsoleShapes, OnTheWay

LEMMA TakesPlaceKeeps ==
  ASSUME reach \in Reach, NEW i \in Item, TakesPlace(i)
  PROVE  reach' \in Reach
BY DEF TakesPlace, Reach

LEMMA ElsewhereCounts == ConsoleInv /\ ConsoleInv' /\ EditsCounted /\ Elsewhere => EditsCounted'
<1> SUFFICES ASSUME ConsoleInv, ConsoleInv', EditsCounted, Elsewhere PROVE EditsCounted'
  OBVIOUS
<1>1. server \in AnyState /\ server.run \in [Item -> AnyRun]
  BY DEF ConsoleInv, ConsoleShapes, AnyState
<1>2. UNCHANGED <<view, call, losses>> /\ OnTheWay' = OnTheWay
  BY DEF Elsewhere, OnTheWay
<1>3. PICK new \in {0, 1} :
        /\ edits' = edits + new /\ edits' <= MaxEdits
        /\ \A i \in Item : server'.run[i].count <= server.run[i].count + new
        /\ server'.part = server.part
  <2>1. ASSUME NEW i \in Item, NEW status, Edit, Becomes(SetRow(i, status))
        PROVE  /\ edits' = edits + 1 /\ edits' <= MaxEdits
               /\ \A j \in Item : server'.run[j].count <= server.run[j].count + 1
               /\ server'.part = server.part
    BY <1>1, <2>1, ConsoleAssumption DEF Edit, Becomes, SetRow, EditsCounted, AnyState, AnyRun
  <2>2. ASSUME NEW i \in Item, Edit, Becomes([server EXCEPT !.run[i] = Started(i)])
        PROVE  /\ edits' = edits + 1 /\ edits' <= MaxEdits
               /\ \A j \in Item : server'.run[j].count <= server.run[j].count + 1
               /\ server'.part = server.part
    BY <1>1, <2>2, ConsoleAssumption DEF Edit, Becomes, Started, EditsCounted, AnyState, AnyRun
  <2>4. ASSUME NEW u \in Unit, NEW status, Edit, Becomes([server EXCEPT !.unit[u] = status])
        PROVE  /\ edits' = edits + 1 /\ edits' <= MaxEdits
               /\ \A j \in Item : server'.run[j].count <= server.run[j].count + 1
               /\ server'.part = server.part
    BY <1>1, <2>4, ConsoleAssumption DEF Edit, Becomes, EditsCounted, AnyState, AnyRun
  <2> QED
    BY <2>1, <2>2, <2>4 DEF Elsewhere, Queue
<1>4. \A p \in Part : server'.part[p] <= server.part[p] + new
  BY <1>1, <1>3 DEF AnyState
<1>5. /\ IsFiniteSet(OnTheWay') /\ losses' \in 0 .. MaxLosses
      /\ \A i \in Item : view'.on[i] # "gone"
  BY <1>2 DEF EditsCounted
<1>9. reach' \in Reach
  <2>1. reach \in Reach
    BY DEF EditsCounted
  <2>2. reach' = reach \/ \E i \in Item : TakesPlace(i)
    BY DEF Elsewhere
  <2> QED
    BY <2>1, <2>2, TakesPlaceKeeps
<1>6. Cardinality(OnTheWay') = Cardinality(OnTheWay) + 0 - 0
  BY <1>2, FS_CardinalityType DEF EditsCounted
<1>7. server' \in AnyState
  BY DEF ConsoleInv, ConsoleShapes
<1>8. /\ \A i \in Item : server'.run[i].count <= server.run[i].count + new + 0 - 0
      /\ \A p \in Part : server'.part[p] <= server.part[p] + new + 0 - 0
  BY <1>1, <1>3, <1>4, <1>7 DEF AnyState, AnyRun
<1> QED
  BY <1>3, <1>5, <1>6, <1>8, <1>9, CountsKeep

LEMMA OthersCount ==
  ASSUME ConsoleInv, ConsoleInv', EditsCounted, OthersMove \/ \E i \in Item : RunMoves(i)
  PROVE  EditsCounted'
<1>1. server \in AnyState /\ server.run \in [Item -> AnyRun]
  BY DEF ConsoleInv, ConsoleShapes, AnyState
<1>2. /\ UNCHANGED <<view, call, losses>> /\ OnTheWay' = OnTheWay /\ reach' \in Reach
      /\ edits' = edits \/ Edit
  BY DEF OthersMove, RunMoves, OnTheWay, EditsCounted
<1>3. /\ server'.part = server.part
      /\ \A j \in Item : server'.run[j].count = server.run[j].count
  <2>1. ASSUME NEW i \in Item, NEW life, Becomes([server EXCEPT !.run[i].life = life])
        PROVE  /\ server'.part = server.part
               /\ \A j \in Item : server'.run[j].count = server.run[j].count
    <3>1. PICK y : y = [server.run[i] EXCEPT !.life = life]
      OBVIOUS
    <3>2. y.count = server.run[i].count
      BY <1>1, <3>1 DEF AnyRun
    <3>3. server' = [server EXCEPT !.run[i] = y]
      BY <1>1, <2>1, <3>1 DEF Becomes
    <3> QED
      BY <1>1, <3>2, <3>3 DEF AnyState
  <2> QED
    BY <2>1 DEF OthersMove, RunMoves
<1>4. PICK new \in {0, 1} : edits' = edits + new /\ edits' <= MaxEdits
  <2>1. CASE edits' = edits
    BY <2>1, ConsoleAssumption DEF EditsCounted
  <2>2. CASE Edit
    BY <2>2, ConsoleAssumption DEF Edit, EditsCounted
  <2> QED
    BY <1>2, <2>1, <2>2
<1>5. /\ \A i \in Item : server'.run[i].count <= server.run[i].count + new + 0 - 0
      /\ \A p \in Part : server'.part[p] <= server.part[p] + new + 0 - 0
  BY <1>1, <1>3 DEF AnyState, AnyRun
<1>6. /\ IsFiniteSet(OnTheWay') /\ losses' \in 0 .. MaxLosses
      /\ \A i \in Item : view'.on[i] # "gone"
  BY <1>2 DEF EditsCounted
<1>7. Cardinality(OnTheWay') = Cardinality(OnTheWay) + 0 - 0
  BY <1>2, FS_CardinalityType DEF EditsCounted
<1> QED
  BY <1>2, <1>4, <1>5, <1>6, <1>7, CountsKeep

LEMMA RefreshCounts ==
  ASSUME ConsoleInv, ConsoleInv', EditsCounted, NEW k \in Slot,
         \/ BeginRefresh(k) \/ ReadList(k) \/ ReadListFails(k) \/ Apply(k)
         \/ \E s \in Section : ReadSection(k, s)
  PROVE  EditsCounted'
<1>1. /\ UNCHANGED <<server, reach, call, edits>> /\ losses' \in 0 .. MaxLosses
      /\ OnTheWay' = OnTheWay
  <2>1. UNCHANGED <<server, reach, call, edits>> /\ (losses' = losses \/ Loss)
    BY DEF BeginRefresh, ReadList, ReadListFails, Apply, ReadSection
  <2>2. losses \in 0 .. MaxLosses
    BY DEF EditsCounted
  <2>3. losses' \in 0 .. MaxLosses
    BY <2>1, <2>2, ConsoleAssumption DEF Loss
  <2> QED
    BY <2>1, <2>3 DEF OnTheWay
<1>2. \A i \in Item : view'.on[i] # "gone"
  <2>1. CASE view' = view
    BY <2>1 DEF EditsCounted
  <2>2. CASE Apply(k)
    <3>1. PICK r : \A i \in Item : view'.on[i] = ShownRow(i, r)
      BY <2>2 DEF Apply
    <3> QED
      BY <3>1 DEF ShownRow, Listed, StatusFromRun
  <2>3. view' = view \/ Apply(k)
    BY DEF BeginRefresh, ReadList, ReadListFails, ReadSection
  <2> QED
    BY <2>1, <2>2, <2>3
<1> QED
  BY <1>1, <1>2 DEF EditsCounted

LEMMA SendCounts ==
  ASSUME ConsoleInv, ConsoleInv', EditsCounted, NEW c \in Call,
         NEW kind, NEW id, NEW want, Send(c, kind, id, want)
  PROVE  EditsCounted'
<1>1. PICK q : q = [IdleCall EXCEPT !.pc = "sent", !.kind = kind, !.id = id, !.want = want]
  OBVIOUS
<1>2. /\ q.pc = "sent" /\ call' = [call EXCEPT ![c] = q] /\ call[c].pc # "sent"
      /\ UNCHANGED <<server, view, reach, losses>>
      /\ edits' = edits + 1 /\ edits' <= MaxEdits
  BY <1>1, ConsoleAssumption DEF Send, Edit, IdleCall, WhenSent, EditsCounted
<1>3. OnTheWay' = OnTheWay \cup {c} /\ c \notin OnTheWay
  BY <1>2 DEF ConsoleInv, ConsoleShapes, OnTheWay
<1>4. IsFiniteSet(OnTheWay') /\ Cardinality(OnTheWay') = Cardinality(OnTheWay) + 1
  BY <1>3, FS_AddElement DEF EditsCounted
<1>5. /\ \A i \in Item : server'.run[i].count <= server.run[i].count + 1 + 0 - 1
      /\ \A p \in Part : server'.part[p] <= server.part[p] + 1 + 0 - 1
  BY <1>2 DEF ConsoleInv, ConsoleShapes, AnyState, AnyRun
<1>6. Cardinality(OnTheWay') = Cardinality(OnTheWay) + 1 - 0
  BY <1>4, FS_CardinalityType DEF EditsCounted
<1> QED
  BY <1>2, <1>4, <1>5, <1>6, CountsKeep DEF EditsCounted

LEMMA ServeCounts ==
  ASSUME ConsoleInv, ConsoleInv', EditsCounted, NEW c \in Call, Serve(c)
  PROVE  EditsCounted'
<1>1. PICK q \in AnyCall : q = call[c] /\ CallHolds(q) /\ q.pc = "sent"
  BY DEF ConsoleInv, ConsoleShapes, Serve
<1>2. server \in AnyState /\ server.run \in [Item -> AnyRun] /\ call \in [Call -> AnyCall]
  BY DEF ConsoleInv, ConsoleShapes, AnyState
<1>3. UNCHANGED <<view, edits>> /\ losses' \in 0 .. MaxLosses
  BY ConsoleAssumption DEF Serve, Loss, EditsCounted
<1>10. reach' \in Reach
  <2>1. reach' = reach \/ (q.kind = "run" /\ TakesPlace(q.id))
    BY <1>1 DEF Serve, Accept
  <2> QED
    BY <1>1, <2>1, TakesPlaceKeeps DEF EditsCounted, CallHolds
<1>4. call'[c].pc = "answered" /\ \A d \in Call \ {c} : call'[d] = call[d]
  BY <1>2 DEF Serve, AnyCall
<1>5. OnTheWay' = OnTheWay \ {c} /\ c \in OnTheWay
  BY <1>1, <1>4 DEF OnTheWay
<1>6. IsFiniteSet(OnTheWay') /\ Cardinality(OnTheWay') = Cardinality(OnTheWay) - 1
  BY <1>5, FS_RemoveElement DEF EditsCounted
<1>7. /\ \A i \in Item : server'.run[i].count <= server.run[i].count + 1
      /\ \A p \in Part : server'.part[p] <= server.part[p] + 1
  <2>1. CASE server' = server
    BY <1>2, <2>1 DEF AnyState, AnyRun
  <2>2. CASE q.kind = "row" /\ Becomes(SetRow(q.id, q.want))
    BY <1>2, <2>2 DEF Becomes, SetRow, AnyState, AnyRun
  <2>3. CASE q.kind = "run" /\ Becomes([server EXCEPT !.run[q.id] = Started(q.id)])
    BY <1>2, <2>3 DEF Becomes, Started, AnyState, AnyRun
  <2>4. CASE q.kind = "unit" /\ Becomes([server EXCEPT !.unit[q.id] = q.want])
    BY <1>2, <2>4 DEF Becomes, AnyState, AnyRun
  <2>5. CASE q.kind = "part" /\ Becomes([server EXCEPT !.part[q.id] = @ + 1])
    BY <1>2, <2>5 DEF Becomes, AnyState, AnyRun
  <2> QED
    BY <1>1, <2>1, <2>2, <2>3, <2>4, <2>5 DEF Serve, Accept, Queue
<1>8. /\ \A i \in Item : server'.run[i].count <= server.run[i].count + 0 + 1 - 0
      /\ \A p \in Part : server'.part[p] <= server.part[p] + 0 + 1 - 0
  BY <1>2, <1>7 DEF AnyState, AnyRun
<1>9. /\ Cardinality(OnTheWay') = Cardinality(OnTheWay) + 0 - 1
      /\ edits' = edits + 0 /\ edits' <= MaxEdits
  BY <1>3, <1>6, FS_CardinalityType, ConsoleAssumption DEF EditsCounted
<1> QED
  BY <1>3, <1>6, <1>8, <1>9, <1>10, CountsKeep DEF EditsCounted

LEMMA AnswerCounts ==
  ASSUME ConsoleInv, ConsoleInv', EditsCounted, NEW c \in Call, Answer(c) \/ Reread(c)
  PROVE  EditsCounted'
<1>1. PICK q \in AnyCall : q = call[c] /\ CallHolds(q) /\ q.pc \in {"answered", "reread"}
  BY DEF ConsoleInv, ConsoleShapes, Answer, Reread
<1>2. UNCHANGED <<server, reach, edits>> /\ losses' \in 0 .. MaxLosses
  BY ConsoleAssumption DEF Answer, Reread, Loss, EditsCounted
<1>3. OnTheWay' = OnTheWay
  <2>1. IdleCall.pc = "idle" /\ [q EXCEPT !.pc = "reread"].pc = "reread"
    BY DEF IdleCall, AnyCall
  <2> QED
    BY <1>1, <2>1, SameCalls DEF Answer, Reread
<1>4. \A i \in Item : view'.on[i] # "gone"
  <2>1. view \in AnyState /\ \A i \in Item : view.on[i] # "gone"
    BY DEF ConsoleInv, ConsoleShapes, EditsCounted
  <2>2. ASSUME NEW o, NEW run, o # "gone", q.id \in Item,
               view' = [view EXCEPT !.on[q.id] = o, !.run[q.id] = run]
        PROVE  \A i \in Item : view'.on[i] # "gone"
    BY <2>1, <2>2 DEF AnyState
  <2>3. ASSUME NEW o, o # "gone", q.id \in Item, view' = [view EXCEPT !.on[q.id] = o]
        PROVE  \A i \in Item : view'.on[i] # "gone"
    BY <2>1, <2>3 DEF AnyState
  <2>4. \A o : o # "gone" => StillListed(q.id, o) # "gone"
    BY DEF StillListed
  <2>5. CASE view'.on = view.on
    BY <2>1, <2>5
  <2>6. CASE Answer(c) /\ q.ok /\ q.kind = "row"
    <3>1. q.id \in Item
      BY <1>1, <2>6 DEF CallHolds
    <3>2. \/ q.want # "gone" /\ view' = [view EXCEPT !.on[q.id] = StillListed(q.id, q.want)]
          \/ view' = [view EXCEPT !.on[q.id] = "absent", !.run[q.id] = NoRun]
      BY <1>1, <2>6 DEF Answer
    <3> QED
      BY <2>2, <2>3, <2>4, <3>1, <3>2
  <2>7. CASE Answer(c) /\ q.ok /\ q.kind = "edit"
    <3>1. q.id \in Item /\ StatusFromRun(view.run[q.id], q.want) # "gone"
      BY <1>1, <2>7 DEF CallHolds, StatusFromRun
    <3> QED
      BY <1>1, <2>3, <2>4, <2>7, <3>1 DEF Answer
  <2>8. CASE Answer(c) /\ q.ok /\ q.kind = "run"
    <3>1. q.id \in Item /\ StatusFromRun(q.reply, "on") # "gone"
      BY <1>1, <2>8 DEF CallHolds, StatusFromRun
    <3>2. PICK run : run = IF Listed(view.on[q.id]) THEN q.reply ELSE view.run[q.id]
      OBVIOUS
    <3>3. view' = [view EXCEPT !.on[q.id] = StillListed(q.id, StatusFromRun(q.reply, "on")),
                               !.run[q.id] = IF Listed(view.on[q.id]) THEN q.reply ELSE @]
      BY <1>1, <2>8 DEF Answer
    <3>4. view' = [view EXCEPT !.on[q.id] = StillListed(q.id, StatusFromRun(q.reply, "on")),
                               !.run[q.id] = run]
      BY <2>1, <3>1, <3>2, <3>3 DEF AnyState
    <3> QED
      BY <2>2, <2>4, <3>1, <3>4
  <2>9. \/ view'.on = view.on
        \/ Answer(c) /\ q.ok /\ q.kind \in {"row", "edit", "run"}
    BY <1>1, <2>1 DEF Answer, Reread, AnyState
  <2> QED
    BY <2>5, <2>6, <2>7, <2>8, <2>9
<1> QED
  BY <1>2, <1>3, <1>4 DEF EditsCounted

LEMMA CountsStep ==
  ConsoleInv /\ ConsoleInv' /\ EditsCounted /\ [ConsoleNext]_consoleVars => EditsCounted'
<1> SUFFICES ASSUME ConsoleInv, ConsoleInv', EditsCounted, [ConsoleNext]_consoleVars
             PROVE  EditsCounted'
  OBVIOUS
<1>1. CASE UNCHANGED consoleVars
  <2>1. OnTheWay' = OnTheWay
    BY <1>1 DEF consoleVars, OnTheWay
  <2> QED
    BY <1>1, <2>1 DEF consoleVars, EditsCounted
<1>2. ASSUME NEW c \in Call,
             \/ \E i \in Item : \/ TogglePause(c, i) \/ SubmitSchedule(c, i)
                                 \/ ConfirmRemove(c, i) \/ RunNowClick(c, i)
             \/ \E u \in Unit, status \in {"active", "paused", "cancelled"} :
                  SetDeviceCycleStatus(c, u, status)
             \/ \E p \in Part : Save(c, p)
      PROVE  EditsCounted'
  <2>1. \E kind, id, want : Send(c, kind, id, want)
    BY <1>2 DEF TogglePause, SubmitSchedule, ConfirmRemove, RunNowClick, SetDeviceCycleStatus,
                Save
  <2> QED
    BY <2>1, SendCounts
<1> QED
  BY <1>1, <1>2, ElsewhereCounts, OthersCount, RefreshCounts, ServeCounts, AnswerCounts DEF ConsoleNext

\* Runs and versions stay within the edits that were made, on the server, in
\* what a refresh holds and in what is shown; nothing is shown as gone.
THEOREM ConsoleTypeCorrect == ConsoleSpec => []ConsoleTypeOK
<1>1. ConsoleInv /\ EditsCounted => ConsoleTypeOK
  <2> SUFFICES ASSUME ConsoleInv, EditsCounted PROVE ConsoleTypeOK
    OBVIOUS
  <2>1. server \in AnyState /\ view \in AnyState
    BY DEF ConsoleInv, ConsoleShapes
  <2>2. Cardinality(OnTheWay) \in Nat /\ edits \in 0 .. MaxEdits
    BY FS_CardinalityType DEF EditsCounted
  <2>3. ASSUME NEW i \in Item PROVE server.run[i].count <= MaxEdits
    <3>1. server.run[i].count \in Nat
      BY <2>1 DEF AnyState, AnyRun
    <3> QED
      BY <2>2, <3>1, ConsoleAssumption DEF EditsCounted
  <2>4. ASSUME NEW p \in Part PROVE server.part[p] <= MaxEdits + 1
    <3>1. server.part[p] \in Nat
      BY <2>1 DEF AnyState
    <3> QED
      BY <2>2, <3>1, ConsoleAssumption DEF EditsCounted
  <2>5. ASSUME NEW known \in AnyState, Was(known) PROVE known \in State
    <3>1. ASSUME NEW i \in Item PROVE known.run[i] \in RunShown
      <4>1. known.run[i] \in AnyRun /\ server.run[i] \in AnyRun
        BY <2>1 DEF AnyState
      <4>2. known.run[i].count \in 0 .. MaxEdits
        <5>1. known.run[i].count <= server.run[i].count /\ server.run[i].count <= MaxEdits
          BY <2>3, <2>5 DEF Was
        <5> QED
          BY <4>1, <5>1, ConsoleAssumption DEF AnyRun
      <4> QED
        BY <4>1, <4>2 DEF AnyRun, RunShown
    <3>2. ASSUME NEW p \in Part PROVE known.part[p] \in 0 .. (MaxEdits + 1)
      <4>1. known.part[p] \in Nat /\ server.part[p] \in Nat
        BY <2>1 DEF AnyState
      <4>2. known.part[p] <= server.part[p] /\ server.part[p] <= MaxEdits + 1
        BY <2>4, <2>5 DEF Was
      <4> QED
        BY <4>1, <4>2, ConsoleAssumption
    <3> QED
      BY <3>1, <3>2 DEF AnyState, State
  <2>6. server \in State /\ view \in State
    BY <2>1, <2>5 DEF ConsoleInv
  <2>7. ASSUME NEW k \in Slot
        PROVE  /\ refresh[k].pc \in {"idle", "list", "rest"} /\ refresh[k].got \in State
               /\ refresh[k].unread \cup refresh[k].lost \subseteq Section
    <3>1. refresh[k] \in AnyRefresh /\ Was(refresh[k].got)
      BY DEF ConsoleInv, ConsoleShapes
    <3> QED
      BY <2>5, <3>1 DEF AnyRefresh
  <2>8. \A c \in Call : call[c].pc \in {"idle", "sent", "answered", "reread"}
    BY DEF ConsoleInv, ConsoleShapes, AnyCall
  <2> QED
    BY <2>6, <2>7, <2>8 DEF EditsCounted, ConsoleTypeOK
<1>2. ConsoleInit => EditsCounted
  <2> SUFFICES ASSUME ConsoleInit PROVE EditsCounted
    OBVIOUS
  <2>1. OnTheWay = {}
    BY DEF ConsoleInit, OnTheWay, IdleCall
  <2>2. IsFiniteSet(OnTheWay) /\ Cardinality(OnTheWay) = 0
    BY <2>1, FS_EmptySet
  <2>3. reach \in Reach
    BY DEF ConsoleInit, Reach
  <2> QED
    BY <2>2, <2>3, ConsoleAssumption DEF ConsoleInit, EditsCounted, NothingYet, NoRun
<1> QED
  BY <1>1, <1>2, ConsoleStarts, ConsoleSteps, CountsStep, PTL DEF ConsoleSpec

-----------------------------------------------------------------------------
(* The parts side by side.                                                 *)

\* What the instance gives PhonePower is what that module asks for.
LEMMA PowerConstants ==
  /\ ImageOfRow \in [Rows -> OneImage] /\ RowOfRun \in [TwoRuns -> Rows]
  /\ Nobody \notin TwoRuns /\ Nobody \notin Rows /\ Nobody \notin OneSweep
  /\ P!IsFiniteSet(OneImage)
  /\ 1 \in Nat /\ 0 \in Nat /\ RunsOut \subseteq P!AllFaults
<1>1. P!IsFiniteSet(OneImage)
  <2>1. IsFiniteSet(OneImage)
    BY FS_Singleton DEF OneImage
  <2> QED
    BY <2>1 DEF P!IsFiniteSet, IsFiniteSet
<1> QED
  BY <1>1, NobodyAssumption
     DEF ImageOfRow, RowOfRun, Rows, OneImage, TwoRuns, OneSweep, RunsOut, P!AllFaults

\* What the parts do beside each other, each of them does alone: what is
\* proved of one of them holds in the instance that joins them.
THEOREM EachPartRunsItsOwn == OperationsSpec => CycleSpec /\ ConsoleSpec /\ P!Spec
<1>1. OperationsInit => CycleInit /\ ConsoleInit /\ P!Init
  BY DEF OperationsInit
<1>2. [OperationsNext]_<<part, powerVars, cycleVars, consoleVars>>
        => [CycleNext]_cycleVars /\ [ConsoleNext]_consoleVars /\ [P!Next]_P!vars
  BY DEF OperationsNext, powerVars, P!vars
<1> QED
  BY <1>1, <1>2, PTL DEF OperationsSpec, CycleSpec, ConsoleSpec, P!Spec

\* The types of the parts, each with its bounds.
THEOREM OperationsTypesCorrect == OperationsSpec => []OperationsTypeOK
<1>1. P!Spec => []P!PowerTypeOK
  BY PowerConstants, P!PowerTypeCorrect
<1>2. CycleTypeOK /\ ConsoleTypeOK /\ P!PowerTypeOK <=> OperationsTypeOK
  BY DEF OperationsTypeOK
<1> QED
  BY <1>1, <1>2, EachPartRunsItsOwn, CycleTypeCorrect, ConsoleTypeCorrect, PTL
=============================================================================
