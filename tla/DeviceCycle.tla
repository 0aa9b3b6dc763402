----------------------------- MODULE DeviceCycle -----------------------------
(***************************************************************************)
(* One device cycle: a phone that is worked on for some days by the rules  *)
(* of a four-phase program, its profile, and the credit for what succeeds. *)
(*                                                                         *)
(* The request that creates the cycle inserts it, activates it in a second *)
(* call and marks it blocked when that call fails.  An operator pauses,    *)
(* resumes and cancels it.  Workers submit its runs, which the phase gate  *)
(* admits, and close them: the update of a run credits it in a trigger,    *)
(* which then needs the row of the cycle, while a cancellation and a       *)
(* resumption hold that row and need the rows of the runs.                 *)
(*                                                                         *)
(* RunDispatch has the worker in full; here a run takes the few steps that *)
(* concern its cycle.  Time is counted in local days of the cycle.         *)
(***************************************************************************)
EXTENDS Naturals, FiniteSets, FiniteSetsExt

CONSTANTS Task,         \* occurrences: one rule on one day
          PhaseOf,      \* [Task -> 0..4], 0 is the daily baseline
          DayOf,        \* [Task -> days]
          Required,     \* SUBSET Task
          PhaseStart,   \* [1..4 -> days]
          MinRuns, MinDays,   \* what the app requirement asks of the warm-up
          Days,         \* duration of the cycle
          MaxDay, MaxTrouble, MaxRequests

ASSUME CycleAssumption ==
  /\ IsFiniteSet(Task)
  /\ PhaseOf \in [Task -> 0..4] /\ DayOf \in [Task -> 1..Days]
  /\ Required \subseteq Task
  /\ PhaseStart \in [1..4 -> Nat] /\ PhaseStart[1] = 1
  /\ {MinRuns, MinDays, Days, MaxDay, MaxTrouble, MaxRequests} \subseteq Nat
  /\ Days # 0 /\ MaxDay # 0

VARIABLES day,
          cycle,      \* device_cycles.status, "absent" before
          creator,    \* where POST /api/device-cycles is
          enabled,    \* the schedules of the cycle, one per task
          work,       \* its rows in scheduler_runs
          remote,     \* tasks that exist and may run at DuoPlus
          credited,   \* profile_score_events
          profile,    \* device_profiles: state and earned_points
          closing,    \* run rows that an uncommitted update holds
          manager,    \* the status an operator's transaction is to set
          trouble, asked

cycleVars == <<day, cycle, creator, enabled, work, remote, credited, profile,
               closing, manager, trouble, asked>>

CycleStatus == {"absent", "provisioning", "active", "paused", "blocked",
                "completed", "cancelled"}
WorkStatus == {"absent", "pending", "preparing", "waiting", "running",
               "succeeded", "failed", "cancelled"}
OpenWork == {"pending", "preparing", "waiting", "running"}
ProfileState == {"new", "warming", "ready", "needs_attention", "completed", "retired"}

NoWork == [status |-> "absent", sub |-> "never", cancel |-> FALSE, closed |-> 0]

CycleTypeOK ==
  /\ day \in 1..MaxDay
  /\ cycle \in CycleStatus
  /\ creator \in {"start", "inserted", "failed", "done"}
  /\ enabled \in [Task -> BOOLEAN]
  /\ work \in [Task -> [status : WorkStatus, sub : {"never", "unknown", "accepted"},
                        cancel : BOOLEAN, closed : 0..MaxDay]]
  /\ remote \in SUBSET Task /\ credited \in SUBSET Task
  /\ profile \in [state : ProfileState, earned : 0..Cardinality(Task)]
  /\ closing \in SUBSET Task
  /\ manager \in {"none", "paused", "active", "cancelled"}
  /\ trouble \in 0..MaxTrouble /\ asked \in 0..MaxRequests

CycleInit ==
  /\ day = 1 /\ cycle = "absent" /\ creator = "start"
  /\ enabled = [t \in Task |-> FALSE]
  /\ work = [t \in Task |-> NoWork]
  /\ remote = {} /\ credited = {} /\ closing = {}
  /\ profile = [state |-> "new", earned |-> 0]
  /\ manager = "none" /\ trouble = 0 /\ asked = 0

Trouble == trouble < MaxTrouble /\ trouble' = trouble + 1

----------------------------------------------------------------------------
(* The phase gate, on the rows w and the credits c.                        *)

\* Mutation of Finished: closed work is taken for done.
FinishedOrClosed(w, t) == w[t].status \in {"succeeded", "failed", "cancelled"}

Finished(w, t) == w[t].status = "succeeded"

Rank(t) == IF PhaseOf[t] = 0 THEN 1 ELSE PhaseOf[t]

\* A row that is missing is as unfinished as one that failed.
Missing(w, rank) ==
  {u \in Required : /\ ~Finished(w, u)
                    /\ IF PhaseOf[u] = 0 THEN DayOf[u] < PhaseStart[rank]
                       ELSE PhaseOf[u] < rank}

\* Active days are the dates of completion, not the planned ones.
AppsMet(w, c) ==
  LET early == {t \in c : PhaseOf[t] \in {0, 1} /\ DayOf[t] < PhaseStart[2]} IN
  /\ Cardinality(early) >= MinRuns
  /\ Cardinality({w[t].closed : t \in early}) >= MinDays

\* get_device_cycle_phase_gate
GateAllows(w, c, rank) ==
  /\ day >= PhaseStart[rank]
  /\ Missing(w, rank) = {}
  /\ rank = 1 \/ AppsMet(w, c)

----------------------------------------------------------------------------
(* refresh_profile_readiness, in the transaction that calls it.            *)

Lost(w) ==
  {t \in Required : ~Finished(w, t)
                    /\ (w[t].status \in {"failed", "cancelled"} \/ day > DayOf[t])}

ReadyDay == PhaseStart[2] - 1

\* No success for 48 hours, which is two days here.
Idle(w, c) ==
  day > ReadyDay /\ (c = {} \/ Max({w[t].closed : t \in c}) + 2 < day)

\* Mutation of WholeDone: optional work may still be open.
WholeDoneOfRequired(w, c) ==
  day >= Days /\ GateAllows(w, c, 2) /\ \A t \in Required : Finished(w, t)

WholeDone(w, c) ==
  /\ day >= Days
  /\ GateAllows(w, c, 2)
  /\ \A t \in Required : Finished(w, t)
  /\ \A t \in Task : w[t].status \notin OpenWork

NextState(status, w, c) ==
  LET ready == GateAllows(w, c, 2) IN
  IF profile.state = "retired" \/ status = "cancelled" THEN "retired"
  ELSE IF profile.state = "completed" \/ WholeDone(w, c) THEN "completed"
  ELSE IF \/ status \in {"blocked", "paused"}
          \/ Lost(w) # {} \/ Idle(w, c) \/ (day > ReadyDay /\ ~ready) THEN "needs_attention"
  ELSE IF profile.state = "ready" \/ ready THEN "ready"
  ELSE IF c = {} /\ day <= 1 THEN "new" ELSE "warming"

\* A completed profile completes its cycle, whose trigger disables the rules.
Refresh(status, on, w, c) ==
  LET whole == WholeDone(w, c) /\ status \notin {"completed", "cancelled"} IN
  /\ profile' = [state |-> NextState(status, w, c), earned |-> Cardinality(c)]
  /\ cycle' = IF whole THEN "completed" ELSE status
  /\ enabled' = IF whole /\ status = "active" THEN [t \in Task |-> FALSE] ELSE on

----------------------------------------------------------------------------
(* POST /api/device-cycles.                                                *)

\* Nothing is inserted unless the program is published, the client active and
\* the phone dedicated to it, in service until the last day, and without an
\* open cycle.
CreateCycle ==
  /\ creator = "start"
  /\ creator' = "inserted" /\ cycle' = "provisioning"
  /\ UNCHANGED <<day, enabled, work, remote, credited, profile, closing, manager,
                 trouble, asked>>

Activatable == cycle \in {"provisioning", "blocked"}

\* activate_device_cycle: the schedules and every run, or nothing.  The call
\* may fail, and a call that took effect may go unanswered.
Activate ==
  /\ creator = "inserted" /\ manager = "none"
  /\ \/ /\ Activatable /\ day = 1
        /\ work' = [t \in Task |-> [NoWork EXCEPT !.status = "pending"]]
        /\ Refresh("active", [t \in Task |-> TRUE],
                   [t \in Task |-> [NoWork EXCEPT !.status = "pending"]], credited)
        /\ \/ creator' = "done" /\ UNCHANGED trouble
           \/ creator' = "failed" /\ Trouble
     \/ /\ \/ ~(Activatable /\ day = 1) /\ UNCHANGED trouble
           \/ Trouble
        /\ creator' = "failed"
        /\ UNCHANGED <<cycle, enabled, work, profile>>
  /\ UNCHANGED <<day, remote, credited, closing, manager, asked>>

\* The failed request marks the cycle blocked, whatever it is by now; the
\* trigger refuses only a finished one.
MarkBlocked ==
  /\ creator = "failed" /\ manager = "none"
  /\ creator' = "done"
  /\ IF cycle \in {"completed", "cancelled"}
     THEN UNCHANGED <<cycle, enabled, profile>>
     ELSE Refresh("blocked",
            IF cycle = "active" THEN [t \in Task |-> FALSE] ELSE enabled, work, credited)
  /\ UNCHANGED <<day, work, remote, credited, closing, manager, trouble, asked>>

----------------------------------------------------------------------------
(* set_device_cycle_operating_status.                                      *)

Settable(status) ==
  CASE status = "paused" -> cycle = "active"
    [] status = "active" -> cycle = "paused"
    [] OTHER -> cycle \in {"provisioning", "active", "paused", "blocked"}

\* A resumption skips what became due during the pause: certainly the rows of
\* earlier days and those tried before, today's others when their moment has come.
MaySkip ==
  {t \in Task : /\ work[t].status \in {"pending", "waiting"}
                /\ work[t].sub # "accepted" /\ DayOf[t] <= day}

MustSkip == {t \in MaySkip : DayOf[t] < day \/ work[t].status = "waiting"}

\* The rows it updates; a cancellation asks for the end of all open work.
Touched(status) ==
  CASE status = "paused" -> {}
    [] status = "active" -> MaySkip
    [] OTHER -> {t \in Task : work[t].status \in OpenWork}

Ask(status) ==
  /\ manager = "none" /\ asked < MaxRequests
  /\ Settable(status)
  /\ manager' = status /\ asked' = asked + 1
  /\ UNCHANGED <<day, cycle, creator, enabled, work, remote, credited, profile,
                 closing, trouble>>

\* Mutation of AskCancel: the schedules are disabled, and that is all.
AskNothing(w) == w

\* Mutation of AskCancel: a status the table does not know.
AskByStatus(w) == [w EXCEPT !.status = "cancelling"]

AskCancel(w) == [w EXCEPT !.cancel = TRUE]

\* The rows to skip get the stage 'cancelled', which the check of the table does
\* not list: one such row, and the database takes the whole transaction back.
ResumeRefused ==
  /\ manager = "active" /\ MaySkip \ closing # {}
  /\ manager' = "none"
  /\ UNCHANGED <<day, cycle, creator, enabled, work, remote, credited, profile,
                 closing, trouble, asked>>

\* A schedule whose last occurrence has passed is not enabled again.
StatusSet ==
  LET after == [t \in Task |-> IF manager = "cancelled" /\ t \in Touched(manager)
                               THEN AskCancel(work[t]) ELSE work[t]]
      on == [t \in Task |-> manager = "active" /\ DayOf[t] > day /\ work[t].status # "absent"]
  IN
  /\ manager # "none" /\ Touched(manager) \cap closing = {}
  /\ manager = "active" => MustSkip = {}
  /\ work' = after
  /\ Refresh(manager, on, after, credited)
  /\ manager' = "none"
  /\ UNCHANGED <<day, creator, remote, credited, closing, trouble, asked>>

SetStatus == StatusSet \/ ResumeRefused

----------------------------------------------------------------------------
(* Workers.                                                                *)

Set(t, status, sub) ==
  work' = [work EXCEPT ![t].status = status, ![t].sub = sub]

\* Claimed, admitted by the gate as the worker reads it, phone leased.
Prepare(t) ==
  /\ work[t].status \in {"pending", "waiting"} /\ work[t].sub = "never"
  /\ enabled[t] /\ ~work[t].cancel /\ cycle = "active" /\ t \notin closing
  /\ day = DayOf[t]
  /\ GateAllows(work, credited, Rank(t))
  /\ Set(t, "preparing", "never")
  /\ UNCHANGED <<day, cycle, creator, enabled, remote, credited, profile, closing,
                 manager, trouble, asked>>

\* The fence, with the trigger that reads the gate once more, and addTask.
Submit(t) ==
  /\ work[t].status = "preparing" /\ work[t].sub = "never"
  /\ enabled[t] /\ ~work[t].cancel /\ cycle = "active" /\ t \notin closing
  /\ GateAllows(work, credited, Rank(t))
  /\ \/ Set(t, "running", "accepted") /\ remote' = remote \cup {t} /\ UNCHANGED trouble
     \/ /\ Set(t, "waiting", "unknown") /\ Trouble
        /\ remote' \in {remote, remote \cup {t}}
  /\ UNCHANGED <<day, cycle, creator, enabled, credited, profile, closing, manager, asked>>

\* A preparation that does not reach the fence is tried again.
PutBack(t) ==
  /\ work[t].status = "preparing" /\ enabled[t] /\ ~work[t].cancel /\ t \notin closing
  /\ Trouble
  /\ Set(t, "waiting", "never")
  /\ UNCHANGED <<day, cycle, creator, enabled, remote, credited, profile, closing,
                 manager, asked>>

\* taskList shows whether the submission got through.
FindTask(t) ==
  /\ work[t].status = "waiting" /\ work[t].sub = "unknown" /\ t \in remote
  /\ enabled[t] /\ ~work[t].cancel /\ t \notin closing
  /\ Set(t, "running", "accepted")
  /\ UNCHANGED <<day, cycle, creator, enabled, remote, credited, profile, closing,
                 manager, trouble, asked>>

\* A terminal write: the task has ended, its end was asked for, the schedule is
\* disabled, the preparation failed for good or the window is missed.  The row is locked until the trigger is through.
BeginClose(t) ==
  /\ work[t].status \in OpenWork /\ t \notin closing
  /\ \/ work[t].sub = "accepted" /\ work[t].status = "running"
     \/ work[t].cancel \/ (~enabled[t] /\ DayOf[t] <= day)
     \/ work[t].status = "preparing" /\ work[t].sub = "never"
     \/ day > DayOf[t] /\ (enabled[t] \/ work[t].sub # "never")
  /\ closing' = closing \cup {t}
  /\ UNCHANGED <<day, cycle, creator, enabled, work, remote, credited, profile,
                 manager, trouble, asked>>

\* succeeded only when DuoPlus says so; cancelled when that was asked for or
\* the schedule is disabled; failed else.
Outcomes(t) ==
  (IF t \in remote /\ work[t].sub = "accepted" THEN {"succeeded", "failed"} ELSE {})
    \cup (IF work[t].cancel \/ ~enabled[t] THEN {"cancelled"} ELSE {})
    \cup (IF t \notin remote /\ (day > DayOf[t] \/ work[t].status = "preparing")
          THEN {"failed"} ELSE {})

Closed(t, outcome) ==
  [work EXCEPT ![t].status = outcome, ![t].closed = day]

\* credit_profile_run; profile_score_events has one row per run.
Credit(t, outcome) == IF outcome = "succeeded" THEN credited \cup {t} ELSE credited

\* The trigger waits for the row of the cycle, then credits and refreshes.
Close(t) ==
  /\ t \in closing /\ manager = "none"
  /\ \E outcome \in Outcomes(t) :
       /\ work' = Closed(t, outcome)
       /\ credited' = Credit(t, outcome)
       /\ Refresh(cycle, enabled, Closed(t, outcome), Credit(t, outcome))
  /\ closing' = closing \ {t} /\ remote' = remote \ {t}
  /\ UNCHANGED <<day, creator, manager, trouble, asked>>

\* The update holds the run and waits for the cycle, an operator's transaction
\* the other way round.  The database ends one of them: the trigger, whose
\* exception handler lets the update stand without credit, or the operator.
Deadlock(t) ==
  /\ t \in closing /\ manager # "none" /\ t \in Touched(manager)
  /\ \/ /\ \E outcome \in Outcomes(t) : work' = Closed(t, outcome)
        /\ closing' = closing \ {t} /\ remote' = remote \ {t}
        /\ UNCHANGED manager
     \/ manager' = "none" /\ UNCHANGED <<work, closing, remote>>
  /\ UNCHANGED <<day, cycle, creator, enabled, credited, profile, trouble, asked>>

\* Mutation of Recredit: the trigger is the only credit path.
RecreditNothing(t) ==
  /\ FALSE
  /\ UNCHANGED cycleVars

\* The worker's own call after the write, and reconcile_profile_score_credits
\* at the start of a tick.
Recredit(t) ==
  /\ work[t].status = "succeeded" /\ t \notin credited /\ manager = "none"
  /\ credited' = credited \cup {t}
  /\ Refresh(cycle, enabled, work, credited \cup {t})
  /\ UNCHANGED <<day, creator, work, remote, closing, manager, trouble, asked>>

\* The request that creates the cycle does not last till the next day.
NextDay ==
  /\ day < MaxDay /\ creator \in {"start", "done"} /\ manager = "none"
  /\ closing = {}
  /\ day' = day + 1
  /\ UNCHANGED <<cycle, creator, enabled, work, remote, credited, profile, closing,
                 manager, trouble, asked>>

CycleNext ==
  \/ CreateCycle \/ Activate \/ MarkBlocked \/ SetStatus \/ NextDay
  \/ \E status \in {"paused", "active", "cancelled"} : Ask(status)
  \/ \E t \in Task : \/ Prepare(t) \/ Submit(t) \/ PutBack(t) \/ FindTask(t)
                     \/ BeginClose(t) \/ Close(t) \/ Deadlock(t) \/ Recredit(t)

CycleSpec == CycleInit /\ [][CycleNext]_cycleVars

\* Ticks recur and reconcile; transactions end.
CycleFairness ==
  /\ WF_cycleVars(SetStatus)
  /\ \A t \in Task : WF_cycleVars(Recredit(t)) /\ WF_cycleVars(Close(t) \/ Deadlock(t))

CycleFairSpec == CycleSpec /\ CycleFairness

----------------------------------------------------------------------------
\* Work of a phase is submitted only after all that the earlier phases require,
\* whatever is paused, skipped, cancelled or credited late.
SubmittedInTurn ==
  \A t \in Task : work[t].sub # "never" =>
    /\ \A u \in Required :
         PhaseOf[u] # 0 /\ PhaseOf[u] < Rank(t) => work[u].status = "succeeded"
    /\ Rank(t) > 1 => AppsMet(work, credited)

\* The score is the sum of the credits, and only a success is credited: also
\* when the update of a run and an operator's transaction deadlock.
ScoreIsTheWork ==
  /\ profile.earned = Cardinality(credited)
  /\ \A t \in credited : work[t].status = "succeeded"

\* The profile and the cycle are completed together, with nothing required
\* left undone and no run open.
CompletedTogether ==
  /\ profile.state = "completed" <=> cycle = "completed"
  /\ cycle = "completed" =>
       /\ \A t \in Required : work[t].status = "succeeded"
       /\ \A t \in Task : work[t].status \notin OpenWork

\* A ready profile has done the warm-up.
ReadyWasEarned ==
  profile.state = "ready" =>
    \A u \in Required : PhaseOf[u] = 1 => work[u].status = "succeeded"

\* Nothing of a cancelled cycle goes on, although it may have been created or
\* activated meanwhile.
CancelledCycleEnds ==
  cycle = "cancelled" =>
    \A t \in Task : ~enabled[t] /\ (work[t].status \in OpenWork => work[t].cancel)

\* "Atomically pauses, resumes, or cancels a device cycle": a resumption that no
\* worker's update stands in the way of takes effect (set_device_cycle_operating_status).
ResumeTakesEffect ==
  [][manager = "active" /\ manager' = "none" /\ closing = {} => cycle' # "paused"]_cycleVars

\* Every success is credited in the end.
EverySuccessCounts == \A t \in Task : (work[t].status = "succeeded") ~> (t \in credited)

\* The phases are worked through in turn.
PhasesInTurn == SubmittedInTurn /\ ReadyWasEarned

\* Score and completion follow from the runs alone.
ProfileIsTheWork == ScoreIsTheWork /\ CompletedTogether
=============================================================================
