------------------------------ MODULE Schedules ------------------------------
(***************************************************************************)
(* Calendar schedules and the runs planned from them.                      *)
(*                                                                         *)
(* A tick lists the schedules that are due within its horizon, expands     *)
(* each one's cron expression from the values it listed, and has the       *)
(* database insert the runs, which snapshot the schedule as it is by then  *)
(* (materialize_schedule_runs).  Meanwhile people edit, pause, resume and  *)
(* remove schedules with a handful of statements that no transaction holds *)
(* together, run them at once, and workers start what is planned.          *)
(*                                                                         *)
(* A plan stands for everything a run takes over from its schedule: cron   *)
(* expression, phone, template, client, timing.                            *)
(***************************************************************************)
EXTENDS Naturals, FiniteSets, FiniteSetsExt

CONSTANTS Schedule,
          Plan,          \* records [every, offset, phone]
          Editor,        \* PATCH and DELETE requests
          EditKinds,     \* subset of {"rename", "edit", "pause", "resume", "remove"}
          Ticker,        \* ticks that may be under way at once
          Duration,      \* expected_duration_seconds
          Ahead,         \* the horizon of a tick
          LongestGap,    \* bounds every plan's cadence
          MaxTime, MaxRequests

ASSUME ScheduleAssumption ==
  /\ Schedule # {} /\ Plan # {}
  /\ Plan \subseteq [every : Nat \ {0}, offset : Nat, phone : Nat]
  /\ LongestGap \in Nat /\ \A p \in Plan : p.every <= LongestGap
  /\ Duration \in Nat \ {0} /\ Ahead \in Nat
  /\ MaxTime \in Nat /\ MaxRequests \in Nat

VARIABLES now,
          sched,     \* scheduler_schedules: enabled, plan, next_run_at
          planned,   \* scheduler_runs by schedule, kind and scheduled_for
          editor, ticker,
          since,     \* the next_run_at that the last change of a schedule set
          raced,     \* schedules planned by a tick that a change had overtaken,
                     \* left by an edit that gave up after its deletion, or
                     \* changed by two requests at once
          standing,  \* requests that disabled a schedule nobody resumed since
          kept,      \* schedules for which such a request has answered
          requests   \* edits and manual runs so far

pauseHistory == <<standing, kept>>
schedVars == <<now, sched, planned, editor, ticker, since, raced, pauseHistory, requests>>

\* What is planned, and the next firing after it.
Time == 0..(MaxTime + Ahead + LongestGap)
RunKey == Schedule \X {"calendar", "manual"} \X Time
RunState == {"absent", "pristine", "working", "done", "cancelled"}

\* pristine: pending, never attempted, not leased, without a task.
OpenStates == {"pristine", "working"}
NoPlannedRun(p) == [state |-> "absent", plan |-> p, cancel |-> FALSE]

AnyPlan == CHOOSE p \in Plan : TRUE

----------------------------------------------------------------------------
(* recurrence.ts, for a cron expression that fires every so often.         *)

Fires(p, t) == t % p.every = p.offset % p.every

\* nextScheduleOccurrence
NextFire(p, t) == Min({u \in (t + 1)..(t + p.every) : Fires(p, u)})

\* Mutation of Occurrences: counted from now, which loses what an outage missed.
OccurrencesFromNow(p, next, end) ==
  LET later == {t \in (now + 1)..end : Fires(p, t)} IN
  IF later = {} THEN {NextFire(p, end)} ELSE later

\* computeScheduleOccurrences: next_run_at itself, then what follows.
Occurrences(p, next, end) ==
  IF next > end THEN {}
  ELSE {next} \cup {t \in (next + 1)..end : Fires(p, t)}

----------------------------------------------------------------------------
EditorStep == {"idle", "open", "delete", "update", "pauseOpen", "pauseDelete",
               "reload", "cancel", "removeOpen"}
Quiet == [pc |-> "idle", kind |-> "rename", s |-> CHOOSE s \in Schedule : TRUE,
          plan |-> AnyPlan, next |-> 0, keys |-> {}]
Resting == [todo |-> {}, end |-> 0,
            read |-> [s \in Schedule |-> [plan |-> AnyPlan, next |-> 0]]]

SchedTypeOK ==
  /\ now \in 0..MaxTime
  /\ sched \in [Schedule -> [exists : BOOLEAN, enabled : BOOLEAN, plan : Plan, next : Time]]
  /\ planned \in [RunKey -> [state : RunState, plan : Plan, cancel : BOOLEAN]]
  /\ editor \in [Editor -> [pc : EditorStep, kind : EditKinds \cup {"rename"},
                            s : Schedule, plan : Plan, next : Time,
                            keys : SUBSET RunKey]]
  /\ ticker \in [Ticker -> [todo : SUBSET Schedule, end : Time,
                  read : [Schedule -> [plan : Plan, next : Time]]]]
  /\ since \in [Schedule -> Time]
  /\ raced \in SUBSET Schedule /\ requests \in 0..MaxRequests
  /\ standing \in SUBSET Editor /\ kept \in SUBSET Schedule

SchedInit ==
  /\ now = 0
  /\ sched = [s \in Schedule |-> [exists |-> FALSE, enabled |-> FALSE,
                                  plan |-> AnyPlan, next |-> 0]]
  /\ planned = [k \in RunKey |-> NoPlannedRun(AnyPlan)]
  /\ editor = [e \in Editor |-> Quiet]
  /\ ticker = [h \in Ticker |-> Resting]
  /\ since = [s \in Schedule |-> 0]
  /\ raced = {} /\ requests = 0
  /\ standing = {} /\ kept = {}

\* The window scheduler_runs_no_phone_overlap keeps apart: a manual run is
\* issued two minutes after it was asked for.
Window(k) == LET from == IF k[2] = "manual" THEN k[3] + 1 ELSE k[3] IN
             from..(from + Duration - 1)

\* 23P01: a run of any schedule on the phone, unless it was cancelled.
Overlaps(k, phone) ==
  \E m \in RunKey :
    /\ planned[m].state \notin {"absent", "cancelled"}
    /\ planned[m].plan.phone = phone
    /\ Window(k) \cap Window(m) # {}

OpenRuns(s) == {k \in RunKey : k[1] = s /\ planned[k].state \in OpenStates}
PristineOf(keys) == {k \in keys : planned[k].state = "pristine"}

----------------------------------------------------------------------------
(* Materialization.                                                        *)

\* listSchedulesToMaterialize
ListDue(h) ==
  LET due == {s \in Schedule : sched[s].enabled /\ sched[s].next <= now + Ahead} IN
  /\ ticker[h].todo = {} /\ due # {}
  /\ ticker' = [ticker EXCEPT ![h] =
       [todo |-> due, end |-> now + Ahead,
        read |-> [s \in Schedule |->
          IF s \in due THEN [plan |-> sched[s].plan, next |-> sched[s].next]
          ELSE Resting.read[s]]]]
  /\ UNCHANGED <<now, sched, planned, editor, since, raced, pauseHistory, requests>>

\* Mutation of Insert: an occurrence that is there already is written afresh.
InsertOver(s, keys) ==
  planned' = [k \in RunKey |->
    IF k \in keys
    THEN [state |-> "pristine", plan |-> sched[s].plan, cancel |-> FALSE]
    ELSE planned[k]]

\* on conflict (schedule_id, scheduled_for) do nothing
Insert(s, keys) ==
  planned' = [k \in RunKey |->
    IF k \in keys /\ planned[k].state = "absent"
    THEN [state |-> "pristine", plan |-> sched[s].plan, cancel |-> FALSE]
    ELSE planned[k]]

\* Mutation of MayInsert: the enabled flag as the tick listed it.
MayInsertAnyway(s, new) ==
  \A k \in new : ~Overlaps(k, sched[s].plan.phone)

\* What makes materialize_schedule_runs raise, and roll back: a disabled
\* schedule, or one new run that overlaps another on its phone.
MayInsert(s, new) ==
  /\ sched[s].enabled
  /\ \A k \in new : ~Overlaps(k, sched[s].plan.phone)
  /\ \A k, m \in new : k # m => Window(k) \cap Window(m) = {}

\* materializeHorizon catches the error of one schedule and goes on.
Materialize(h, s) ==
  LET read == ticker[h].read[s]
      times == Occurrences(read.plan, read.next, ticker[h].end)
      keys == {<<s, "calendar", t>> : t \in times}
      new == {k \in keys : planned[k].state = "absent"} IN
  /\ s \in ticker[h].todo
  /\ IF MayInsert(s, new)
     THEN /\ Insert(s, keys)
          /\ sched' = [sched EXCEPT ![s].next = NextFire(read.plan, Max(times))]
          /\ raced' = IF read = [plan |-> sched[s].plan, next |-> sched[s].next]
                      THEN raced ELSE raced \cup {s}
     ELSE UNCHANGED <<planned, sched, raced>>
  /\ ticker' = [ticker EXCEPT ![h].todo = @ \ {s},
                              ![h].read[s] = Resting.read[s],
                              ![h].end = IF ticker[h].todo = {s} THEN 0 ELSE @]
  /\ UNCHANGED <<now, editor, since, pauseHistory, requests>>

----------------------------------------------------------------------------
\* POST /api/schedules.  Client, phone and template have been checked.
Create(s, p, enabled) ==
  /\ ~sched[s].exists
  /\ sched' = [sched EXCEPT ![s] = [exists |-> TRUE, enabled |-> enabled, plan |-> p,
                                    next |-> NextFire(p, now)]]
  /\ since' = [since EXCEPT ![s] = NextFire(p, now)]
  /\ UNCHANGED <<now, planned, editor, ticker, raced, pauseHistory, requests>>

(* PATCH /api/schedules/[id].                                              *)

Stay == UNCHANGED <<now, ticker, raced>>
At(e, pc) == editor[e].pc = pc
To(e, pc, keys) == editor' = [editor EXCEPT ![e].pc = pc, ![e].keys = keys]
Leave(e) == editor' = [editor EXCEPT ![e] = Quiet]
Request == requests < MaxRequests /\ requests' = requests + 1

\* The row is loaded; what the request does not mention is written back from
\* it.  next_run_at is calculated anew for an edit and for a resumption.
Open(e, s, kind, p) ==
  LET fresh == kind = "edit" \/ (kind = "resume" /\ ~sched[s].enabled)
      plan == IF kind = "edit" THEN p ELSE sched[s].plan IN
  /\ At(e, "idle") /\ Request /\ kind # "remove" /\ sched[s].exists
  /\ kind # "edit" => p = AnyPlan
  /\ editor' = [editor EXCEPT ![e] =
       [pc |-> IF kind = "edit" THEN "open" ELSE "update", kind |-> kind, s |-> s,
        plan |-> plan, next |-> IF fresh THEN NextFire(plan, now) ELSE sched[s].next,
        keys |-> {}]]
  /\ raced' = IF \E d \in Editor : ~At(d, "idle") /\ editor[d].s = s
              THEN raced \cup {s} ELSE raced
  /\ UNCHANGED <<now, sched, planned, ticker, since, pauseHistory>>

CancelRuns(keys) ==
  planned' = [k \in RunKey |->
    IF k \in keys /\ planned[k].state \in OpenStates
    THEN [planned[k] EXCEPT !.cancel = TRUE] ELSE planned[k]]

\* Work in flight: ask for its cancellation and answer 409.
EditChecks(e) ==
  LET open == OpenRuns(editor[e].s) IN
  /\ At(e, "open")
  /\ IF open # PristineOf(open)
     THEN /\ CancelRuns(open \ PristineOf(open))
          /\ Leave(e)
     ELSE /\ To(e, IF open = {} THEN "update" ELSE "delete", open)
          /\ UNCHANGED planned
  /\ UNCHANGED <<sched, since, pauseHistory, requests>> /\ Stay

\* The delete repeats the conditions, for rows that started meanwhile.
DeletePristine(keys) ==
  planned' = [k \in RunKey |->
    IF k \in PristineOf(keys) THEN NoPlannedRun(AnyPlan) ELSE planned[k]]

\* RUN_EDIT_RACE: fewer rows went than were read; those that went are gone.
EditDeletes(e) ==
  /\ At(e, "delete")
  /\ DeletePristine(editor[e].keys)
  /\ IF PristineOf(editor[e].keys) = editor[e].keys
     THEN To(e, "update", {}) /\ UNCHANGED raced
     ELSE Leave(e) /\ raced' = raced \cup {editor[e].s}
  /\ UNCHANGED <<sched, since, requests, now, ticker, pauseHistory>>

\* A pause stands until a resumption.
Update(e) ==
  LET s == editor[e].s
      kind == editor[e].kind IN
  /\ At(e, "update")
  /\ sched' = [sched EXCEPT ![s] =
       [exists |-> TRUE,
        enabled |-> IF kind = "pause" THEN FALSE
                    ELSE IF kind = "resume" THEN TRUE ELSE @.enabled,
        plan |-> editor[e].plan, next |-> editor[e].next]]
  /\ since' = [since EXCEPT ![s] =
       IF kind \in {"edit", "resume"} THEN editor[e].next ELSE @]
  /\ IF kind = "pause" THEN To(e, "pauseOpen", {}) ELSE Leave(e)
  /\ standing' = IF kind = "pause" THEN standing \cup {e}
                 ELSE IF kind = "resume" THEN {d \in standing : editor[d].s # s}
                 ELSE standing
  /\ kept' = IF kind = "resume" THEN kept \ {s} ELSE kept
  /\ UNCHANGED <<planned, requests>> /\ Stay

PauseReads(e) ==
  /\ At(e, "pauseOpen")
  /\ To(e, "pauseDelete", PristineOf(OpenRuns(editor[e].s)))
  /\ UNCHANGED <<sched, planned, since, pauseHistory, requests>> /\ Stay

PauseDeletes(e) ==
  /\ At(e, "pauseDelete")
  /\ DeletePristine(editor[e].keys)
  /\ To(e, "reload", {})
  /\ UNCHANGED <<sched, since, pauseHistory, requests>> /\ Stay

Reload(e) ==
  /\ At(e, "reload")
  /\ To(e, "cancel", OpenRuns(editor[e].s))
  /\ UNCHANGED <<sched, planned, since, pauseHistory, requests>> /\ Stay

\* cancelRuns, of a pause and of a removal, which has its answer now.
Cancel(e) ==
  /\ At(e, "cancel")
  /\ CancelRuns(editor[e].keys)
  /\ Leave(e)
  /\ kept' = IF e \in standing THEN kept \cup {editor[e].s} ELSE kept
  /\ standing' = standing \ {e}
  /\ UNCHANGED <<sched, since, requests>> /\ Stay

\* DELETE disables the schedule and cancels; the row stays.
Remove(e, s) ==
  /\ At(e, "idle") /\ Request /\ "remove" \in EditKinds /\ sched[s].exists
  /\ sched' = [sched EXCEPT ![s].enabled = FALSE]
  /\ editor' = [editor EXCEPT ![e] = [Quiet EXCEPT !.pc = "removeOpen", !.kind = "remove", !.s = s]]
  /\ standing' = standing \cup {e}
  /\ UNCHANGED <<planned, since, kept>> /\ Stay

RemoveReads(e) ==
  /\ At(e, "removeOpen")
  /\ To(e, "cancel", OpenRuns(editor[e].s))
  /\ UNCHANGED <<sched, planned, since, pauseHistory, requests>> /\ Stay

\* The next statement of a request fails and is answered with 503 (404, 409), or
\* its process ends: what it did by then is done.  A trigger may also refuse to
\* enable the schedule (Connections).  An edit has deleted its plans before its
\* update; a pause or removal has disabled the schedule before it looks at runs.
\* A statement done whose answer is lost is the next one failing.
Fail(e) ==
  /\ ~At(e, "idle")
  /\ Leave(e)
  /\ raced' = IF At(e, "update") /\ editor[e].kind = "edit"
              THEN raced \cup {editor[e].s} ELSE raced
  /\ standing' = standing \ {e}
  /\ UNCHANGED <<now, sched, planned, ticker, since, kept, requests>>

----------------------------------------------------------------------------
\* enqueue_schedule_run_now, under the lock of the schedule.  scheduled_for is
\* the moment of the request, so no two of them have the same.
RunNow(s) ==
  LET k == <<s, "manual", now>> IN
  /\ Request
  /\ sched[s].enabled /\ OpenRuns(s) = {}
  /\ ~Overlaps(k, sched[s].plan.phone)
  /\ planned[k].state = "absent"
  /\ Insert(s, {k})
  /\ UNCHANGED <<now, sched, editor, ticker, since, raced, pauseHistory>>

(* The worker: RunDispatch in three steps.                                 *)

Begin(k) ==
  /\ planned[k].state = "pristine"
  /\ sched[k[1]].enabled \/ planned[k].cancel
  /\ planned' = [planned EXCEPT ![k].state =
                   IF planned[k].cancel THEN "cancelled" ELSE "working"]
  /\ UNCHANGED <<now, sched, editor, ticker, since, raced, pauseHistory, requests>>

End(k) ==
  /\ planned[k].state = "working"
  /\ \/ planned' = [planned EXCEPT ![k].state = "done"]
     \/ /\ planned[k].cancel \/ ~sched[k[1]].enabled
        /\ planned' = [planned EXCEPT ![k].state = "cancelled"]
  /\ UNCHANGED <<now, sched, editor, ticker, since, raced, pauseHistory, requests>>

SchedTick ==
  /\ now < MaxTime
  /\ now' = now + 1
  /\ UNCHANGED <<sched, planned, editor, ticker, since, raced, pauseHistory, requests>>

SchedNext ==
  \/ \E h \in Ticker : ListDue(h) \/ \E s \in Schedule : Materialize(h, s)
  \/ \E s \in Schedule, p \in Plan, enabled \in BOOLEAN : Create(s, p, enabled)
  \/ \E e \in Editor :
       \/ \E s \in Schedule, p \in Plan, kind \in EditKinds : Open(e, s, kind, p)
       \/ \E s \in Schedule : Remove(e, s)
       \/ EditChecks(e) \/ EditDeletes(e) \/ Update(e) \/ PauseReads(e)
       \/ PauseDeletes(e) \/ Reload(e) \/ RemoveReads(e) \/ Cancel(e)
       \/ Fail(e)
  \/ \E s \in Schedule : RunNow(s)
  \/ \E k \in RunKey : Begin(k) \/ End(k)
  \/ SchedTick

SchedSpec == SchedInit /\ [][SchedNext]_schedVars

\* Ticks recur and a tick goes through its list.
SchedFairSpec ==
  /\ SchedSpec
  /\ \A h \in Ticker : /\ WF_schedVars(ListDue(h))
                       /\ \A s \in Schedule : WF_schedVars(Materialize(h, s))

----------------------------------------------------------------------------
\* "Materialization is idempotent": what has begun, ended or been cancelled is
\* never planned again and never deleted, although an edit may set next_run_at
\* back behind it and deletes the plans it has read.
StartedNeverReplanned ==
  [][\A k \in RunKey : planned[k].state \in {"working", "done", "cancelled"}
       => planned'[k].state \in {"working", "done", "cancelled"}]_schedVars

\* Once a pause or a removal has answered success, and until a resumption, the
\* schedule is disabled and every run of it that is still open has its
\* cancellation requested, whatever other requests do or fail at: none was
\* planned or started in between unnoticed.
PauseLeavesNothing ==
  \A s \in kept :
    ~sched[s].enabled /\ \A k \in OpenRuns(s) : planned[k].cancel

\* Every firing time of the plan before next_run_at has its run, whatever is
\* paused, resumed, run at once, started and cancelled; unless the schedule
\* changed between a tick's list and its planning, two requests changed it at
\* once, or an edit gave up after deleting plans (raced).
NoOccurrenceSkipped ==
  \A s \in Schedule :
    sched[s].enabled /\ s \notin raced
      /\ (\A e \in Editor : editor[e].pc # "idle" => editor[e].s # s) =>
    \A t \in Time : since[s] <= t /\ t < sched[s].next /\ Fires(sched[s].plan, t)
      => planned[<<s, "calendar", t>>].state # "absent"

\* "silently mix old and new intent" must not happen: a run that is planned has
\* the settings of its schedule, when no edit is under way.
NoMixedIntent ==
  \A s \in Schedule :
    (\A e \in Editor : editor[e].pc # "idle" => editor[e].s # s) =>
      \A k \in PristineOf(OpenRuns(s)) : planned[k].plan = sched[s].plan

\* "Materialize the next 26 hours": an occurrence within the horizon is planned
\* some day, unless the schedule is paused or changed.
KeepsPlanning ==
  \A s \in Schedule, t \in Time :
    (sched[s].enabled /\ sched[s].next = t /\ t <= now + Ahead)
      ~> (~sched[s].enabled \/ sched[s].next # t)

\* The rows are well typed, and none is missing.
PlanIsComplete == SchedTypeOK /\ NoOccurrenceSkipped
=============================================================================
