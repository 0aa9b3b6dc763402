---------------------------- MODULE RunDispatch ----------------------------
(***************************************************************************)
(* The worker half: runSchedulerTick, processClaimedRun, processRun,       *)
(* syncTask and cancelForDisabledSchedule, with the DuoPlus task service   *)
(* they drive.  A worker is one tick's handling of one claimed run; its    *)
(* program counter stands at the next database or network call.  The       *)
(* remote lookup and the database write that uses it are separate steps,   *)
(* so anything may happen in between.                                      *)
(*                                                                         *)
(* Faults: each run of the environment may be given a budget of crashes,   *)
(* lease overruns, lost calls, closed gates, invisible tasks, phones that  *)
(* are not ready, schedule toggles and missed deadlines.                   *)
(***************************************************************************)
EXTENDS RunStore

CONSTANTS FaultKinds,   \* the faults the environment may inject
          MaxFaults     \* and how many of them (bound of the model)

AllFaults == {"crash", "slow", "net", "gate", "lag", "phone", "user",
              "deadline", "load"}

ASSUME FaultAssumption == FaultKinds \subseteq AllFaults /\ MaxFaults \in Nat

VARIABLES mem,    \* mem[w]: the worker's program counter and local snapshot
          task,   \* task[r]: the run's task as DuoPlus has it
          sends,  \* sends[r]: how many addTask calls carried r (history)
          missed, \* runs whose cancellation could not see a task (history)
          lost,   \* runs whose release did not reach the database (history)
          faults  \* faults injected so far

vars == <<run, phone, opened, enabled, mem, task, sends, missed, lost, faults>>

Remote == {"none", "sent",     \* addTask on the wire, not yet visible
           "live", "replaying", "done", "failed", "cancelled"}

Pc == {"idle", "begin", "promote", "acquire", "reacquire", "probe", "prepare",
       "authorize", "add", "reply", "ack", "validate", "orphan", "store",
       "locate", "ambiguous", "denied", "requeue", "recheck", "resolve",
       "missing", "sync", "rerun", "reopen", "replayed", "rejected",
       "cancel", "withdraw", "withdrawn", "refused",
       "fail", "permanent", "abort", "release"}

Seen == {"none", "live", "done", "failed", "cancelled"}

Memory == [pc : Pc, run : Run \cup {NoRun},
           att : 0 .. MaxAttempts,  \* run.attempt_count as claimed
           stage : Stage,           \* run.stage in memory
           known : BOOLEAN,         \* run.duoplus_task_id as claimed
           cancel : BOOLEAN,        \* run.cancellation_requested as claimed
           seen : Seen,             \* the task a lookup returned
           held : BOOLEAN]          \* phoneLeaseAcquired, not yet released

Idle == [pc |-> "idle", run |-> NoRun, att |-> 0, stage |-> "pending",
         known |-> FALSE, cancel |-> FALSE, seen |-> "none", held |-> FALSE]

HistoryOK ==
  missed \subseteq Run /\ lost \subseteq Run /\ faults \in 0 .. MaxFaults

TypeOK ==
  /\ StoreTypeOK
  /\ mem \in [Worker -> Memory]
  /\ \A w \in Worker : mem[w].run = NoRun <=> mem[w].pc = "idle"
  /\ task \in [Run -> Remote]
  /\ sends \in [Run -> Nat]
  /\ HistoryOK

Init ==
  /\ StoreInit
  /\ mem = [w \in Worker |-> Idle]
  /\ task = [r \in Run |-> "none"]
  /\ sends = [r \in Run |-> 0]
  /\ missed = {}
  /\ lost = {}
  /\ faults = 0

-----------------------------------------------------------------------------
(* Building blocks *)

Job(w) == mem[w].run
Row(w) == run[Job(w)]
At(w, pc) == mem[w].pc = pc

Inject(kind) ==
  /\ kind \in FaultKinds
  /\ faults < MaxFaults
  /\ faults' = faults + 1

Fault(kind) == Inject(kind) /\ UNCHANGED <<missed, lost>>
NoFault     == UNCHANGED <<missed, lost, faults>>

\* From here on nobody who cancels r may know of the task it has.
MissIf(r, unseen) ==
  /\ missed' = IF unseen THEN missed \cup {r} ELSE missed
  /\ UNCHANGED lost

Goto(w, pc) == mem' = [mem EXCEPT ![w].pc = pc]
Finish(w)   == mem' = [mem EXCEPT ![w] = Idle]

\* One fenced updateRun.  Without the lease it throws, the handler's own
\* update and release find no row either, and the worker ends without effect.
\* A row over the attempt limit throws into the handler of processClaimedRun.
Write(w, row, next) ==
  \/ /\ Fenced(Job(w), w) /\ WithinBudget(row)
     /\ UpdateRun(Job(w), row)
     /\ Goto(w, next)
  \/ /\ ~Fenced(Job(w), w)
     /\ Finish(w)
     /\ UNCHANGED storeVars
  \/ /\ Fenced(Job(w), w) /\ ~WithinBudget(row)
     /\ Goto(w, IF At(w, "fail") THEN "release" ELSE "fail")
     /\ UNCHANGED storeVars

WriteOnly(w, row, next) ==
  /\ Write(w, row, next)
  /\ UNCHANGED <<task, sends>>

\* setDeferred and markTerminal as row updates.
Deferred(w, status, stage, attempts) ==
  [Row(w) EXCEPT !.status = status, !.stage = stage, !.attempts = attempts]

Closed(row, outcome) ==
  [row EXCEPT !.status = outcome,
              !.stage = IF outcome = "failed" THEN "error" ELSE "complete"]

\* resolveTask finds the run's task by its deterministic name.  A task on the
\* wire is not visible; one that exists may lag behind in taskList.
Visible(r) == IF task[r] \in {"none", "sent"} THEN "none"
              ELSE IF task[r] = "replaying" THEN "live" ELSE task[r]

LookUp(w, found, missing) ==
  /\ \/ /\ mem' = [mem EXCEPT ![w].seen = Visible(Job(w)),
                    ![w].pc = IF Visible(Job(w)) = "none" THEN missing ELSE found]
        /\ NoFault
     \/ /\ Visible(Job(w)) # "none"
        /\ mem' = [mem EXCEPT ![w].seen = "none", ![w].pc = missing]
        /\ Fault("lag")
  /\ UNCHANGED <<storeVars, task, sends>>

-----------------------------------------------------------------------------
(* runSchedulerTick: claim, renew, load, route *)

Claim(w, r) ==
  /\ At(w, "idle")
  /\ ClaimDueRun(r, w)
  /\ mem' = [mem EXCEPT ![w] =
       [Idle EXCEPT !.pc = "begin", !.run = r, !.att = run'[r].attempts,
                    !.stage = run'[r].stage, !.known = run'[r].task,
                    !.cancel = run'[r].cancel]]
  /\ NoFault /\ UNCHANGED <<task, sends>>

ReapTick(w) ==
  /\ At(w, "idle") /\ ReapOnly
  /\ NoFault /\ UNCHANGED <<mem, task, sends>>

NeedsPromotion(w) ==
  Row(w).sub # "never" /\ ~mem[w].known /\ mem[w].stage \notin Lookup

\* submissionMayHaveReachedDuoPlus
MayHaveReachedDuoPlus(w) ==
  mem[w].known \/ Row(w).sub # "never"
    \/ mem[w].stage \in {"resolve_task", "monitor_task"}

RouteOf(w) ==
  IF ~enabled[Job(w)] \/ mem[w].cancel THEN "cancel"
  ELSE IF NeedsPromotion(w) THEN "promote"
  ELSE IF MayHaveReachedDuoPlus(w) THEN "reacquire" ELSE "acquire"

\* renewRunLease, loadRunContext and the routing at the head of processRun.
\* validateContext and the execution window may fail the run for good; the
\* tick's own context load fails it too.
Begin(w) ==
  /\ At(w, "begin")
  /\ Renewable(Job(w), w)
  /\ \/ Goto(w, RouteOf(w)) /\ NoFault
     \/ RouteOf(w) # "cancel" /\ Goto(w, "permanent") /\ Fault("gate")
     \/ Goto(w, "abort") /\ Fault("load")
  /\ UNCHANGED <<storeVars, task, sends>>

\* renew_run_lease returned false or threw: the tick goes on without releasing.
NotRenewed(w) ==
  /\ At(w, "begin")
  /\ IF Renewable(Job(w), w) THEN Fault("net") ELSE NoFault
  /\ Finish(w)
  /\ UNCHANGED <<storeVars, task, sends>>

\* The tick's deadline passed while the run waited its turn.
TickDeadline(w) ==
  /\ At(w, "begin")
  /\ Goto(w, "release")
  /\ Fault("deadline") /\ UNCHANGED <<storeVars, task, sends>>

-----------------------------------------------------------------------------
(* A new run, from phone lease to addTask *)

Promote(w) ==
  /\ At(w, "promote")
  /\ LET s == IF Row(w).sub = "attempting" THEN "unknown" ELSE Row(w).sub IN
     \/ /\ Fenced(Job(w), w)
        /\ UpdateRun(Job(w), [Row(w) EXCEPT !.sub = s, !.stage = "resolve_task"])
        /\ mem' = [mem EXCEPT ![w].pc = "reacquire", ![w].stage = "resolve_task"]
     \/ /\ ~Fenced(Job(w), w)
        /\ Finish(w) /\ UNCHANGED storeVars
  /\ NoFault /\ UNCHANGED <<task, sends>>

\* acquirePhoneLease for a new run (pc "acquire") or a possible task.
Acquire(w, from, next) ==
  /\ At(w, from)
  /\ AcquirePhoneLease(Job(w), w)
  /\ mem' = [mem EXCEPT ![w].pc = next, ![w].held = TRUE]
  /\ NoFault /\ UNCHANGED <<task, sends>>

AcquireNew(w)      == Acquire(w, "acquire", "probe")
AcquireExisting(w) == Acquire(w, "reacquire", "resolve")

\* No phone: refused by another run's work, by capacity, by the phase gate, or
\* deferred because GPS or locale may not be changed yet (stage apply_settings).
NoPhone(w) ==
  /\ At(w, "acquire") \/ At(w, "reacquire")
  /\ \/ /\ AcquireRefused(Job(w), w) /\ NoFault
        /\ WriteOnly(w, Deferred(w, "retry_wait", mem[w].stage, Row(w).attempts),
                     "release")
     \/ /\ Fault("gate")
        /\ \E stage \in {mem[w].stage} \cup
                        (IF At(w, "acquire") THEN {"prepare_phone"} ELSE {}) :
             WriteOnly(w, Deferred(w, "retry_wait", stage, Row(w).attempts),
                       "release")

\* The lookup by name before the only addTask.
Probe(w) == At(w, "probe") /\ LookUp(w, "sync", "prepare")

\* The phone is on and its settings are applied.
PhoneReady(w) ==
  /\ At(w, "prepare")
  /\ WriteOnly(w, Deferred(w, "preparing", "submit_task", Row(w).attempts),
               "authorize")
  /\ NoFault

\* waitForPhoneOn gave up for this tick, within or past the power-on timeout,
\* or phoneFailure / rejected settings end the run.
PhoneNotReady(w) ==
  /\ At(w, "prepare")
  /\ \/ /\ Fault("phone")
        /\ WriteOnly(w, Deferred(w, "preparing", "prepare_phone", Row(w).attempts),
                     "release")
     \/ /\ Fault("phone")
        /\ LET n == mem[w].att + 1 IN
           WriteOnly(w, IF n >= MaxAttempts
                          THEN [Closed(Row(w), "failed") EXCEPT !.attempts = n]
                          ELSE Deferred(w, "retry_wait", "prepare_phone", n),
                     "release")
     \/ /\ Fault("gate") /\ Goto(w, "permanent")
        /\ UNCHANGED <<storeVars, task, sends>>

\* beginRunSubmission.  A refusal defers to resolve_task with nothing sent;
\* a lost answer has recorded the attempt and still ends in the handler.
Authorize(w) ==
  /\ At(w, "authorize")
  /\ \/ /\ AuthorizeRunSubmission(Job(w), w)
        /\ \/ Goto(w, "add") /\ NoFault
           \/ Goto(w, "fail") /\ Fault("net")
        /\ UNCHANGED <<task, sends>>
     \/ /\ ~Authorizable(Job(w), w) /\ NoFault
        /\ WriteOnly(w, Deferred(w, "retry_wait", "resolve_task", Row(w).attempts),
                     "release")
     \/ /\ Fault("gate")
        /\ WriteOnly(w, Deferred(w, "retry_wait", "resolve_task", Row(w).attempts),
                     "release")

\* client.addTask goes out, or fails before it leaves.
AddTask(w) ==
  /\ At(w, "add")
  /\ \/ /\ sends' = [sends EXCEPT ![Job(w)] = @ + 1]
        /\ task' = [task EXCEPT ![Job(w)] = "sent"]
        /\ Goto(w, "reply")
        /\ MissIf(Job(w), ~Fenced(Job(w), w)) /\ UNCHANGED faults
     \/ /\ Goto(w, "ambiguous") /\ Fault("net")
        /\ UNCHANGED <<task, sends>>
  /\ UNCHANGED storeVars

\* An acceptance, a rejection (retryable or not), or no answer in time.
AddReply(w) ==
  /\ At(w, "reply")
  /\ \/ task[Job(w)] \notin {"none", "sent"} /\ Goto(w, "ack") /\ NoFault
     \/ /\ task[Job(w)] = "none" /\ NoFault
        /\ Goto(w, "ambiguous") \/ Goto(w, "denied")
     \/ Goto(w, "ambiguous") /\ Fault("net")
  /\ UNCHANGED <<storeVars, task, sends>>

\* Record a submission result; later steps see stage resolve_task in memory.
Record(w, sub, next) ==
  /\ \/ /\ Fenced(Job(w), w)
        /\ UpdateRun(Job(w), [Row(w) EXCEPT !.sub = sub, !.stage = "resolve_task"])
        /\ mem' = [mem EXCEPT ![w].pc = next, ![w].stage = "resolve_task"]
     \/ /\ ~Fenced(Job(w), w)
        /\ Finish(w) /\ UNCHANGED storeVars
  /\ NoFault /\ UNCHANGED <<task, sends>>

RecordUnknown(w) ==
  \/ At(w, "ambiguous") /\ Record(w, "unknown", "requeue")
  \/ At(w, "denied") /\ Record(w, "unknown", "permanent")

RecordAccepted(w) == At(w, "ack") /\ Record(w, "accepted", "validate")

Requeue(w) ==
  /\ At(w, "requeue")
  /\ WriteOnly(w, Deferred(w, "retry_wait", "resolve_task", mem[w].att + 1),
               "recheck")
  /\ NoFault

Recheck(w) == At(w, "recheck") /\ LookUp(w, "sync", "release")

Validate(w) ==
  /\ At(w, "validate")
  /\ \/ Goto(w, IF StillValid(Job(w), w) THEN "store" ELSE "orphan") /\ NoFault
     \/ Goto(w, "orphan") /\ Fault("gate")
  /\ UNCHANGED <<storeVars, task, sends>>

\* The submission was overtaken: cancel the task if it can be seen.
Orphan(w) ==
  /\ At(w, "orphan")
  /\ \/ /\ task' = IF Visible(Job(w)) = "live"
                     THEN [task EXCEPT ![Job(w)] = "cancelled"] ELSE task
        /\ NoFault
     \/ Fault("lag") /\ UNCHANGED task
  /\ Goto(w, "release")
  /\ UNCHANGED <<storeVars, sends>>

\* The answer may or may not carry a task id.
Store(w) ==
  /\ At(w, "store")
  /\ \E id \in BOOLEAN :
       WriteOnly(w, [Row(w) EXCEPT !.status = "preparing", !.sub = "accepted",
                                   !.stage = "resolve_task", !.task = id],
                 "locate")
  /\ NoFault

Locate(w) == At(w, "locate") /\ LookUp(w, "sync", "release")

-----------------------------------------------------------------------------
(* A run that may already have a task *)

Resolve(w) == At(w, "resolve") /\ LookUp(w, "sync", "missing")

Wait(w) ==
  /\ At(w, "missing")
  /\ IF mem[w].known
       THEN WriteOnly(w, Deferred(w, "monitored", "monitor_task", Row(w).attempts),
                      "release")
       ELSE WriteOnly(w, Deferred(w, "retry_wait", "resolve_task", Row(w).attempts),
                      "release")
  /\ NoFault

\* submissionVisibilityDeadline has passed; time may do so at any lookup.
GiveUp(w) ==
  /\ At(w, "missing")
  /\ LET s == IF ~mem[w].known /\ Row(w).sub = "never" THEN "unknown"
              ELSE Row(w).sub IN
     WriteOnly(w, [Closed(Row(w), "failed") EXCEPT !.sub = s], "release")
  /\ NoFault

\* syncTask's taskFields.
WithTask(row, seen) ==
  [row EXCEPT !.task = TRUE, !.duo = seen, !.sub = "accepted"]

\* Mutation of OutcomeOf: a finished task is a successful one.
OutcomeFinished(seen) ==
  IF seen \in {"done", "failed"} THEN "succeeded" ELSE "cancelled"

\* The run status of a finished task; "none" is a run without one.
OutcomeOf(seen) == CASE seen = "done" -> "succeeded"
                     [] seen = "failed" -> "failed"
                     [] OTHER -> "cancelled"

Current(w) == IF mem[w].att = 0 THEN 1 ELSE mem[w].att

SyncLive(w) ==
  /\ At(w, "sync") /\ mem[w].seen = "live"
  /\ WriteOnly(w, [WithTask(Row(w), "live") EXCEPT !.status = "monitored",
                                                   !.stage = "monitor_task"],
               "release")
  /\ NoFault

SyncTerminal(w) ==
  /\ At(w, "sync")
  /\ \/ mem[w].seen \in {"done", "cancelled"}
     \/ mem[w].seen = "failed" /\ Current(w) >= MaxAttempts
  /\ WriteOnly(w, Closed(WithTask(Row(w), mem[w].seen), OutcomeOf(mem[w].seen)),
               "release")
  /\ NoFault

SyncFailed(w) ==
  /\ At(w, "sync") /\ mem[w].seen = "failed" /\ Current(w) < MaxAttempts
  /\ Goto(w, "rerun")
  /\ NoFault /\ UNCHANGED <<storeVars, task, sends>>

\* client.rerunTasks is not fenced.  DuoPlus replays a failed task; it may
\* decline, and the answer may be lost.
Rerun(w) ==
  /\ At(w, "rerun")
  /\ \/ /\ task[Job(w)] = "failed"
        /\ task' = [task EXCEPT ![Job(w)] = "replaying"]
        /\ \/ Goto(w, "reopen") /\ NoFault
           \/ Goto(w, "fail") /\ Fault("net")
     \/ task[Job(w)] # "failed" /\ Goto(w, "rejected") /\ NoFault /\ UNCHANGED task
     \/ Goto(w, "rejected") /\ Fault("gate") /\ UNCHANGED task
  /\ UNCHANGED <<storeVars, sends>>

RerunRejected(w) ==
  /\ At(w, "rejected")
  /\ WriteOnly(w, Closed(WithTask(Row(w), "failed"), "failed"), "release")
  /\ NoFault

\* startAttempt inserts the next attempt number, which may already be there.
Reopen(w) ==
  LET n == Current(w) + 1 IN
  /\ At(w, "reopen")
  /\ \/ /\ n \notin opened[Job(w)]
        /\ opened' = [opened EXCEPT ![Job(w)] = @ \cup {n}]
        /\ Goto(w, "replayed")
     \/ n \in opened[Job(w)] /\ Goto(w, "fail") /\ UNCHANGED opened
  /\ NoFault /\ UNCHANGED <<run, phone, enabled, task, sends>>

\* The row keeps the failed duoplus_status until the next lookup.
Replayed(w) ==
  /\ At(w, "replayed")
  /\ WriteOnly(w, [WithTask(Row(w), "failed") EXCEPT !.status = "monitored",
                     !.stage = "monitor_task", !.attempts = Current(w) + 1],
               "release")
  /\ NoFault

-----------------------------------------------------------------------------
(* cancelForDisabledSchedule, which takes no phone lease *)

\* Only a run with a recorded task, or in one of these stages, is looked up.
Asks(w) == mem[w].known \/ mem[w].stage \notin {"pending", "monitor_task"}

\* A known task that taskList does not show is taken as last recorded.
CancelLookUp(w) ==
  LET fallback == IF ~mem[w].known THEN "none"
                  ELSE IF Row(w).duo = "none" THEN "live" ELSE Row(w).duo
      sees == IF Visible(Job(w)) = "none" \/ ~Asks(w) THEN fallback
              ELSE Visible(Job(w))
  IN /\ At(w, "cancel")
     /\ \E seen \in {sees, fallback} :
          /\ mem' = [mem EXCEPT ![w].seen = seen, ![w].pc = "withdraw"]
          /\ MissIf(Job(w), seen = "none" /\ task[Job(w)] # "none")
          /\ IF seen = sees THEN UNCHANGED faults ELSE Inject("lag")
     /\ UNCHANGED <<storeVars, task, sends>>

WithdrawSettled(w) ==
  /\ At(w, "withdraw") /\ mem[w].seen # "live"
  /\ LET seen == mem[w].seen
         row  == IF seen = "none" THEN Row(w)
                 ELSE [Row(w) EXCEPT !.task = TRUE, !.duo = seen]
     IN WriteOnly(w, Closed(row, OutcomeOf(seen)), "release")
  /\ NoFault

\* cancelTasks; the caught error of a lost call is handled like a refusal.
Withdraw(w) ==
  /\ At(w, "withdraw") /\ mem[w].seen = "live"
  /\ \/ /\ Visible(Job(w)) = "live"
        /\ task' = [task EXCEPT ![Job(w)] = "cancelled"]
        /\ \/ Goto(w, "withdrawn") /\ NoFault
           \/ Goto(w, "refused") /\ Fault("net")
     \/ Visible(Job(w)) # "live" /\ Goto(w, "refused") /\ NoFault /\ UNCHANGED task
     \/ Goto(w, "refused") /\ Fault("gate") /\ UNCHANGED task
  /\ UNCHANGED <<storeVars, sends>>

Withdrawn(w) ==
  /\ At(w, "withdrawn")
  /\ WriteOnly(w, Closed([Row(w) EXCEPT !.task = TRUE, !.duo = "cancelled"],
                         "cancelled"), "release")
  /\ NoFault

\* Mutation of WithdrawRefused: the answer to cancelTasks is not examined.
WithdrawAssumed(w) ==
  /\ At(w, "refused")
  /\ WriteOnly(w, Closed([Row(w) EXCEPT !.task = TRUE, !.duo = "cancelled"],
                         "cancelled"), "release")
  /\ NoFault

WithdrawRefused(w) ==
  /\ At(w, "refused")
  /\ IF mem[w].att >= MaxAttempts
       THEN WriteOnly(w, Closed([Row(w) EXCEPT !.task = TRUE], "failed"), "release")
       ELSE WriteOnly(w, Deferred(w, "retry_wait", "cancel_task", mem[w].att + 1),
                      "release")
  /\ NoFault

-----------------------------------------------------------------------------
(* The handlers of processClaimedRun, and its two finally blocks *)

\* A call other than the ones with an outcome of their own throws.
Throws == {"promote", "acquire", "reacquire", "probe", "prepare", "authorize",
           "ambiguous", "denied", "ack", "requeue", "recheck", "validate",
           "orphan", "store", "locate", "resolve", "missing", "sync", "rerun",
           "reopen", "replayed", "rejected", "cancel", "withdrawn", "refused"}

\* The calls to DuoPlus among them may also be refused for good (401, 4xx).
CallsDuoPlus == {"probe", "prepare", "recheck", "orphan", "locate", "resolve",
                 "rerun", "cancel"}

CallFails(w) ==
  /\ mem[w].pc \in Throws
  /\ \/ Goto(w, "fail") /\ Fault("net")
     \/ mem[w].pc \in CallsDuoPlus /\ Goto(w, "permanent") /\ Fault("gate")
  /\ UNCHANGED <<storeVars, task, sends>>

\* A retryable error: next attempt, or the end of the budget.
FailTransient(w) ==
  LET n == mem[w].att + 1 IN
  /\ At(w, "fail")
  /\ WriteOnly(w, IF n >= MaxAttempts
                    THEN [Closed(Row(w), "failed") EXCEPT !.attempts = n]
                    ELSE Deferred(w, "retry_wait", mem[w].stage, n),
               "release")
  /\ NoFault

FailPermanent(w) ==
  /\ At(w, "permanent") \/ At(w, "abort")
  /\ WriteOnly(w, Closed(Row(w), "failed"), "release")
  /\ NoFault

\* The handler's update is returned, not awaited: the release in the finally
\* block may overtake it, or the update itself may be lost.
FailUnrecorded(w) ==
  /\ At(w, "fail") \/ At(w, "permanent") \/ At(w, "abort")
  /\ Goto(w, "release")
  /\ Fault("net") /\ UNCHANGED <<storeVars, task, sends>>

\* processRun returns its last promise unawaited, so its finally block frees
\* the phone while the outcome is still being worked out.
FreesEarly == {"missing", "sync", "rerun", "reopen", "replayed", "rejected",
               "fail", "permanent"}

ReleasePhone(w) ==
  /\ mem[w].pc \in FreesEarly
  /\ mem[w].held
  /\ ReleasePhoneLease(Job(w), w)
  /\ mem' = [mem EXCEPT ![w].held = FALSE]
  /\ NoFault /\ UNCHANGED <<task, sends>>

\* releaseRunLease, whose errors the finally block swallows: a call that does
\* not reach the database leaves both leases to their time.
Release(w) ==
  /\ At(w, "release")
  /\ \/ ReleaseRunLease(Job(w), w) /\ NoFault
     \/ /\ UNCHANGED storeVars
        /\ lost' = lost \cup {Job(w)} /\ Inject("net") /\ UNCHANGED missed
  /\ Finish(w)
  /\ UNCHANGED <<task, sends>>

-----------------------------------------------------------------------------
(* The environment *)

Crash(w) ==
  /\ ~At(w, "idle")
  /\ Finish(w)
  /\ Fault("crash") /\ UNCHANGED <<storeVars, task, sends>>

\* A lease runs out once its worker is gone; under a working one only when
\* the tick overran it.
LeaseExpires(r) ==
  /\ ExpireRunLease(r)
  /\ IF \E w \in Worker : Job(w) = r /\ Leased(r, w) THEN Fault("slow") ELSE NoFault
  /\ UNCHANGED <<mem, task, sends>>

PhoneLeaseExpires(p) ==
  /\ ExpirePhoneLease(p)
  /\ NoFault /\ UNCHANGED <<mem, task, sends>>

UserCancels(r) ==
  /\ "user" \in FaultKinds /\ RequestCancel(r)
  /\ NoFault /\ UNCHANGED <<mem, task, sends>>

UserTogglesSchedule(r) ==
  /\ SetScheduleEnabled(r) /\ Fault("user")
  /\ UNCHANGED <<mem, task, sends>>

UserRemovesPlan(r) ==
  /\ "user" \in FaultKinds /\ RemovePristinePlan(r)
  /\ NoFault /\ UNCHANGED <<mem, task, sends>>

DuoPlusTakes(r) ==
  /\ task[r] = "sent"
  /\ \E s \in {"live", "none"} : task' = [task EXCEPT ![r] = s]
  /\ NoFault /\ UNCHANGED <<storeVars, mem, sends>>

DuoPlusFinishes(r) ==
  /\ task[r] \in {"live", "replaying"}
  /\ \E s \in {"done", "failed"} : task' = [task EXCEPT ![r] = s]
  /\ NoFault /\ UNCHANGED <<storeVars, mem, sends>>

-----------------------------------------------------------------------------
(* A worker's own steps, in the order of the code; faults are chosen inside. *)
Work(w) ==
  \/ Begin(w) \/ NotRenewed(w) \/ TickDeadline(w) \/ Promote(w)
  \/ AcquireNew(w) \/ AcquireExisting(w) \/ NoPhone(w) \/ Probe(w)
  \/ PhoneReady(w) \/ PhoneNotReady(w) \/ Authorize(w) \/ AddTask(w)
  \/ AddReply(w) \/ RecordUnknown(w) \/ RecordAccepted(w) \/ Requeue(w)
  \/ Recheck(w) \/ Validate(w) \/ Orphan(w) \/ Store(w) \/ Locate(w)
  \/ Resolve(w) \/ Wait(w) \/ GiveUp(w) \/ SyncLive(w) \/ SyncTerminal(w)
  \/ SyncFailed(w) \/ Rerun(w) \/ RerunRejected(w) \/ Reopen(w) \/ Replayed(w)
  \/ CancelLookUp(w) \/ WithdrawSettled(w) \/ Withdraw(w) \/ Withdrawn(w)
  \/ WithdrawRefused(w) \/ CallFails(w) \/ FailTransient(w) \/ FailPermanent(w)
  \/ FailUnrecorded(w) \/ Release(w)

Next ==
  \/ \E w \in Worker, r \in Run : Claim(w, r)
  \/ \E w \in Worker : ReapTick(w) \/ Work(w) \/ ReleasePhone(w) \/ Crash(w)
  \/ \E r \in Run : \/ LeaseExpires(r) \/ UserCancels(r)
                    \/ UserTogglesSchedule(r) \/ UserRemovesPlan(r)
                    \/ DuoPlusTakes(r) \/ DuoPlusFinishes(r)
  \/ \E p \in Phone : PhoneLeaseExpires(p)

Spec == Init /\ [][Next]_vars

-----------------------------------------------------------------------------
(* Safety *)

\* addTask is sent at most once for a run, whatever crashes, lost answers or
\* lease overruns happen (the promise of submissionMayHaveReachedDuoPlus and
\* authorize_run_submission).
AtMostOneSubmission == \A r \in Run : sends[r] <= 1

\* Two runs' first tasks are never on one physical phone together, for all
\* that the database may not know of the earlier one: the other-run scan of
\* acquire_phone_lease against in-flight, lagging and unacknowledged tasks.
OnPhone(r) == task[r] \in {"sent", "live"}

NoConcurrentFirstTasks ==
  \A r, s \in Run :
    r # s /\ PhoneOf[r] = PhoneOf[s] => ~(OnPhone(r) /\ OnPhone(s))

\* A phone lease never outlives the bookkeeping that can free it: its run
\* still carries a worker's lease and the phone token, through which alone
\* reaping, release and reclaiming reach the phone.
PhoneLeaseOwned ==
  \A p \in Phone :
    LET r == phone[p].run IN
    r # NoRun => PhoneOf[r] = p /\ run[r].ptok /\ run[r].owner # NoWorker

\* A run is recorded as succeeded only when DuoPlus finished its one task.
SucceededMatchesProvider ==
  \A r \in Run :
    run[r].status = "succeeded" => task[r] = "done" /\ sends[r] = 1

\* The scheduler implements its abstract promise.
Promise == INSTANCE OnceOnlySubmission WITH
  decided <- [r \in Run |-> run[r].sub # "never"],
  sent    <- sends,
  outcome <- [r \in Run |-> IF run[r].status \in Open THEN "none"
                            ELSE run[r].status]

SubmitsOnceOnly == Promise!Spec

\* A cancelled run has no task, or one that was withdrawn, whatever happens
\* between the lookup of cancelForDisabledSchedule, cancelTasks and the update
\* that records the answer; unless the lookup could not find the task (on the
\* wire, lagging, or not looked for) or a worker sent it after losing the run.
CancelledRunIsOver ==
  \A r \in Run \ missed :
    run[r].status = "cancelled" => task[r] \in {"none", "cancelled"}

\* A run whose task is executing is not given up without looking for it: it
\* "may mean a process died immediately before or after the network write",
\* as processRun says of a submission it finds attempted.
CancelLooksFirst ==
  \A w \in Worker :
    At(w, "cancel") /\ task[Job(w)] \in {"live", "replaying"} => Asks(w)

\* A task the database has seen alive, and that is, keeps its run claimable
\* (the comment of claim_due_runs).
LiveTaskStaysClaimable ==
  \A r \in Run :
    run[r].duo = "live" /\ task[r] \in {"live", "replaying"} => run[r].status \in Open

-----------------------------------------------------------------------------
(* Liveness *)

\* A tick's handling of a run goes on while its process lives; leases run
\* out; DuoPlus answers and finishes.  An open run that is again and again
\* claimable by an idle worker is claimed (claim_due_runs takes the longest
\* waiting first), and one whose lookups go on finding nothing passes its
\* visibility deadline at one of them.
Fairness ==
  /\ \A w \in Worker : WF_vars(Work(w))
  /\ \A r \in Run : /\ SF_vars(\E w \in Worker : Claim(w, r))
                    /\ SF_vars(\E w \in Worker : Job(w) = r /\ GiveUp(w))
                    /\ WF_vars(LeaseExpires(r))
                    /\ WF_vars(DuoPlusTakes(r))
                    /\ WF_vars(DuoPlusFinishes(r))
  /\ \A p \in Phone : WF_vars(PhoneLeaseExpires(p))

FairSpec == Spec /\ Fairness

\* A monitored row that still names a phone it no longer holds: renew_run_lease
\* refuses it at every claim, and reaping passes queued and running rows over.
Stranded(r) == run[r].status = "monitored" /\ run[r].ptok /\ ~LivePhone(r)

\* Its release was lost, and it is stranded for good: the one way in which a run
\* that neither a crash nor an overrun has met stays without an outcome.
Forsaken(r) == [](r \in lost /\ Stranded(r))

\* Once a submission may have started, the run reaches an outcome, unless the
\* release after it was lost and that leaves it stranded.
SubmissionResolves ==
  \A r \in Run :
    run[r].sub # "never" ~> (run[r].status \in Terminal \/ Forsaken(r))

\* A requested cancellation is carried out, with the same exception.
CancellationHonoured ==
  \A r \in Run :
    run[r].cancel ~> (run[r].status \notin Open \/ Forsaken(r))
=============================================================================
