------------------------------ MODULE RunStore ------------------------------
(***************************************************************************)
(* The durable half of the scheduler: the rows of scheduler_runs,          *)
(* scheduler_run_attempts, duo_phones and scheduler_schedules, and the     *)
(* PostgreSQL functions and API statements that change them.  Each         *)
(* function locks its rows for the whole call, so each is one step here.   *)
(*                                                                         *)
(* Clock time is abstracted: a lease is `fresh' until some step ages it,   *)
(* and an open run may be due (next_action_at, issue_at) at any moment.    *)
(* The statuses queued, running and paused differ only in when the next    *)
(* check is due and are one status "monitored"; prepare_phone, wait_phone  *)
(* and apply_settings are one stage "prepare_phone".                       *)
(***************************************************************************)
EXTENDS Naturals, FiniteSets

CONSTANTS Run,          \* rows of scheduler_runs
          Phone,        \* physical phones (rows sharing one duoplus_image_id)
          PhoneOf,      \* the phone each run is assigned to
          Worker,       \* one tick's handling of one claimed run
          NoWorker, NoRun,
          MaxAttempts   \* scheduler_runs.max_attempts

ASSUME StoreAssumption ==
  /\ PhoneOf \in [Run -> Phone]
  /\ MaxAttempts \in Nat \ {0}
  /\ NoWorker \notin Worker
  /\ NoRun \notin Run

VARIABLES run,      \* run[r]: the scheduler_runs row
          phone,    \* phone[p]: the lease columns of duo_phones
          opened,   \* opened[r]: attempt numbers in scheduler_run_attempts
          enabled   \* enabled[r]: the flag of the schedule that owns r

storeVars == <<run, phone, opened, enabled>>

Open     == {"pending", "retry_wait", "preparing", "monitored"}
Terminal == {"succeeded", "failed", "cancelled"}
Reapable == {"pending", "retry_wait", "preparing"}

\* "removed" stands for a row deleted by a schedule pause or edit.
Status   == Open \cup Terminal \cup {"removed"}
Stage    == {"pending", "prepare_phone", "submit_task", "resolve_task",
             "monitor_task", "cancel_task", "complete", "error"}
Lookup   == {"resolve_task", "monitor_task", "cancel_task"}
Submission == {"never", "attempting", "unknown", "accepted"}
DuoStatus  == {"none", "live", "done", "failed", "cancelled"}
Finished   == {"done", "failed", "cancelled"}

RunRow == [status : Status, stage : Stage, sub : Submission,
           task : BOOLEAN,              \* duoplus_task_id is not null
           duo : DuoStatus,             \* duoplus_status
           attempts : 0 .. MaxAttempts, \* attempt_count
           cancel : BOOLEAN,            \* cancellation_requested
           owner : Worker \cup {NoWorker}, \* lease_owner with lease_token
           fresh : BOOLEAN,             \* lease_expires_at is in the future
           ptok : BOOLEAN]              \* phone_lease_token is not null

PhoneRow == [run : Run \cup {NoRun},    \* lease_run_id with lease_token
             fresh : BOOLEAN]           \* lease_expires_at is in the future

NewRow == [status |-> "pending", stage |-> "pending", sub |-> "never",
           task |-> FALSE, duo |-> "none", attempts |-> 0, cancel |-> FALSE,
           owner |-> NoWorker, fresh |-> FALSE, ptok |-> FALSE]

Unleased == [run |-> NoRun, fresh |-> FALSE]

StoreTypeOK ==
  /\ run \in [Run -> RunRow]
  /\ phone \in [Phone -> PhoneRow]
  /\ opened \in [Run -> SUBSET Nat]
  /\ enabled \in [Run -> BOOLEAN]

StoreInit ==
  /\ run = [r \in Run |-> NewRow]
  /\ phone = [p \in Phone |-> Unleased]
  /\ opened = [r \in Run |-> {}]
  /\ enabled = [r \in Run |-> TRUE]

-----------------------------------------------------------------------------
(* Leases *)

Leased(r, w)   == run[r].owner = w
LiveLease(r, w) == Leased(r, w) /\ run[r].fresh

\* duo_phones.lease_run_id and lease_token match the run's phone_lease_token.
HoldsPhone(r) == run[r].ptok /\ phone[PhoneOf[r]].run = r
LivePhone(r)  == HoldsPhone(r) /\ phone[PhoneOf[r]].fresh

\* The phone rows once the given runs have dropped the phones they hold.
PhonesWithout(rs) ==
  [p \in Phone |-> IF \E r \in rs : PhoneOf[r] = p /\ HoldsPhone(r)
                     THEN Unleased ELSE phone[p]]

Unlocked(row) ==
  [row EXCEPT !.owner = NoWorker, !.fresh = FALSE, !.ptok = FALSE]

\* What the row may already have caused outside the database.
MayHaveTask(row) == row.sub # "never" \/ row.task

\* reap_expired_run_leases: what one expired row becomes.
Reaped(row) ==
  CASE MayHaveTask(row) ->
         [Unlocked(row) EXCEPT !.status = "retry_wait", !.stage = "resolve_task"]
    [] ~MayHaveTask(row) /\ row.status = "preparing" ->
         IF row.attempts < MaxAttempts
           THEN [Unlocked(row) EXCEPT !.status = "retry_wait", !.stage = "pending"]
           ELSE [Unlocked(row) EXCEPT !.status = "failed", !.stage = "error"]
    [] OTHER -> Unlocked(row)

Expired == {r \in Run : /\ run[r].status \in Reapable
                        /\ run[r].owner # NoWorker
                        /\ ~run[r].fresh}

RowsAfterReaping ==
  [r \in Run |-> IF r \in Expired THEN Reaped(run[r]) ELSE run[r]]

\* Mutations of Claimable: reconciliation is held to the attempt budget; a
\* cancellation request does not count as reconciliation.
ClaimableInBudget(row, on) ==
  /\ row.status \in Open
  /\ on \/ row.cancel \/ MayHaveTask(row)
  /\ row.attempts < MaxAttempts
  /\ ~row.fresh

ClaimableUncancelled(row, on) ==
  LET reconcile == MayHaveTask(row) \/ row.stage \in Lookup \ {"cancel_task"}
                     \/ row.status \in {"preparing", "monitored"}
  IN /\ row.status \in Open
     /\ on \/ reconcile
     /\ row.attempts < MaxAttempts \/ reconcile
     /\ ~row.fresh

\* The where clause of claim_due_runs, for one row and its schedule's flag.
Claimable(row, on) ==
  LET reconcile == row.cancel \/ MayHaveTask(row) \/ row.stage \in Lookup
                     \/ row.status \in {"preparing", "monitored"}
  IN /\ row.status \in Open
     /\ on \/ reconcile
     /\ row.attempts < MaxAttempts \/ reconcile
     /\ ~row.fresh

Pristine(row) == /\ row.status = "pending" /\ row.stage = "pending"
                 /\ row.attempts = 0 /\ row.sub = "never"

Claimed(row, w) ==
  [row EXCEPT !.owner = w, !.fresh = TRUE,
              !.stage = IF row.cancel THEN "cancel_task"
                        ELSE IF Pristine(row) THEN "prepare_phone" ELSE @]

\* claim_due_runs: reap every expired lease, then lease row r to w.
ClaimDueRun(r, w) ==
  /\ Claimable(RowsAfterReaping[r], enabled[r])
  /\ run' = [RowsAfterReaping EXCEPT ![r] = Claimed(@, w)]
  /\ phone' = PhonesWithout(Expired)
  /\ UNCHANGED <<opened, enabled>>

\* The same call when it reaps but leases nothing.
ReapOnly ==
  /\ Expired # {}
  /\ run' = RowsAfterReaping
  /\ phone' = PhonesWithout(Expired)
  /\ UNCHANGED <<opened, enabled>>

\* renew_run_lease succeeds; a dead phone lease under a phone token refuses.
Renewable(r, w) == LiveLease(r, w) /\ (run[r].ptok => LivePhone(r))

\* Mutation of ReleaseRunLease: the phone is left to its own lease.
ReleaseRunOnly(r, w) ==
  /\ run' = IF Leased(r, w) THEN [run EXCEPT ![r] = Unlocked(@)] ELSE run
  /\ UNCHANGED <<phone, opened, enabled>>

\* release_run_lease
ReleaseRunLease(r, w) ==
  /\ run' = IF Leased(r, w) THEN [run EXCEPT ![r] = Unlocked(@)] ELSE run
  /\ phone' = IF Leased(r, w) THEN PhonesWithout({r}) ELSE phone
  /\ UNCHANGED <<opened, enabled>>

\* release_phone_lease: frees the phone and leaves phone_lease_token behind.
ReleasePhoneLease(r, w) ==
  /\ phone' = IF Leased(r, w) THEN PhonesWithout({r}) ELSE phone
  /\ UNCHANGED <<run, opened, enabled>>

-----------------------------------------------------------------------------
(* acquire_phone_lease *)

\* Mutation of OccupiesPhone: only open work counts.
OccupiesWhileOpen(row) == row.status \in {"preparing", "monitored"}

\* A run that may still be using its phone as far as the database knows.
OccupiesPhone(row) ==
  \/ row.status \in {"preparing", "monitored"}
  \/ row.sub \in {"attempting", "unknown"}
  \/ row.sub = "accepted" /\ row.duo \notin Finished

ExistingTask(row) ==
  MayHaveTask(row) \/ row.status = "monitored" \/ row.stage \in Lookup

Acquirable(r, w) ==
  LET row == run[r] p == PhoneOf[r] IN
  /\ LiveLease(r, w)
  /\ ~row.cancel
  /\ row.status \in Open
  /\ \/ ExistingTask(row)
     \/ row.status \notin {"pending", "retry_wait"}
     \/ row.attempts < MaxAttempts
  /\ row.sub # "never" => row.stage \in Lookup
  /\ ~phone[p].fresh
  /\ \A s \in Run \ {r} : PhoneOf[s] = p => ~OccupiesPhone(run[s])

StartsAttempt(row) ==
  /\ ~ExistingTask(row)
  /\ row.status \in {"pending", "retry_wait"} \/ row.attempts = 0

AcquirePhoneLease(r, w) ==
  LET row == run[r]
      n   == row.attempts + 1
      on  == [row EXCEPT !.ptok = TRUE,
                !.status = IF ExistingTask(row) THEN @ ELSE "preparing"]
  IN /\ Acquirable(r, w)
     /\ StartsAttempt(row) => n \notin opened[r] \* unique (run_id, attempt_number)
     /\ run' = [run EXCEPT ![r] =
                  IF StartsAttempt(row)
                    THEN [on EXCEPT !.stage = "prepare_phone", !.attempts = n]
                    ELSE on]
     /\ phone' = [phone EXCEPT ![PhoneOf[r]] = [run |-> r, fresh |-> TRUE]]
     /\ opened' = IF StartsAttempt(row)
                    THEN [opened EXCEPT ![r] = @ \cup {n}] ELSE opened
     /\ UNCHANGED enabled

\* What acquire_phone_lease refuses (false, or a caught unique_violation).
AcquireRefused(r, w) ==
  \/ ~Acquirable(r, w)
  \/ StartsAttempt(run[r]) /\ run[r].attempts + 1 \in opened[r]

-----------------------------------------------------------------------------
(* The submission fence *)

Authorizable(r, w) ==
  LET row == run[r] IN
  /\ enabled[r]
  /\ ~row.cancel
  /\ row.status = "preparing"
  /\ ~row.task
  /\ row.sub = "never"
  /\ LiveLease(r, w)
  /\ LivePhone(r)

\* Mutation of SubmissionBegun: the attempt is not recorded.
SubmissionUnrecorded(row) == [row EXCEPT !.stage = "submit_task"]

SubmissionBegun(row) ==
  [row EXCEPT !.stage = "submit_task", !.sub = "attempting"]

\* authorize_run_submission: check and never -> attempting in one statement.
AuthorizeRunSubmission(r, w) ==
  /\ Authorizable(r, w)
  /\ run' = [run EXCEPT ![r] = SubmissionBegun(@)]
  /\ UNCHANGED <<phone, opened, enabled>>

\* validate_run_after_submission
StillValid(r, w) ==
  LET row == run[r] IN
  /\ enabled[r]
  /\ ~row.cancel
  /\ row.status = "preparing"
  /\ row.stage = "resolve_task"
  /\ row.sub = "accepted"
  /\ LiveLease(r, w)
  /\ LivePhone(r)

-----------------------------------------------------------------------------
(* Plain statements: the repository's fenced update and the workspace API *)

\* Mutations: an update that ignores the lease, or the attempt limit.
Unfenced(r, w)   == TRUE
AnyAttempts(row) == TRUE

\* repository.updateRun matches lease_owner and lease_token; the table's
\* check constraint refuses attempt_count > max_attempts.
Fenced(r, w)      == Leased(r, w)
WithinBudget(row) == row.attempts <= MaxAttempts

UpdateRun(r, row) ==
  /\ run' = [run EXCEPT ![r] = row]
  /\ UNCHANGED <<phone, opened, enabled>>

\* cancelRuns: flags any open run, leased or not.
RequestCancel(r) ==
  /\ run[r].status \in Open
  /\ ~run[r].cancel
  /\ run' = [run EXCEPT ![r].cancel = TRUE]
  /\ UNCHANGED <<phone, opened, enabled>>

\* PATCH and DELETE of a schedule flip its flag ...
SetScheduleEnabled(r) ==
  /\ enabled' = [enabled EXCEPT ![r] = ~@]
  /\ UNCHANGED <<run, phone, opened>>

\* ... and a pause or material edit deletes the rows no worker has touched.
RemovePristinePlan(r) ==
  /\ run[r].status = "pending" /\ run[r].attempts = 0
  /\ ~run[r].task /\ run[r].owner = NoWorker
  /\ run' = [run EXCEPT ![r].status = "removed"]
  /\ UNCHANGED <<phone, opened, enabled>>

-----------------------------------------------------------------------------
(* The passage of time *)

ExpireRunLease(r) ==
  /\ run[r].owner # NoWorker /\ run[r].fresh
  /\ run' = [run EXCEPT ![r].fresh = FALSE]
  /\ UNCHANGED <<phone, opened, enabled>>

\* A phone lease (15 minutes, extended by every renewal) outlives the run
\* lease it was taken under (at most the tick's 270 s deadline plus 30 s).
ExpirePhoneLease(p) ==
  /\ phone[p].run # NoRun /\ phone[p].fresh
  /\ ~run[phone[p].run].fresh
  /\ phone' = [phone EXCEPT ![p].fresh = FALSE]
  /\ UNCHANGED <<run, opened, enabled>>
=============================================================================
