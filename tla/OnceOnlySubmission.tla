------------------------- MODULE OnceOnlySubmission -------------------------
(***************************************************************************)
(* What the scheduler promises about a run, with no worker, lease or stage *)
(* in sight: the decision to create its task is durable before the task is *)
(* requested, the request is made at most once, a run settled without that *)
(* decision is never requested, and an outcome is final.  A request that   *)
(* was decided may still go out after the run was settled: a delayed       *)
(* worker cannot be recalled.                                              *)
(***************************************************************************)
EXTENDS Naturals

CONSTANT Run

Outcome == {"none", "succeeded", "failed", "cancelled", "removed"}

VARIABLES decided,  \* decided[r]: a submission of r may have started
          sent,     \* sent[r]: requests for r that left for DuoPlus
          outcome   \* outcome[r]: "none" while r is open

vars == <<decided, sent, outcome>>

Init ==
  /\ decided = [r \in Run |-> FALSE]
  /\ sent = [r \in Run |-> 0]
  /\ outcome = [r \in Run |-> "none"]

Stays(r) ==
  decided'[r] = decided[r] /\ sent'[r] = sent[r] /\ outcome'[r] = outcome[r]

Decide(r) ==
  /\ outcome[r] = "none" /\ ~decided[r] /\ decided'[r]
  /\ sent'[r] = sent[r] /\ outcome'[r] = outcome[r]

Send(r) ==
  /\ decided[r] /\ sent[r] = 0 /\ sent'[r] = 1
  /\ decided'[r] /\ outcome'[r] = outcome[r]

\* Giving a run up as failed also closes it against a later submission.
Settle(r) ==
  /\ outcome[r] = "none" /\ outcome'[r] \in Outcome \ {"none"}
  /\ outcome'[r] = "succeeded" => sent[r] = 1
  /\ outcome'[r] = "removed" => ~decided[r]
  /\ decided[r] => decided'[r]
  /\ decided'[r] => decided[r] \/ outcome'[r] = "failed"
  /\ sent'[r] = sent[r]

\* Reaping may settle several runs in one statement.
Next == \A r \in Run : Stays(r) \/ Decide(r) \/ Send(r) \/ Settle(r)

Spec == Init /\ [][Next]_vars
=============================================================================
