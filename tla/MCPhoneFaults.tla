---------------------------- MODULE MCPhoneFaults ---------------------------
(***************************************************************************)
(* One phone seen by two workspaces (its two rows), in two environments: a *)
(* behaviour picks at its start whether two sweeps meet lost calls and     *)
(* crashes, or one sweep meets crashes and people at the power button.     *)
(***************************************************************************)
EXTENDS MCPhonePower

VARIABLE setting

OneSweeper == {s1}
PeopleFaults == {"person", "crash", "late"}

People == INSTANCE PhonePower WITH Sweeper <- OneSweeper, FaultKinds <- PeopleFaults

FaultsInit == setting \in {"mirrored", "people"} /\ Init

FaultsNext ==
  /\ UNCHANGED setting
  /\ \/ setting = "mirrored" /\ Next
     \/ setting = "people" /\ People!Next

FaultsSpec == FaultsInit /\ [][FaultsNext]_<<setting, vars>>
=============================================================================
