----------------------------- MODULE MCOperations ---------------------------
(***************************************************************************)
(* What operators see and steer: small instances of DeviceCycle, Console   *)
(* and PhonePower (without failures), under their fairness.  They share no *)
(* state: a behaviour picks one of them at its start, and fairness is      *)
(* asked of that one only.                                                 *)
(***************************************************************************)
EXTENDS DeviceCycle, Console

CONSTANTS a, b, i1, ra, rb, sw, Nobody,     \* PhonePower
          warm, base, main,                 \* DeviceCycle
          s1, u1, q1, c1, k1                \* Console

ASSUME NobodyAssumption == Nobody \notin {a, b, ra, rb, sw}

VARIABLES part,
          row, pool, job, sweep, sync, image, switchedOff, mishaps

powerVars == <<row, pool, job, sweep, sync, image, switchedOff, mishaps>>

\* PhonePower: a phone with two rows, two runs and one sweep, without failures.
\* It is taken with what is proved of it, so that the proofs of the instance
\* speak of the same definitions as its runs.
Rows == {a, b}
OneImage == {i1}
ImageOfRow == [p \in Rows |-> i1]
TwoRuns == {ra, rb}
RowOfRun == [r \in TwoRuns |-> IF r = ra THEN a ELSE b]
OneSweep == {sw}
RunsOut == {"expire"}

P == INSTANCE PhonePowerProofs WITH
       Row <- Rows, Image <- OneImage, ImageOf <- ImageOfRow,
       Run <- TwoRuns, RowOf <- RowOfRun, Sweeper <- OneSweep,
       NoRun <- Nobody, NoRow <- Nobody, NoSweeper <- Nobody,
       Limit <- 1, FaultKinds <- RunsOut, MaxFaults <- 0,
       asked <- switchedOff, faults <- mishaps

\* A warm-up task, a daily one and a main one: the first and the last required.
Phases == [t \in Task |-> CASE t = warm -> 1 [] t = base -> 0 [] OTHER -> 2]
TaskDays == [t \in Task |-> IF t = main THEN 2 ELSE 1]
Starts == <<1, 2, 3, 4>>

OperationsInit ==
  /\ part \in {"power", "cycle", "console"}
  /\ P!Init /\ CycleInit /\ ConsoleInit
  /\ part # "power" => \A r \in TwoRuns : job[r].life = "later"

OperationsNext ==
  /\ UNCHANGED part
  /\ \/ part = "power" /\ P!Next /\ UNCHANGED <<cycleVars, consoleVars>>
     \/ part = "cycle" /\ CycleNext /\ UNCHANGED <<powerVars, consoleVars>>
     \/ part = "console" /\ ConsoleNext /\ UNCHANGED <<powerVars, cycleVars>>

\* The fairness of the modules, each asked of its own part.
PowerFairness ==
  /\ \A r \in TwoRuns : /\ WF_powerVars(part = "power" /\ P!Dispatch(r))
                         /\ WF_powerVars(part = "power" /\ P!AcquireExisting(r))
  /\ WF_powerVars(part = "power" /\ P!SweepStep(sw))
  /\ \A p \in Rows : /\ WF_powerVars(part = "power" /\ P!SweepClaim(sw, p))
                       /\ WF_powerVars(part = "power" /\ P!GoesIdle(p))
                       /\ WF_powerVars(part = "power" /\ P!ClaimEnds(p))
                       /\ WF_powerVars(part = "power" /\ P!ReservationEnds(p))
  /\ WF_powerVars(part = "power" /\ P!Boots(i1))
  /\ WF_powerVars(part = "power" /\ P!TaskEnds(i1))

CyclePartFairness ==
  /\ WF_cycleVars(part = "cycle" /\ SetStatus)
  /\ \A t \in Task : /\ WF_cycleVars(part = "cycle" /\ Recredit(t))
                     /\ WF_cycleVars(part = "cycle" /\ (Close(t) \/ Deadlock(t)))

ConsolePartFairness ==
  /\ \A k \in Slot :
       /\ WF_consoleVars(part = "console" /\ BeginRefresh(k))
       /\ WF_consoleVars(part = "console" /\ ReadList(k))
       /\ WF_consoleVars(part = "console" /\ Apply(k))
       /\ \A s \in Section : WF_consoleVars(part = "console" /\ ReadSection(k, s))
  /\ \A c \in Call : /\ WF_consoleVars(part = "console" /\ Serve(c))
                     /\ WF_consoleVars(part = "console" /\ Answer(c))
                     /\ WF_consoleVars(part = "console" /\ Reread(c))

OperationsSpec ==
  /\ OperationsInit
  /\ [][OperationsNext]_<<part, powerVars, cycleVars, consoleVars>>
  /\ PowerFairness /\ CyclePartFairness /\ ConsolePartFairness

\* The cycle alone.
OnlyCycle == part = "cycle" /\ OperationsSpec

-----------------------------------------------------------------------------
\* A phone the scheduler owns goes off once no run needs it (device-power.ts).
IdlePhoneGoesOff == part = "power" => P!OwnedPhoneGoesOff

\* Every success is credited to the profile (credit_profile_run, reconcile).
SuccessCounts == part = "cycle" => EverySuccessCounts


\* The types of the parts.
OperationsTypeOK == CycleTypeOK /\ ConsoleTypeOK /\ P!PowerTypeOK
=============================================================================
