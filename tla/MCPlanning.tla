----------------------------- MODULE MCPlanning -----------------------------
(***************************************************************************)
(* Small instances of the modules about what is planned: Schedules,        *)
(* WorkerLoop, WorkloadPlan, FleetPlan and CyclePrograms.  They share no   *)
(* state: a behaviour picks one of them at its start, and the others rest. *)
(***************************************************************************)
EXTENDS Schedules, WorkerLoop, WorkloadPlan, FleetPlan, CyclePrograms

CONSTANTS a, e1, e2, h1

VARIABLE part

PlanningVars == <<part, schedVars, loopVars, workVars, fleetVars, programVars>>

\* Nothing is asked of the planners.
WorkRests == left = {} /\ placed = {} /\ dropped = {}
FleetRests ==
  /\ event = [e \in Event |-> [kind |-> "waiting", due |-> Min(DueTimes),
                length |-> Min(Runtimes), wait |-> Min(Waits), closes |-> Max(Deadlines)]]
  /\ online = {} /\ used = 0
  /\ FleetInit

PlanningInit ==
  /\ part \in {"schedules", "loop", "workload", "fleet", "programs"}
  /\ SchedInit /\ LoopInit /\ ProgramInit
  /\ IF part = "workload" THEN WorkInit ELSE WorkRests
  /\ IF part = "fleet" THEN FleetInit ELSE FleetRests

PlanningNext ==
  /\ UNCHANGED part
  /\ \/ /\ part = "schedules" /\ SchedNext
        /\ UNCHANGED <<loopVars, workVars, fleetVars, programVars>>
     \/ /\ part = "loop" /\ LoopNext
        /\ UNCHANGED <<schedVars, workVars, fleetVars, programVars>>
     \/ /\ part = "workload" /\ WorkNext
        /\ UNCHANGED <<schedVars, loopVars, fleetVars, programVars>>
     \/ /\ part = "fleet" /\ FleetNext
        /\ UNCHANGED <<schedVars, loopVars, workVars, programVars>>
     \/ /\ part = "programs" /\ ProgramNext
        /\ UNCHANGED <<schedVars, loopVars, workVars, fleetVars>>

PlanningSpec == PlanningInit /\ [][PlanningNext]_PlanningVars

\* Schedules: two cadences, every two and every three moments.
Cadences == {[every |-> 2, offset |-> 0, phone |-> 1],
             [every |-> 3, offset |-> 1, phone |-> 1]}

\* WorkloadPlan: three runs of two clients; the third has no phone yet.
Clients == <<1, 1, 2>>
Phones == <<1, 1, 0>>

\* FleetPlan: the phones p and q are aliases of one.
EventPhones == <<"p", "q", "r">>
Images == [p |-> "i", q |-> "i", r |-> "j"]

\* CyclePrograms: phase lengths, counts and edits of the form, rules of a direct
\* request, what the app stage asks for and three templates.
PhaseDays == {<<10, 2, 1, 10>>, <<10, 3, 3, 14>>, <<14, 2, 1, 10>>, <<99, 2, 1, 10>>}
FormCounts == {<<5, 4, 6, 4>>, <<7, 3, 4, 5>>, <<36, 3, 4, 3>>, <<40, 4, 7, 5>>}
Untouched == [times |-> None, apps |-> None]
Touched ==
  [times |-> [id \in {<<"baseline", 0>>, <<"baseline", 1>>, <<"money", 0>>} |-> 600],
   apps |-> [id \in {<<"baseline", 0>>, <<"money", 1>>} |-> IF id[2] = 0 THEN 3 ELSE 0]]
FormEdits == {Untouched, Touched}

\* Rules of a client of the route: how many of each phase, how many of them are
\* optional, and their app. All are sent for days 1 to 36 at one time.
Sent(count, optional, app) ==
  {rule \in [kind : RulePhase, index : 1..7, first : {1}, last : {36}, minute : {600},
             app : {app}, required : BOOLEAN] :
     /\ rule.index <= count[rule.kind]
     /\ rule.required = (rule.index > optional[rule.kind])}
Few == [baseline |-> 5, warmup |-> 0, money |-> 3, final_squeeze |-> 4, after_action |-> 3]
Many == [baseline |-> 7, warmup |-> 6, money |-> 4, final_squeeze |-> 7, after_action |-> 5]
Nothing == [kind \in RulePhase |-> 0]
Some == [kind \in RulePhase |-> IF kind = "baseline" THEN 2 ELSE 1]
SentRules ==
  {Sent(Few, Nothing, 0), Sent(Few, Some, 0), Sent(Many, Some, 1),
   Sent(Few, Nothing, 1) \union Sent([Nothing EXCEPT !["warmup"] = 2], Nothing, 0)}
AppNeeds == {[runs |-> 0, days |-> 0], [runs |-> 15, days |-> 2], [runs |-> 28, days |-> 12]}
Schemas ==
  [t1 |-> [city |-> [type |-> "string", required |-> FALSE],
           url |-> [type |-> "string", required |-> TRUE]],
   t2 |-> [city |-> [type |-> "string", required |-> TRUE]],
   t3 |-> [city |-> [type |-> "number", required |-> FALSE]]]
=============================================================================
