---------------------------- MODULE CyclePrograms ---------------------------
(***************************************************************************)
(* Cycle programs: the dialog that drafts one, the route that publishes it *)
(* and the dialog and route that launch a cycle from it                    *)
(* (src/components/command-center.tsx, LaunchCycleDialog;                  *)
(* src/app/api/cycle-programs/route.ts; the checks of POST in              *)
(* src/app/api/device-cycles/route.ts), with the pure functions they share *)
(* (phase-plan.ts, cycles.ts and program-config.ts of src/lib/scheduler).  *)
(*                                                                         *)
(* A rule is a phase, its number in the phase, the days it spans, the      *)
(* minute and the app it prefers and whether it is required. Its config is *)
(* what its template asks the operator for: variables with a type. Values, *)
(* names and wording are left out.                                         *)
(***************************************************************************)
EXTENDS Integers, FiniteSets, FiniteSetsExt

CONSTANTS
  Durations,   \* day counts typed in the dialog: <<warmup, money, squeeze, after>>
  Counts,      \* tasks a day typed in the dialog: <<baseline, money, squeeze, after>>
  Edits,       \* [times, apps] edited in the dialog, by <<phase, number>> of the task
  ApiRules,    \* rules other clients of the route send
  Needs,       \* what is required of the first app before Money: [runs, days]
  Template, SchemaOf,  \* templates and the variables each asks for
  VarType      \* types of variables

Phase == {"warmup", "money", "final_squeeze", "after_action"}
RulePhase == Phase \union {"baseline"}

ASSUME ProgramAssumption ==
  /\ \A t \in Template : \A v \in DOMAIN SchemaOf[t] :
       SchemaOf[t][v] \in [type : VarType, required : BOOLEAN]
  /\ Durations \subseteq [1 .. 4 -> Int] /\ Counts \subseteq [1 .. 4 -> Int]
  /\ Needs \subseteq [runs : Nat, days : Nat]
  /\ \A rules \in ApiRules :
       /\ IsFiniteSet(rules)
       /\ rules \subseteq [kind : RulePhase, index : Nat, first : Nat, last : Nat,
                           minute : Nat, app : Nat, required : BOOLEAN]

VARIABLES
  draft,      \* the dialog's draft, or NoDraft
  request,    \* the program sent to the route, or NoProgram
  program,    \* the published program, or NoProgram
  bindings,   \* variables of the launch form that were filled
  launched    \* what the launch was answered: "no", "refused" or "accepted"

programVars == <<draft, request, program, bindings, launched>>

Order == <<"warmup", "money", "final_squeeze", "after_action">>
NoDraft == [kind |-> "none"]
NoProgram == [kind |-> "none"]
None == [v \in {} |-> 0]

SumTo(f, n) == LET sum[i \in 0 .. n] == IF i = 0 THEN 0 ELSE sum[i - 1] + f[i] IN sum[n]

-----------------------------------------------------------------------------
(* Phases and their days. *)

\* A plan is its four durations, whether the daily routine continues, and the
\* requirement of the first app.
CycleLength(plan) == SumTo(plan.days, 4)

\* Inclusive days of each phase, one after the other.
Windows(plan) ==
  [i \in 1 .. 4 |-> [kind |-> Order[i], first |-> SumTo(plan.days, i - 1) + 1,
                     last |-> SumTo(plan.days, i)]]

WindowForRule(plan, kind) ==
  IF kind = "baseline"
  THEN [first |-> 1, last |-> IF plan.continue THEN CycleLength(plan) ELSE plan.days[1]]
  ELSE LET i == CHOOSE j \in 1 .. 4 : Order[j] = kind
       IN  [first |-> Windows(plan)[i].first, last |-> Windows(plan)[i].last]

PhaseForDay(plan, day) ==
  {Order[i] : i \in {j \in 1 .. 4 : Windows(plan)[j].first <= day /\ day <= Windows(plan)[j].last}}

ValidPlan(plan) ==
  /\ plan.days[1] \in 10 .. 14 /\ plan.days[2] \in 2 .. 5
  /\ plan.days[3] \in 1 .. 3 /\ plan.days[4] \in 10 .. 14
  /\ CycleLength(plan) \in 23 .. 36
  /\ plan.need.days <= plan.days[1]

\* The days a daily rule runs on.
Expand(rule) == rule.first .. rule.last

PlannedRuns(rules) == MapThenSumSet(LAMBDA rule : Cardinality(Expand(rule)), rules)

-----------------------------------------------------------------------------
(* The tasks a plan is built of. *)

\* Tasks a day of each kind; the dialog offers no warmup-only tasks.
CountOf(counts, kind) ==
  CASE kind = "baseline" -> counts[1] [] kind = "money" -> counts[2]
    [] kind = "final_squeeze" -> counts[3] [] kind = "after_action" -> counts[4]
    [] kind = "warmup" -> counts[5]

AllTasks(counts) == SumTo(counts, 5)

BusiestDay(counts) ==
  counts[1] + Max({CountOf(counts, kind) : kind \in Phase})

\* buildPhaseTaskSlots refuses more than fifty rules, by throwing.
BuildRefused(counts) == AllTasks(counts) > 50

\* Where a task stands among those of its day.
Position(counts, kind, index) == index + (IF kind = "baseline" THEN 0 ELSE counts[1])

\* Preferred minutes of the day are spread from 08:00 to 20:00; the first app
\* is that of every fifth task of a kind.
Slots(plan, counts) ==
  UNION {{[kind |-> kind, index |-> index,
           first |-> WindowForRule(plan, kind).first, last |-> WindowForRule(plan, kind).last,
           minute |-> 480 + (Position(counts, kind, index) * 720) \div BusiestDay(counts),
           app |-> index % 5] : index \in 0 .. CountOf(counts, kind) - 1} : kind \in RulePhase}

-----------------------------------------------------------------------------
(* The dialog. *)

Clamp(value, low, high) == Min({high, Max({low, value})})

PreviewPlan(d) ==
  [days |-> <<Clamp(d.days[1], 10, 14), Clamp(d.days[2], 2, 5),
              Clamp(d.days[3], 1, 3), Clamp(d.days[4], 10, 14)>>,
   continue |-> d.continue, need |-> d.need]

PreviewCounts(d) ==
  <<Clamp(d.counts[1], 5, 40), Clamp(d.counts[2], 3, 4),
    Clamp(d.counts[3], 4, 7), Clamp(d.counts[4], 3, 5), 0>>

\* The times and apps of the slots are drafts that the dialog lets one edit; an
\* edit belongs to the phase and number of its task. All tasks are required.
Edited(edits, id, value) == IF id \in DOMAIN edits THEN edits[id] ELSE value

Task(edits, slot) ==
  LET id == <<slot.kind, slot.index>>
  IN  [kind |-> slot.kind, index |-> slot.index, first |-> slot.first, last |-> slot.last,
       minute |-> Edited(edits.times, id, slot.minute),
       app |-> Edited(edits.apps, id, slot.app), required |-> TRUE]

Tasks(plan, counts, edits) == {Task(edits, slot) : slot \in Slots(plan, counts)}

TasksOf(d) == Tasks(PreviewPlan(d), PreviewCounts(d), d.edits)

\* What the dialog shows before the program is created: its length, its runs,
\* and the runs of each phase in the table.
PreviewRuns(d) == PlannedRuns(TasksOf(d))
PreviewRow(d, i) ==
  LET plan == PreviewPlan(d)
      counts == PreviewCounts(d)
      daily == (IF i = 1 \/ plan.continue THEN counts[1] ELSE 0)
               + (IF i = 1 THEN 0 ELSE CountOf(counts, Order[i]))
  IN  daily * plan.days[i]

Drafts == [days : Durations, counts : Counts, continue : BOOLEAN, need : Needs,
           edits : Edits, daily : Template, later : Template]

ProgramInit ==
  /\ draft = NoDraft /\ request = NoProgram /\ program = NoProgram
  /\ bindings = None /\ launched = "no"

Draft ==
  /\ draft' \in Drafts
  /\ draft = NoDraft /\ request = NoProgram
  /\ UNCHANGED <<request, program, bindings, launched>>

\* createPhaseProgram: the form's own checks, then the request.
DraftIsComplete(d) ==
  /\ d.days[1] = PreviewPlan(d).days[1] /\ d.days[2] = PreviewPlan(d).days[2]
  /\ d.days[3] = PreviewPlan(d).days[3] /\ d.days[4] = PreviewPlan(d).days[4]
  /\ \A i \in 1 .. 4 : d.counts[i] = PreviewCounts(d)[i]
  /\ d.need.days <= d.days[1]

Program(plan, rules, daily, later) ==
  [kind |-> "four_phase", plan |-> plan, rules |-> rules, daily |-> daily, later |-> later]

Submit ==
  /\ draft # NoDraft /\ request = NoProgram
  /\ ~BuildRefused(PreviewCounts(draft)) /\ DraftIsComplete(draft)
  /\ request' = Program(PreviewPlan(draft), TasksOf(draft), draft.daily, draft.later)
  /\ UNCHANGED <<draft, program, bindings, launched>>

\* Another client of the route sends rules of its own.
Send ==
  /\ draft = NoDraft /\ request = NoProgram
  /\ \E days \in Durations, rules \in ApiRules, continue \in BOOLEAN, need \in Needs, t \in Template :
       LET plan == [days |-> days, continue |-> continue, need |-> need]
       IN  /\ ValidPlan(plan)
           /\ request' = Program(plan, rules, t, t)
  /\ UNCHANGED <<draft, program, bindings, launched>>

-----------------------------------------------------------------------------
(* Publishing. *)

\* Dates come from the plan, never from the request.
Dated(plan, rule) == [rule EXCEPT !.first = WindowForRule(plan, rule.kind).first,
                                  !.last = WindowForRule(plan, rule.kind).last]

\* Mutation of NeedIsReachable: every task that uses the app is counted, also
\* those that start after warmup.
NeedLooksReachable(plan, rules) ==
  LET available == Cardinality({rule \in rules : rule.app = 0}) * plan.days[1]
  IN  plan.need.runs <= available /\ plan.need.days <= plan.days[1]

\* The warmup has to offer enough runs of the app.
NeedIsReachable(plan, rules) ==
  LET available == Cardinality({rule \in rules : rule.app = 0
                                                /\ rule.kind \in {"baseline", "warmup"}})
                     * plan.days[1]
  IN  /\ plan.need.runs <= available /\ plan.need.days <= plan.days[1]
      /\ plan.need.days = 0 \/ available > 0

\* Enough tasks of a phase are required, and it has not too many, required or not.
CountsAllowed(rules) ==
  LET all(kind) == Cardinality({rule \in rules : rule.kind = kind})
      required(kind) == Cardinality({rule \in rules : rule.kind = kind /\ rule.required})
  IN  /\ Cardinality(rules) \in 1 .. 50
      /\ required("baseline") >= 5
      /\ required("money") >= 3 /\ all("money") <= 4
      /\ required("final_squeeze") >= 4 /\ all("final_squeeze") <= 7
      /\ required("after_action") >= 3 /\ all("after_action") <= 5

\* DUPLICATE_RULE_SEQUENCE
Numbered(rules) ==
  \A r, s \in rules : r.kind = s.kind /\ r.index = s.index => r = s

\* POST: checked once more, by the route and by the database, then stored.
Publish ==
  LET rules == {Dated(request.plan, rule) : rule \in request.rules} IN
  /\ request # NoProgram /\ program = NoProgram
  /\ ValidPlan(request.plan) /\ Numbered(request.rules)
  /\ CountsAllowed(rules) /\ NeedIsReachable(request.plan, rules)
  /\ program' = [request EXCEPT !.rules = rules]
  /\ UNCHANGED <<draft, request, bindings, launched>>

-----------------------------------------------------------------------------
(* Launching. *)

Configs(p) == {SchemaOf[p.daily], SchemaOf[p.later]}
Variables(p) == UNION {DOMAIN c : c \in Configs(p)}
Entries(p, v) == {c[v] : c \in {d \in Configs(p) : v \in DOMAIN d}}

\* extractProgramVariables: one definition per variable; types must agree.
Conflicting(p) == \E v \in Variables(p) : Cardinality({e.type : e \in Entries(p, v)}) > 1

Required(p) == {v \in Variables(p) : \E e \in Entries(p, v) : e.required}

TypeShown(p, v) == CHOOSE type \in VarType : \E e \in Entries(p, v) : e.type = type

\* resolveProgramTaskConfig, and the database's resolve_cycle_program_config
\* again at activation.
Resolves(config, bound) ==
  \A v \in DOMAIN config :
    IF v \in DOMAIN bound THEN bound[v] = config[v].type ELSE ~config[v].required

\* The launch form is filled and sent; the route resolves every rule with it.
Launch ==
  /\ program # NoProgram /\ launched = "no" /\ ~Conflicting(program)
  /\ \E filled \in SUBSET Variables(program) :
       /\ Required(program) \subseteq filled
       /\ bindings' = [v \in filled |-> TypeShown(program, v)]
       /\ launched' = IF \A c \in Configs(program) : Resolves(c, bindings')
                      THEN "accepted" ELSE "refused"
  /\ UNCHANGED <<draft, request, program>>

ProgramNext == Draft \/ Submit \/ Send \/ Publish \/ Launch
ProgramSpec == ProgramInit /\ [][ProgramNext]_programVars

-----------------------------------------------------------------------------
(* Properties. *)

\* Every day of a published program is in exactly one phase, and every rule of
\* a phase is on days of that phase only, whatever dates the request named.
PhasesPartitionTheCycle ==
  program # NoProgram =>
    /\ \A day \in 1 .. CycleLength(program.plan) : Cardinality(PhaseForDay(program.plan, day)) = 1
    /\ \A rule \in program.rules : \A day \in Expand(rule) :
         IF rule.kind = "baseline"
         THEN program.plan.continue \/ PhaseForDay(program.plan, day) = {"warmup"}
         ELSE PhaseForDay(program.plan, day) = {rule.kind}

\* The run count and the table the dialog shows are what the route publishes,
\* however its tasks were edited: the route replaces every date, and the
\* dialog's table is arithmetic of its own, so three computations have to agree.
PreviewIsExact ==
  program # NoProgram /\ draft # NoDraft =>
    /\ PlannedRuns(program.rules) = PreviewRuns(draft)
    /\ PreviewRuns(draft) = SumTo([i \in 1 .. 4 |-> PreviewRow(draft, i)], 4)

\* "Spread preferences over 08:00-20:00" (phase-plan.ts, line 179), which are
\* "editable draft preferences" (line 158): of a program the dialog sent, no two
\* tasks of one day whose times were left alone prefer the same minute, and none
\* of them one outside.
PreferencesAreSpread ==
  program # NoProgram /\ draft # NoDraft =>
    LET untouched == {r \in program.rules : <<r.kind, r.index>> \notin DOMAIN draft.edits.times}
    IN  \A r, s \in untouched :
          /\ r.minute \in 480 .. 1199
          /\ r # s /\ Expand(r) \intersect Expand(s) # {} => r.minute # s.minute

\* A published requirement can be met: succeeding at every task of the warmup
\* gives the runs, and the days, that Money waits for. No step of the cycle
\* could repair a program for which this fails, because published phase plans
\* are immutable.
PublishedNeedCanBeMet ==
  program # NoProgram =>
    LET warmup == {rule \in program.rules : rule.app = 0 /\ rule.kind \in {"baseline", "warmup"}}
        offered == {o \in warmup \X (1 .. program.plan.days[1]) : o[2] \in Expand(o[1])}
    IN  /\ Cardinality(offered) >= program.plan.need.runs
        /\ Cardinality({o[2] : o \in offered}) >= program.plan.need.days

\* What the launch form asks for is what the route needs: two functions, one
\* that merges all rules and one that goes rule by rule.
FormAsksWhatRouteNeeds == launched # "refused"

\* The dialog renders its tasks as they are typed: "A program supports up to 50
\* task mappings. Reduce the daily routine or phase task counts."
\* (command-center.tsx, line 2395). It does not hold: building the slots throws
\* while rendering, so neither that message nor the dialog is shown.
DialogShowsTooManyTasks == draft # NoDraft => ~BuildRefused(PreviewCounts(draft))

\* A published program is what its form showed, and can be carried out.
ProgramHolds ==
  /\ PhasesPartitionTheCycle /\ PreviewIsExact /\ PreferencesAreSpread
  /\ PublishedNeedCanBeMet /\ FormAsksWhatRouteNeeds
=============================================================================
