---------------------------- MODULE WorkloadPlan ----------------------------
(***************************************************************************)
(* The 24-hour workload board: what the command center asks of the         *)
(* planner (src/components/command-center.tsx) and the planner itself      *)
(* (src/lib/scheduler/workload-planner.ts), which takes the requests one   *)
(* by one and gives each a lane and a start.                               *)
(*                                                                         *)
(* Time is counted in ticks; the window starts at 1, and 0 stands for the  *)
(* second before it, at which occupied slots are asked for.                *)
(***************************************************************************)
EXTENDS Integers, FiniteSets, FiniteSetsExt

CONSTANTS
  Run,        \* runs on the board, numbered in the order of their ids
  ClientOf,   \* the client of each run, numbered in the order of the ids
  PhoneOf,    \* the phone of each run, numbered, NoPhone when none is assigned
  Capacity,   \* Startup slots
  Spacing,    \* ticks kept free after a task
  WindowEnd,
  IssueTimes, \* when runs are due
  Delays,     \* how long after that a run's own window opens
  Closings,   \* when a run's own window closes
  Lengths     \* expected durations

ASSUME WorkAssumption ==
  /\ Run \subseteq Nat \ {0} /\ IsFiniteSet(Run) /\ Run # {}
  /\ ClientOf \in [Run -> Nat \ {0}]
  /\ PhoneOf \in [Run -> Nat]
  /\ Capacity \in Nat \ {0} /\ Spacing \in Nat /\ WindowEnd \in Nat \ {0}
  /\ UNION {IssueTimes, Delays, Closings, Lengths} \subseteq Nat

VARIABLES
  left,      \* requests not decided yet
  placed,   \* placements: a request, its lane and its start
  dropped    \* requests that miss their deadline

workVars == <<left, placed, dropped>>

NoPhone == 0
Lane == 0 .. Capacity - 1
WindowStart == 1

\* The planner is asked for a request: client, phone, times and length.
Demand(id, client, phone, preferred, earliest, deadline, length) ==
  [id |-> id, client |-> client, phone |-> phone, preferred |-> preferred,
   earliest |-> Max({preferred, earliest}), deadline |-> deadline, length |-> length]

\* A slot in use without a run the board knows: it is taken for the whole
\* window. Its phone key is its own, and it belongs to no client of a run.
Occupied(k) == Demand(Max(Run) + k, 0, -k, 0, 0, WindowEnd, WindowEnd - WindowStart)

\* The request for a run. A current one (executing or being prepared, and
\* due) is asked for from the start of the window and may end after it.
ForRun(r, b) ==
  LET preferred == Max({b.issue, WindowStart})
  IN  IF b.current /\ b.issue <= WindowStart
      THEN Demand(r, ClientOf[r], PhoneOf[r], preferred, preferred,
                   Max({WindowEnd, WindowStart + b.length}), b.length)
      ELSE Demand(r, ClientOf[r], PhoneOf[r], preferred, b.issue + b.delay,
                   b.closes, b.length)

\* Slots the board counts as occupied: idle phones that are on, and what the
\* provider reports beyond them, within what current runs leave.
OccupiedCount(busy, idle, reported) ==
  LET room == Max({0, Capacity - Min({Capacity, busy})})
      known == Min({idle, room})
      unknown == Min({Max({0, room - known}),
                      Max({0, Min({Capacity, reported}) - busy - known})})
  IN  known + unknown

Board == [current : BOOLEAN, issue : IssueTimes, delay : Delays,
          closes : Closings, length : Lengths]

\* Current runs hold a phone each; two of them never share one.
BusyKeys(b) ==
  {IF PhoneOf[r] = NoPhone THEN -r ELSE PhoneOf[r] :
     r \in {s \in Run : b[s].current /\ b[s].issue <= WindowStart}}

WorkInit ==
  \E b \in [Run -> Board], idle \in 0 .. 1, reported \in {0, Capacity} :
    LET asked == {r \in Run : b[r].issue <= WindowEnd}
        slots == OccupiedCount(Cardinality(BusyKeys(b)), idle, reported)
    IN  /\ left = {ForRun(r, b[r]) : r \in asked} \union {Occupied(k) : k \in 1 .. slots}
        /\ placed = {}
        /\ dropped = {}

EndOf(p) == p.start + p.task.length

\* When a lane, or a phone, is free again: after its last task and the spacing.
FreeAfter(placements) == Max({0} \union {EndOf(p) + Spacing : p \in placements})
LaneFree(lane) == FreeAfter({p \in placed : p.lane = lane})
PhoneFree(task) ==
  FreeAfter({p \in placed : task.phone # NoPhone /\ p.task.phone = task.phone})

Served(client) == Cardinality({p \in placed : p.task.client = client})

\* The earliest a task can start, on the first lane that allows it.
Place(task) ==
  LET startOn == [lane \in Lane |-> Max({task.earliest, LaneFree(lane), PhoneFree(task)})]
      start == Min({startOn[lane] : lane \in Lane})
  IN  [task |-> task, start |-> start, lane |-> Min({l \in Lane : startOn[l] = start})]

\* Mutation of Precedes: the tightest deadline first, whatever the start.
PrecedesByDeadline(p, q) ==
  \/ p.task.deadline < q.task.deadline
  \/ p.task.deadline = q.task.deadline /\ p.task.id < q.task.id

\* The order of the placements: start, least-served client, deadline,
\* preference, then client and id.
Key(p) == <<p.start, Served(p.task.client), p.task.deadline, p.task.preferred,
            p.task.client, p.task.id>>
Precedes(p, q) ==
  \E i \in 1 .. 6 : Key(p)[i] < Key(q)[i] /\ \A j \in 1 .. i - 1 : Key(p)[j] = Key(q)[j]

\* Decides the first placement: it is placed, or dropped at its deadline.
Decide(p) ==
  /\ left' = left \ {p.task}
  /\ IF EndOf(p) > p.task.deadline
     THEN dropped' = dropped \union {p.task} /\ UNCHANGED placed
     ELSE placed' = placed \union {p} /\ UNCHANGED dropped

PlanTask ==
  /\ left # {}
  /\ LET placements == {Place(task) : task \in left}
     IN  Decide(CHOOSE p \in placements : \A q \in placements \ {p} : Precedes(p, q))

WorkNext == PlanTask
WorkSpec == WorkInit /\ [][WorkNext]_workVars

-----------------------------------------------------------------------------
(* Properties. *)

\* The state has its type; placed work meets the deadline it was asked with,
\* and nothing is both placed and dropped.
WorkTypeOK ==
  /\ \A p \in placed : /\ p.lane \in Lane
                        /\ p.start >= p.task.earliest
                        /\ EndOf(p) <= p.task.deadline
  /\ {p.task : p \in placed} \intersect (left \union dropped) = {}

\* Two tasks of one lane, or of one phone, are never closer than the spacing:
\* "capacity lanes and each dedicated phone are both serialized"
\* (workload-planner.ts, line 50).
BothSerialized ==
  \A p, q \in placed :
    /\ p # q
    /\ p.lane = q.lane \/ (p.task.phone # NoPhone /\ p.task.phone = q.task.phone)
    => EndOf(p) + Spacing <= q.start \/ EndOf(q) + Spacing <= p.start

\* A moment of a lane, or of a phone, is taken by a task or by its spacing.
Taken(placements, m) == \E p \in placements : p.start <= m /\ m < EndOf(p) + Spacing

\* No opening is missed: a task waits past a moment at which it could have
\* begun only while every lane or its phone is taken, and is dropped only when
\* that is so at every moment it could begin and still meet its deadline. The
\* planner never looks back into a lane, so this rests on the order in which it
\* decides.
NoOpeningMissed ==
  LET Blocked(task, m) ==
        \/ \A lane \in Lane : Taken({p \in placed : p.lane = lane}, m)
        \/ task.phone # NoPhone /\ Taken({p \in placed : p.task.phone = task.phone}, m)
  IN  /\ \A p \in placed : \A m \in p.task.earliest .. p.start - 1 : Blocked(p.task, m)
      /\ \A task \in dropped :
           \A m \in task.earliest .. task.deadline - task.length : Blocked(task, m)

\* Slots that are in use without a known run keep their lanes: they are all
\* placed, at once, however much work competes for the window.
OccupiedKeepsItsLane ==
  /\ \A task \in dropped : task.client # 0
  /\ \A p \in placed : p.task.client = 0 => p.start = 0

\* The estimate shown for a demand is a schedule, with no opening passed over.
WorkloadHolds == WorkTypeOK /\ BothSerialized /\ NoOpeningMissed /\ OccupiedKeepsItsLane
=============================================================================
