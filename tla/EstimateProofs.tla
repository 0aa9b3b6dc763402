--------------------------- MODULE EstimateProofs ---------------------------
(***************************************************************************)
(* The planners and cycle programs, for every size: WorkloadPlan,          *)
(* FleetPlan and CyclePrograms, which share no state.                      *)
(*                                                                         *)
(* The workload estimate rests on the order of its decisions: what is left *)
(* can only be placed where all that is placed has begun (LeftForLater).   *)
(* So a lane, which the planner knows by its last end only, hides no       *)
(* opening. Slots in use come first because they are asked for earlier     *)
(* than all else and are no more than the lanes (SlotsFirst).              *)
(*                                                                         *)
(* The fleet forecast rests on lanes: what holds a slot holds a lane of    *)
(* its own beyond the blocked ones (InLanes, KeptApart), so a count of     *)
(* tasks is a count of lanes.                                              *)
(*                                                                         *)
(* Cycle programs, for any drafts, edits, requests and templates: a        *)
(* published program is the one that was drafted or sent, with the dates   *)
(* of its plan (DraftInv), and the rest is counting: the tasks of a kind   *)
(* are in step with the numbers below its count (TasksForAre), and a run   *)
(* is a rule and a day of it (PlannedRunsIs). The launch form asks for     *)
(* what the route needs, because tasks that share a variable agree on its  *)
(* type or there is no form (TypesAgree).                                  *)
(*                                                                         *)
(* All three need minima of finite sets, or sums.  That there is a least   *)
(* number comes from the order of Nat being well founded; for finite sets  *)
(* of integers it follows with a least counterexample (Extremes), and so   *)
(* does what a sum over a set of rules is.                                 *)
(***************************************************************************)
EXTENDS WorkloadPlan, FleetPlan, CyclePrograms, FiniteSetTheorems, FunctionTheorems, WellFoundedInduction, TLAPS

-----------------------------------------------------------------------------
(* Least and greatest numbers.                                             *)

\* Every set of numbers that is not empty has a least one.
LEMMA LeastNumber ==
  ASSUME NEW T \in SUBSET Nat, T # {}
  PROVE  \E n \in T : \A m \in T : n <= m
<1> DEFINE R == OpToRel(<, Nat)
<1>1. \E n \in T : \A m \in T : ~ (<<m, n>> \in R)
  <2> HIDE DEF R
  <2>1. IsWellFoundedOn(R, Nat)
    BY NatLessThanWellFounded DEF R
  <2> QED
    BY <2>1, WFMin
<1>2. \A m, n \in Nat : <<m, n>> \in R <=> m < n
  BY DEF OpToRel
<1> HIDE DEF R
<1>3. PICK n \in T : \A m \in T : ~ (<<m, n>> \in R)
  BY <1>1
<1>4. \A m \in T : ~(m < n) /\ m \in Nat /\ n \in Nat
  BY <1>2, <1>3
<1> QED
  BY <1>4

\* By induction on the number of elements: a finite set of numbers has a least and a greatest one.
LEMMA Extremes ==
  ASSUME NEW S \in SUBSET Int, IsFiniteSet(S), S # {}
  PROVE  /\ \E x \in S : \A y \in S : x <= y
         /\ \E x \in S : \A y \in S : x >= y
<1> DEFINE Sets(n) == {X \in SUBSET Int : IsFiniteSet(X) /\ X # {} /\ Cardinality(X) = n}
           Good(X) == /\ \E x \in X : \A y \in X : x <= y
                      /\ \E x \in X : \A y \in X : x >= y
           Bad == {n \in Nat : \E X \in Sets(n) : ~Good(X)}
<1>1. SUFFICES ASSUME Bad # {} PROVE FALSE
  <2>1. Cardinality(S) \in Nat
    BY FS_CardinalityType
  <2> QED
    BY <2>1
<1>2. PICK n \in Bad : \A m \in Bad : n <= m
  BY <1>1, LeastNumber
<1>3. PICK X \in Sets(n) : ~Good(X)
  OBVIOUS
<1>4. PICK x \in X : TRUE
  OBVIOUS
<1>5. /\ IsFiniteSet(X \ {x}) /\ Cardinality(X \ {x}) = n - 1 /\ n - 1 \in Nat
      /\ x \in Int /\ X \in SUBSET Int
  <2>1. IsFiniteSet(X \ {x}) /\ Cardinality(X \ {x}) = Cardinality(X) - 1
    BY FS_RemoveElement
  <2>2. Cardinality(X \ {x}) \in Nat
    BY <2>1, FS_CardinalityType
  <2> QED
    BY <2>1, <2>2
<1>6. n - 1 \notin Bad
  BY <1>2, <1>5
<1>7. CASE X \ {x} = {}
  <2>1. X = {x}
    BY <1>7
  <2> QED
    BY <1>3, <1>5, <2>1
<1>8. CASE X \ {x} # {}
  <2>1. X \ {x} \in Sets(n - 1)
    BY <1>5, <1>8
  <2>2. Good(X \ {x})
    BY <1>5, <1>6, <2>1
  <2>3. PICK a \in X \ {x} : \A y \in X \ {x} : a <= y
    BY <2>2
  <2>4. PICK b \in X \ {x} : \A y \in X \ {x} : b >= y
    BY <2>2
  <2>5. \E u \in X : \A y \in X : u <= y
    <3>1. CASE a <= x
      BY <1>5, <2>3, <3>1
    <3>2. CASE x < a
      <4>1. \A y \in X : x <= y
        BY <1>5, <2>3, <3>2
      <4> QED
        BY <4>1
    <3> QED
      BY <1>5, <3>1, <3>2
  <2>6. \E u \in X : \A y \in X : u >= y
    <3>1. CASE b >= x
      BY <1>5, <2>4, <3>1
    <3>2. CASE x > b
      <4>1. \A y \in X : x >= y
        BY <1>5, <2>4, <3>2
      <4> QED
        BY <4>1
    <3> QED
      BY <1>5, <3>1, <3>2
  <2> QED
    BY <1>3, <2>5, <2>6
<1> QED
  BY <1>7, <1>8

\* What is bounded has a greatest number.
LEMMA GreatestNumber ==
  ASSUME NEW T \in SUBSET Nat, T # {}, NEW b \in Nat, \A x \in T : x <= b
  PROVE  \E n \in T : \A m \in T : n >= m
<1>1. IsFiniteSet(T) /\ T \in SUBSET Int
  BY FS_BoundedSetOfNaturals
<1> QED
  BY <1>1, Extremes

\* Min and Max are the least and the greatest where there is one.
LEMMA MinIs ==
  ASSUME NEW T \in SUBSET Nat, T # {}
  PROVE  Min(T) \in T /\ \A m \in T : Min(T) <= m
BY LeastNumber DEF Min

LEMMA MaxIs ==
  ASSUME NEW T \in SUBSET Nat, T # {}, NEW b \in Nat, \A x \in T : x <= b
  PROVE  Max(T) \in T /\ \A m \in T : Max(T) >= m
BY GreatestNumber DEF Max

\* The image of a finite set is finite, and no larger.
LEMMA ImagesAreFinite ==
  ASSUME NEW S, IsFiniteSet(S), NEW f, DOMAIN f = S
  PROVE  LET T == {f[x] : x \in S} IN IsFiniteSet(T) /\ Cardinality(T) <= Cardinality(S)
<1> DEFINE T == {f[x] : x \in S}
           g == [x \in S |-> f[x]]
<1>1. g \in Surjection(S, T)
  BY DEF Surjection
<1> QED
  BY <1>1, FS_Surjection

-----------------------------------------------------------------------------
(* The workload estimate: what a placement is.                             *)

LEMMA GreatestRun == Max(Run) \in Nat /\ \A r \in Run : r <= Max(Run)
<1>1. Run \in SUBSET Nat /\ Run \in SUBSET Int /\ IsFiniteSet(Run) /\ Run # {}
  BY WorkAssumption
<1>2. PICK x \in Run : \A y \in Run : x >= y
  BY <1>1, Extremes
<1> QED
  BY <1>1, <1>2, MaxIs

Request == [id : Nat, client : Nat, phone : Int, preferred : Nat, earliest : Nat,
            deadline : Nat, length : Nat]
Placement == [task : Request, start : Nat, lane : Lane]
Placements(P) == IsFiniteSet(P) /\ P \subseteq Placement
SamePhone(t, u) == t.phone # NoPhone /\ u.phone = t.phone

\* A placement in the way of task t on a lane.
Hinders(q, t, lane) == q.lane = lane \/ SamePhone(t, q.task)

FreeFor(P, t) == FreeAfter({q \in P : SamePhone(t, q.task)})
FreeOn(P, lane) == FreeAfter({q \in P : q.lane = lane})
PlaceIn(P, t) ==
  LET startOn == [lane \in Lane |-> Max({t.earliest, FreeOn(P, lane), FreeFor(P, t)})]
      start == Min({startOn[lane] : lane \in Lane})
  IN  [task |-> t, start |-> start, lane |-> Min({l \in Lane : startOn[l] = start})]

LEMMA PlaceIsIn == \A t : Place(t) = PlaceIn(placed, t)
BY DEF Place, PlaceIn, LaneFree, FreeOn, PhoneFree, FreeFor, SamePhone

\* A lane, or a phone, is free from its last end and spacing on, and no sooner.
LEMMA FreeAfterIs ==
  ASSUME NEW P, Placements(P)
  PROVE  /\ FreeAfter(P) \in Nat
         /\ \A q \in P : EndOf(q) + Spacing <= FreeAfter(P)
         /\ \A m \in Nat : (\A q \in P : EndOf(q) + Spacing <= m) => FreeAfter(P) <= m
<1> DEFINE f == [q \in P |-> EndOf(q) + Spacing]
           ends == {f[q] : q \in P}
           all == {0} \cup ends
<1>1. \A q \in P : f[q] \in Nat
  BY WorkAssumption DEF Placements, Placement, Request, EndOf
<1>2. IsFiniteSet(all)
  <2>1. IsFiniteSet(ends)
    BY ImagesAreFinite DEF Placements
  <2>2. all = ends \cup {0}
    OBVIOUS
  <2> QED
    BY <2>1, <2>2, FS_AddElement
<1>3. PICK b \in all : \A x \in all : b >= x
  <2>1. all \in SUBSET Int /\ all # {}
    BY <1>1
  <2> HIDE DEF all
  <2> QED
    BY <1>2, <2>1, Extremes
<1>4. all \in SUBSET Nat /\ all # {} /\ b \in Nat
  BY <1>1
<1>5. Max(all) \in all /\ \A m \in all : Max(all) >= m
  <2> HIDE DEF all
  <2> QED
    BY <1>3, <1>4, MaxIs
<1>6. FreeAfter(P) = Max(all)
  <2>1. all = {0} \union {EndOf(q) + Spacing : q \in P}
    OBVIOUS
  <2> QED
    BY <2>1 DEF FreeAfter
<1> QED
  BY <1>1, <1>4, <1>5, <1>6

LEMMA MaxOfThree ==
  ASSUME NEW x \in Nat, NEW y \in Nat, NEW z \in Nat
  PROVE  /\ Max({x, y, z}) \in Nat
         /\ Max({x, y, z}) >= x /\ Max({x, y, z}) >= y /\ Max({x, y, z}) >= z
         /\ \A m \in Nat : x <= m /\ y <= m /\ z <= m => Max({x, y, z}) <= m
<1>1. PICK b \in {x, y, z} : b >= x /\ b >= y /\ b >= z
  OBVIOUS
<1>2. Max({x, y, z}) \in {x, y, z} /\ \A n \in {x, y, z} : Max({x, y, z}) >= n
  BY <1>1, MaxIs
<1> QED
  BY <1>2

\* A task is placed as early as some lane, and its phone, allow.
LEMMA PlaceInIs ==
  ASSUME NEW P, Placements(P), NEW t \in Request, NEW s, s = PlaceIn(P, t)
  PROVE  /\ s \in Placement /\ s.task = t /\ s.start >= t.earliest
         /\ \A q \in P : Hinders(q, t, s.lane) => EndOf(q) + Spacing <= s.start
         /\ \A l \in Lane, m \in Nat :
              t.earliest <= m /\ (\A q \in P : Hinders(q, t, l) => EndOf(q) + Spacing <= m)
              => s.start <= m
<1> DEFINE On(l) == {q \in P : q.lane = l}
           For == {q \in P : SamePhone(t, q.task)}
           startOn == [lane \in Lane |-> Max({t.earliest, FreeOn(P, lane), FreeFor(P, t)})]
           starts == {startOn[lane] : lane \in Lane}
           best == {l \in Lane : startOn[l] = Min(starts)}
<1>1. \A l : Placements(On(l))
  BY FS_Subset DEF Placements
<1>2. Placements(For)
  BY FS_Subset DEF Placements
<1>3. /\ FreeFor(P, t) \in Nat
      /\ \A q \in For : EndOf(q) + Spacing <= FreeFor(P, t)
      /\ \A m \in Nat : (\A q \in For : EndOf(q) + Spacing <= m) => FreeFor(P, t) <= m
  BY <1>2, FreeAfterIs DEF FreeFor
<1>4. \A l : /\ FreeOn(P, l) \in Nat
             /\ \A q \in On(l) : EndOf(q) + Spacing <= FreeOn(P, l)
             /\ \A m \in Nat : (\A q \in On(l) : EndOf(q) + Spacing <= m) => FreeOn(P, l) <= m
  BY <1>1, FreeAfterIs DEF FreeOn
<1>5. t.earliest \in Nat /\ Lane \subseteq Nat /\ Lane # {}
  BY WorkAssumption DEF Request, Lane
<1>6. \A l \in Lane :
        /\ startOn[l] \in Nat /\ startOn[l] >= t.earliest
        /\ startOn[l] >= FreeOn(P, l) /\ startOn[l] >= FreeFor(P, t)
        /\ \A m \in Nat : t.earliest <= m /\ FreeOn(P, l) <= m /\ FreeFor(P, t) <= m
                          => startOn[l] <= m
  BY <1>3, <1>4, <1>5, MaxOfThree
<1>7. Min(starts) \in starts /\ \A m \in starts : Min(starts) <= m
  <2>1. starts \in SUBSET Nat /\ starts # {}
    BY <1>5, <1>6
  <2> HIDE DEF starts
  <2> QED
    BY <2>1, MinIs
<1>8. Min(best) \in best
  <2>1. best \in SUBSET Nat /\ best # {}
    BY <1>5, <1>7
  <2> HIDE DEF best
  <2> QED
    BY <2>1, MinIs
<1>9. s = [task |-> t, start |-> Min(starts), lane |-> Min(best)]
  BY DEF PlaceIn
<1>10. s.task = t /\ s.lane \in Lane /\ s.start = startOn[s.lane] /\ s.start \in Nat
       /\ \A l \in Lane : s.start <= startOn[l]
  <2> HIDE DEF startOn
  <2> QED
    BY <1>6, <1>7, <1>8, <1>9
<1>11. s \in Placement
  BY <1>9, <1>10 DEF Placement
<1>12. ASSUME NEW q \in P, Hinders(q, t, s.lane) PROVE EndOf(q) + Spacing <= s.start
  <2>0. EndOf(q) + Spacing \in Nat
    BY WorkAssumption DEF Placements, Placement, Request, EndOf
  <2> HIDE DEF startOn
  <2>1. CASE q.lane = s.lane
    <3>1. q \in On(s.lane)
      BY <2>1
    <3>2. EndOf(q) + Spacing <= FreeOn(P, s.lane) /\ FreeOn(P, s.lane) \in Nat
      BY <1>4, <3>1
    <3> QED
      BY <1>6, <1>10, <2>0, <3>2
  <2>2. CASE SamePhone(t, q.task)
    <3>1. EndOf(q) + Spacing <= FreeFor(P, t)
      BY <1>3, <2>2
    <3> QED
      BY <1>3, <1>6, <1>10, <2>0, <3>1
  <2> QED
    BY <1>12, <2>1, <2>2 DEF Hinders
<1>13. ASSUME NEW l \in Lane, NEW m \in Nat, t.earliest <= m,
              \A q \in P : Hinders(q, t, l) => EndOf(q) + Spacing <= m
       PROVE  s.start <= m
  <2>1. FreeOn(P, l) <= m
    <3>1. \A q \in On(l) : EndOf(q) + Spacing <= m
      BY <1>13 DEF Hinders
    <3> QED
      BY <1>4, <3>1
  <2>4. FreeFor(P, t) <= m
    <3>1. \A q \in For : EndOf(q) + Spacing <= m
      BY <1>13 DEF Hinders
    <3> QED
      BY <1>3, <3>1
  <2>2. startOn[l] <= m
    BY <1>6, <1>13, <2>1, <2>4
  <2>3. startOn[l] \in Nat
    BY <1>6
  <2> HIDE DEF startOn
  <2> QED
    BY <1>10, <2>2, <2>3
<1> QED
  BY <1>6, <1>10, <1>11, <1>12, <1>13

\* The order of the decisions is total, so one placement comes first.
LEMMA KeyIs ==
  ASSUME Placements(placed), NEW p \in Placement
  PROVE  /\ Key(p) \in [1 .. 6 -> Nat]
         /\ Key(p)[1] = p.start /\ Key(p)[6] = p.task.id
<1>1. Served(p.task.client) \in Nat
  <2> DEFINE its == {q \in placed : q.task.client = p.task.client}
  <2>1. IsFiniteSet(its)
    BY FS_Subset DEF Placements
  <2> QED
    BY <2>1, FS_CardinalityType DEF Served
<1>2. PICK n : n = Served(p.task.client)
  OBVIOUS
<1>3. Key(p) = <<p.start, n, p.task.deadline, p.task.preferred, p.task.client, p.task.id>>
  BY <1>2 DEF Key
<1> QED
  BY <1>1, <1>2, <1>3 DEF Placement, Request

LEMMA PrecedesIs ==
  ASSUME Placements(placed), NEW p \in Placement, NEW q \in Placement, Precedes(p, q)
  PROVE  p.start <= q.start
<1>1. PICK i \in 1 .. 6 : Key(p)[i] < Key(q)[i] /\ \A j \in 1 .. i - 1 : Key(p)[j] = Key(q)[j]
  BY DEF Precedes
<1>2. p.start \in Nat /\ q.start \in Nat
  BY DEF Placement
<1>3. CASE i = 1
  BY <1>1, <1>2, <1>3, KeyIs
<1>4. CASE i > 1
  BY <1>1, <1>2, <1>4, KeyIs
<1> QED
  BY <1>3, <1>4

LEMMA OneIsFirst ==
  ASSUME Placements(placed), NEW X, X \subseteq Placement, X # {},
         \A p, q \in X : p.task.id = q.task.id => p = q
  PROVE  \E p \in X : \A q \in X \ {p} : Precedes(p, q)
<1> DEFINE R == OpToRel(<, Nat)
           L == LexProductOrdering(R, Nat, 6)
           keys == {Key(p) : p \in X}
<1>1. IsWellFoundedOn(L, [1 .. 6 -> Nat])
  <2>1. IsWellFoundedOn(R, Nat)
    BY NatLessThanWellFounded
  <2> HIDE DEF R
  <2> QED
    BY <2>1, WFLexProductOrdering
<1>2. keys \subseteq [1 .. 6 -> Nat] /\ keys # {}
  BY KeyIs
<1>3. PICK k \in keys : \A l \in keys : ~(<<l, k>> \in L)
  <2> HIDE DEF L, keys
  <2> QED
    BY <1>1, <1>2, WFMin
<1>4. PICK p \in X : k = Key(p)
  OBVIOUS
<1>5. \A m, n \in Nat : <<m, n>> \in R <=> m < n
  BY DEF OpToRel
<1>6. \A f, g \in [1 .. 6 -> Nat], j \in 1 .. 6 :
        (\A i \in 1 .. (j - 1) : f[i] = g[i]) /\ f[j] < g[j] => <<f, g>> \in L
  <2> HIDE DEF R
  <2> SUFFICES ASSUME NEW f \in [1 .. 6 -> Nat], NEW g \in [1 .. 6 -> Nat], NEW j \in 1 .. 6,
                      \A i \in 1 .. (j - 1) : f[i] = g[i], f[j] < g[j]
               PROVE  <<f, g>> \in L
    OBVIOUS
  <2>1. <<f[j], g[j]>> \in R
    BY <1>5
  <2>2. PICK ff : ff = <<f, g>>
    OBVIOUS
  <2>3. ff \in [1 .. 6 -> Nat] \X [1 .. 6 -> Nat] /\ ff[1] = f /\ ff[2] = g
    BY <2>2
  <2>4. ff \in L
    BY <2>1, <2>3 DEF LexProductOrdering
  <2> QED
    BY <2>2, <2>4
<1>7. ASSUME NEW q \in X \ {p} PROVE Precedes(p, q)
  <2> DEFINE apart == {i \in 1 .. 6 : Key(p)[i] # Key(q)[i]}
  <2> HIDE DEF L
  <2>1. Key(p) \in [1 .. 6 -> Nat] /\ Key(q) \in [1 .. 6 -> Nat] /\ 6 \in apart
    BY KeyIs
  <2>2. PICK d \in apart : \A i \in apart : d <= i
    BY <2>1, LeastNumber
  <2>3. \A i \in 1 .. d - 1 : Key(p)[i] = Key(q)[i]
    BY <2>2
  <2>4. ~(Key(q)[d] < Key(p)[d])
    <3>1. <<Key(q), Key(p)>> \notin L
      BY <1>3, <1>4
    <3> QED
      BY <1>6, <2>1, <2>2, <2>3, <3>1
  <2>5. Key(p)[d] \in Nat /\ Key(q)[d] \in Nat
    BY <2>1, <2>2
  <2>6. Key(p)[d] < Key(q)[d]
    BY <2>2, <2>4, <2>5
  <2> QED
    BY <2>2, <2>3, <2>6 DEF Precedes
<1> QED
  BY <1>7

-----------------------------------------------------------------------------
(* The workload estimate: its invariant.                                   *)

Blocks(P, t, m) ==
  \/ \A lane \in Lane : Taken({q \in P : q.lane = lane}, m)
  \/ t.phone # NoPhone /\ Taken({q \in P : q.task.phone = t.phone}, m)

\* Requests are numbered, and each is decided once.
Requests ==
  /\ left \subseteq Request /\ dropped \subseteq Request
  /\ IsFiniteSet(left) /\ Placements(placed)
  /\ \A t, u \in left : t.id = u.id => t = u
  /\ \A t \in left, q \in placed : t.id # q.task.id
  /\ left \cap dropped = {}

\* What is left can only be placed where all that is placed has begun, and could
\* not have been placed before.
LeftForLater ==
  \A t \in left :
    /\ \A q \in placed : q.start <= PlaceIn(placed, t).start
    /\ \A m \in t.earliest .. PlaceIn(placed, t).start - 1 : Blocks(placed, t, m)

\* An occupied slot is asked for before anything else, and at once.
IsSlot(t) ==
  IF t.client = 0
  THEN /\ t.earliest = 0 /\ t.deadline = WindowEnd /\ t.length = WindowEnd - 1
       /\ t.phone < 0 /\ t.phone = Max(Run) - t.id
  ELSE t.earliest >= 1 /\ t.phone >= 0

SlotsLeft == {t \in left : t.client = 0}
SlotsFirst ==
  /\ \A t \in left : IsSlot(t)
  /\ \A q \in placed : IsSlot(q.task)
  /\ SlotsLeft # {} =>
       /\ \A q \in placed : q.task.client = 0
       /\ Cardinality(SlotsLeft) + Cardinality(placed) <= Capacity

WorkInv == Requests /\ LeftForLater /\ SlotsFirst /\ WorkloadHolds

LEMMA BlocksMore ==
  ASSUME NEW P, NEW Q, P \subseteq Q, NEW t, NEW m, Blocks(P, t, m)
  PROVE  Blocks(Q, t, m)
BY DEF Blocks, Taken

\* The placement that comes first starts no later than any other could.
LEMMA Decided ==
  ASSUME WorkInv, PlanTask
  PROVE  \E t \in left : \E p \in Placement :
           /\ p = PlaceIn(placed, t) /\ p.task = t
           /\ \A u \in left : p.start <= PlaceIn(placed, u).start
           /\ Decide(p)
<1> DEFINE X == {Place(t) : t \in left}
<1>1. \A t \in left : Place(t) = PlaceIn(placed, t) /\ Place(t) \in Placement /\ Place(t).task = t
  BY PlaceIsIn, PlaceInIs DEF WorkInv, Requests
<1>2. X \subseteq Placement /\ X # {}
  BY <1>1 DEF PlanTask
<1>3. \A p, q \in X : p.task.id = q.task.id => p = q
  BY <1>1 DEF WorkInv, Requests
<1>4. \E p \in X : \A q \in X \ {p} : Precedes(p, q)
  <2> HIDE DEF X
  <2> QED
    BY <1>2, <1>3, OneIsFirst DEF WorkInv, Requests
<1>5. PICK p : p = CHOOSE q \in X : \A r \in X \ {q} : Precedes(q, r)
  OBVIOUS
<1>6. p \in X /\ \A q \in X \ {p} : Precedes(p, q)
  <2> HIDE DEF X
  <2> QED
    BY <1>4, <1>5
<1>7. Decide(p)
  BY <1>5 DEF PlanTask
<1>8. PICK t \in left : p = Place(t)
  BY <1>6
<1>9. ASSUME NEW u \in left PROVE p.start <= PlaceIn(placed, u).start
  <2>1. CASE Place(u) = p
    BY <1>1, <2>1 DEF Placement
  <2>2. CASE Place(u) # p
    BY <1>1, <1>2, <1>6, <2>2, PrecedesIs DEF WorkInv, Requests
  <2> QED
    BY <2>1, <2>2
<1> QED
  BY <1>1, <1>7, <1>8, <1>9

\* After one more placement whatever is left is still for later.
LEMMA LaterStill ==
  ASSUME NEW P, Placements(P), NEW p \in Placement, NEW t \in Request,
         NEW Q, Q = P \cup {p}, Placements(Q),
         \A q \in P : q.start <= p.start,
         p.start <= PlaceIn(P, t).start,
         \A m \in t.earliest .. PlaceIn(P, t).start - 1 : Blocks(P, t, m)
  PROVE  /\ \A q \in Q : q.start <= PlaceIn(Q, t).start
         /\ \A m \in t.earliest .. PlaceIn(Q, t).start - 1 : Blocks(Q, t, m)
<1>1. PICK s : s = PlaceIn(P, t)
  OBVIOUS
<1>2. PICK n : n = PlaceIn(Q, t)
  OBVIOUS
<1>3. /\ s \in Placement /\ s.task = t /\ s.start >= t.earliest
      /\ \A l \in Lane, m \in Nat :
           t.earliest <= m /\ (\A q \in P : Hinders(q, t, l) => EndOf(q) + Spacing <= m)
           => s.start <= m
  BY <1>1, PlaceInIs
<1>4. /\ n \in Placement /\ n.task = t /\ n.start >= t.earliest
      /\ \A q \in Q : Hinders(q, t, n.lane) => EndOf(q) + Spacing <= n.start
      /\ \A l \in Lane, m \in Nat :
           t.earliest <= m /\ (\A q \in Q : Hinders(q, t, l) => EndOf(q) + Spacing <= m)
           => n.start <= m
  BY <1>2, PlaceInIs
<1>5. /\ p.start \in Nat /\ s.start \in Nat /\ n.start \in Nat /\ n.lane \in Lane
      /\ t.earliest \in Nat
  BY <1>3, <1>4 DEF Placement, Request
<1>6. s.start <= n.start
  BY <1>3, <1>4, <1>5
<1>7. \A q \in Q : q.start \in Nat /\ q.start <= p.start /\ EndOf(q) + Spacing \in Nat
  BY WorkAssumption DEF Placements, Placement, Request, EndOf
<1>8. ASSUME NEW m \in t.earliest .. n.start - 1 PROVE Blocks(Q, t, m)
  <2>1. CASE m < s.start
    <3>1. Blocks(P, t, m)
      BY <1>1, <1>5, <2>1
    <3> QED
      BY <3>1, BlocksMore
  <2>2. CASE m >= s.start
    <3>1. m \in Nat /\ t.earliest <= m /\ ~(n.start <= m) /\ p.start <= m
      BY <1>1, <1>5, <2>2
    <3>2. SUFFICES ASSUME NEW l \in Lane, ~Taken({q \in Q : q.lane = l}, m),
                          ~(t.phone # NoPhone /\ Taken({q \in Q : q.task.phone = t.phone}, m))
                   PROVE  FALSE
      BY DEF Blocks
    <3>3. ASSUME NEW q \in Q, Hinders(q, t, l) PROVE EndOf(q) + Spacing <= m
      <4>1. ~(q.start <= m /\ m < EndOf(q) + Spacing)
        BY <3>2, <3>3 DEF Taken, Hinders, SamePhone
      <4> QED
        BY <1>5, <1>7, <3>1, <4>1
    <3> QED
      BY <1>4, <3>1, <3>3
  <2> QED
    BY <1>5, <2>1, <2>2
<1>9. ASSUME NEW q \in Q PROVE q.start <= n.start
  BY <1>1, <1>5, <1>6, <1>7
<1> QED
  BY <1>2, <1>8, <1>9

\* The next decision: a placement, or a request that cannot be met.
LEMMA AddedIs ==
  ASSUME WorkInv, NEW t \in left, NEW p \in Placement, p = PlaceIn(placed, t), p.task = t,
         NEW Q, Q = placed \cup {p}
  PROVE  /\ Placements(Q)
         /\ Cardinality(Q) <= Cardinality(placed) + 1
         /\ p.start >= t.earliest
         /\ \A q \in placed : Hinders(q, t, p.lane) => EndOf(q) + Spacing <= p.start
         /\ \A q \in placed : q.start <= p.start
         /\ \A m \in t.earliest .. p.start - 1 : Blocks(placed, t, m)
<1>1. IsFiniteSet(placed) /\ placed \subseteq Placement /\ t \in Request
  BY DEF WorkInv, Requests, Placements
<1>2. IsFiniteSet(Q) /\ Cardinality(Q) <= Cardinality(placed) + 1
  <2>1. Cardinality(placed) \in Nat
    BY <1>1, FS_CardinalityType
  <2>2. /\ IsFiniteSet(placed \cup {p})
        /\ Cardinality(placed \cup {p}) =
             IF p \in placed THEN Cardinality(placed) ELSE Cardinality(placed) + 1
    BY <1>1, FS_AddElement
  <2> QED
    BY <2>1, <2>2
<1>3. Placements(placed)
  BY DEF WorkInv, Requests
<1> QED
  BY <1>1, <1>2, <1>3, PlaceInIs DEF WorkInv, LeftForLater, Placements

LEMMA ListsStay ==
  ASSUME WorkInv, NEW t \in left, NEW p \in Placement, p = PlaceIn(placed, t), p.task = t,
         Decide(p)
  PROVE  Requests'
<1>1. left' = left \ {t} /\ IsFiniteSet(left') /\ left' \subseteq left
  BY FS_RemoveElement DEF Decide, WorkInv, Requests
<1>2. CASE EndOf(p) > p.task.deadline
  BY <1>1, <1>2 DEF Decide, WorkInv, Requests
<1>3. CASE ~(EndOf(p) > p.task.deadline)
  <2>1. placed' = placed \cup {p} /\ dropped' = dropped
    BY <1>3 DEF Decide
  <2>2. Placements(placed')
    BY <2>1, AddedIs
  <2>3. \A u \in left', q \in placed' : u.id # q.task.id
    BY <1>1, <2>1 DEF WorkInv, Requests
  <2> QED
    BY <1>1, <2>1, <2>2, <2>3 DEF WorkInv, Requests
<1> QED
  BY <1>2, <1>3

LEMMA LaterStays ==
  ASSUME WorkInv, NEW t \in left, NEW p \in Placement, p = PlaceIn(placed, t), p.task = t,
         \A u \in left : p.start <= PlaceIn(placed, u).start, Decide(p)
  PROVE  LeftForLater'
<1>1. left' = left \ {t}
  BY DEF Decide
<1>2. CASE EndOf(p) > p.task.deadline
  <2>1. placed' = placed
    BY <1>2 DEF Decide
  <2> QED
    BY <1>1, <2>1 DEF WorkInv, LeftForLater
<1>3. CASE ~(EndOf(p) > p.task.deadline)
  <2>1. PICK Q : Q = placed \cup {p}
    OBVIOUS
  <2>2. placed' = Q
    BY <1>3, <2>1 DEF Decide
  <2>3. Placements(placed) /\ Placements(Q) /\ \A q \in placed : q.start <= p.start
    BY <2>1, AddedIs DEF WorkInv, Requests
  <2>4. ASSUME NEW u \in left'
        PROVE  /\ \A q \in Q : q.start <= PlaceIn(Q, u).start
               /\ \A m \in u.earliest .. PlaceIn(Q, u).start - 1 : Blocks(Q, u, m)
    <3>1. u \in left /\ u \in Request
      BY <1>1 DEF WorkInv, Requests
    <3>2. \A m \in u.earliest .. PlaceIn(placed, u).start - 1 : Blocks(placed, u, m)
      BY <3>1 DEF WorkInv, LeftForLater
    <3> QED
      BY <2>1, <2>3, <3>1, <3>2, LaterStill
  <2> QED
    BY <2>2, <2>4 DEF LeftForLater
<1> QED
  BY <1>2, <1>3

LEMMA PlacedIsSound ==
  ASSUME WorkInv, NEW t \in left, NEW p \in Placement, p = PlaceIn(placed, t), p.task = t,
         Decide(p)
  PROVE  WorkTypeOK' /\ BothSerialized' /\ NoOpeningMissed'
<1>1. /\ placed \subseteq Placement /\ t \in Request /\ left' = left \ {t} /\ left \cap dropped = {}
      /\ \A q \in placed : q.task.id # t.id
  BY DEF WorkInv, Requests, Placements, Decide
<1>2. /\ \A q \in placed : q.lane \in Lane /\ q.start >= q.task.earliest /\ EndOf(q) <= q.task.deadline
      /\ \A q \in placed : q.task \notin left /\ q.task \notin dropped
  BY DEF WorkInv, WorkloadHolds, WorkTypeOK
<1>3. /\ \A q \in placed : \A m \in q.task.earliest .. q.start - 1 : Blocks(placed, q.task, m)
      /\ \A u \in dropped : \A m \in u.earliest .. u.deadline - u.length : Blocks(placed, u, m)
  BY DEF WorkInv, WorkloadHolds, NoOpeningMissed, Blocks
<1>4. /\ p.start >= t.earliest
      /\ \A q \in placed : Hinders(q, t, p.lane) => EndOf(q) + Spacing <= p.start
      /\ \A m \in t.earliest .. p.start - 1 : Blocks(placed, t, m)
  BY AddedIs
<1>5. CASE EndOf(p) > p.task.deadline
  <2>1. placed' = placed /\ dropped' = dropped \cup {t}
    BY <1>5 DEF Decide
  <2>2. ASSUME NEW m \in t.earliest .. t.deadline - t.length PROVE Blocks(placed, t, m)
    BY <1>1, <1>4, <1>5 DEF EndOf, Request, Placement
  <2>3. WorkTypeOK'
    BY <1>1, <1>2, <2>1 DEF WorkTypeOK
  <2>4. BothSerialized'
    BY <2>1 DEF WorkInv, WorkloadHolds, BothSerialized
  <2>5. NoOpeningMissed'
    BY <1>3, <2>1, <2>2 DEF NoOpeningMissed, Blocks
  <2> QED
    BY <2>3, <2>4, <2>5
<1>6. CASE ~(EndOf(p) > p.task.deadline)
  <2>1. placed' = placed \cup {p} /\ dropped' = dropped
    BY <1>6 DEF Decide
  <2>2. p.lane \in Lane /\ EndOf(p) <= p.task.deadline
    BY <1>6 DEF Placement, Request, EndOf
  <2>3. WorkTypeOK'
    BY <1>1, <1>2, <1>4, <2>1, <2>2 DEF WorkTypeOK
  <2>4. BothSerialized'
    <3>1. ASSUME NEW q \in placed, NEW r \in placed, q # r,
                 q.lane = r.lane \/ (q.task.phone # NoPhone /\ q.task.phone = r.task.phone)
          PROVE  EndOf(q) + Spacing <= r.start \/ EndOf(r) + Spacing <= q.start
      BY <3>1 DEF WorkInv, WorkloadHolds, BothSerialized
    <3>2. ASSUME NEW q \in placed,
                 q.lane = p.lane \/ (t.phone # NoPhone /\ q.task.phone = t.phone)
          PROVE  EndOf(q) + Spacing <= p.start
      BY <1>4, <3>2 DEF Hinders, SamePhone
    <3> QED
      BY <2>1, <3>1, <3>2 DEF BothSerialized
  <2>5. NoOpeningMissed'
    <3>1. \A q \in placed : \A m \in q.task.earliest .. q.start - 1 : Blocks(placed', q.task, m)
      BY <1>3, <2>1, BlocksMore
    <3>2. \A u \in dropped : \A m \in u.earliest .. u.deadline - u.length : Blocks(placed', u, m)
      BY <1>3, <2>1, BlocksMore
    <3>3. \A m \in t.earliest .. p.start - 1 : Blocks(placed', t, m)
      BY <1>4, <2>1, BlocksMore
    <3> QED
      BY <2>1, <3>1, <3>2, <3>3 DEF NoOpeningMissed, Blocks
  <2> QED
    BY <2>3, <2>4, <2>5
<1> QED
  BY <1>5, <1>6

\* While occupied slots are left there is a lane for the next.
LEMMA SlotStartsAtOnce ==
  ASSUME WorkInv, NEW u \in left, u.client = 0
  PROVE  PlaceIn(placed, u).start = 0
<1>1. /\ Placements(placed) /\ u \in Request /\ IsFiniteSet(left) /\ IsFiniteSet(placed)
      /\ \A q \in placed : u.id # q.task.id /\ q.task \in Request
  BY DEF WorkInv, Requests, Placements, Placement
<1>2. Cardinality(placed) < Cardinality(Lane)
  <2>1. IsFiniteSet(SlotsLeft) /\ SlotsLeft # {}
    BY <1>1, FS_Subset DEF SlotsLeft
  <2>2. Cardinality(SlotsLeft) \in Nat /\ Cardinality(SlotsLeft) # 0 /\ Cardinality(placed) \in Nat
    BY <1>1, <2>1, FS_CardinalityType, FS_EmptySet
  <2>3. Cardinality(SlotsLeft) + Cardinality(placed) <= Capacity
    BY <2>1 DEF WorkInv, SlotsFirst
  <2>4. Cardinality(Lane) = Capacity
    <3>1. Capacity \in Nat \ {0} /\ 0 \in Int /\ Capacity - 1 \in Int
      BY WorkAssumption
    <3>2. Cardinality(0 .. Capacity - 1) = IF 0 > Capacity - 1 THEN 0 ELSE (Capacity - 1) - 0 + 1
      BY <3>1, FS_Interval
    <3> QED
      BY <3>1, <3>2 DEF Lane
  <2> QED
    BY <2>2, <2>3, <2>4, WorkAssumption
<1>3. PICK l \in Lane : \A q \in placed : q.lane # l
  <2> DEFINE f == [q \in placed |-> q.lane]
             taken == {f[q] : q \in placed}
  <2>1. IsFiniteSet(taken) /\ Cardinality(taken) <= Cardinality(placed)
    BY <1>1, ImagesAreFinite
  <2>2. Cardinality(taken) \in Nat /\ Cardinality(placed) \in Nat
    BY <1>1, <2>1, FS_CardinalityType
  <2>3. ~(Lane \subseteq taken)
    <3>1. SUFFICES ASSUME Lane \subseteq taken PROVE FALSE
      OBVIOUS
    <3>2. IsFiniteSet(Lane) /\ Cardinality(Lane) <= Cardinality(taken)
      <4> HIDE DEF taken
      <4> QED
        BY <2>1, <3>1, FS_Subset
    <3>3. Cardinality(Lane) \in Nat
      BY <3>2, FS_CardinalityType
    <3> QED
      BY <1>2, <2>1, <2>2, <3>2, <3>3
  <2> QED
    BY <2>3
<1>4. \A q \in placed : ~Hinders(q, u, l)
  <2> SUFFICES ASSUME NEW q \in placed, SamePhone(u, q.task) PROVE FALSE
    BY <1>3 DEF Hinders
  <2>1. u \in SlotsLeft
    BY DEF SlotsLeft
  <2>2. q.task.client = 0 /\ IsSlot(q.task) /\ IsSlot(u)
    BY <2>1 DEF WorkInv, SlotsFirst
  <2>3. u.phone = Max(Run) - u.id /\ q.task.phone = Max(Run) - q.task.id /\ u.phone = q.task.phone
    BY <2>2 DEF IsSlot, SamePhone
  <2>4. Max(Run) \in Int
    BY GreatestRun
  <2> QED
    BY <1>1, <2>3, <2>4 DEF Request
<1>5. u.earliest = 0
  BY DEF WorkInv, SlotsFirst, IsSlot
<1>6. PICK s : s = PlaceIn(placed, u)
  OBVIOUS
<1>7. s \in Placement /\ s.start <= 0
  BY <1>1, <1>4, <1>5, <1>6, PlaceInIs
<1> QED
  BY <1>6, <1>7 DEF Placement

LEMMA SlotsStay ==
  ASSUME WorkInv, NEW t \in left, NEW p \in Placement, p = PlaceIn(placed, t), p.task = t,
         \A u \in left : p.start <= PlaceIn(placed, u).start, Decide(p)
  PROVE  SlotsFirst' /\ OccupiedKeepsItsLane'
<1>1. /\ left' = left \ {t} /\ IsSlot(t) /\ t \in Request /\ p.start >= t.earliest
      /\ IsFiniteSet(left) /\ IsFiniteSet(placed) /\ p.start \in Nat
  BY AddedIs DEF Decide, WorkInv, SlotsFirst, Requests, Placements, Placement
<1>2. /\ \A u \in dropped : u.client # 0
      /\ \A q \in placed : q.task.client = 0 => q.start = 0
      /\ \A u \in left : IsSlot(u)
      /\ \A q \in placed : IsSlot(q.task)
      /\ SlotsLeft # {} =>
           /\ \A q \in placed : q.task.client = 0
           /\ Cardinality(SlotsLeft) + Cardinality(placed) <= Capacity
  BY DEF WorkInv, SlotsFirst, WorkloadHolds, OccupiedKeepsItsLane
<1>3. CASE SlotsLeft = {}
  <2>1. t.client # 0 /\ SlotsLeft' = {}
    BY <1>1, <1>3 DEF SlotsLeft
  <2>2. CASE EndOf(p) > p.task.deadline
    <3>1. placed' = placed /\ dropped' = dropped \cup {t}
      BY <2>2 DEF Decide
    <3> QED
      BY <1>1, <1>2, <2>1, <3>1 DEF SlotsFirst, OccupiedKeepsItsLane
  <2>3. CASE ~(EndOf(p) > p.task.deadline)
    <3>1. placed' = placed \cup {p} /\ dropped' = dropped
      BY <2>3 DEF Decide
    <3> QED
      BY <1>1, <1>2, <2>1, <3>1 DEF SlotsFirst, OccupiedKeepsItsLane
  <2> QED
    BY <2>2, <2>3
<1>4. CASE SlotsLeft # {}
  <2>1. p.start = 0
    <3>1. PICK u \in left : u.client = 0
      BY <1>4 DEF SlotsLeft
    <3>2. PlaceIn(placed, u).start = 0
      BY <3>1, SlotStartsAtOnce
    <3> QED
      BY <1>1, <3>1, <3>2
  <2>2. t.client = 0 /\ t \in SlotsLeft
    BY <1>1, <2>1 DEF IsSlot, Request, SlotsLeft
  <2>3. EndOf(p) <= p.task.deadline
    BY <1>1, <2>1, <2>2, WorkAssumption DEF IsSlot, EndOf
  <2>4. placed' = placed \cup {p} /\ dropped' = dropped
    BY <1>1, <2>3, WorkAssumption DEF Decide, EndOf, Request
  <2>5. SlotsLeft' = SlotsLeft \ {t}
    BY <1>1 DEF SlotsLeft
  <2>6. Cardinality(SlotsLeft') + Cardinality(placed') <= Capacity
    <3>1. IsFiniteSet(SlotsLeft)
      BY <1>1, FS_Subset DEF SlotsLeft
    <3>2. Cardinality(SlotsLeft') = Cardinality(SlotsLeft) - 1
      BY <2>2, <2>5, <3>1, FS_RemoveElement
    <3>3. PICK Q : Q = placed \cup {p}
      OBVIOUS
    <3>4. Cardinality(Q) <= Cardinality(placed) + 1 /\ IsFiniteSet(Q)
      BY <3>3, AddedIs DEF Placements
    <3>5. Cardinality(SlotsLeft) \in Nat /\ Cardinality(placed) \in Nat /\ Cardinality(Q) \in Nat
      BY <1>1, <3>1, <3>4, FS_CardinalityType
    <3>6. Cardinality(placed') = Cardinality(Q)
      BY <2>4, <3>3
    <3> QED
      BY <1>2, <1>4, <3>2, <3>4, <3>5, <3>6, WorkAssumption
  <2> QED
    BY <1>1, <1>2, <1>4, <2>1, <2>2, <2>4, <2>6 DEF SlotsFirst, OccupiedKeepsItsLane
<1> QED
  BY <1>3, <1>4

\* Every decision keeps the invariant.
LEMMA WorkSteps == WorkInv /\ [WorkNext]_workVars => WorkInv'
<1>1. ASSUME WorkInv, PlanTask PROVE WorkInv'
  <2>1. PICK t \in left, p \in Placement :
          /\ p = PlaceIn(placed, t) /\ p.task = t
          /\ \A u \in left : p.start <= PlaceIn(placed, u).start
          /\ Decide(p)
    BY <1>1, Decided
  <2> QED
    BY <1>1, <2>1, ListsStay, LaterStays, PlacedIsSound, SlotsStay
       DEF WorkInv, WorkloadHolds
<1>2. ASSUME WorkInv, UNCHANGED workVars PROVE WorkInv'
  BY <1>2 DEF workVars, WorkInv, Requests, LeftForLater, SlotsFirst, SlotsLeft, WorkloadHolds, WorkTypeOK,
              BothSerialized, NoOpeningMissed, OccupiedKeepsItsLane
<1> QED
  BY <1>1, <1>2 DEF WorkNext

-----------------------------------------------------------------------------
(* The workload estimate: the board.                                       *)

LEMMA MaxOfTwo ==
  ASSUME NEW x \in Nat, NEW y \in Nat
  PROVE  Max({x, y}) = IF x >= y THEN x ELSE y
BY DEF Max

LEMMA MinOfTwo ==
  ASSUME NEW x \in Int, NEW y \in Int
  PROVE  Min({x, y}) = IF x <= y THEN x ELSE y
BY DEF Min

\* What the board asks for: a run from the start of the window on, ...
LEMMA RunRequests ==
  ASSUME NEW r \in Run, NEW b \in Board
  PROVE  ForRun(r, b) \in Request /\ ForRun(r, b).id = r /\ IsSlot(ForRun(r, b))
         /\ ForRun(r, b).client # 0
<1>1. /\ b.issue \in Nat /\ b.delay \in Nat /\ b.closes \in Nat /\ b.length \in Nat
      /\ r \in Nat /\ ClientOf[r] \in Nat \ {0} /\ PhoneOf[r] \in Nat /\ WindowEnd \in Nat
  BY WorkAssumption DEF Board
<1>2. PICK preferred \in Nat : preferred = Max({b.issue, WindowStart}) /\ preferred >= 1
  BY <1>1, MaxOfTwo DEF WindowStart
<1>3. PICK last \in Nat : last = Max({WindowEnd, WindowStart + b.length})
  BY <1>1, MaxOfTwo DEF WindowStart
<1>4. ASSUME NEW e \in Nat
      PROVE  Max({preferred, e}) \in Nat /\ Max({preferred, e}) >= 1
  <2>1. Max({preferred, e}) = IF preferred >= e THEN preferred ELSE e
    BY MaxOfTwo
  <2>2. preferred \in Nat /\ preferred >= 1
    BY <1>2
  <2> HIDE <1>2
  <2> QED
    BY <2>1, <2>2
<1>5. CASE b.current /\ b.issue <= WindowStart
  <2>1. ForRun(r, b) = [id |-> r, client |-> ClientOf[r], phone |-> PhoneOf[r],
                        preferred |-> preferred, earliest |-> Max({preferred, preferred}),
                        deadline |-> last, length |-> b.length]
    BY <1>2, <1>3, <1>5 DEF ForRun, Demand
  <2> QED
    BY <1>1, <1>4, <2>1 DEF Request, IsSlot
<1>6. CASE ~(b.current /\ b.issue <= WindowStart)
  <2>1. ForRun(r, b) = [id |-> r, client |-> ClientOf[r], phone |-> PhoneOf[r],
                        preferred |-> preferred, earliest |-> Max({preferred, b.issue + b.delay}),
                        deadline |-> b.closes, length |-> b.length]
    BY <1>2, <1>6 DEF ForRun, Demand
  <2> QED
    BY <1>1, <1>4, <2>1 DEF Request, IsSlot
<1> QED
  BY <1>5, <1>6

\* ... an occupied slot before it, ...
LEMMA SlotRequests ==
  ASSUME NEW k \in Nat \ {0}
  PROVE  /\ Occupied(k) \in Request /\ Occupied(k).id = Max(Run) + k
         /\ IsSlot(Occupied(k)) /\ Occupied(k).client = 0
<1>1. Max(Run) \in Nat /\ WindowEnd \in Nat \ {0} /\ WindowStart = 1
  BY GreatestRun, WorkAssumption DEF WindowStart
<1>2. Max({0, 0}) = 0
  BY MaxOfTwo
<1>3. Occupied(k) = [id |-> Max(Run) + k, client |-> 0, phone |-> -k, preferred |-> 0,
                     earliest |-> 0, deadline |-> WindowEnd, length |-> WindowEnd - 1]
  BY <1>1, <1>2 DEF Occupied, Demand
<1> QED
  BY <1>1, <1>3 DEF Request, IsSlot

\* ... and no more slots than there are.
LEMMA SlotsFit ==
  ASSUME NEW busy \in Nat, NEW idle \in 0 .. 1, NEW reported \in {0, Capacity}
  PROVE  OccupiedCount(busy, idle, reported) \in 0 .. Capacity
<1>1. Capacity \in Nat /\ reported \in Nat /\ idle \in Nat
  BY WorkAssumption
<1>2. ASSUME NEW x \in Int, NEW y \in Int
      PROVE  Max({x, y}) = IF x >= y THEN x ELSE y
  BY DEF Max
<1>3. PICK room \in Nat : room = Max({0, Capacity - Min({Capacity, busy})}) /\ room <= Capacity
  BY <1>1, <1>2, MinOfTwo
<1>4. PICK known \in Nat : known = Min({idle, room}) /\ known <= room
  BY <1>1, <1>3, MinOfTwo
<1>5. PICK more \in Nat : more = Max({0, room - known}) /\ more = room - known
  <2>1. room - known \in Int /\ room - known >= 0
    BY <1>3, <1>4
  <2>2. Max({0, room - known}) = room - known
    BY <1>2, <2>1
  <2> QED
    BY <2>1, <2>2
<1>6. PICK rest \in Nat : rest = Max({0, Min({Capacity, reported}) - busy - known})
  BY <1>1, <1>2, <1>4, MinOfTwo
<1>7. PICK unknown \in Nat : unknown = Min({more, rest}) /\ unknown <= more
  <2>1. Min({more, rest}) = IF more <= rest THEN more ELSE rest
    BY MinOfTwo
  <2> QED
    BY <2>1
<1>8. OccupiedCount(busy, idle, reported) = known + unknown
  BY <1>3, <1>4, <1>5, <1>6, <1>7 DEF OccupiedCount
<1> QED
  BY <1>1, <1>3, <1>4, <1>5, <1>7, <1>8


LEMMA WorkStarts == WorkInit => WorkInv
<1> SUFFICES ASSUME WorkInit PROVE WorkInv
  OBVIOUS
<1>1. PICK b \in [Run -> Board], idle \in 0 .. 1, reported \in {0, Capacity} :
        LET asked == {r \in Run : b[r].issue <= WindowEnd}
            slots == OccupiedCount(Cardinality(BusyKeys(b)), idle, reported)
        IN  /\ left = {ForRun(r, b[r]) : r \in asked} \union {Occupied(k) : k \in 1 .. slots}
            /\ placed = {}
            /\ dropped = {}
  BY DEF WorkInit
<1>2. PICK asked : asked = {r \in Run : b[r].issue <= WindowEnd}
  OBVIOUS
<1>3. PICK slots : slots = OccupiedCount(Cardinality(BusyKeys(b)), idle, reported)
  OBVIOUS
<1>4. PICK runs : runs = {ForRun(r, b[r]) : r \in asked}
  OBVIOUS
<1>5. PICK occupied : occupied = {Occupied(k) : k \in 1 .. slots}
  OBVIOUS
<1>6. left = runs \union occupied /\ placed = {} /\ dropped = {}
  BY <1>1, <1>2, <1>3, <1>4, <1>5
<1>7. slots \in 0 .. Capacity
  <2> DEFINE current == {s \in Run : b[s].current /\ b[s].issue <= WindowStart}
             f == [r \in current |-> IF PhoneOf[r] = NoPhone THEN -r ELSE PhoneOf[r]]
             keys == {f[r] : r \in current}
  <2>1. IsFiniteSet(current)
    BY WorkAssumption, FS_Subset
  <2>2. IsFiniteSet(keys)
    BY <2>1, ImagesAreFinite
  <2>3. keys = BusyKeys(b)
    BY DEF BusyKeys
  <2>4. Cardinality(BusyKeys(b)) \in Nat
    BY <2>2, <2>3, FS_CardinalityType
  <2> QED
    BY <1>3, <2>4, SlotsFit
<1>8. \A t \in runs : t \in Request /\ IsSlot(t) /\ t.client # 0
                      /\ \E r \in asked : t = ForRun(r, b[r]) /\ t.id = r
  BY <1>2, <1>4, RunRequests
<1>9. \A t \in occupied : t \in Request /\ IsSlot(t) /\ t.client = 0
                          /\ \E k \in 1 .. slots : t = Occupied(k) /\ t.id = Max(Run) + k
  BY <1>5, <1>7, SlotRequests
<1>10. IsFiniteSet(runs)
  <2> DEFINE f == [r \in asked |-> ForRun(r, b[r])]
             T == {f[r] : r \in asked}
  <2>1. IsFiniteSet(asked)
    BY <1>2, WorkAssumption, FS_Subset
  <2>2. IsFiniteSet(T)
    BY <2>1, ImagesAreFinite
  <2>3. T = runs
    BY <1>4
  <2> QED
    BY <2>2, <2>3
<1>11. IsFiniteSet(occupied) /\ Cardinality(occupied) <= Capacity
  <2> DEFINE f == [k \in 1 .. slots |-> Occupied(k)]
             T == {f[k] : k \in 1 .. slots}
  <2>1. IsFiniteSet(1 .. slots) /\ Cardinality(1 .. slots) <= Capacity
    BY <1>7, FS_Interval, WorkAssumption
  <2>2. IsFiniteSet(T) /\ Cardinality(T) <= Cardinality(1 .. slots)
    BY <2>1, ImagesAreFinite
  <2>3. T = occupied
    BY <1>5
  <2>4. Cardinality(T) \in Nat /\ Cardinality(1 .. slots) \in Nat
    BY <2>1, <2>2, FS_CardinalityType
  <2>5. IsFiniteSet(occupied) /\ Cardinality(occupied) <= Cardinality(1 .. slots)
        /\ Cardinality(occupied) \in Nat
    BY <2>2, <2>3, <2>4
  <2>6. Capacity \in Nat
    BY WorkAssumption
  <2> HIDE DEF T, f
  <2> QED
    BY <2>1, <2>4, <2>5, <2>6
<1>12. \A t, u \in left : t.id = u.id => t = u
  <2> SUFFICES ASSUME NEW t \in left, NEW u \in left, t.id = u.id PROVE t = u
    OBVIOUS
  <2>1. Max(Run) \in Nat /\ \A r \in asked : r <= Max(Run) /\ r \in Nat
    BY <1>2, GreatestRun, WorkAssumption
  <2>2. CASE t \in runs /\ u \in runs
    BY <1>8, <2>2
  <2>3. CASE t \in occupied /\ u \in occupied
    <3>1. PICK k \in 1 .. slots : t = Occupied(k) /\ t.id = Max(Run) + k
      BY <1>9, <2>3
    <3>2. PICK l \in 1 .. slots : u = Occupied(l) /\ u.id = Max(Run) + l
      BY <1>9, <2>3
    <3>3. k = l
      BY <2>1, <3>1, <3>2, <1>7
    <3> QED
      BY <3>1, <3>2, <3>3
  <2>4. ASSUME NEW x \in runs, NEW y \in occupied PROVE x.id # y.id
    <3>1. x.id \in asked
      BY <1>8
    <3>2. PICK k \in 1 .. slots : y.id = Max(Run) + k
      BY <1>9
    <3> QED
      BY <1>7, <2>1, <3>1, <3>2
  <2> QED
    BY <1>6, <2>2, <2>3, <2>4
<1>13. Placements(placed)
  BY <1>6, FS_EmptySet DEF Placements
<1>14. Requests
  <2>1. IsFiniteSet(runs \union occupied)
    BY <1>10, <1>11, FS_Union
  <2> QED
    BY <1>6, <1>8, <1>9, <1>12, <1>13, <2>1 DEF Requests
<1>15. LeftForLater
  <2> SUFFICES ASSUME NEW t \in left PROVE PlaceIn(placed, t).start <= t.earliest
                                           /\ t.earliest \in Nat /\ PlaceIn(placed, t).start \in Nat
    BY <1>6 DEF LeftForLater
  <2>1. t \in Request /\ t.earliest \in Nat
    BY <1>14 DEF Requests, Request
  <2>2. PICK s : s = PlaceIn(placed, t)
    OBVIOUS
  <2>3. 0 \in Lane
    BY WorkAssumption DEF Lane
  <2>4. s \in Placement /\ s.start <= t.earliest
    BY <1>6, <1>13, <2>1, <2>2, <2>3, PlaceInIs
  <2> QED
    BY <2>1, <2>2, <2>4 DEF Placement
<1>16. SlotsFirst
  <2>1. SlotsLeft = occupied
    BY <1>6, <1>8, <1>9 DEF SlotsLeft
  <2>2. Cardinality(placed) = 0
    BY <1>6, FS_EmptySet
  <2>3. Cardinality(occupied) \in Nat
    BY <1>11, FS_CardinalityType
  <2> QED
    BY <1>6, <1>8, <1>9, <1>11, <2>1, <2>2, <2>3, WorkAssumption DEF SlotsFirst
<1>17. WorkloadHolds
  BY <1>6 DEF WorkloadHolds, WorkTypeOK, BothSerialized, NoOpeningMissed, OccupiedKeepsItsLane
<1> QED
  BY <1>14, <1>15, <1>16, <1>17 DEF WorkInv

\* The estimate the command center shows is a schedule: lanes and phones are
\* serialized, deadlines kept, no opening passed over, and slots that are in
\* use keep their lanes, whatever the demand.
THEOREM EstimateHolds == WorkSpec => []WorkloadHolds
<1>1. WorkInv => WorkloadHolds
  BY DEF WorkInv
<1> QED
  BY <1>1, WorkStarts, WorkSteps, PTL DEF WorkSpec

-----------------------------------------------------------------------------
(* The fleet calendar.                                                     *)

LEMMA LeastIs ==
  ASSUME NEW S \in SUBSET Int, IsFiniteSet(S), S # {}
  PROVE  Min(S) \in S /\ \A x \in S : Min(S) <= x
BY Extremes DEF Min

LEMMA GreatestIs ==
  ASSUME NEW S \in SUBSET Int, IsFiniteSet(S), S # {}
  PROVE  Max(S) \in S /\ \A x \in S : Max(S) >= x
BY Extremes DEF Max

Interval(i) == i.lane \in Nat /\ i.start \in Int /\ i.end \in Int
Intervals(S) == IsFiniteSet(S) /\ \A i \in S : Interval(i)

\* An opening is one: from the moment asked for, it meets none of the intervals.
LEMMA OpeningIs ==
  ASSUME NEW S, Intervals(S), NEW from \in Int, NEW length \in Nat \ {0}
  PROVE  /\ Opening(S, from, length) \in Int
         /\ Opening(S, from, length) >= from
         /\ \A i \in S : ~Meets(i, Opening(S, from, length), Opening(S, from, length) + length)
<1> DEFINE f == [i \in S |-> i.end]
           ends == {f[i] : i \in S}
           all == ends \union {from}
           open == {s \in all : s >= from /\ \A i \in S : ~Meets(i, s, s + length)}
<1>1. IsFiniteSet(all) /\ all \in SUBSET Int /\ all # {}
  <2>1. IsFiniteSet(ends)
    BY ImagesAreFinite DEF Intervals
  <2>2. \A i \in S : i.end \in Int
    BY DEF Intervals, Interval
  <2> QED
    BY <2>1, <2>2, FS_AddElement
<1>2. PICK b \in all : \A x \in all : b >= x
  <2> HIDE DEF all
  <2> QED
    BY <1>1, Extremes
<1>3. b \in open
  <2>1. b \in Int /\ b >= from
    BY <1>1, <1>2
  <2>2. ASSUME NEW i \in S PROVE ~Meets(i, b, b + length)
    <3>1. i.end \in all /\ i.end \in Int
      BY DEF Intervals, Interval
    <3>2. b >= i.end
      BY <1>2, <3>1
    <3> QED
      BY <2>1, <3>1, <3>2 DEF Meets
  <2> QED
    BY <2>1, <2>2
<1>4. IsFiniteSet(open) /\ open \in SUBSET Int /\ open # {}
  <2> HIDE DEF all
  <2> QED
    BY <1>1, <1>3, FS_Subset
<1>5. Opening(S, from, length) = Min(open)
  <2>1. open = {s \in {from} \union {i.end : i \in S} :
                  s >= from /\ \A i \in S : ~Meets(i, s, s + length)}
    OBVIOUS
  <2> QED
    BY <2>1 DEF Opening
<1>6. Min(open) \in open
  <2> HIDE DEF open
  <2> QED
    BY <1>4, LeastIs
<1> QED
  BY <1>4, <1>5, <1>6

\* There is a first of a kind as long as one is left.
LEMMA FirstIs ==
  ASSUME NEW kind, Unsettled(kind) # {}, todo \subseteq Event,
         \A e \in Event : event[e].due \in Int
  PROVE  First(kind) \in Unsettled(kind)
<1>1. Unsettled(kind) \subseteq Event /\ Unsettled(kind) \in SUBSET Nat /\ IsFiniteSet(Unsettled(kind))
  <2>1. Unsettled(kind) \subseteq Event
    BY DEF Unsettled
  <2> QED
    BY <2>1, FleetAssumption, FS_Subset
<1> DEFINE f == [e \in Unsettled(kind) |-> event[e].due]
           dues == {f[e] : e \in Unsettled(kind)}
<1>2. PICK least \in dues : \A d \in dues : least <= d
  <2>1. IsFiniteSet(dues)
    BY <1>1, ImagesAreFinite
  <2>2. dues \in SUBSET Int /\ dues # {}
    BY <1>1
  <2> HIDE DEF dues
  <2> QED
    BY <2>1, <2>2, Extremes
<1>3. PICK ties : ties = {e \in Unsettled(kind) : event[e].due = least}
  OBVIOUS
<1>4. PICK e \in ties : \A g \in ties : e <= g
  <2>1. ties \in SUBSET Nat /\ ties # {}
    BY <1>1, <1>2, <1>3
  <2> QED
    BY <2>1, LeastNumber
<1>5. ASSUME NEW g \in Unsettled(kind) \ {e}
      PROVE  event[e].due < event[g].due \/ (event[e].due = event[g].due /\ e < g)
  <2>1. event[e].due = least /\ event[e].due \in Int /\ event[g].due \in Int /\ e \in Nat /\ g \in Nat
    BY <1>1, <1>3
  <2>2. least <= event[g].due
    BY <1>2
  <2>3. CASE event[g].due = least
    <3>1. e <= g
      BY <1>3, <1>4, <2>3
    <3> QED
      BY <2>1, <2>3, <3>1
  <2> QED
    BY <2>1, <2>2, <2>3
<1>6. e \in Unsettled(kind)
  BY <1>3
<1> QED
  BY <1>5, <1>6 DEF First

\* A set of events that hold different lanes is no larger than the lanes.
LEMMA HoldersFit ==
  ASSUME NEW H \in SUBSET Event, NEW f \in [H -> Nat], NEW L, IsFiniteSet(L),
         \A e \in H : f[e] \in L,
         \A e, g \in H : f[e] = f[g] => e = g
  PROVE  Cardinality(H) <= Cardinality(L)
<1>1. IsFiniteSet(H)
  BY FleetAssumption, FS_Subset
<1>2. f \in Injection(H, L)
  BY DEF Injection, IsInjective
<1> QED
  BY <1>1, <1>2, FS_Injection

Spot == StartupLane \X Int \X Int
Fact == [kind : Kind, due : Int, length : Nat \ {0}, wait : Nat, closes : Int]

FleetTyped ==
  /\ event \in [Event -> Fact]
  /\ \A e \in Events("finished") : event[e].due + event[e].length <= Now
  /\ Blocked \in 0 .. SlotCount
  /\ todo \subseteq Event
  /\ at \in [Event -> {Nowhere} \union Spot]
  /\ Intervals(lanes)

\* What has a place has it reserved, with its phone, at least until it ends.
\* Slots that are on without a known run are reserved for the whole window.
IsReserved ==
  /\ \A e \in Event : at[e] # Nowhere =>
       /\ e \notin todo /\ at[e][2] < at[e][3]
       /\ \E i \in lanes : /\ i.of = {e} /\ i.image = {Image(e)} /\ i.lane = at[e][1]
                           /\ i.start = at[e][2] /\ at[e][3] <= i.end
  /\ \A l \in 0 .. Blocked - 1 : \E i \in lanes : i.lane = l /\ i.start = Past /\ i.end = Through

\* Active runs come first and take the lanes from the blocked ones on, one each.
ActiveCount == Cardinality(Events("active") \ todo)
InLanes ==
  \A e \in Event : at[e] # Nowhere =>
    /\ event[e].kind = "active" =>
         /\ Blocked <= at[e][1] /\ at[e][1] < Blocked + ActiveCount
         /\ Now < at[e][3]
         /\ \A f \in Event \ {e} : at[f] # Nowhere /\ event[f].kind = "active" => at[f][1] # at[e][1]
    /\ event[e].kind = "waiting" => Blocked <= at[e][1]
    /\ event[e].kind = "finished" => at[e][3] <= Now
    /\ event[e].kind # "active" => Unsettled("active") = {}

\* What waited meets nothing on its lane or on its phone.
KeptApart ==
  \A e, f \in Event :
    /\ e # f /\ at[e] # Nowhere /\ at[f] # Nowhere
    /\ event[e].kind = "waiting" /\ event[f].kind # "finished"
    /\ Image(e) = Image(f) \/ at[e][1] = at[f][1]
    => ~Overlap(e, f)

SharingDoubted == Cardinality(ActiveImages) < Cardinality(Events("active")) => doubts # {}

FleetInv == FleetTyped /\ IsReserved /\ InLanes /\ KeptApart /\ SharingDoubted

LEMMA NowhereIsNoSpot == \A x, y, z : <<x, y, z>> # Nowhere
BY DEF Nowhere

LEMMA FactsStay ==
  ASSUME UNCHANGED <<event, online, used>>
  PROVE  /\ \A kind : Events(kind)' = Events(kind)
         /\ ActiveImages' = ActiveImages /\ Blocked' = Blocked
BY DEF Events, ActiveImages, Blocked, Unknown

LEMMA EventsAreFinite == \A kind : IsFiniteSet(Events(kind)) /\ IsFiniteSet(Events(kind) \ todo)
<1> SUFFICES ASSUME NEW kind
             PROVE  IsFiniteSet(Events(kind)) /\ IsFiniteSet(Events(kind) \ todo)
  OBVIOUS
<1>1. Events(kind) \subseteq Event /\ Events(kind) \ todo \subseteq Event
  BY DEF Events
<1> QED
  BY <1>1, FleetAssumption, FS_Subset

\* A settled event counts once.
LEMMA CountGrows ==
  ASSUME FleetTyped, NEW e \in todo, Settle(e)
  PROVE  /\ ActiveCount \in Nat /\ ActiveCount' \in Nat /\ ActiveCount <= ActiveCount'
         /\ event[e].kind = "active" => ActiveCount' = ActiveCount + 1
<1>1. PICK before : before = Events("active") \ todo
  OBVIOUS
<1>2. /\ IsFiniteSet(before) /\ Cardinality(before) \in Nat /\ e \notin before
      /\ ActiveCount = Cardinality(before)
  BY <1>1, EventsAreFinite, FS_CardinalityType DEF ActiveCount
<1>3. Events("active")' = Events("active") /\ todo' = todo \ {e} /\ e \in Event
  BY FactsStay DEF Settle, FleetTyped
<1>4. CASE event[e].kind = "active"
  <2>1. ActiveCount' = Cardinality(before \union {e})
    <3>1. Events("active") \ (todo \ {e}) = before \union {e}
      BY <1>1, <1>3, <1>4 DEF Events
    <3> QED
      BY <1>3, <3>1 DEF ActiveCount
  <2>2. Cardinality(before \union {e}) = Cardinality(before) + 1
    BY <1>2, FS_AddElement
  <2> QED
    BY <1>2, <2>1, <2>2
<1>5. CASE event[e].kind # "active"
  <2>1. ActiveCount' = Cardinality(before)
    <3>1. Events("active") \ (todo \ {e}) = before
      BY <1>1, <1>3, <1>5 DEF Events
    <3> QED
      BY <1>3, <3>1 DEF ActiveCount
  <2> QED
    BY <1>2, <1>5, <2>1
<1> QED
  BY <1>4, <1>5

LEMMA SkipKeeps ==
  ASSUME FleetInv, NEW e \in todo, Settle(e), Skip, doubts \subseteq doubts'
  PROVE  FleetInv'
<1>1. /\ event' = event /\ todo' = todo \ {e} /\ lanes' = lanes /\ at' = at
      /\ \A kind : Events(kind)' = Events(kind)
      /\ ActiveImages' = ActiveImages /\ Blocked' = Blocked
  BY FactsStay DEF Settle, Skip
<1>2. FleetTyped'
  BY <1>1 DEF FleetInv, FleetTyped, Intervals, Interval
<1>3. IsReserved'
  BY <1>1 DEF FleetInv, IsReserved, Image
<1>4. InLanes'
  <2>1. ActiveCount \in Nat /\ ActiveCount' \in Nat /\ ActiveCount <= ActiveCount'
    BY CountGrows DEF FleetInv
  <2>2. Unsettled("active")' \subseteq Unsettled("active")
    BY <1>1 DEF Unsettled
  <2>3. Blocked \in Int /\ \A g \in Event : at[g] # Nowhere => at[g][1] \in Int
    BY FleetAssumption DEF FleetInv, FleetTyped, Spot, StartupLane
  <2> SUFFICES ASSUME NEW g \in Event, at[g] # Nowhere
               PROVE  /\ event[g].kind = "active" =>
                           /\ Blocked <= at[g][1] /\ at[g][1] < Blocked + ActiveCount'
                           /\ Now < at[g][3]
                           /\ \A f \in Event \ {g} :
                                at[f] # Nowhere /\ event[f].kind = "active" => at[f][1] # at[g][1]
                      /\ event[g].kind = "waiting" => Blocked <= at[g][1]
                      /\ event[g].kind = "finished" => at[g][3] <= Now
                      /\ event[g].kind # "active" => Unsettled("active")' = {}
    BY <1>1 DEF InLanes
  <2>4. /\ event[g].kind = "active" =>
             /\ Blocked <= at[g][1] /\ at[g][1] < Blocked + ActiveCount
             /\ Now < at[g][3]
             /\ \A f \in Event \ {g} :
                  at[f] # Nowhere /\ event[f].kind = "active" => at[f][1] # at[g][1]
        /\ event[g].kind = "waiting" => Blocked <= at[g][1]
        /\ event[g].kind = "finished" => at[g][3] <= Now
        /\ event[g].kind # "active" => Unsettled("active") = {}
    BY DEF FleetInv, InLanes
  <2> QED
    BY <2>1, <2>2, <2>3, <2>4
<1>5. KeptApart' /\ SharingDoubted'
  BY <1>1 DEF FleetInv, KeptApart, SharingDoubted, Image, Overlap
<1> QED
  BY <1>2, <1>3, <1>4, <1>5 DEF FleetInv

\* A place that is taken in the order of the kinds, and for work that waits
\* where nothing is in the way, keeps the plan sound.
LEMMA ReserveKeeps ==
  ASSUME FleetInv, NEW e \in todo, Settle(e), doubts \subseteq doubts',
         NEW lane \in StartupLane, NEW start \in Int, NEW end \in Int, NEW buffer \in Nat,
         start < end, Reserve(e, lane, start, end, buffer),
         event[e].kind = "active" => Now < end /\ lane = Blocked + ActiveCount,
         event[e].kind = "finished" => end <= Now,
         event[e].kind # "active" => Unsettled("active") = {},
         event[e].kind = "waiting" =>
           /\ Blocked <= lane
           /\ \A i \in InTheWay(e, lane) : ~Meets(i, start, end)
  PROVE  FleetInv'
<1>1. /\ event' = event /\ todo' = todo \ {e}
      /\ \A kind : Events(kind)' = Events(kind)
      /\ ActiveImages' = ActiveImages /\ Blocked' = Blocked
  BY FactsStay DEF Settle
<1>2. e \in Event /\ at \in [Event -> {Nowhere} \union Spot] /\ event \in [Event -> Fact]
  BY DEF FleetInv, FleetTyped
<1>3. PICK spot : spot = <<lane, start, end>>
  OBVIOUS
<1>4. spot \in Spot /\ spot # Nowhere /\ spot[1] = lane /\ spot[2] = start /\ spot[3] = end
  BY <1>3, NowhereIsNoSpot DEF Spot
<1>5. at' = [at EXCEPT ![e] = spot]
  BY <1>3 DEF Reserve
<1>6. at'[e] = spot /\ \A g \in Event \ {e} : at'[g] = at[g]
  BY <1>2, <1>5
<1>7. PICK j : j = [lane |-> lane, start |-> start, end |-> end + buffer,
                    image |-> {Image(e)}, of |-> {e}]
  OBVIOUS
<1>8. lanes' = lanes \union {j} /\ Interval(j) /\ end <= j.end
      /\ j.lane = lane /\ j.start = start /\ j.image = {Image(e)} /\ j.of = {e}
  BY <1>7 DEF Reserve, Interval, StartupLane
<1>9. at[e] = Nowhere
  BY <1>2 DEF FleetInv, IsReserved
<1>10. /\ ActiveCount \in Nat /\ ActiveCount' \in Nat /\ ActiveCount <= ActiveCount'
       /\ event[e].kind = "active" => ActiveCount' = ActiveCount + 1
  BY CountGrows DEF FleetInv
<1>11. Blocked \in 0 .. SlotCount /\ Blocked \in Int /\ lane \in Int
  BY FleetAssumption DEF FleetInv, FleetTyped, StartupLane
<1>12. \A g \in Event : at[g] # Nowhere => at[g][1] \in Int /\ at[g][2] \in Int /\ at[g][3] \in Int
  BY <1>2 DEF Spot, StartupLane
<1>13. Unsettled("active")' \subseteq Unsettled("active")
  BY <1>1 DEF Unsettled
<1>14. FleetTyped'
  <2>1. at' \in [Event -> {Nowhere} \union Spot]
    BY <1>2, <1>4, <1>5
  <2>2. Intervals(lanes')
    <3>1. IsFiniteSet(lanes')
      BY <1>8, FS_AddElement DEF FleetInv, FleetTyped, Intervals
    <3> QED
      BY <1>8, <3>1 DEF FleetInv, FleetTyped, Intervals
  <2>3. Intervals(lanes)'
    BY <2>2 DEF Intervals, Interval
  <2> QED
    BY <1>1, <2>1, <2>3 DEF FleetInv, FleetTyped
<1>15. IsReserved'
  <2>1. ASSUME NEW g \in Event, at'[g] # Nowhere
        PROVE  /\ g \notin todo' /\ at'[g][2] < at'[g][3]
               /\ \E i \in lanes' : /\ i.of = {g} /\ i.image = {Image(g)} /\ i.lane = at'[g][1]
                                    /\ i.start = at'[g][2] /\ at'[g][3] <= i.end
    <3>1. CASE g = e
      BY <1>1, <1>4, <1>6, <1>8, <3>1
    <3>2. CASE g # e
      BY <1>1, <1>6, <1>8, <2>1, <3>2 DEF FleetInv, IsReserved
    <3> QED
      BY <3>1, <3>2
  <2>2. \A l \in 0 .. Blocked - 1 : \E i \in lanes' : i.lane = l /\ i.start = Past /\ i.end = Through
    BY <1>8 DEF FleetInv, IsReserved
  <2> QED
    BY <1>1, <2>1, <2>2 DEF IsReserved, Image
<1>16. InLanes'
  <2> SUFFICES ASSUME NEW g \in Event, at'[g] # Nowhere
               PROVE  /\ event[g].kind = "active" =>
                           /\ Blocked <= at'[g][1] /\ at'[g][1] < Blocked + ActiveCount'
                           /\ Now < at'[g][3]
                           /\ \A f \in Event \ {g} :
                                at'[f] # Nowhere /\ event[f].kind = "active" => at'[f][1] # at'[g][1]
                      /\ event[g].kind = "waiting" => Blocked <= at'[g][1]
                      /\ event[g].kind = "finished" => at'[g][3] <= Now
                      /\ event[g].kind # "active" => Unsettled("active")' = {}
    BY <1>1 DEF InLanes
  <2>1. \A f \in Event : at[f] # Nowhere =>
          /\ event[f].kind = "active" =>
               /\ Blocked <= at[f][1] /\ at[f][1] < Blocked + ActiveCount
               /\ Now < at[f][3]
               /\ \A h \in Event \ {f} :
                    at[h] # Nowhere /\ event[h].kind = "active" => at[h][1] # at[f][1]
          /\ event[f].kind = "waiting" => Blocked <= at[f][1]
          /\ event[f].kind = "finished" => at[f][3] <= Now
          /\ event[f].kind # "active" => Unsettled("active") = {}
    BY DEF FleetInv, InLanes
  <2>2. CASE g = e
    <3>1. ASSUME event[e].kind = "active", NEW f \in Event \ {e}, at[f] # Nowhere,
                 event[f].kind = "active"
          PROVE  at[f][1] # lane
      BY <1>10, <1>11, <1>12, <2>1, <3>1
    <3> QED
      BY <1>4, <1>6, <1>10, <1>11, <1>13, <2>2, <3>1
  <2>3. CASE g # e
    <3>1. at'[g] = at[g] /\ at[g] # Nowhere
      BY <1>6, <2>3
    <3>2. ASSUME event[g].kind = "active"
          PROVE  \A f \in Event \ {g} :
                   at'[f] # Nowhere /\ event[f].kind = "active" => at'[f][1] # at[g][1]
      <4>1. event[e].kind = "active" => lane # at[g][1]
        BY <1>10, <1>11, <1>12, <2>1, <3>1, <3>2
      <4> QED
        BY <1>4, <1>6, <2>1, <3>1, <3>2, <4>1
    <3> QED
      BY <1>10, <1>11, <1>12, <1>13, <2>1, <3>1, <3>2
  <2> QED
    BY <2>2, <2>3
<1>17. KeptApart'
  <2>1. ASSUME NEW f \in Event \ {e}, at[f] # Nowhere, event[e].kind = "waiting",
               event[f].kind # "finished",
               Image(e) = Image(f) \/ lane = at[f][1]
        PROVE  ~(start < at[f][3] /\ at[f][2] < end)
    <3>1. PICK i \in lanes : /\ i.image = {Image(f)} /\ i.lane = at[f][1]
                             /\ i.start = at[f][2] /\ at[f][3] <= i.end
      BY <2>1 DEF FleetInv, IsReserved
    <3>2. i \in InTheWay(e, lane)
      BY <2>1, <3>1 DEF InTheWay
    <3>3. ~(start < i.end /\ end > i.start) /\ i.end \in Int
      BY <2>1, <3>1, <3>2 DEF Meets, FleetInv, FleetTyped, Intervals, Interval
    <3> QED
      BY <1>12, <2>1, <3>1, <3>3
  <2>2. ASSUME NEW f \in Event \ {e}, at[f] # Nowhere, event[f].kind = "waiting"
        PROVE  event[e].kind = "waiting" \/ event[e].kind = "finished"
    <3>1. Unsettled("active") = {}
      BY <2>2 DEF FleetInv, InLanes
    <3>2. event[e].kind # "active"
      BY <1>2, <3>1 DEF Unsettled, Events
    <3> QED
      BY <1>2, <3>2 DEF Fact, Kind
  <2> SUFFICES ASSUME NEW f \in Event, NEW g \in Event, f # g, at'[f] # Nowhere, at'[g] # Nowhere,
                      event[f].kind = "waiting", event[g].kind # "finished",
                      Image(f) = Image(g) \/ at'[f][1] = at'[g][1]
               PROVE  ~(at'[f][2] < at'[g][3] /\ at'[g][2] < at'[f][3])
    BY <1>1 DEF KeptApart, Image, Overlap
  <2>3. CASE f = e
    BY <1>4, <1>6, <2>1, <2>3
  <2>4. CASE g = e
    <3>1. event[e].kind = "waiting" /\ f \in Event \ {e} /\ at[f] # Nowhere /\ at'[f] = at[f]
      BY <1>6, <2>2, <2>4
    <3> QED
      BY <1>4, <1>6, <2>1, <2>4, <3>1
  <2>5. CASE f # e /\ g # e
    BY <1>6, <2>5 DEF FleetInv, KeptApart, Overlap
  <2> QED
    BY <2>3, <2>4, <2>5
<1>18. SharingDoubted'
  BY <1>1 DEF FleetInv, SharingDoubted
<1> QED
  BY <1>14, <1>15, <1>16, <1>17, <1>18 DEF FleetInv

LEMMA ActiveKeeps == ASSUME FleetInv, PlaceActive PROVE FleetInv'
<1>1. PICK e : e = First("active")
  OBVIOUS
<1>2. e \in Unsettled("active")
  BY <1>1, FirstIs DEF PlaceActive, FleetInv, FleetTyped, Fact
<1>3. e \in todo /\ e \in Event /\ event[e].kind = "active" /\ event[e] \in Fact
  BY <1>2 DEF Unsettled, Events, FleetInv, FleetTyped
<1>4. PICK start : start = event[e].due
  OBVIOUS
<1>5. PICK end : end = HeldUntil(start, event[e].length)
  OBVIOUS
<1>6. start \in Int /\ end \in Int /\ start < end /\ Now < end
  <2>1. PICK length \in Nat \ {0} : length = event[e].length
    BY <1>3 DEF Fact
  <2>2. start \in Int /\ {Now, Through} \subseteq Int /\ Now < Through
    BY <1>3, <1>4, FleetAssumption DEF Fact
  <2>3. end = IF start + length <= Now THEN Through ELSE start + length
    BY <1>5, <2>1 DEF HeldUntil
  <2> QED
    BY <2>1, <2>2, <2>3
<1>7. PICK lane : lane = Blocked + ActiveCount
  OBVIOUS
<1>8. /\ Settle(e) /\ doubts \subseteq doubts'
      /\ \/ Skip
         \/ lane < SlotCount /\ Reserve(e, lane, start, end, Gap)
  <2>1. ActiveCount \in Nat /\ Blocked \in Nat
    BY EventsAreFinite, FS_CardinalityType, FleetAssumption DEF ActiveCount, FleetInv, FleetTyped
  <2>2. lane \in Nat /\ SlotCount \in Nat
    BY <1>7, <2>1, FleetAssumption
  <2> QED
    BY <1>1, <1>4, <1>5, <1>7, <2>2 DEF PlaceActive, ActiveCount
<1>9. CASE Skip
  BY <1>3, <1>8, <1>9, SkipKeeps
<1>10. CASE lane < SlotCount /\ Reserve(e, lane, start, end, Gap)
  <2>1. ActiveCount \in Nat /\ Blocked \in Nat
    BY EventsAreFinite, FS_CardinalityType, FleetAssumption DEF ActiveCount, FleetInv, FleetTyped
  <2>2. lane \in StartupLane /\ Gap \in Nat
    BY <1>7, <1>10, <2>1, FleetAssumption DEF StartupLane
  <2> QED
    BY <1>3, <1>6, <1>7, <1>8, <1>10, <2>2, ReserveKeeps
<1> QED
  BY <1>8, <1>9, <1>10

LEMMA FinishedKeeps == ASSUME FleetInv, PlaceFinished PROVE FleetInv'
<1>1. PICK e : e = CHOOSE f \in Unsettled("finished") : \A g \in Unsettled("finished") : f <= g
  OBVIOUS
<1>2. e \in Unsettled("finished")
  <2>1. Unsettled("finished") \in SUBSET Nat /\ Unsettled("finished") # {}
    BY FleetAssumption DEF PlaceFinished, Unsettled, FleetInv, FleetTyped
  <2>2. \E f \in Unsettled("finished") : \A g \in Unsettled("finished") : f <= g
    BY <2>1, LeastNumber
  <2> QED
    BY <1>1, <2>2
<1>3. /\ e \in todo /\ e \in Event /\ event[e].kind = "finished" /\ event[e] \in Fact
      /\ event[e].due + event[e].length <= Now
  BY <1>2 DEF Unsettled, Events, FleetInv, FleetTyped
<1>4. PICK start : start = event[e].due
  OBVIOUS
<1>5. PICK end : end = start + event[e].length
  OBVIOUS
<1>6. start \in Int /\ end \in Int /\ start < end /\ end <= Now
  BY <1>3, <1>4, <1>5 DEF Fact
<1>7. PICK free : free = {lane \in StartupLane :
                            \A i \in lanes : i.lane = lane => ~Meets(i, start, end)}
  OBVIOUS
<1>8. /\ Settle(e) /\ doubts' = doubts /\ Unsettled("active") = {}
      /\ \/ Skip
         \/ free # {} /\ Reserve(e, Min(free), start, end, 0)
  BY <1>1, <1>4, <1>5, <1>7 DEF PlaceFinished
<1>9. CASE Skip
  BY <1>3, <1>8, <1>9, SkipKeeps
<1>10. CASE free # {} /\ Reserve(e, Min(free), start, end, 0)
  <2>1. Min(free) \in StartupLane
    <3>1. free \in SUBSET Nat /\ free # {}
      BY <1>7, <1>10, FleetAssumption DEF StartupLane
    <3> QED
      BY <1>7, <3>1, MinIs
  <2> QED
    BY <1>3, <1>6, <1>8, <1>10, <2>1, ReserveKeeps
<1> QED
  BY <1>8, <1>9, <1>10

LEMMA WaitingKeeps == ASSUME FleetInv, PlaceWaiting PROVE FleetInv'
<1>1. PICK e : e = First("waiting")
  OBVIOUS
<1>2. Unsettled("active") = {} /\ Unsettled("finished") = {} /\ todo # {}
  BY DEF PlaceWaiting
<1>3. e \in Unsettled("waiting")
  <2>1. PICK f \in todo : TRUE
    BY <1>2
  <2>2. f \in Event /\ event[f].kind \in Kind
    BY DEF FleetInv, FleetTyped, Fact
  <2>3. f \in Unsettled("waiting")
    BY <1>2, <2>2 DEF Unsettled, Events, Kind
  <2> QED
    BY <1>1, <2>3, FirstIs DEF FleetInv, FleetTyped, Fact
<1>4. e \in todo /\ e \in Event /\ event[e].kind = "waiting" /\ event[e] \in Fact
  BY <1>3 DEF Unsettled, Events, FleetInv, FleetTyped
<1>5. PICK length : length = event[e].length + Startup
  OBVIOUS
<1>6. PICK from : from = Max({Now, event[e].due + event[e].wait})
  OBVIOUS
<1>7. length \in Nat \ {0} /\ from \in Int /\ Now <= from
  <2>1. event[e].due + event[e].wait \in Int /\ Now \in Int
    BY <1>4, FleetAssumption DEF Fact
  <2>2. PICK due : due = event[e].due + event[e].wait
    OBVIOUS
  <2>3. from \in {Now, due} /\ \A x \in {Now, due} : from >= x
    <3>1. \E x \in {Now, due} : \A y \in {Now, due} : x >= y
      BY <2>1, <2>2
    <3> QED
      BY <1>6, <2>2, <3>1 DEF Max
  <2> QED
    BY <1>4, <1>5, <2>1, <2>2, <2>3, FleetAssumption DEF Fact
<1>8. PICK startOn : startOn = [lane \in StartupLane |-> Opening(InTheWay(e, lane), from, length)]
  OBVIOUS
<1>9. ASSUME NEW lane \in StartupLane
      PROVE  /\ startOn[lane] \in Int /\ startOn[lane] >= from
             /\ \A i \in InTheWay(e, lane) : ~Meets(i, startOn[lane], startOn[lane] + length)
  <2>1. Intervals(InTheWay(e, lane))
    BY FS_Subset DEF InTheWay, FleetInv, FleetTyped, Intervals
  <2> QED
    BY <1>7, <1>8, <2>1, OpeningIs
<1>10. PICK starts : starts = {startOn[lane] : lane \in StartupLane}
  OBVIOUS
<1>11. StartupLane \in SUBSET Nat /\ StartupLane # {} /\ IsFiniteSet(StartupLane)
  <2>1. SlotCount \in Nat \ {0} /\ 0 \in Int /\ SlotCount - 1 \in Int
    BY FleetAssumption
  <2>2. IsFiniteSet(0 .. SlotCount - 1)
    BY <2>1, FS_Interval
  <2> QED
    BY <2>1, <2>2 DEF StartupLane
<1>12. PICK start : start = Min(starts)
  OBVIOUS
<1>13. start \in starts
  <2>1. DOMAIN startOn = StartupLane
    BY <1>8
  <2>2. IsFiniteSet(starts)
    BY <1>10, <1>11, <2>1, ImagesAreFinite
  <2>3. starts \in SUBSET Int /\ starts # {}
    BY <1>9, <1>10, <1>11
  <2> QED
    BY <1>12, <2>2, <2>3, LeastIs
<1>14. PICK lane : lane = Min({l \in StartupLane : startOn[l] = start})
  OBVIOUS
<1>15. lane \in StartupLane /\ startOn[lane] = start
  <2>1. PICK best : best = {l \in StartupLane : startOn[l] = start}
    OBVIOUS
  <2>2. best \in SUBSET Nat /\ best # {}
    BY <1>10, <1>11, <1>13, <2>1
  <2>3. lane \in best
    BY <1>14, <2>1, <2>2, MinIs
  <2> QED
    BY <2>1, <2>3
<1>16. /\ Settle(e) /\ doubts' = doubts
       /\ \/ Skip
          \/ start < Through /\ Reserve(e, lane, start, start + length, Gap)
  BY <1>1, <1>5, <1>6, <1>8, <1>10, <1>12, <1>14 DEF PlaceWaiting
<1>17. CASE Skip
  BY <1>4, <1>16, <1>17, SkipKeeps
<1>18. CASE start < Through /\ Reserve(e, lane, start, start + length, Gap)
  <2>1. /\ start \in Int /\ Now <= start /\ start < start + length /\ start + length \in Int
        /\ \A i \in InTheWay(e, lane) : ~Meets(i, start, start + length)
    BY <1>7, <1>9, <1>15, FleetAssumption
  <2>2. Blocked <= lane
    <3> SUFFICES ASSUME lane < Blocked PROVE FALSE
      BY <1>11, <1>15, FleetAssumption DEF FleetInv, FleetTyped
    <3>1. lane \in 0 .. Blocked - 1
      BY <1>11, <1>15, FleetAssumption DEF FleetInv, FleetTyped
    <3>2. PICK i \in lanes : i.lane = lane /\ i.start = Past /\ i.end = Through
      BY <3>1 DEF FleetInv, IsReserved
    <3>3. i \in InTheWay(e, lane)
      BY <3>2 DEF InTheWay
    <3> QED
      BY <1>18, <2>1, <3>2, <3>3, FleetAssumption DEF Meets
  <2>3. Gap \in Nat
    BY FleetAssumption
  <2> QED
    BY <1>2, <1>4, <1>15, <1>16, <1>18, <2>1, <2>2, <2>3, ReserveKeeps
<1> QED
  BY <1>16, <1>17, <1>18

LEMMA FleetSteps == FleetInv /\ [FleetNext]_fleetVars => FleetInv'
<1>1. ASSUME FleetInv, UNCHANGED fleetVars PROVE FleetInv'
  <2>1. /\ \A kind : Events(kind)' = Events(kind)
        /\ ActiveImages' = ActiveImages /\ Blocked' = Blocked
    BY <1>1, FactsStay DEF fleetVars
  <2>2. FleetTyped'
    BY <1>1, <2>1 DEF fleetVars, FleetInv, FleetTyped, Intervals, Interval
  <2>3. IsReserved' /\ KeptApart' /\ SharingDoubted'
    BY <1>1, <2>1 DEF fleetVars, FleetInv, IsReserved, KeptApart, SharingDoubted, Image, Overlap
  <2>4. InLanes'
    BY <1>1, <2>1 DEF fleetVars, FleetInv, InLanes, ActiveCount, Unsettled
  <2> QED
    BY <2>2, <2>3, <2>4 DEF FleetInv
<1> QED
  BY <1>1, ActiveKeeps, FinishedKeeps, WaitingKeeps DEF FleetNext

LEMMA FleetStarts == FleetInit => FleetInv
<1> SUFFICES ASSUME FleetInit PROVE FleetInv
  OBVIOUS
<1>1. /\ event \in [Event -> Fact]
      /\ \A e \in Events("finished") : event[e].due + event[e].length <= Now
      /\ todo = Event /\ at = [e \in Event |-> Nowhere]
      /\ lanes = {[lane |-> lane, start |-> Past, end |-> Through, image |-> {}, of |-> {}] :
                    lane \in 0 .. Blocked - 1}
  <2>1. [kind : Kind, due : DueTimes, length : Runtimes, wait : Waits, closes : Deadlines]
          \subseteq Fact
    BY FleetAssumption DEF Fact
  <2> QED
    BY <2>1 DEF FleetInit
<1>2. IsFiniteSet(ActiveImages) /\ Cardinality(ActiveImages) \in Nat
  <2> DEFINE f == [e \in Events("active") |-> Image(e)]
             T == {f[e] : e \in Events("active")}
  <2>1. IsFiniteSet(T)
    BY EventsAreFinite, ImagesAreFinite
  <2>2. T = ActiveImages
    BY DEF ActiveImages
  <2> QED
    BY <2>1, <2>2, FS_CardinalityType
<1>3. IsFiniteSet(online)
  <2>1. PICK p : online \in {ActiveImages, {}, ActiveImages \union {p}}
    BY DEF FleetInit
  <2>2. IsFiniteSet(ActiveImages \union {p}) /\ IsFiniteSet({})
    BY <1>2, FS_AddElement, FS_EmptySet
  <2> QED
    BY <1>2, <2>1, <2>2
<1>4. Blocked \in 0 .. SlotCount
  <2>1. PICK x \in Int : x = used - Cardinality(ActiveImages)
    <3>1. Cardinality(online) \in Nat /\ SlotCount \in Nat
      BY <1>3, FS_CardinalityType, FleetAssumption
    <3> QED
      BY <1>2, <3>1 DEF FleetInit
  <2>2. PICK y \in Nat : y = Cardinality(online \ ActiveImages)
    <3>1. IsFiniteSet(online \ ActiveImages)
      BY <1>3, FS_Subset
    <3> QED
      BY <3>1, FS_CardinalityType
  <2>3. Unknown = Max({0, x, y})
    BY <2>1, <2>2 DEF Unknown
  <2>4. PICK b \in {0, x, y} : b >= 0 /\ b >= x /\ b >= y
    OBVIOUS
  <2>5. Max({0, x, y}) \in {0, x, y} /\ \A z \in {0, x, y} : Max({0, x, y}) >= z
    BY <2>4 DEF Max
  <2>6. Unknown \in Nat
    BY <2>3, <2>5
  <2>7. SlotCount \in Nat
    BY FleetAssumption
  <2>8. Blocked = IF SlotCount <= Unknown THEN SlotCount ELSE Unknown
    BY <2>6, <2>7, MinOfTwo DEF Blocked
  <2> QED
    BY <2>6, <2>7, <2>8
<1>5. Intervals(lanes)
  <2> DEFINE f == [l \in 0 .. Blocked - 1 |->
                     [lane |-> l, start |-> Past, end |-> Through, image |-> {}, of |-> {}]]
             T == {f[l] : l \in 0 .. Blocked - 1}
  <2>1. Blocked \in Nat /\ 0 \in Int /\ Blocked - 1 \in Int
    BY <1>4, FleetAssumption
  <2>2. IsFiniteSet(0 .. Blocked - 1)
    BY <2>1, FS_Interval
  <2>3. IsFiniteSet(T)
    BY <2>2, ImagesAreFinite
  <2>4. T = lanes
    BY <1>1
  <2>5. \A i \in lanes : Interval(i)
    BY <1>1, <2>1, FleetAssumption DEF Interval
  <2> QED
    BY <2>3, <2>4, <2>5 DEF Intervals
<1>6. FleetTyped
  BY <1>1, <1>4, <1>5 DEF FleetTyped
<1>7. IsReserved
  <2>1. ASSUME NEW l \in 0 .. Blocked - 1
        PROVE  \E i \in lanes : i.lane = l /\ i.start = Past /\ i.end = Through
    <3>1. PICK i : i = [lane |-> l, start |-> Past, end |-> Through, image |-> {}, of |-> {}]
      OBVIOUS
    <3>2. i \in lanes
      BY <1>1, <3>1
    <3> QED
      BY <3>1, <3>2
  <2> QED
    BY <1>1, <2>1 DEF IsReserved
<1>8. InLanes /\ KeptApart
  BY <1>1 DEF InLanes, KeptApart
<1>9. SharingDoubted
  BY DEF FleetInit, SharingDoubted
<1> QED
  BY <1>6, <1>7, <1>8, <1>9 DEF FleetInv

\* While nothing is doubted, active runs use different phones.
LEMMA ActivePhonesDiffer ==
  ASSUME FleetInv, Reliable, NEW e \in Events("active"), NEW f \in Events("active"),
         Image(e) = Image(f)
  PROVE  e = f
<1>1. PICK g : g = [h \in Events("active") |-> Image(h)]
  OBVIOUS
<1>2. g \in Surjection(Events("active"), ActiveImages)
  BY <1>1 DEF Surjection, ActiveImages
<1>3. IsFiniteSet(Events("active"))
  BY EventsAreFinite
<1>4. /\ IsFiniteSet(ActiveImages)
      /\ Cardinality(ActiveImages) <= Cardinality(Events("active"))
      /\ Cardinality(ActiveImages) = Cardinality(Events("active"))
           <=> g \in Injection(Events("active"), ActiveImages)
  BY <1>2, <1>3, FS_Surjection
<1>5. Cardinality(ActiveImages) = Cardinality(Events("active"))
  <2>1. Cardinality(ActiveImages) \in Nat /\ Cardinality(Events("active")) \in Nat
    BY <1>3, <1>4, FS_CardinalityType
  <2> QED
    BY <1>4, <2>1 DEF FleetInv, SharingDoubted, Reliable
<1> QED
  BY <1>1, <1>4, <1>5 DEF Injection, IsInjective

\* At a moment that is not over, what holds a slot holds a lane of its own.
LEMMA HoldersDiffer ==
  ASSUME FleetInv, NEW m \in Int, Now <= m, NEW e \in Event, Holds(e, m)
  PROVE  /\ at[e][1] \in StartupLane /\ at[e][1] \notin 0 .. Blocked - 1
         /\ at[e][2] <= m /\ m < at[e][3]
         /\ \A f \in Event : Holds(f, m) /\ at[f][1] = at[e][1] => f = e
<1>1. ASSUME NEW f \in Event, Holds(f, m)
      PROVE  /\ at[f] # Nowhere /\ at[f] \in Spot
             /\ event[f].kind \in {"active", "waiting"}
             /\ at[f][2] <= m /\ m < at[f][3] /\ Blocked <= at[f][1]
  <2>1. at[f] # Nowhere /\ at[f][2] <= m
    BY <1>1 DEF Holds
  <2>2. at[f] \in Spot /\ event[f].kind \in Kind
    BY <2>1 DEF FleetInv, FleetTyped, Fact
  <2>3. at[f][3] \in Int /\ Now \in Int
    BY <2>2, FleetAssumption DEF Spot
  <2>4. /\ event[f].kind = "active" => Now < at[f][3] /\ Blocked <= at[f][1]
        /\ event[f].kind = "waiting" => Blocked <= at[f][1]
        /\ event[f].kind = "finished" => at[f][3] <= Now
    BY <2>1 DEF FleetInv, InLanes
  <2>5. m < at[f][3]
    BY <1>1, <2>3, <2>4 DEF Holds
  <2> QED
    BY <2>1, <2>2, <2>3, <2>4, <2>5 DEF Kind
<1>2. ASSUME NEW f \in Event, Holds(f, m), at[f][1] = at[e][1], f # e PROVE FALSE
  <2>1. CASE event[e].kind = "active" /\ event[f].kind = "active"
    BY <1>1, <1>2, <2>1 DEF FleetInv, InLanes
  <2>2. CASE event[e].kind = "waiting" \/ event[f].kind = "waiting"
    <3>1. /\ at[e][2] <= m /\ m < at[e][3] /\ at[f][2] <= m /\ m < at[f][3]
          /\ at[e][2] \in Int /\ at[e][3] \in Int /\ at[f][2] \in Int /\ at[f][3] \in Int
      BY <1>1, <1>2 DEF Spot
    <3>2. Overlap(e, f) /\ Overlap(f, e)
      BY <3>1 DEF Overlap
    <3> QED
      BY <1>1, <1>2, <2>2, <3>2 DEF FleetInv, KeptApart
  <2> QED
    BY <1>1, <1>2, <2>1, <2>2
<1> QED
  BY <1>1, <1>2, FleetAssumption DEF Spot, StartupLane, FleetInv, FleetTyped

LEMMA LanesAre ==
  FleetInv => /\ IsFiniteSet(StartupLane) /\ Cardinality(StartupLane) = SlotCount
              /\ IsFiniteSet(0 .. Blocked - 1) /\ Cardinality(0 .. Blocked - 1) = Blocked
              /\ 0 .. Blocked - 1 \subseteq StartupLane
<1> SUFFICES ASSUME FleetInv PROVE /\ IsFiniteSet(StartupLane) /\ Cardinality(StartupLane) = SlotCount
              /\ IsFiniteSet(0 .. Blocked - 1) /\ Cardinality(0 .. Blocked - 1) = Blocked
              /\ 0 .. Blocked - 1 \subseteq StartupLane
  OBVIOUS
<1>1. SlotCount \in Nat \ {0} /\ Blocked \in Nat /\ Blocked <= SlotCount
  BY FleetAssumption DEF FleetInv, FleetTyped
<1>2. 0 \in Int /\ SlotCount - 1 \in Int /\ Blocked - 1 \in Int
  BY <1>1
<1>3. /\ IsFiniteSet(0 .. SlotCount - 1)
      /\ Cardinality(0 .. SlotCount - 1) = IF 0 > SlotCount - 1 THEN 0 ELSE (SlotCount - 1) - 0 + 1
  BY <1>2, FS_Interval
<1>4. /\ IsFiniteSet(0 .. Blocked - 1)
      /\ Cardinality(0 .. Blocked - 1) = IF 0 > Blocked - 1 THEN 0 ELSE (Blocked - 1) - 0 + 1
  BY <1>2, FS_Interval
<1> QED
  BY <1>1, <1>3, <1>4 DEF StartupLane

\* What holds a slot, the blocked lanes and any other lanes that are not held
\* together fit the slots.
LEMMA HoldersCount ==
  ASSUME FleetInv, NEW m \in Int, Now <= m, NEW L, L \subseteq StartupLane \ (0 .. Blocked - 1),
         \A e \in Event : Holds(e, m) => at[e][1] \in L
  PROVE  /\ IsFiniteSet(L) /\ Cardinality(L) <= SlotCount - Blocked
         /\ Cardinality({e \in Event : Holds(e, m)}) \in Nat
         /\ Cardinality({e \in Event : Holds(e, m)}) <= Cardinality(L)
<1>1. PICK H : H = {e \in Event : Holds(e, m)}
  OBVIOUS
<1>2. PICK f : f = [e \in H |-> at[e][1]]
  OBVIOUS
<1>3. PICK K : K = StartupLane \ (0 .. Blocked - 1)
  OBVIOUS
<1>4. IsFiniteSet(K) /\ Cardinality(K) = SlotCount - Blocked
  <2>1. /\ IsFiniteSet(StartupLane) /\ Cardinality(StartupLane) = SlotCount
        /\ Cardinality(0 .. Blocked - 1) = Blocked /\ 0 .. Blocked - 1 \subseteq StartupLane
    BY LanesAre
  <2>2. /\ StartupLane \cap (0 .. Blocked - 1) = 0 .. Blocked - 1
        /\ Cardinality(StartupLane \ (0 .. Blocked - 1)) =
             Cardinality(StartupLane) - Cardinality(StartupLane \cap (0 .. Blocked - 1))
    BY <2>1, FS_Difference
  <2>3. IsFiniteSet(K)
    BY <1>3, <2>1, FS_Subset
  <2> QED
    BY <1>3, <2>1, <2>2, <2>3
<1>5. IsFiniteSet(L) /\ Cardinality(L) <= Cardinality(K)
  BY <1>3, <1>4, FS_Subset
<1>6. f \in [H -> Nat] /\ H \in SUBSET Event
  <2>1. \A e \in H : at[e][1] \in Nat
    BY <1>1, FleetAssumption, HoldersDiffer DEF StartupLane
  <2> QED
    BY <1>1, <1>2, <2>1
<1>7. \A e \in H : f[e] \in L
  BY <1>1, <1>2
<1>8. \A e, g \in H : f[e] = f[g] => e = g
  BY <1>1, <1>2, HoldersDiffer
<1>9. Cardinality(H) <= Cardinality(L)
  BY <1>5, <1>6, <1>7, <1>8, HoldersFit
<1>10. Cardinality(H) \in Nat
  BY <1>6, FleetAssumption, FS_Subset, FS_CardinalityType
<1> QED
  BY <1>1, <1>4, <1>5, <1>9, <1>10

LEMMA FleetTypeShown == FleetInv => FleetTypeOK
<1> SUFFICES ASSUME FleetInv, NEW e \in Event, at[e] # Nowhere
             PROVE  /\ e \notin todo /\ at[e][1] \in StartupLane /\ at[e][2] < at[e][3]
                    /\ \E i \in lanes : i.of = {e} /\ i.lane = at[e][1] /\ i.start = at[e][2]
  BY DEF FleetTypeOK
<1>1. at[e] \in Spot
  BY DEF FleetInv, FleetTyped
<1> QED
  BY <1>1 DEF FleetInv, IsReserved, Spot

LEMMA SerializedShown == FleetInv => ReliablePlanSerializes
<1> SUFFICES ASSUME FleetInv, Reliable, NEW e \in Event, NEW f \in Event,
                    e # f, at[e] # Nowhere, at[f] # Nowhere,
                    ImageOf[PhoneFor[e]] = ImageOf[PhoneFor[f]] \/ at[e][1] = at[f][1],
                    {event[e].kind, event[f].kind} \subseteq {"active", "waiting"},
                    Overlap(e, f)
             PROVE  FALSE
  BY DEF ReliablePlanSerializes
<1>1. Image(e) = Image(f) \/ at[e][1] = at[f][1]
  BY DEF Image
<1>2. CASE event[e].kind = "active" /\ event[f].kind = "active"
  <2>1. at[e][1] # at[f][1]
    BY <1>2 DEF FleetInv, InLanes
  <2>2. e \in Events("active") /\ f \in Events("active")
    BY <1>2 DEF Events
  <2> QED
    BY <1>1, <2>1, <2>2, ActivePhonesDiffer
<1>3. CASE event[e].kind = "waiting" \/ event[f].kind = "waiting"
  <2>1. Overlap(f, e)
    BY DEF Overlap
  <2> QED
    BY <1>1, <1>3, <2>1 DEF FleetInv, KeptApart
<1> QED
  BY <1>2, <1>3

LEMMA NotOverbooked == FleetInv => NeverOverbooked
<1> SUFFICES ASSUME FleetInv, NEW m \in Now .. Through - 1
             PROVE  Blocked + Cardinality({e \in Event : Holds(e, m)}) <= SlotCount
  BY DEF NeverOverbooked
<1>1. m \in Int /\ Now <= m
  BY FleetAssumption
<1>2. PICK L : L = StartupLane \ (0 .. Blocked - 1)
  OBVIOUS
<1>3. \A e \in Event : Holds(e, m) => at[e][1] \in L
  BY <1>1, <1>2, HoldersDiffer
<1>4. /\ IsFiniteSet(L) /\ Cardinality(L) <= SlotCount - Blocked
      /\ Cardinality({e \in Event : Holds(e, m)}) \in Nat
      /\ Cardinality({e \in Event : Holds(e, m)}) <= Cardinality(L)
  BY <1>1, <1>2, <1>3, HoldersCount
<1>5. Cardinality(L) \in Nat /\ Blocked \in Int /\ SlotCount \in Int
  BY <1>4, FS_CardinalityType, FleetAssumption DEF FleetInv, FleetTyped
<1> QED
  BY <1>4, <1>5

LEMMA OffersShown == FleetInv => OfferedSlotIsFree
<1> SUFFICES ASSUME FleetInv, NEW length \in Runtimes, NEW s \in OpenSlots(length + Startup, Now),
                    NEW m \in s.start .. s.start + length + Startup - 1
             PROVE  Blocked + Cardinality({e \in Event : Holds(e, m)}) < SlotCount
  BY DEF OfferedSlotIsFree
<1>1. PICK size \in Nat \ {0} : size = length + Startup
  <2>1. length \in Nat \ {0} /\ Startup \in Nat
    BY FleetAssumption
  <2> QED
    BY <2>1
<1>2. PICK l \in StartupLane :
        s = [lane |-> l, start |-> Opening({i \in lanes : i.lane = l}, Now, size)]
  BY <1>1 DEF OpenSlots
<1>3. s.lane = l /\ s.start + size <= Through
  BY <1>1, <1>2 DEF OpenSlots
<1>4. PICK own : own = {i \in lanes : i.lane = l}
  OBVIOUS
<1>5. Intervals(own)
  BY <1>4, FS_Subset DEF FleetInv, FleetTyped, Intervals
<1>6. Now \in Int
  BY FleetAssumption
<1>7. s.start \in Int /\ s.start >= Now /\ \A i \in own : ~Meets(i, s.start, s.start + size)
  BY <1>1, <1>2, <1>4, <1>5, <1>6, OpeningIs
<1>8. m \in Int /\ Now <= m /\ s.start <= m /\ m < s.start + size
  <2>1. length \in Nat /\ Startup \in Nat
    BY FleetAssumption
  <2> QED
    BY <1>1, <1>6, <1>7, <2>1
<1>9. l \notin 0 .. Blocked - 1
  <2> SUFFICES ASSUME l \in 0 .. Blocked - 1 PROVE FALSE
    OBVIOUS
  <2>1. PICK i \in lanes : i.lane = l /\ i.start = Past /\ i.end = Through
    BY DEF FleetInv, IsReserved
  <2>2. ~Meets(i, s.start, s.start + size)
    BY <1>4, <1>7, <2>1
  <2> QED
    BY <1>1, <1>3, <1>7, <2>1, <2>2, FleetAssumption DEF Meets
<1>10. ASSUME NEW e \in Event, Holds(e, m), at[e][1] = l PROVE FALSE
  <2>1. at[e] # Nowhere
    BY <1>10 DEF Holds
  <2>2. at[e][2] <= m /\ m < at[e][3] /\ at[e][3] \in Int
    BY <1>8, <1>10, <2>1, HoldersDiffer DEF FleetInv, FleetTyped, Spot
  <2>3. PICK i \in lanes : i.lane = l /\ i.start = at[e][2] /\ at[e][3] <= i.end
    BY <1>10, <2>1 DEF FleetInv, IsReserved
  <2>4. i \in own /\ i.start \in Int /\ i.end \in Int
    BY <1>4, <2>3 DEF FleetInv, FleetTyped, Intervals, Interval
  <2>5. ~Meets(i, s.start, s.start + size)
    BY <1>7, <2>4
  <2> QED
    BY <1>1, <1>7, <1>8, <2>2, <2>3, <2>4, <2>5 DEF Meets
<1>11. PICK K : K = StartupLane \ (0 .. Blocked - 1)
  OBVIOUS
<1>12. PICK L : L = K \ {l}
  OBVIOUS
<1>13. \A e \in Event : Holds(e, m) => at[e][1] \in L
  BY <1>8, <1>10, <1>11, <1>12, HoldersDiffer
<1>14. /\ Cardinality({e \in Event : Holds(e, m)}) \in Nat
       /\ Cardinality({e \in Event : Holds(e, m)}) <= Cardinality(L)
  BY <1>8, <1>11, <1>12, <1>13, HoldersCount
<1>15. Cardinality(L) = Cardinality(K) - 1 /\ Cardinality(K) <= SlotCount - Blocked
       /\ Cardinality(K) \in Nat
  <2>1. IsFiniteSet(StartupLane) /\ IsFiniteSet(K)
    BY <1>11, LanesAre, FS_Subset
  <2>2. Cardinality(L) = Cardinality(K) - 1
    BY <1>9, <1>11, <1>12, <2>1, FS_RemoveElement
  <2>3. \A e \in Event : Holds(e, m) => at[e][1] \in K
    BY <1>12, <1>13
  <2>4. Cardinality(K) <= SlotCount - Blocked
    BY <1>8, <1>11, <2>3, HoldersCount
  <2> QED
    BY <2>1, <2>2, <2>4, FS_CardinalityType
<1>16. Blocked \in Int /\ SlotCount \in Int
  BY FleetAssumption DEF FleetInv, FleetTyped
<1> QED
  BY <1>14, <1>15, <1>16

\* The forecast of the fleet calendar holds whatever is due and however much:
\* a reliable plan uses no phone and no lane twice at a time, no moment has more
\* tasks than slots, and an open slot that is offered is free.
THEOREM ForecastHolds == FleetSpec => []FleetHolds
<1>1. FleetInv => FleetHolds
  BY FleetTypeShown, SerializedShown, NotOverbooked, OffersShown DEF FleetHolds
<1> QED
  BY <1>1, FleetStarts, FleetSteps, PTL DEF FleetSpec

-----------------------------------------------------------------------------
(* Cycle programs: the launch form.                                        *)

\* The templates of what is drafted, sent and published exist.
Templated(p) == p.daily \in Template /\ p.later \in Template
OfTemplates ==
  /\ draft # NoDraft => Templated(draft)
  /\ request # NoProgram => Templated(request)
  /\ program # NoProgram => Templated(program)

ProgramInv == OfTemplates /\ FormAsksWhatRouteNeeds

LEMMA PairsAreFinite ==
  ASSUME NEW x, NEW y
  PROVE  IsFiniteSet({x, y}) /\ (x # y => Cardinality({x, y}) = 2)
<1>1. IsFiniteSet({}) /\ Cardinality({}) = 0 /\ {x} = {} \cup {x}
  BY FS_EmptySet
<1>2. IsFiniteSet({x}) /\ Cardinality({x}) = 1
  BY <1>1, FS_AddElement
<1>3. {x, y} = {x} \cup {y}
  OBVIOUS
<1> QED
  BY <1>2, <1>3, FS_AddElement

\* Where the types agree, the form gives every variable the type that each
\* template wants.
LEMMA TypesAgree ==
  ASSUME NEW p, Templated(p), ~Conflicting(p), NEW c \in Configs(p), NEW v \in DOMAIN c
  PROVE  TypeShown(p, v) = c[v].type
<1> DEFINE types == {e.type : e \in Entries(p, v)}
<1>1. v \in Variables(p) /\ c[v] \in Entries(p, v)
  BY DEF Variables, Entries
<1>2. c[v].type \in VarType
  BY ProgramAssumption DEF Configs, Templated
<1>3. TypeShown(p, v) \in types
  BY <1>1, <1>2 DEF TypeShown
<1>4. IsFiniteSet(types)
  <2>1. types \subseteq {SchemaOf[p.daily][v].type, SchemaOf[p.later][v].type}
    BY DEF Entries, Configs
  <2> QED
    BY <2>1, PairsAreFinite, FS_Subset
<1>5. Cardinality(types) \in Nat /\ ~(Cardinality(types) > 1)
  BY <1>1, <1>4, FS_CardinalityType DEF Conflicting
<1>6. ASSUME TypeShown(p, v) # c[v].type PROVE FALSE
  <2> DEFINE two == {TypeShown(p, v), c[v].type}
  <2>1. Cardinality(two) = 2
    BY <1>6, PairsAreFinite
  <2>2. two \subseteq types
    BY <1>1, <1>3
  <2>3. Cardinality(two) <= Cardinality(types)
    BY <1>4, <2>2, FS_Subset
  <2> QED
    BY <1>5, <2>1, <2>3
<1> QED
  BY <1>6

\* Whatever optional variables the form leaves out, the route can do without.
LEMMA LaunchResolves ==
  ASSUME ProgramInv, Launch
  PROVE  launched' = "accepted"
<1>1. PICK filled \in SUBSET Variables(program) :
        /\ Required(program) \subseteq filled
        /\ bindings' = [v \in filled |-> TypeShown(program, v)]
        /\ launched' = IF \A c \in Configs(program) : Resolves(c, bindings')
                       THEN "accepted" ELSE "refused"
  BY DEF Launch
<1>2. Templated(program) /\ ~Conflicting(program)
  BY DEF Launch, ProgramInv, OfTemplates
<1>3. ASSUME NEW c \in Configs(program), NEW v \in DOMAIN c
      PROVE  IF v \in DOMAIN bindings' THEN bindings'[v] = c[v].type ELSE ~c[v].required
  <2>1. CASE v \in filled
    <3>1. TypeShown(program, v) = c[v].type
      BY <1>2, TypesAgree
    <3> QED
      BY <1>1, <2>1, <3>1
  <2>2. CASE v \notin filled
    <3>1. v \in Variables(program) /\ c[v] \in Entries(program, v)
      BY DEF Variables, Entries
    <3>2. ~c[v].required
      BY <1>1, <2>2, <3>1 DEF Required
    <3> QED
      BY <1>1, <2>2, <3>2
  <2> QED
    BY <2>1, <2>2
<1> QED
  BY <1>1, <1>3 DEF Resolves

LEMMA ProgramsBegin == ProgramInit => ProgramInv
BY DEF ProgramInit, ProgramInv, OfTemplates, FormAsksWhatRouteNeeds

LEMMA ProgramSteps == ProgramInv /\ [ProgramNext]_programVars => ProgramInv'
<1> SUFFICES ASSUME ProgramInv, [ProgramNext]_programVars PROVE ProgramInv'
  OBVIOUS
<1> USE DEF ProgramInv, OfTemplates, FormAsksWhatRouteNeeds
<1>1. CASE Draft
  BY <1>1 DEF Draft, Drafts, Templated
<1>2. CASE Submit
  BY <1>2 DEF Submit, Program, Templated
<1>3. CASE Send
  BY <1>3 DEF Send, Program, Templated
<1>4. CASE Publish
  <2>1. /\ program' = [request EXCEPT !.rules = {Dated(request.plan, rule) : rule \in request.rules}]
        /\ request # NoProgram /\ UNCHANGED <<draft, request, launched>>
    BY <1>4 DEF Publish
  <2>2. program'.daily = request.daily /\ program'.later = request.later
    BY <2>1
  <2> QED
    BY <2>1, <2>2 DEF Templated
<1>5. CASE Launch
  BY <1>5, LaunchResolves DEF Launch
<1>6. CASE UNCHANGED programVars
  BY <1>6 DEF programVars
<1> QED
  BY <1>1, <1>2, <1>3, <1>4, <1>5, <1>6 DEF ProgramNext

-----------------------------------------------------------------------------
(* Cycle programs: sums.                                                   *)

\* The sums that are taken, of at most five numbers.
FirstOf(f, i) ==
  IF i = 0 THEN 0 ELSE IF i = 1 THEN f[1] ELSE IF i = 2 THEN f[1] + f[2]
  ELSE IF i = 3 THEN f[1] + f[2] + f[3] ELSE IF i = 4 THEN f[1] + f[2] + f[3] + f[4]
  ELSE f[1] + f[2] + f[3] + f[4] + f[5]

LEMMA SumIs ==
  ASSUME NEW f, NEW n \in 0 .. 5, \A i \in 1 .. n : f[i] \in Int
  PROVE  SumTo(f, n) = FirstOf(f, n)
<1> DEFINE Rec(h) == [i \in 0 .. n |-> IF i = 0 THEN 0 ELSE h[i - 1] + f[i]]
           g == [i \in 0 .. n |-> FirstOf(f, i)]
           s == CHOOSE h : h = Rec(h)
<1>1. g = Rec(g)
  <2>1. ASSUME NEW i \in 0 .. n PROVE FirstOf(f, i) = IF i = 0 THEN 0 ELSE g[i - 1] + f[i]
    <3>1. CASE i = 0
      BY <3>1 DEF FirstOf
    <3>2. CASE i # 0
      <4>1. i - 1 \in 0 .. n /\ i \in 1 .. n /\ i \in 1 .. 5
        BY <3>2
      <4>2. g[i - 1] = FirstOf(f, i - 1)
        BY <4>1
      <4> HIDE DEF g
      <4>3. FirstOf(f, i) = FirstOf(f, i - 1) + f[i]
        <5>1. \A j \in 1 .. i : f[j] \in Int
          BY <4>1
        <5>2. i = 1 \/ i = 2 \/ i = 3 \/ i = 4 \/ i = 5
          BY <4>1
        <5> QED
          BY <5>1, <5>2 DEF FirstOf
      <4> QED
        BY <3>2, <4>2, <4>3
    <3> QED
      BY <3>1, <3>2
  <2> HIDE DEF g
  <2>2. g = [i \in 0 .. n |-> FirstOf(f, i)]
    BY DEF g
  <2> QED
    BY <2>1, <2>2
<1>2. SumTo(f, n) = s[n]
  BY DEF SumTo
<1> HIDE DEF g
<1>3. s = Rec(s)
  <2> HIDE DEF Rec
  <2> QED
    BY <1>1
<1> HIDE DEF s
<1>4. s[0] = 0 /\ \A i \in 1 .. n : s[i] = s[i - 1] + f[i]
  <2>1. \A i \in 0 .. n : s[i] = IF i = 0 THEN 0 ELSE s[i - 1] + f[i]
    BY <1>3
  <2> QED
    BY <2>1
<1>5. n = 0 \/ n = 1 \/ n = 2 \/ n = 3 \/ n = 4 \/ n = 5
  OBVIOUS
<1> QED
  BY <1>2, <1>4, <1>5 DEF FirstOf

-----------------------------------------------------------------------------
(* Cycle programs: runs, as pairs of a rule and a day.                     *)

\* A run is a rule and a day it runs on.
RunsOf(rules) == UNION {{r} \X Expand(r) : r \in rules}

LEMMA Apart ==
  ASSUME NEW S, IsFiniteSet(S), NEW T, IsFiniteSet(T), S \cap T = {}
  PROVE  IsFiniteSet(S \cup T) /\ Cardinality(S \cup T) = Cardinality(S) + Cardinality(T)
<1>1. IsFiniteSet(S \cup T)
      /\ Cardinality(S \cup T) = Cardinality(S) + Cardinality(T) - Cardinality({})
  BY FS_Union
<1>2. Cardinality(S) \in Nat /\ Cardinality(T) \in Nat /\ Cardinality({}) = 0
  BY FS_CardinalityType, FS_EmptySet
<1> QED
  BY <1>1, <1>2

LEMMA ARule ==
  ASSUME NEW S, IsFiniteSet(S), NEW x
  PROVE  IsFiniteSet({x} \X S) /\ Cardinality({x} \X S) = Cardinality(S)
<1>1. IsFiniteSet({x}) /\ Cardinality({x}) = 1
  BY FS_Singleton
<1>2. Cardinality(S) \in Nat
  BY FS_CardinalityType
<1>3. IsFiniteSet({x} \X S) /\ Cardinality({x} \X S) = 1 * Cardinality(S)
  BY <1>1, FS_Product
<1> QED
  BY <1>2, <1>3

\* The runs that are planned are counted rule by rule.
LEMMA PlannedRunsIs ==
  ASSUME NEW rules, IsFiniteSet(rules),
         \A r \in rules : IsFiniteSet(Expand(r))
  PROVE  PlannedRuns(rules) = Cardinality(RunsOf(rules))
<1> DEFINE Rec(g) == [s \in SUBSET rules |->
                 IF s = {} THEN 0
                 ELSE LET x == CHOOSE x \in s : TRUE IN Cardinality(Expand(x)) + g[s \ {x}]]
           it == CHOOSE g : g = Rec(g)
           G == [s \in SUBSET rules |-> Cardinality(RunsOf(s))]
<1>1. PlannedRuns(rules) = it[rules]
  BY DEF PlannedRuns, MapThenSumSet, MapThenFoldSet
<1>2. ASSUME NEW s \in SUBSET rules PROVE IsFiniteSet(RunsOf(s))
  <2>1. IsFiniteSet(s)
    BY FS_Subset
  <2>2. IsFiniteSet({{r} \X Expand(r) : r \in s})
    <3> DEFINE g == [r \in s |-> {r} \X Expand(r)]
               T == {{r} \X Expand(r) : r \in s}
    <3>1. g \in Surjection(s, T)
      BY DEF Surjection
    <3> QED
      BY <2>1, <3>1, FS_Surjection
  <2>3. \A T \in {{r} \X Expand(r) : r \in s} : IsFiniteSet(T)
    BY ARule
  <2> QED
    BY <2>2, <2>3, FS_UNION DEF RunsOf
<1>3. ASSUME NEW s \in SUBSET rules, NEW x \in s
      PROVE  Cardinality(RunsOf(s)) = Cardinality(Expand(x)) + Cardinality(RunsOf(s \ {x}))
  <2>1. RunsOf(s) = ({x} \X Expand(x)) \cup RunsOf(s \ {x})
    BY DEF RunsOf
  <2>2. ({x} \X Expand(x)) \cap RunsOf(s \ {x}) = {}
    BY DEF RunsOf
  <2>3. IsFiniteSet(RunsOf(s \ {x})) /\ IsFiniteSet(Expand(x))
    BY <1>2
  <2>4. IsFiniteSet({x} \X Expand(x)) /\ Cardinality({x} \X Expand(x)) = Cardinality(Expand(x))
    BY <2>3, ARule
  <2>5. IsFiniteSet({x} \X Expand(x)) =>
          Cardinality(({x} \X Expand(x)) \cup RunsOf(s \ {x}))
            = Cardinality({x} \X Expand(x)) + Cardinality(RunsOf(s \ {x}))
    BY <2>2, <2>3, Apart, Zenon
  <2> QED
    BY <2>1, <2>4, <2>5
<1>4. Cardinality(RunsOf({})) = 0
  <2>1. RunsOf({}) = {}
    BY DEF RunsOf
  <2> QED
    BY <2>1, FS_EmptySet
<1>5. G = Rec(G)
  <2>1. ASSUME NEW s \in SUBSET rules
        PROVE  G[s] = IF s = {} THEN 0
                      ELSE LET x == CHOOSE x \in s : TRUE IN Cardinality(Expand(x)) + G[s \ {x}]
    <3>1. CASE s = {}
      BY <1>4, <3>1
    <3>2. CASE s # {}
      <4> DEFINE x == CHOOSE y \in s : TRUE
      <4>1. x \in s
        BY <3>2
      <4> HIDE DEF x
      <4>2. G[s] = Cardinality(Expand(x)) + G[s \ {x}]
        BY <1>3, <4>1
      <4> QED
        BY <3>2, <4>2 DEF x
    <3> QED
      BY <3>1, <3>2
  <2> HIDE DEF G
  <2>2. G = [s \in SUBSET rules |-> G[s]]
    BY DEF G
  <2> QED
    BY <2>1, <2>2
<1> HIDE DEF G
<1>6. it = Rec(it)
  <2> HIDE DEF Rec
  <2> QED
    BY <1>5
<1> HIDE DEF it
<1>7. ASSUME NEW s \in SUBSET rules
      PROVE  it[s] = IF s = {} THEN 0
                     ELSE LET x == CHOOSE x \in s : TRUE IN Cardinality(Expand(x)) + it[s \ {x}]
  <2> DEFINE Body(h, t) == IF t = {} THEN 0
                     ELSE LET x == CHOOSE x \in t : TRUE IN Cardinality(Expand(x)) + h[t \ {x}]
  <2>1. it = [t \in SUBSET rules |-> Body(it, t)]
    BY <1>6, Zenon
  <2> HIDE DEF Body
  <2>2. it[s] = Body(it, s)
    BY <2>1
  <2> QED
    BY <2>2 DEF Body
<1> HIDE DEF Rec
<1> DEFINE Bad == {n \in Nat : \E s \in SUBSET rules : Cardinality(s) = n /\ it[s] # Cardinality(RunsOf(s))}
<1>8. Bad = {}
  <2>1. SUFFICES ASSUME Bad # {} PROVE FALSE
    OBVIOUS
  <2>2. PICK n \in Bad : \A m \in Bad : n <= m
    BY <2>1, LeastNumber
  <2>3. PICK s \in SUBSET rules : Cardinality(s) = n /\ it[s] # Cardinality(RunsOf(s))
    OBVIOUS
  <2>4. s # {}
    BY <1>4, <1>7, <2>3
  <2> DEFINE x == CHOOSE y \in s : TRUE
  <2>5. x \in s /\ it[s] = Cardinality(Expand(x)) + it[s \ {x}]
    BY <1>7, <2>4
  <2> HIDE DEF x
  <2>6. IsFiniteSet(s)
    BY FS_Subset
  <2>7. Cardinality(s \ {x}) = n - 1 /\ n - 1 \in Nat /\ s \ {x} \in SUBSET rules
    <3>1. IsFiniteSet(s \ {x}) /\ Cardinality(s \ {x}) = Cardinality(s) - 1
      BY <2>5, <2>6, FS_RemoveElement
    <3>2. Cardinality(s \ {x}) \in Nat
      BY <3>1, FS_CardinalityType
    <3> QED
      BY <2>3, <3>1, <3>2
  <2>8. n - 1 \notin Bad
    BY <2>2, <2>7
  <2>9. it[s \ {x}] = Cardinality(RunsOf(s \ {x}))
    BY <2>7, <2>8
  <2> QED
    BY <1>3, <2>3, <2>5, <2>9
<1>9. Cardinality(rules) \in Nat
  BY FS_CardinalityType
<1> QED
  BY <1>1, <1>8, <1>9

-----------------------------------------------------------------------------
(* Cycle programs: what a plan and its counts give.                        *)

\* What is asked of a plan and of its counts.
PlanOK(plan) == \A i \in 1 .. 4 : plan.days[i] \in Nat
CountsOK(counts) == \A i \in 1 .. 5 : counts[i] \in Nat

\* The first and the last day of each kind.
FirstDay(plan, kind) ==
  IF kind \in {"baseline", "warmup"} THEN 1
  ELSE IF kind = "money" THEN plan.days[1] + 1
  ELSE IF kind = "final_squeeze" THEN plan.days[1] + plan.days[2] + 1
  ELSE plan.days[1] + plan.days[2] + plan.days[3] + 1
LastDay(plan, kind) ==
  IF kind = "warmup" \/ (kind = "baseline" /\ ~plan.continue) THEN plan.days[1]
  ELSE IF kind = "money" THEN plan.days[1] + plan.days[2]
  ELSE IF kind = "final_squeeze" THEN plan.days[1] + plan.days[2] + plan.days[3]
  ELSE plan.days[1] + plan.days[2] + plan.days[3] + plan.days[4]

\* A slot, and the task made of it, by its kind and its number.
SlotOf(plan, counts, kind, index) ==
  [kind |-> kind, index |-> index, first |-> FirstDay(plan, kind), last |-> LastDay(plan, kind),
   minute |-> 480 + (Position(counts, kind, index) * 720) \div BusiestDay(counts),
   app |-> index % 5]
SlotsOf(plan, counts, kind) ==
  {SlotOf(plan, counts, kind, index) : index \in 0 .. CountOf(counts, kind) - 1}
TaskOf(plan, counts, edits, kind, index) ==
  [kind |-> kind, index |-> index, first |-> FirstDay(plan, kind), last |-> LastDay(plan, kind),
   minute |-> Edited(edits.times, <<kind, index>>, SlotOf(plan, counts, kind, index).minute),
   app |-> Edited(edits.apps, <<kind, index>>, index % 5), required |-> TRUE]
TasksFor(plan, counts, edits, kind) ==
  {TaskOf(plan, counts, edits, kind, index) : index \in 0 .. CountOf(counts, kind) - 1}

LEMMA DaysUpTo ==
  ASSUME NEW plan, PlanOK(plan)
  PROVE  /\ SumTo(plan.days, 0) = 0
         /\ SumTo(plan.days, 1) = plan.days[1]
         /\ SumTo(plan.days, 2) = plan.days[1] + plan.days[2]
         /\ SumTo(plan.days, 3) = plan.days[1] + plan.days[2] + plan.days[3]
         /\ SumTo(plan.days, 4) = plan.days[1] + plan.days[2] + plan.days[3] + plan.days[4]
         /\ CycleLength(plan) = plan.days[1] + plan.days[2] + plan.days[3] + plan.days[4]
<1>1. \A n \in 0 .. 4 : SumTo(plan.days, n) = FirstOf(plan.days, n)
  <2> TAKE n \in 0 .. 4
  <2>1. \A i \in 1 .. n : plan.days[i] \in Int
    BY DEF PlanOK
  <2> QED
    BY <2>1, SumIs
<1> QED
  BY <1>1 DEF FirstOf, CycleLength

\* Phases follow one another.
LEMMA WindowsAre ==
  ASSUME NEW plan, PlanOK(plan)
  PROVE  /\ Windows(plan)[1].first = FirstDay(plan, "warmup")
         /\ Windows(plan)[1].last = LastDay(plan, "warmup")
         /\ Windows(plan)[2].first = FirstDay(plan, "money")
         /\ Windows(plan)[2].last = LastDay(plan, "money")
         /\ Windows(plan)[3].first = FirstDay(plan, "final_squeeze")
         /\ Windows(plan)[3].last = LastDay(plan, "final_squeeze")
         /\ Windows(plan)[4].first = FirstDay(plan, "after_action")
         /\ Windows(plan)[4].last = LastDay(plan, "after_action")
BY DaysUpTo DEF Windows, Order, FirstDay, LastDay, PlanOK

LEMMA WindowIs ==
  ASSUME NEW plan, PlanOK(plan), NEW kind \in RulePhase
  PROVE  WindowForRule(plan, kind) = [first |-> FirstDay(plan, kind), last |-> LastDay(plan, kind)]
<1>1. CASE kind = "baseline"
  BY <1>1, DaysUpTo DEF WindowForRule, FirstDay, LastDay
<1>2. CASE kind # "baseline"
  <2> DEFINE i == CHOOSE j \in 1 .. 4 : Order[j] = kind
  <2>1. \E j \in 1 .. 4 : Order[j] = kind
    BY <1>2 DEF RulePhase, Phase, Order
  <2>2. i \in 1 .. 4 /\ Order[i] = kind
    BY <2>1
  <2>3. WindowForRule(plan, kind) = [first |-> Windows(plan)[i].first, last |-> Windows(plan)[i].last]
    BY <1>2 DEF WindowForRule
  <2> HIDE DEF i
  <2>4. \/ i = 1 /\ kind = "warmup"
        \/ i = 2 /\ kind = "money"
        \/ i = 3 /\ kind = "final_squeeze"
        \/ i = 4 /\ kind = "after_action"
    BY <2>2 DEF Order
  <2>5. Windows(plan)[i].first = FirstDay(plan, kind) /\ Windows(plan)[i].last = LastDay(plan, kind)
    BY <2>4, WindowsAre
  <2> QED
    BY <2>3, <2>5
<1> QED
  BY <1>1, <1>2

LEMMA SlotsAre ==
  ASSUME NEW plan, PlanOK(plan), NEW counts
  PROVE  Slots(plan, counts) = UNION {SlotsOf(plan, counts, kind) : kind \in RulePhase}
<1> DEFINE A(kind) ==
             {[kind |-> kind, index |-> index,
               first |-> WindowForRule(plan, kind).first, last |-> WindowForRule(plan, kind).last,
               minute |-> 480 + (Position(counts, kind, index) * 720) \div BusiestDay(counts),
               app |-> index % 5] : index \in 0 .. CountOf(counts, kind) - 1}
<1>1. Slots(plan, counts) = UNION {A(kind) : kind \in RulePhase}
  BY DEF Slots
<1>2. ASSUME NEW kind \in RulePhase PROVE A(kind) = SlotsOf(plan, counts, kind)
  <2>1. WindowForRule(plan, kind).first = FirstDay(plan, kind)
        /\ WindowForRule(plan, kind).last = LastDay(plan, kind)
    BY WindowIs
  <2> QED
    BY <2>1 DEF SlotsOf, SlotOf
<1> HIDE DEF A
<1> QED
  BY <1>1, <1>2

LEMMA TasksAre ==
  ASSUME NEW plan, PlanOK(plan), NEW counts, NEW edits
  PROVE  Tasks(plan, counts, edits) = UNION {TasksFor(plan, counts, edits, kind) : kind \in RulePhase}
<1>1. Tasks(plan, counts, edits)
        = {Task(edits, slot) : slot \in UNION {SlotsOf(plan, counts, kind) : kind \in RulePhase}}
  BY SlotsAre DEF Tasks
<1>2. ASSUME NEW kind \in RulePhase
      PROVE  TasksFor(plan, counts, edits, kind) = {Task(edits, slot) : slot \in SlotsOf(plan, counts, kind)}
  <2>1. \A index : Task(edits, SlotOf(plan, counts, kind, index)) = TaskOf(plan, counts, edits, kind, index)
    BY DEF Task, SlotOf, TaskOf
  <2> QED
    BY <2>1 DEF TasksFor, SlotsOf
<1> QED
  BY <1>1, <1>2

\* The days of a kind can be counted.
LEMMA DaysAre ==
  ASSUME NEW plan, PlanOK(plan), NEW kind \in RulePhase
  PROVE  /\ FirstDay(plan, kind) \in Nat /\ LastDay(plan, kind) \in Nat
         /\ IsFiniteSet(FirstDay(plan, kind) .. LastDay(plan, kind))
         /\ Cardinality(FirstDay(plan, kind) .. LastDay(plan, kind))
              = LastDay(plan, kind) - FirstDay(plan, kind) + 1
<1>1. /\ FirstDay(plan, kind) \in Nat /\ LastDay(plan, kind) \in Nat
      /\ FirstDay(plan, kind) <= LastDay(plan, kind) + 1
  BY DEF FirstDay, LastDay, PlanOK, RulePhase, Phase
<1>2. FirstDay(plan, kind) \in Int /\ LastDay(plan, kind) \in Int
  BY <1>1
<1> QED
  BY <1>1, <1>2, FS_Interval

LEMMA CountsAre ==
  ASSUME NEW counts, CountsOK(counts)
  PROVE  /\ \A kind \in RulePhase : CountOf(counts, kind) \in Nat
         /\ counts[1] \in Nat /\ CountOf(counts, "baseline") = counts[1]
         /\ AllTasks(counts) = CountOf(counts, "baseline") + CountOf(counts, "money")
              + CountOf(counts, "final_squeeze") + CountOf(counts, "after_action")
              + CountOf(counts, "warmup")
<1>1. \A i \in 1 .. 5 : counts[i] \in Int
  BY DEF CountsOK
<1>2. SumTo(counts, 5) = FirstOf(counts, 5)
  BY <1>1, SumIs
<1>3. \A kind \in RulePhase : CountOf(counts, kind) \in Nat
  BY DEF CountOf, RulePhase, Phase, CountsOK
<1>4. counts[1] \in Nat /\ CountOf(counts, "baseline") = counts[1]
  BY DEF CountOf, CountsOK
<1>5. AllTasks(counts) = CountOf(counts, "baseline") + CountOf(counts, "money")
        + CountOf(counts, "final_squeeze") + CountOf(counts, "after_action")
        + CountOf(counts, "warmup")
  BY <1>1, <1>2 DEF CountOf, AllTasks, FirstOf
<1> QED
  BY <1>3, <1>4, <1>5

\* The tasks of one kind are as many as were asked for, each on all days of its kind.
LEMMA TasksForAre ==
  ASSUME NEW plan, PlanOK(plan), NEW counts, CountsOK(counts),
         NEW edits, NEW kind \in RulePhase
  PROVE  LET S == TasksFor(plan, counts, edits, kind)
             D == FirstDay(plan, kind) .. LastDay(plan, kind)
         IN  /\ IsFiniteSet(S) /\ Cardinality(S) = CountOf(counts, kind)
             /\ \A r \in S : Expand(r) = D
             /\ RunsOf(S) = S \X D
             /\ IsFiniteSet(RunsOf(S))
             /\ Cardinality(RunsOf(S)) = CountOf(counts, kind) * Cardinality(D)
<1> DEFINE S == TasksFor(plan, counts, edits, kind)
           D == FirstDay(plan, kind) .. LastDay(plan, kind)
           n == CountOf(counts, kind)
           f == [index \in 0 .. n - 1 |-> TaskOf(plan, counts, edits, kind, index)]
<1>1. n \in Nat
  BY CountsAre
<1>2. f \in Surjection(0 .. n - 1, S)
  BY DEF Surjection, TasksFor
<1>3. f \in Injection(0 .. n - 1, S)
  BY DEF Injection, IsInjective, TasksFor, TaskOf
<1> HIDE DEF n
<1>4. IsFiniteSet(0 .. n - 1) /\ Cardinality(0 .. n - 1) = n
  BY <1>1, FS_Interval
<1> HIDE DEF S, f
<1>5. IsFiniteSet(S) /\ Cardinality(S) = n
  BY <1>2, <1>3, <1>4, FS_Surjection
<1>6. \A r \in S : Expand(r) = D
  <2>1. \A index : Expand(TaskOf(plan, counts, edits, kind, index)) = D
    BY DEF TaskOf, Expand
  <2> QED
    BY <2>1 DEF S, TasksFor
<1>7. IsFiniteSet(D)
  BY DaysAre
<1> HIDE DEF D
<1>8. RunsOf(S) = S \X D
  BY <1>6 DEF RunsOf
<1>9. IsFiniteSet(S \X D) /\ Cardinality(S \X D) = n * Cardinality(D)
  BY <1>5, <1>7, FS_Product
<1> QED
  BY <1>5, <1>6, <1>8, <1>9 DEF S, D, n

-----------------------------------------------------------------------------
(* Cycle programs: the rules, counted.                                     *)

LEMMA FiveApart ==
  ASSUME NEW A, NEW B, NEW C, NEW D, NEW E,
         IsFiniteSet(A), IsFiniteSet(B), IsFiniteSet(C), IsFiniteSet(D), IsFiniteSet(E),
         B \cap A = {}, C \cap A = {}, C \cap B = {}, D \cap A = {}, D \cap B = {}, D \cap C = {},
         E \cap A = {}, E \cap B = {}, E \cap C = {}, E \cap D = {}
  PROVE  LET U == (((A \cup B) \cup C) \cup D) \cup E
         IN  /\ IsFiniteSet(U)
             /\ Cardinality(U) = Cardinality(A) + Cardinality(B) + Cardinality(C)
                                   + Cardinality(D) + Cardinality(E)
<1>1. (A \cap B = {}) /\ ((A \cup B) \cap C = {}) /\ (((A \cup B) \cup C) \cap D = {})
      /\ ((((A \cup B) \cup C) \cup D) \cap E = {})
  OBVIOUS
<1>2. IsFiniteSet(A \cup B) /\ Cardinality(A \cup B) = Cardinality(A) + Cardinality(B)
  BY <1>1, Apart
<1>3. /\ IsFiniteSet((A \cup B) \cup C)
      /\ Cardinality((A \cup B) \cup C) = Cardinality(A \cup B) + Cardinality(C)
  BY <1>1, <1>2, Apart
<1>4. /\ IsFiniteSet(((A \cup B) \cup C) \cup D)
      /\ Cardinality(((A \cup B) \cup C) \cup D) = Cardinality((A \cup B) \cup C) + Cardinality(D)
  BY <1>1, <1>3, Apart
<1>5. /\ IsFiniteSet((((A \cup B) \cup C) \cup D) \cup E)
      /\ Cardinality((((A \cup B) \cup C) \cup D) \cup E)
           = Cardinality(((A \cup B) \cup C) \cup D) + Cardinality(E)
  BY <1>1, <1>4, Apart
<1> QED
  BY <1>2, <1>3, <1>4, <1>5

LEMMA TaskKind ==
  ASSUME NEW plan, NEW counts, NEW edits, NEW kind, NEW r \in TasksFor(plan, counts, edits, kind)
  PROVE  r.kind = kind
<1>1. PICK index \in 0 .. CountOf(counts, kind) - 1 : r = TaskOf(plan, counts, edits, kind, index)
  BY DEF TasksFor
<1> QED
  BY <1>1 DEF TaskOf

LengthOf(plan, kind) == LastDay(plan, kind) - FirstDay(plan, kind) + 1

\* There are as many rules as tasks, and as many runs as tasks on their days.
LEMMA TasksCount ==
  ASSUME NEW plan, PlanOK(plan), NEW counts, CountsOK(counts), NEW edits
  PROVE  LET Of(kind) == CountOf(counts, kind) * LengthOf(plan, kind)
         IN  /\ IsFiniteSet(Tasks(plan, counts, edits))
             /\ Cardinality(Tasks(plan, counts, edits)) = AllTasks(counts)
             /\ PlannedRuns(Tasks(plan, counts, edits))
                  = Of("baseline") + Of("money") + Of("final_squeeze") + Of("after_action") + Of("warmup")
<1> DEFINE S(kind) == TasksFor(plan, counts, edits, kind)
           D(kind) == FirstDay(plan, kind) .. LastDay(plan, kind)
           Of(kind) == CountOf(counts, kind) * LengthOf(plan, kind)
           Each == {"baseline", "money", "final_squeeze", "after_action", "warmup"}
<1>1. RulePhase = Each
  BY DEF RulePhase, Phase
<1>2. \A kind \in Each :
        /\ IsFiniteSet(S(kind)) /\ Cardinality(S(kind)) = CountOf(counts, kind)
        /\ \A r \in S(kind) : Expand(r) = D(kind) /\ r.kind = kind
        /\ RunsOf(S(kind)) = S(kind) \X D(kind)
        /\ IsFiniteSet(RunsOf(S(kind))) /\ Cardinality(RunsOf(S(kind))) = Of(kind)
        /\ IsFiniteSet(D(kind))
  <2>1. TAKE kind \in Each
  <2>2. kind \in RulePhase
    BY <1>1
  <2>3. /\ IsFiniteSet(S(kind)) /\ Cardinality(S(kind)) = CountOf(counts, kind)
        /\ \A r \in S(kind) : Expand(r) = D(kind)
        /\ RunsOf(S(kind)) = S(kind) \X D(kind)
        /\ IsFiniteSet(RunsOf(S(kind)))
        /\ Cardinality(RunsOf(S(kind))) = CountOf(counts, kind) * Cardinality(D(kind))
    BY <2>2, TasksForAre
  <2>4. IsFiniteSet(D(kind)) /\ Cardinality(D(kind)) = LengthOf(plan, kind)
    BY <2>2, DaysAre DEF LengthOf
  <2>5. \A r \in S(kind) : r.kind = kind
    BY <2>2, TaskKind
  <2> QED
    BY <2>3, <2>4, <2>5
<1>3. Tasks(plan, counts, edits) = UNION {S(kind) : kind \in Each}
  BY <1>1, TasksAre
<1> HIDE DEF S, D, Of
<1>4. Tasks(plan, counts, edits)
        = (((S("baseline") \cup S("money")) \cup S("final_squeeze")) \cup S("after_action")) \cup S("warmup")
  BY <1>3
<1>5. \A k, l \in Each : k # l => S(k) \cap S(l) = {}
  BY <1>2
<1>6. RunsOf(Tasks(plan, counts, edits))
        = (((RunsOf(S("baseline")) \cup RunsOf(S("money"))) \cup RunsOf(S("final_squeeze")))
             \cup RunsOf(S("after_action"))) \cup RunsOf(S("warmup"))
  BY <1>4 DEF RunsOf
<1>7. \A k, l \in Each : k # l => RunsOf(S(k)) \cap RunsOf(S(l)) = {}
  BY <1>2, <1>5
<1>8. /\ IsFiniteSet(Tasks(plan, counts, edits))
      /\ Cardinality(Tasks(plan, counts, edits)) =
           Cardinality(S("baseline")) + Cardinality(S("money")) + Cardinality(S("final_squeeze"))
             + Cardinality(S("after_action")) + Cardinality(S("warmup"))
  <2>1. IsFiniteSet(S("baseline")) /\ IsFiniteSet(S("money")) /\ IsFiniteSet(S("final_squeeze"))
        /\ IsFiniteSet(S("after_action")) /\ IsFiniteSet(S("warmup"))
    BY <1>2
  <2> QED
    BY <1>4, <1>5, <2>1, FiveApart
<1>9. Cardinality(RunsOf(Tasks(plan, counts, edits))) =
        Cardinality(RunsOf(S("baseline"))) + Cardinality(RunsOf(S("money")))
          + Cardinality(RunsOf(S("final_squeeze")))
          + Cardinality(RunsOf(S("after_action"))) + Cardinality(RunsOf(S("warmup")))
  <2>1. IsFiniteSet(RunsOf(S("baseline"))) /\ IsFiniteSet(RunsOf(S("money")))
        /\ IsFiniteSet(RunsOf(S("final_squeeze")))
        /\ IsFiniteSet(RunsOf(S("after_action"))) /\ IsFiniteSet(RunsOf(S("warmup")))
    BY <1>2
  <2> QED
    BY <1>6, <1>7, <2>1, FiveApart
<1>10. \A r \in Tasks(plan, counts, edits) : IsFiniteSet(Expand(r))
  BY <1>2, <1>3
<1>11. PlannedRuns(Tasks(plan, counts, edits)) = Cardinality(RunsOf(Tasks(plan, counts, edits)))
  BY <1>8, <1>10, PlannedRunsIs
<1>12. Cardinality(Tasks(plan, counts, edits)) = AllTasks(counts)
  BY <1>2, <1>8, CountsAre
<1>13. PlannedRuns(Tasks(plan, counts, edits))
         = Of("baseline") + Of("money") + Of("final_squeeze") + Of("after_action") + Of("warmup")
  BY <1>2, <1>9, <1>11
<1> QED
  BY <1>8, <1>12, <1>13 DEF Of

-----------------------------------------------------------------------------
(* Cycle programs: the rules, one by one.                                  *)

LEMMA RuleIs ==
  ASSUME NEW plan, PlanOK(plan), NEW counts, CountsOK(counts), NEW edits,
         NEW r \in Tasks(plan, counts, edits)
  PROVE  /\ r.kind \in RulePhase
         /\ r.index \in 0 .. CountOf(counts, r.kind) - 1
         /\ r = TaskOf(plan, counts, edits, r.kind, r.index)
         /\ Expand(r) = FirstDay(plan, r.kind) .. LastDay(plan, r.kind)
<1>1. PICK kind \in RulePhase : r \in TasksFor(plan, counts, edits, kind)
  BY TasksAre
<1>2. PICK index \in 0 .. CountOf(counts, kind) - 1 : r = TaskOf(plan, counts, edits, kind, index)
  BY <1>1 DEF TasksFor
<1>3. /\ r.kind = kind /\ r.index = index
      /\ Expand(r) = FirstDay(plan, kind) .. LastDay(plan, kind)
  BY <1>2 DEF TaskOf, Expand
<1> QED
  BY <1>1, <1>2, <1>3

\* The days of a phase are of that phase and no other, and every day is of one.
LEMMA PhaseOfDay ==
  ASSUME NEW plan, PlanOK(plan), NEW kind \in Phase,
         NEW day \in FirstDay(plan, kind) .. LastDay(plan, kind)
  PROVE  PhaseForDay(plan, day) = {kind}
<1> DEFINE J == {j \in 1 .. 4 : Windows(plan)[j].first <= day /\ day <= Windows(plan)[j].last}
<1>1. day \in Int /\ FirstDay(plan, kind) <= day /\ day <= LastDay(plan, kind)
  BY DaysAre DEF RulePhase
<1>2. /\ 1 \in J <=> 1 <= day /\ day <= plan.days[1]
      /\ 2 \in J <=> plan.days[1] + 1 <= day /\ day <= plan.days[1] + plan.days[2]
      /\ 3 \in J <=> plan.days[1] + plan.days[2] + 1 <= day
                     /\ day <= plan.days[1] + plan.days[2] + plan.days[3]
      /\ 4 \in J <=> plan.days[1] + plan.days[2] + plan.days[3] + 1 <= day
                     /\ day <= plan.days[1] + plan.days[2] + plan.days[3] + plan.days[4]
  BY WindowsAre DEF FirstDay, LastDay
<1>3. J \subseteq {1, 2, 3, 4}
  OBVIOUS
<1>4. PhaseForDay(plan, day) = {Order[i] : i \in J}
  BY DEF PhaseForDay
<1> HIDE DEF J
<1>5. plan.days[1] \in Nat /\ plan.days[2] \in Nat /\ plan.days[3] \in Nat /\ plan.days[4] \in Nat
  BY DEF PlanOK
<1>6. CASE kind = "warmup"
  <2>1. 1 \in J /\ 2 \notin J /\ 3 \notin J /\ 4 \notin J
    BY <1>1, <1>2, <1>5, <1>6 DEF FirstDay, LastDay
  <2>2. J = {1}
    BY <1>3, <2>1
  <2> QED
    BY <1>4, <1>6, <2>2 DEF Order
<1>7. CASE kind = "money"
  <2>1. 1 \notin J /\ 2 \in J /\ 3 \notin J /\ 4 \notin J
    BY <1>1, <1>2, <1>5, <1>7 DEF FirstDay, LastDay
  <2>2. J = {2}
    BY <1>3, <2>1
  <2> QED
    BY <1>4, <1>7, <2>2 DEF Order
<1>8. CASE kind = "final_squeeze"
  <2>1. 1 \notin J /\ 2 \notin J /\ 3 \in J /\ 4 \notin J
    BY <1>1, <1>2, <1>5, <1>8 DEF FirstDay, LastDay
  <2>2. J = {3}
    BY <1>3, <2>1
  <2> QED
    BY <1>4, <1>8, <2>2 DEF Order
<1>9. CASE kind = "after_action"
  <2>1. 1 \notin J /\ 2 \notin J /\ 3 \notin J /\ 4 \in J
    BY <1>1, <1>2, <1>5, <1>9 DEF FirstDay, LastDay
  <2>2. J = {4}
    BY <1>3, <2>1
  <2> QED
    BY <1>4, <1>9, <2>2 DEF Order
<1> QED
  BY <1>6, <1>7, <1>8, <1>9 DEF Phase

LEMMA DayHasAPhase ==
  ASSUME NEW plan, PlanOK(plan), NEW day \in 1 .. CycleLength(plan)
  PROVE  \E kind \in Phase : day \in FirstDay(plan, kind) .. LastDay(plan, kind)
<1>1. plan.days[1] \in Nat /\ plan.days[2] \in Nat /\ plan.days[3] \in Nat /\ plan.days[4] \in Nat
  BY DEF PlanOK
<1>2. day \in Int /\ 1 <= day
      /\ day <= plan.days[1] + plan.days[2] + plan.days[3] + plan.days[4]
  BY <1>1, DaysUpTo
<1>3. \/ day \in FirstDay(plan, "warmup") .. LastDay(plan, "warmup")
      \/ day \in FirstDay(plan, "money") .. LastDay(plan, "money")
      \/ day \in FirstDay(plan, "final_squeeze") .. LastDay(plan, "final_squeeze")
      \/ day \in FirstDay(plan, "after_action") .. LastDay(plan, "after_action")
  BY <1>1, <1>2 DEF FirstDay, LastDay
<1> QED
  BY <1>3 DEF Phase

\* What the route makes of a rule's dates.
InItsPhase(plan, r) ==
  /\ r.kind \in RulePhase
  /\ Expand(r) = FirstDay(plan, r.kind) .. LastDay(plan, r.kind)

LEMMA PhasesPartition ==
  ASSUME PlanOK(program.plan), \A r \in program.rules : InItsPhase(program.plan, r)
  PROVE  PhasesPartitionTheCycle
<1> DEFINE plan == program.plan
<1>2. ASSUME NEW day \in 1 .. CycleLength(plan)
      PROVE  Cardinality(PhaseForDay(plan, day)) = 1
  <2>1. PICK kind \in Phase : day \in FirstDay(plan, kind) .. LastDay(plan, kind)
    BY DayHasAPhase
  <2>2. PhaseForDay(plan, day) = {kind}
    BY <2>1, PhaseOfDay
  <2> QED
    BY <2>2, FS_Singleton
<1>3. ASSUME NEW rule \in program.rules, NEW day \in Expand(rule)
      PROVE  IF rule.kind = "baseline"
             THEN plan.continue \/ PhaseForDay(plan, day) = {"warmup"}
             ELSE PhaseForDay(plan, day) = {rule.kind}
  <2>1. rule.kind \in RulePhase /\ day \in FirstDay(plan, rule.kind) .. LastDay(plan, rule.kind)
    BY DEF InItsPhase
  <2>2. CASE rule.kind = "baseline" /\ ~plan.continue
    <3>1. day \in FirstDay(plan, "warmup") .. LastDay(plan, "warmup")
      BY <2>1, <2>2 DEF FirstDay, LastDay
    <3>2. PhaseForDay(plan, day) = {"warmup"}
      BY <3>1, PhaseOfDay DEF Phase
    <3> QED
      BY <2>2, <3>2
  <2>3. CASE rule.kind # "baseline"
    <3>1. rule.kind \in Phase
      BY <2>1, <2>3 DEF RulePhase
    <3>2. PhaseForDay(plan, day) = {rule.kind}
      BY <2>1, <3>1, PhaseOfDay
    <3> QED
      BY <2>3, <3>2
  <2> QED
    BY <2>2, <2>3
<1> QED
  BY <1>2, <1>3 DEF PhasesPartitionTheCycle

-----------------------------------------------------------------------------
(* Cycle programs: preferred minutes.                                      *)

LEMMA QuotientIs ==
  ASSUME NEW b \in 1 .. 50, NEW x \in Nat
  PROVE  /\ x \div b \in Nat
         /\ b * (x \div b) <= x /\ x < b * (x \div b) + b
OBVIOUS

\* Twelve hours are more minutes than there are tasks: no two share one.
LEMMA MinutesDiffer ==
  ASSUME NEW b \in 1 .. 50, NEW p \in 0 .. b - 1, NEW q \in 0 .. b - 1, p < q
  PROVE  (p * 720) \div b # (q * 720) \div b
<1>1. PICK u : u = (p * 720) \div b
  OBVIOUS
<1>2. PICK v : v = (q * 720) \div b
  OBVIOUS
<1>3. p * 720 \in Nat /\ q * 720 \in Nat /\ p * 720 + 720 <= q * 720
  OBVIOUS
<1>4. u \in Nat /\ v \in Nat /\ p * 720 < b * u + b /\ b * v <= q * 720 /\ b * u <= p * 720
      /\ q * 720 < b * v + b
  BY <1>1, <1>2, <1>3, QuotientIs
<1>5. PICK bu : bu = b * u /\ bu \in Int
  BY <1>4
<1>6. ASSUME u = v PROVE FALSE
  BY <1>3, <1>4, <1>5, <1>6
<1> QED
  BY <1>1, <1>2, <1>6

LEMMA MinuteIsIn ==
  ASSUME NEW b \in 1 .. 50, NEW p \in 0 .. b - 1
  PROVE  480 + (p * 720) \div b \in 480 .. 1199
<1>1. PICK u : u = (p * 720) \div b
  OBVIOUS
<1>2. p * 720 \in Nat /\ p * 720 <= (b - 1) * 720
  OBVIOUS
<1>3. u \in Nat /\ b * u <= p * 720
  BY <1>1, <1>2, QuotientIs
<1>4. u < 720
  <2>1. SUFFICES ASSUME u >= 720 PROVE FALSE
    BY <1>3
  <2>2. b * u >= b * 720
    BY <1>3, <2>1
  <2> QED
    BY <1>2, <1>3, <2>2
<1> QED
  BY <1>1, <1>3, <1>4

\* The busiest day has all daily tasks and those of one phase.
LEMMA BusiestIs ==
  ASSUME NEW counts, CountsOK(counts), AllTasks(counts) <= 50
  PROVE  /\ BusiestDay(counts) \in 0 .. 50
         /\ \A kind \in Phase : counts[1] + CountOf(counts, kind) <= BusiestDay(counts)
<1> DEFINE T == {CountOf(counts, kind) : kind \in Phase}
<1>1. /\ counts[1] \in Nat /\ CountOf(counts, "baseline") = counts[1]
      /\ \A kind \in Phase : CountOf(counts, kind) \in Nat
  BY CountsAre DEF RulePhase
<1>2. counts[1] + CountOf(counts, "money") + CountOf(counts, "final_squeeze")
        + CountOf(counts, "after_action") + CountOf(counts, "warmup") <= 50
  BY <1>1, CountsAre
<1>3. \A kind \in Phase : counts[1] + CountOf(counts, kind) <= 50
  BY <1>1, <1>2 DEF Phase
<1>4. T \in SUBSET Nat /\ T # {} /\ 50 \in Nat /\ \A x \in T : x <= 50
  BY <1>1, <1>3 DEF Phase
<1>5. Max(T) \in T /\ \A x \in T : Max(T) >= x
  BY <1>4, MaxIs
<1>6. PICK kind \in Phase : Max(T) = CountOf(counts, kind)
  BY <1>5
<1>7. BusiestDay(counts) = counts[1] + Max(T)
  BY DEF BusiestDay
<1>8. \A k \in Phase : CountOf(counts, k) <= CountOf(counts, kind)
  BY <1>5, <1>6
<1> HIDE DEF T
<1>9. BusiestDay(counts) = counts[1] + CountOf(counts, kind)
  BY <1>6, <1>7
<1> QED
  BY <1>1, <1>3, <1>8, <1>9

\* Tasks that share a day stand at different places of it.
LEMMA PositionsDiffer ==
  ASSUME NEW plan, PlanOK(plan), NEW counts, CountsOK(counts), NEW edits,
         NEW r \in Tasks(plan, counts, edits), NEW s \in Tasks(plan, counts, edits),
         r # s, Expand(r) \cap Expand(s) # {}
  PROVE  Position(counts, r.kind, r.index) # Position(counts, s.kind, s.index)
<1>1. /\ r.kind \in RulePhase /\ s.kind \in RulePhase
      /\ r.index \in 0 .. CountOf(counts, r.kind) - 1 /\ s.index \in 0 .. CountOf(counts, s.kind) - 1
      /\ r = TaskOf(plan, counts, edits, r.kind, r.index)
      /\ s = TaskOf(plan, counts, edits, s.kind, s.index)
      /\ Expand(r) = FirstDay(plan, r.kind) .. LastDay(plan, r.kind)
      /\ Expand(s) = FirstDay(plan, s.kind) .. LastDay(plan, s.kind)
  BY RuleIs
<1>2. counts[1] \in Nat /\ CountOf(counts, "baseline") = counts[1]
      /\ \A kind \in RulePhase : CountOf(counts, kind) \in Nat
  BY CountsAre
<1>3. r.index \in Nat /\ s.index \in Nat
  BY <1>1, <1>2
<1>4. CASE r.kind = s.kind
  <2>1. r.index # s.index
    BY <1>1, <1>4
  <2> QED
    BY <1>2, <1>3, <1>4, <2>1 DEF Position
<1>5. CASE r.kind = "baseline" /\ s.kind # "baseline"
  <2>1. r.index < counts[1]
    BY <1>1, <1>2, <1>3, <1>5
  <2> QED
    BY <1>2, <1>3, <1>5, <2>1 DEF Position
<1>6. CASE s.kind = "baseline" /\ r.kind # "baseline"
  <2>1. s.index < counts[1]
    BY <1>1, <1>2, <1>3, <1>6
  <2> QED
    BY <1>2, <1>3, <1>6, <2>1 DEF Position
<1>7. CASE r.kind # "baseline" /\ s.kind # "baseline" /\ r.kind # s.kind
  <2>1. r.kind \in Phase /\ s.kind \in Phase
    BY <1>1, <1>7 DEF RulePhase
  <2>2. PICK day : day \in Expand(r) /\ day \in Expand(s)
    OBVIOUS
  <2>3. PhaseForDay(plan, day) = {r.kind} /\ PhaseForDay(plan, day) = {s.kind}
    BY <1>1, <2>1, <2>2, PhaseOfDay
  <2> QED
    BY <1>7, <2>3
<1> QED
  BY <1>4, <1>5, <1>6, <1>7

LEMMA ClampIs ==
  ASSUME NEW value \in Int, NEW low \in Nat, NEW high \in Nat, low <= high
  PROVE  Clamp(value, low, high) \in Nat
<1>1. Max({low, value}) = IF low >= value THEN low ELSE value
  BY DEF Max
<1>2. PICK top \in Int : top = Max({low, value}) /\ low <= top
  BY <1>1
<1>3. Min({high, top}) = IF high <= top THEN high ELSE top
  BY MinOfTwo
<1> QED
  BY <1>2, <1>3 DEF Clamp

\* Whatever is typed, the dialog draws a plan within its limits.
LEMMA PreviewsAre ==
  ASSUME NEW d \in Drafts
  PROVE  /\ PlanOK(PreviewPlan(d)) /\ CountsOK(PreviewCounts(d)) /\ PreviewCounts(d)[5] = 0
         /\ PreviewPlan(d).continue \in BOOLEAN
         /\ PreviewPlan(d).need \in [runs : Nat, days : Nat]
<1>1. /\ d.days[1] \in Int /\ d.days[2] \in Int /\ d.days[3] \in Int /\ d.days[4] \in Int
      /\ d.counts[1] \in Int /\ d.counts[2] \in Int /\ d.counts[3] \in Int /\ d.counts[4] \in Int
      /\ d.continue \in BOOLEAN /\ d.need \in [runs : Nat, days : Nat]
  BY ProgramAssumption DEF Drafts
<1>2. /\ Clamp(d.days[1], 10, 14) \in Nat /\ Clamp(d.days[2], 2, 5) \in Nat
      /\ Clamp(d.days[3], 1, 3) \in Nat /\ Clamp(d.days[4], 10, 14) \in Nat
  <2>1. \A value \in Int : Clamp(value, 10, 14) \in Nat
    BY ClampIs
  <2>2. \A value \in Int : Clamp(value, 2, 5) \in Nat
    BY ClampIs
  <2>3. \A value \in Int : Clamp(value, 1, 3) \in Nat
    BY ClampIs
  <2> QED
    BY <1>1, <2>1, <2>2, <2>3
<1>3. /\ Clamp(d.counts[1], 5, 40) \in Nat /\ Clamp(d.counts[2], 3, 4) \in Nat
      /\ Clamp(d.counts[3], 4, 7) \in Nat /\ Clamp(d.counts[4], 3, 5) \in Nat
  <2>1. \A value \in Int : Clamp(value, 5, 40) \in Nat
    BY ClampIs
  <2>2. \A value \in Int : Clamp(value, 3, 4) \in Nat
    BY ClampIs
  <2>3. \A value \in Int : Clamp(value, 4, 7) \in Nat
    BY ClampIs
  <2>4. \A value \in Int : Clamp(value, 3, 5) \in Nat
    BY ClampIs
  <2> QED
    BY <1>1, <2>1, <2>2, <2>3, <2>4
<1>4. PlanOK(PreviewPlan(d))
  BY <1>2 DEF PlanOK, PreviewPlan
<1>5. CountsOK(PreviewCounts(d)) /\ PreviewCounts(d)[5] = 0
  BY <1>3 DEF CountsOK, PreviewCounts
<1> QED
  BY <1>1, <1>4, <1>5 DEF PreviewPlan

LEMMA Spread ==
  ASSUME draft \in Drafts, program.rules = TasksOf(draft), AllTasks(PreviewCounts(draft)) <= 50
  PROVE  PreferencesAreSpread
<1>1. PICK plan : plan = PreviewPlan(draft)
  OBVIOUS
<1>2. PICK counts : counts = PreviewCounts(draft)
  OBVIOUS
<1>3. PICK b : b = BusiestDay(counts)
  OBVIOUS
<1>4. PlanOK(plan) /\ CountsOK(counts) /\ program.rules = Tasks(plan, counts, draft.edits)
  BY <1>1, <1>2, PreviewsAre DEF TasksOf
<1> DEFINE untouched == {r \in program.rules : <<r.kind, r.index>> \notin DOMAIN draft.edits.times}
<1>5. b \in 0 .. 50 /\ \A kind \in Phase : counts[1] + CountOf(counts, kind) <= b
  BY <1>2, <1>3, <1>4, BusiestIs
<1>6. counts[1] \in Nat /\ CountOf(counts, "baseline") = counts[1]
      /\ \A kind \in RulePhase : CountOf(counts, kind) \in Nat
  BY <1>4, CountsAre
<1>7. ASSUME NEW r \in untouched
      PROVE  /\ Position(counts, r.kind, r.index) \in 0 .. b - 1
             /\ r.minute = 480 + (Position(counts, r.kind, r.index) * 720) \div b
             /\ b \in 1 .. 50
  <2>1. /\ r.kind \in RulePhase /\ r.index \in 0 .. CountOf(counts, r.kind) - 1
        /\ r.minute = 480 + (Position(counts, r.kind, r.index) * 720) \div b
    <3>1. /\ r.kind \in RulePhase /\ r.index \in 0 .. CountOf(counts, r.kind) - 1
          /\ r = TaskOf(plan, counts, draft.edits, r.kind, r.index)
      BY <1>4, RuleIs
    <3>2. r.minute = SlotOf(plan, counts, r.kind, r.index).minute
      BY <3>1 DEF TaskOf, Edited
    <3> QED
      BY <1>3, <3>1, <3>2 DEF SlotOf
  <2>2. CountOf(counts, r.kind) \in Nat /\ r.index \in Nat /\ r.index < CountOf(counts, r.kind)
    BY <1>6, <2>1
  <2>3. CASE r.kind = "baseline"
    <3>1. counts[1] + CountOf(counts, "money") <= b /\ CountOf(counts, "money") \in Nat
      BY <1>5, <1>6 DEF Phase, RulePhase
    <3> QED
      BY <1>5, <1>6, <2>1, <2>2, <2>3, <3>1 DEF Position
  <2>4. CASE r.kind # "baseline"
    <3>1. counts[1] + CountOf(counts, r.kind) <= b
      BY <1>5, <2>1, <2>4 DEF RulePhase
    <3> QED
      BY <1>5, <1>6, <2>1, <2>2, <2>4, <3>1 DEF Position
  <2> QED
    BY <2>3, <2>4
<1>8. ASSUME NEW r \in untouched, NEW s \in untouched,
             r # s, Expand(r) \cap Expand(s) # {}
      PROVE  r.minute # s.minute
  <2>1. PICK p \in 0 .. b - 1 : p = Position(counts, r.kind, r.index)
                                /\ r.minute = 480 + (p * 720) \div b
    BY <1>7
  <2>2. PICK q \in 0 .. b - 1 : q = Position(counts, s.kind, s.index)
                                /\ s.minute = 480 + (q * 720) \div b
    BY <1>7
  <2>3. b \in 1 .. 50
    BY <1>7
  <2>4. p < q \/ q < p
    <3>1. p # q
      BY <1>4, <1>8, <2>1, <2>2, PositionsDiffer
    <3> QED
      BY <2>3, <3>1
  <2>5. (p * 720) \div b # (q * 720) \div b
    BY <2>3, <2>4, MinutesDiffer
  <2>6. (p * 720) \div b \in Nat /\ (q * 720) \div b \in Nat
    <3>1. p * 720 \in Nat /\ q * 720 \in Nat
      BY <2>3
    <3> QED
      BY <2>3, <3>1, QuotientIs
  <2> QED
    BY <2>1, <2>2, <2>5, <2>6
<1>9. ASSUME NEW r \in untouched PROVE r.minute \in 480 .. 1199
  <2>1. PICK p \in 0 .. b - 1 : p = Position(counts, r.kind, r.index)
                                /\ r.minute = 480 + (p * 720) \div b
    BY <1>7
  <2>2. b \in 1 .. 50
    BY <1>7
  <2> QED
    BY <2>1, <2>2, MinuteIsIn
<1> QED
  BY <1>8, <1>9 DEF PreferencesAreSpread

-----------------------------------------------------------------------------
(* Cycle programs: what one requires, and what its dialog showed.          *)

\* Every task of the warmup runs on every day of it.
LEMMA NeedCanBeMet ==
  ASSUME PlanOK(program.plan), program.plan.need \in [runs : Nat, days : Nat],
         IsFiniteSet(program.rules), \A r \in program.rules : InItsPhase(program.plan, r),
         NeedIsReachable(program.plan, program.rules)
  PROVE  PublishedNeedCanBeMet
<1> DEFINE plan == program.plan
           warmup == {rule \in program.rules : rule.app = 0 /\ rule.kind \in {"baseline", "warmup"}}
           days == 1 .. plan.days[1]
           offered == {o \in warmup \X days : o[2] \in Expand(o[1])}
<1>1. ASSUME NEW rule \in warmup PROVE days \subseteq Expand(rule)
  <2>1. /\ rule.kind \in {"baseline", "warmup"}
        /\ Expand(rule) = FirstDay(plan, rule.kind) .. LastDay(plan, rule.kind)
    BY DEF InItsPhase
  <2>2. FirstDay(plan, rule.kind) = 1 /\ LastDay(plan, rule.kind) \in Nat
        /\ plan.days[1] <= LastDay(plan, rule.kind) /\ plan.days[1] \in Nat
    <3>1. plan.days[1] \in Nat /\ plan.days[2] \in Nat /\ plan.days[3] \in Nat /\ plan.days[4] \in Nat
      BY DEF PlanOK
    <3>2. CASE rule.kind = "baseline"
      BY <3>1, <3>2 DEF FirstDay, LastDay
    <3>3. CASE rule.kind = "warmup"
      BY <3>1, <3>3 DEF FirstDay, LastDay
    <3> QED
      BY <2>1, <3>2, <3>3
  <2> QED
    BY <2>1, <2>2
<1>2. offered = warmup \X days
  BY <1>1
<1>3. IsFiniteSet(days) /\ Cardinality(days) = plan.days[1] /\ plan.days[1] \in Nat
  <2>1. PICK last \in Nat : last = plan.days[1]
    BY DEF PlanOK
  <2>2. IsFiniteSet(1 .. last) /\ Cardinality(1 .. last) = IF 1 > last THEN 0 ELSE last - 1 + 1
    <3>1. 1 \in Int /\ last \in Int
      OBVIOUS
    <3> QED
      BY <3>1, FS_Interval
  <2> QED
    BY <2>1, <2>2
<1>4. IsFiniteSet(warmup) /\ Cardinality(warmup) \in Nat
  <2>1. IsFiniteSet(warmup)
    BY FS_Subset
  <2> QED
    BY <2>1, FS_CardinalityType
<1>5. Cardinality(offered) = Cardinality(warmup) * plan.days[1]
  BY <1>2, <1>3, <1>4, FS_Product
<1>6. /\ plan.need.runs <= Cardinality(warmup) * plan.days[1] /\ plan.need.days <= plan.days[1]
      /\ plan.need.days = 0 \/ Cardinality(warmup) * plan.days[1] > 0
  BY DEF NeedIsReachable
<1>7. plan.need.runs \in Nat /\ plan.need.days \in Nat
  OBVIOUS
<1>8. Cardinality({o[2] : o \in offered}) >= plan.need.days
  <2>1. CASE warmup = {}
    <3>1. Cardinality(warmup) = 0
      BY <2>1, FS_EmptySet
    <3>2. plan.need.days = 0
      BY <1>3, <1>6, <3>1
    <3>3. {o[2] : o \in offered} = {}
      BY <2>1
    <3> QED
      BY <3>2, <3>3, FS_EmptySet
  <2>2. CASE warmup # {}
    <3>1. PICK rule : rule \in warmup
      BY <2>2
    <3> HIDE DEF warmup, days, offered
    <3>2. \A day \in days : <<rule, day>> \in offered
      BY <1>2, <3>1
    <3>3. \A day \in days : \E o \in offered : o[2] = day
      BY <3>2
    <3>4. \A o \in offered : o[2] \in days
      BY <1>2
    <3>5. {o[2] : o \in offered} = days
      BY <3>3, <3>4
    <3> QED
      BY <1>3, <1>6, <1>7, <3>5
  <2> QED
    BY <2>1, <2>2
<1> QED
  BY <1>5, <1>6, <1>7, <1>8 DEF PublishedNeedCanBeMet

\* Counted task by task or row by row of the table: the same runs.
LEMMA RowsAreRuns ==
  ASSUME NEW d \in Drafts
  PROVE  PreviewRuns(d) = SumTo([i \in 1 .. 4 |-> PreviewRow(d, i)], 4)
<1>1. PICK plan : plan = PreviewPlan(d)
  OBVIOUS
<1>2. PICK counts : counts = PreviewCounts(d)
  OBVIOUS
<1>3. PlanOK(plan) /\ CountsOK(counts) /\ counts[5] = 0 /\ plan.continue \in BOOLEAN
  BY <1>1, <1>2, PreviewsAre
<1>4. PICK x, y, z, w \in Nat :
        x = plan.days[1] /\ y = plan.days[2] /\ z = plan.days[3] /\ w = plan.days[4]
  BY <1>3 DEF PlanOK
<1>5. PICK base, money, squeeze, after \in Nat :
        base = counts[1] /\ money = counts[2] /\ squeeze = counts[3] /\ after = counts[4]
  BY <1>3 DEF CountsOK
<1>6. /\ CountOf(counts, "baseline") = base /\ CountOf(counts, "money") = money
      /\ CountOf(counts, "final_squeeze") = squeeze /\ CountOf(counts, "after_action") = after
      /\ CountOf(counts, "warmup") = 0
  BY <1>3, <1>5 DEF CountOf
<1>7. /\ LengthOf(plan, "baseline") = IF plan.continue THEN x + y + z + w ELSE x
      /\ LengthOf(plan, "warmup") = x /\ LengthOf(plan, "money") = y
      /\ LengthOf(plan, "final_squeeze") = z /\ LengthOf(plan, "after_action") = w
  <2>1. LengthOf(plan, "baseline") = IF plan.continue THEN x + y + z + w ELSE x
    BY <1>3, <1>4 DEF LengthOf, FirstDay, LastDay
  <2>2. LengthOf(plan, "warmup") = x /\ LengthOf(plan, "money") = y
    BY <1>4 DEF LengthOf, FirstDay, LastDay
  <2>3. LengthOf(plan, "final_squeeze") = z /\ LengthOf(plan, "after_action") = w
    BY <1>4 DEF LengthOf, FirstDay, LastDay
  <2> QED
    BY <2>1, <2>2, <2>3
<1>8. PICK often \in Nat : often = IF plan.continue THEN base ELSE 0
  BY <1>5
<1>9. base * x \in Int /\ often * y \in Int /\ often * z \in Int /\ often * w \in Int
      /\ money * y \in Int /\ squeeze * z \in Int /\ after * w \in Int /\ 0 * x = 0
  <2>1. \A m, n \in Nat : m * n \in Int
    OBVIOUS
  <2>2. \A n \in Nat : 0 * n = 0
    OBVIOUS
  <2> QED
    BY <2>1, <2>2, Zenon
<1>10. PreviewRuns(d) = base * x + often * y + often * z + often * w
                         + money * y + squeeze * z + after * w
  <2>1. PreviewRuns(d) = base * LengthOf(plan, "baseline") + money * y + squeeze * z + after * w + 0 * x
    BY <1>1, <1>2, <1>3, <1>6, <1>7, TasksCount DEF PreviewRuns, TasksOf
  <2>2. base * LengthOf(plan, "baseline") = base * x + often * y + often * z + often * w
    <3>1. CASE plan.continue
      <4>1. base * (x + y + z + w) = base * x + base * y + base * z + base * w
        OBVIOUS
      <4>2. LengthOf(plan, "baseline") = x + y + z + w /\ often = base
        BY <1>7, <1>8, <3>1
      <4> QED
        BY <4>1, <4>2
    <3>2. CASE ~plan.continue
      BY <1>4, <1>5, <1>7, <1>8, <3>2
    <3> QED
      BY <3>1, <3>2
  <2>3. base * x \in Int /\ often * y \in Int /\ often * z \in Int /\ often * w \in Int
        /\ money * y \in Int /\ squeeze * z \in Int /\ after * w \in Int /\ 0 * x = 0
    BY <1>9
  <2> QED
    BY <2>1, <2>2, <2>3
<1>11. /\ PreviewRow(d, 1) = base * x
       /\ PreviewRow(d, 2) = often * y + money * y
       /\ PreviewRow(d, 3) = often * z + squeeze * z
       /\ PreviewRow(d, 4) = often * w + after * w
  <2>1. PreviewRow(d, 1) = base * x
    BY <1>1, <1>2, <1>4, <1>5 DEF PreviewRow
  <2>2. PreviewRow(d, 2) = (often + money) * y
    BY <1>1, <1>2, <1>4, <1>5, <1>6, <1>8 DEF PreviewRow, Order
  <2>3. PreviewRow(d, 3) = (often + squeeze) * z
    BY <1>1, <1>2, <1>4, <1>5, <1>6, <1>8 DEF PreviewRow, Order
  <2>4. PreviewRow(d, 4) = (often + after) * w
    BY <1>1, <1>2, <1>4, <1>5, <1>6, <1>8 DEF PreviewRow, Order
  <2>5. /\ (often + money) * y = often * y + money * y
        /\ (often + squeeze) * z = often * z + squeeze * z
        /\ (often + after) * w = often * w + after * w
    <3>1. \A k, m, n \in Nat : (k + m) * n = k * n + m * n
      OBVIOUS
    <3> QED
      BY <1>4, <1>5, <1>8, <3>1
  <2> QED
    BY <2>1, <2>2, <2>3, <2>4, <2>5
<1>12. PICK f : f = [i \in 1 .. 4 |-> PreviewRow(d, i)]
  OBVIOUS
<1>13. f[1] = base * x /\ f[2] = often * y + money * y /\ f[3] = often * z + squeeze * z
       /\ f[4] = often * w + after * w
  BY <1>11, <1>12
<1>14. SumTo(f, 4) = f[1] + f[2] + f[3] + f[4]
  <2>1. \A i \in 1 .. 4 : f[i] \in Int
    BY <1>9, <1>13
  <2>2. SumTo(f, 4) = FirstOf(f, 4)
    BY <2>1, SumIs
  <2> QED
    BY <2>2 DEF FirstOf
<1> QED
  BY <1>9, <1>10, <1>12, <1>13, <1>14

-----------------------------------------------------------------------------
(* Cycle programs: those asked for, and those published.                   *)

\* What was sent is a plan with rules; what was published is what was sent, with
\* the dates of the plan, and passed the checks of the route.
IsRule(r) ==
  /\ r.kind \in RulePhase
  /\ r = [kind |-> r.kind, index |-> r.index, first |-> r.first, last |-> r.last,
          minute |-> r.minute, app |-> r.app, required |-> r.required]
Asked(p) ==
  /\ PlanOK(p.plan) /\ p.plan.need \in [runs : Nat, days : Nat]
  /\ IsFiniteSet(p.rules) /\ \A r \in p.rules : IsRule(r)
  /\ p = Program(p.plan, p.rules, p.daily, p.later)
DatedRules(p) == {Dated(p.plan, rule) : rule \in p.rules}
Drafted ==
  /\ draft # NoDraft => draft \in Drafts
  /\ request # NoProgram => Asked(request)
  /\ draft # NoDraft /\ request # NoProgram =>
       /\ request.plan = PreviewPlan(draft) /\ request.rules = TasksOf(draft)
       /\ AllTasks(PreviewCounts(draft)) <= 50
Published ==
  program # NoProgram =>
    /\ request # NoProgram
    /\ program.plan = request.plan /\ program.rules = DatedRules(request)
    /\ NeedIsReachable(program.plan, program.rules)
DraftInv == Drafted /\ Published

\* The dates of a rule are its phase's.
LEMMA DatedIs ==
  ASSUME NEW plan, PlanOK(plan), NEW r, IsRule(r)
  PROVE  /\ InItsPhase(plan, Dated(plan, r))
         /\ r.first = FirstDay(plan, r.kind) /\ r.last = LastDay(plan, r.kind) => Dated(plan, r) = r
<1>1. PICK first, last : first = FirstDay(plan, r.kind) /\ last = LastDay(plan, r.kind)
  OBVIOUS
<1>2. Dated(plan, r) = [r EXCEPT !.first = first, !.last = last]
  <2>1. WindowForRule(plan, r.kind) = [first |-> first, last |-> last]
    BY <1>1, WindowIs DEF IsRule
  <2> QED
    BY <2>1 DEF Dated
<1>3. PICK kind, index, minute, app, required, from, to :
        /\ kind = r.kind /\ index = r.index /\ minute = r.minute /\ app = r.app
        /\ required = r.required /\ from = r.first /\ to = r.last
  OBVIOUS
<1>4. r = [kind |-> kind, index |-> index, first |-> from, last |-> to,
           minute |-> minute, app |-> app, required |-> required]
  BY <1>3 DEF IsRule
<1>5. Dated(plan, r) = [kind |-> kind, index |-> index, first |-> first, last |-> last,
                        minute |-> minute, app |-> app, required |-> required]
  BY <1>2, <1>4
<1>6. InItsPhase(plan, Dated(plan, r))
  BY <1>1, <1>3, <1>5 DEF InItsPhase, IsRule, Expand
<1> QED
  BY <1>1, <1>3, <1>4, <1>5, <1>6

\* The dialog's own dates are those of the plan already.
LEMMA TasksAreDated ==
  ASSUME NEW d \in Drafts
  PROVE  /\ IsFiniteSet(TasksOf(d)) /\ \A r \in TasksOf(d) : IsRule(r)
         /\ {Dated(PreviewPlan(d), rule) : rule \in TasksOf(d)} = TasksOf(d)
<1>1. PICK plan, counts : plan = PreviewPlan(d) /\ counts = PreviewCounts(d)
  OBVIOUS
<1>2. PlanOK(plan) /\ CountsOK(counts) /\ TasksOf(d) = Tasks(plan, counts, d.edits)
  BY <1>1, PreviewsAre DEF TasksOf
<1>3. IsFiniteSet(TasksOf(d))
  BY <1>2, TasksCount
<1>4. ASSUME NEW r \in TasksOf(d)
      PROVE  IsRule(r) /\ Dated(plan, r) = r
  <2>1. r.kind \in RulePhase /\ r = TaskOf(plan, counts, d.edits, r.kind, r.index)
    BY <1>2, RuleIs
  <2>2. /\ IsRule(r)
        /\ r.first = FirstDay(plan, r.kind) /\ r.last = LastDay(plan, r.kind)
    BY <2>1 DEF TaskOf, IsRule
  <2> QED
    BY <1>2, <2>2, DatedIs
<1>5. {Dated(plan, rule) : rule \in TasksOf(d)} = TasksOf(d)
  BY <1>4
<1> QED
  BY <1>1, <1>3, <1>4, <1>5

\* All that a published program has to be follows from that.
LEMMA DraftsHold ==
  ASSUME DraftInv
  PROVE  PhasesPartitionTheCycle /\ PreviewIsExact /\ PreferencesAreSpread /\ PublishedNeedCanBeMet
<1>1. CASE program = NoProgram
  BY <1>1 DEF PhasesPartitionTheCycle, PreviewIsExact, PreferencesAreSpread, PublishedNeedCanBeMet
<1>2. CASE program # NoProgram
  <2>1. /\ request # NoProgram /\ Asked(request)
        /\ program.plan = request.plan /\ program.rules = DatedRules(request)
        /\ NeedIsReachable(program.plan, program.rules)
    BY <1>2 DEF DraftInv, Drafted, Published
  <2>2. PlanOK(program.plan) /\ program.plan.need \in [runs : Nat, days : Nat]
    BY <2>1 DEF Asked
  <2>3. IsFiniteSet(program.rules) /\ \A r \in program.rules : InItsPhase(program.plan, r)
    <3>1. IsFiniteSet(request.rules) /\ \A r \in request.rules : IsRule(r)
      BY <2>1 DEF Asked
    <3>2. IsFiniteSet(program.rules)
      <4> DEFINE f == [rule \in request.rules |-> Dated(request.plan, rule)]
      <4>1. f \in Surjection(request.rules, program.rules)
        BY <2>1 DEF Surjection, DatedRules
      <4> HIDE DEF f
      <4> QED
        BY <3>1, <4>1, FS_Surjection
    <3>3. ASSUME NEW r \in program.rules PROVE InItsPhase(program.plan, r)
      <4>1. PICK rule \in request.rules : r = Dated(program.plan, rule)
        BY <2>1 DEF DatedRules
      <4> QED
        BY <2>2, <3>1, <4>1, DatedIs
    <3> QED
      BY <3>2, <3>3
  <2>4. PhasesPartitionTheCycle /\ PublishedNeedCanBeMet
    BY <2>1, <2>2, <2>3, PhasesPartition, NeedCanBeMet
  <2>5. CASE draft = NoDraft
    BY <2>4, <2>5 DEF PreviewIsExact, PreferencesAreSpread
  <2>6. CASE draft # NoDraft
    <3>1. /\ draft \in Drafts /\ request.plan = PreviewPlan(draft) /\ request.rules = TasksOf(draft)
          /\ AllTasks(PreviewCounts(draft)) <= 50
      BY <2>1, <2>6 DEF DraftInv, Drafted
    <3>2. program.rules = TasksOf(draft)
      BY <2>1, <3>1, TasksAreDated DEF DatedRules
    <3>3. PreviewIsExact
      BY <3>1, <3>2, RowsAreRuns DEF PreviewIsExact, PreviewRuns
    <3> QED
      BY <2>4, <3>1, <3>2, <3>3, Spread
  <2> QED
    BY <2>5, <2>6
<1> QED
  BY <1>1, <1>2

LEMMA DraftsBegin == ProgramInit => DraftInv
BY DEF ProgramInit, DraftInv, Drafted, Published

LEMMA DraftSteps == DraftInv /\ [ProgramNext]_programVars => DraftInv'
<1> SUFFICES ASSUME DraftInv, [ProgramNext]_programVars PROVE DraftInv'
  OBVIOUS
<1> USE DEF DraftInv, Drafted, Published
<1>1. CASE Draft
  BY <1>1 DEF Draft, DatedRules
<1>2. CASE Submit
  <2>1. draft \in Drafts /\ AllTasks(PreviewCounts(draft)) <= 50
    <3>1. PICK n : n = AllTasks(PreviewCounts(draft))
      OBVIOUS
    <3>2. draft \in Drafts /\ ~(n > 50)
      BY <1>2, <3>1 DEF Submit, BuildRefused
    <3>3. n \in Nat
      <4>1. CountsOK(PreviewCounts(draft))
        BY <3>2, PreviewsAre
      <4> QED
        BY <3>1, <4>1, CountsAre DEF RulePhase, Phase
    <3> QED
      BY <3>1, <3>2, <3>3
  <2>2. /\ request' = Program(PreviewPlan(draft), TasksOf(draft), draft.daily, draft.later)
        /\ request'.plan = PreviewPlan(draft) /\ request'.rules = TasksOf(draft)
        /\ request'.daily = draft.daily /\ request'.later = draft.later
        /\ UNCHANGED <<draft, program>> /\ request = NoProgram
    BY <1>2 DEF Submit, Program
  <2>3. Asked(request')
    BY <2>1, <2>2, PreviewsAre, TasksAreDated DEF Asked
  <2> QED
    BY <2>1, <2>2, <2>3
<1>3. CASE Send
  <2>1. PICK days \in Durations, rules \in ApiRules, continue \in BOOLEAN, need \in Needs, t \in Template :
          LET plan == [days |-> days, continue |-> continue, need |-> need]
          IN  ValidPlan(plan) /\ request' = Program(plan, rules, t, t)
    BY <1>3 DEF Send
  <2>2. /\ request'.plan.days = days /\ request'.plan.need = need /\ request'.rules = rules
        /\ request' = Program(request'.plan, request'.rules, request'.daily, request'.later)
        /\ days[1] \in 10 .. 14 /\ days[2] \in 2 .. 5 /\ days[3] \in 1 .. 3 /\ days[4] \in 10 .. 14
    BY <2>1 DEF Program, ValidPlan
  <2>3. (\A i \in 1 .. 4 : days[i] \in Nat) /\ need \in [runs : Nat, days : Nat]
    <3>1. \A i \in 1 .. 4 : i = 1 \/ i = 2 \/ i = 3 \/ i = 4
      OBVIOUS
    <3>2. days[1] \in Nat /\ days[2] \in Nat /\ days[3] \in Nat /\ days[4] \in Nat
      BY <2>2
    <3>3. \A i \in 1 .. 4 : days[i] \in Nat
      BY <3>1, <3>2
    <3> QED
      BY <3>3, ProgramAssumption
  <2>4. IsFiniteSet(rules) /\ \A r \in rules : IsRule(r)
    BY ProgramAssumption DEF IsRule
  <2>5. Asked(request')
    BY <2>2, <2>3, <2>4 DEF Asked, PlanOK
  <2>6. UNCHANGED <<draft, program>> /\ draft = NoDraft /\ request = NoProgram
    BY <1>3 DEF Send
  <2> QED
    BY <2>5, <2>6
<1>4. CASE Publish
  <2>1. /\ request # NoProgram /\ UNCHANGED <<draft, request>>
        /\ program' = [request EXCEPT !.rules = DatedRules(request)]
        /\ NeedIsReachable(request.plan, DatedRules(request))
    BY <1>4 DEF Publish, DatedRules
  <2>2. request = Program(request.plan, request.rules, request.daily, request.later)
    BY <2>1 DEF Asked
  <2>3. program'.plan = request.plan /\ program'.rules = DatedRules(request)
    BY <2>1, <2>2 DEF Program
  <2> QED
    BY <2>1, <2>3 DEF DatedRules
<1>5. CASE UNCHANGED <<draft, request, program>>
  BY <1>5 DEF DatedRules
<1> QED
  BY <1>1, <1>2, <1>3, <1>4, <1>5 DEF ProgramNext, Launch, programVars

\* A published program is what its dialog showed and can be carried out, however
\* its tasks were edited and whoever sent it: each rule is on days of its own
\* phase; its runs are those of the preview and of the preview's table; tasks of
\* one day whose times were not edited prefer different minutes between 08:00
\* and 20:00; the warmup offers what Money waits for; and
\* what the launch form lets an operator leave out, or takes for one variable of
\* several tasks, is never refused by the route, which goes through the tasks one
\* by one (phase-plan.ts; POST in api/cycle-programs/route.ts; LaunchCycleDialog;
\* program-config.ts).
THEOREM ProgramsHold == ProgramSpec => []ProgramHolds
<1>1. ProgramInv /\ DraftInv => ProgramHolds
  BY DraftsHold DEF ProgramInv, ProgramHolds
<1> QED
  BY <1>1, ProgramsBegin, ProgramSteps, DraftsBegin, DraftSteps, PTL DEF ProgramSpec
=============================================================================
