----------------------------- MODULE FleetPlan ------------------------------
(***************************************************************************)
(* The fleet calendar's forecast (buildFleetPlan and findOpenSlot of       *)
(* src/lib/scheduler/fleet-planning.ts): which Startup slot the known work *)
(* will take, and when.                                                    *)
(*                                                                         *)
(* One step settles one event, in the code's order: runs that are active,  *)
(* then finished ones (shown in a lane where they fit), then everything    *)
(* that waits, by due time. Time is counted in ticks from Past, the start  *)
(* of the week shown; its end is at least a day from Now.                  *)
(***************************************************************************)
EXTENDS Integers, FiniteSets, FiniteSetsExt

CONSTANTS
  Event,     \* runs and projected occurrences, numbered in the order of ids
  PhoneFor,  \* the phone of each event
  Phone,
  ImageOf,   \* the physical phone behind a phone: aliases share one
  Eligible,  \* phones that are enabled and in a usable state
  SlotCount, \* the known Startup slots
  Past, Now, Through,
  Startup, Gap,
  DueTimes,  \* when events are due
  Runtimes,  \* expected durations
  Waits,     \* how long after it is due an event may be asked for again
  Deadlines  \* when the execution window of a run closes

ASSUME FleetAssumption ==
  /\ Event \subseteq Nat /\ IsFiniteSet(Event)
  /\ PhoneFor \in [Event -> Phone] /\ Phone = DOMAIN ImageOf /\ Eligible \subseteq Phone
  /\ SlotCount \in Nat \ {0} /\ Startup \in Nat /\ Gap \in Nat
  /\ {Past, Now, Through} \subseteq Int /\ Past < Now /\ Now < Through
  /\ DueTimes \union Deadlines \subseteq Int /\ Waits \subseteq Nat
  /\ Runtimes \subseteq Nat \ {0}

VARIABLES
  event,    \* what is known of each event; fixed
  online,   \* physical phones that are on; fixed
  used,     \* occupied slots the provider reports; fixed
  todo,     \* events not settled yet
  lanes,    \* reserved intervals
  at,       \* where an event was placed: <<lane, start, end>>, or Nowhere
  doubts    \* warnings: while there is one, the forecast is not reliable

fleetVars == <<event, online, used, todo, lanes, at, doubts>>

StartupLane == 0 .. SlotCount - 1
Nowhere == <<>>
Kind == {"active", "finished", "waiting"}

\* Two events use one phone when their phones share an image.
Image(e) == ImageOf[PhoneFor[e]]

Events(kind) == {e \in Event : event[e].kind = kind}
ActiveImages == {Image(e) : e \in Events("active")}

\* Slots that are on without a run the plan knows: each takes a lane.
Unknown ==
  Max({0, used - Cardinality(ActiveImages), Cardinality(online \ ActiveImages)})
Blocked == Min({SlotCount, Unknown})

FleetInit ==
  /\ event \in [Event -> [kind : Kind, due : DueTimes, length : Runtimes,
                          wait : Waits, closes : Deadlines]]
  /\ \A e \in Events("active") : event[e].due <= Now
  /\ \A e \in Events("finished") : event[e].due + event[e].length <= Now
  /\ \A e \in Event \ Events("waiting") :
       event[e].wait = Min(Waits) /\ event[e].closes = Max(Deadlines)
  /\ online \in {ActiveImages, {}} \union {ActiveImages \union {ImageOf[p]} : p \in Phone}
  /\ used \in {Cardinality(online), SlotCount}
  /\ todo = Event
  /\ lanes = {[lane |-> lane, start |-> Past, end |-> Through, image |-> {}, of |-> {}] :
                lane \in 0 .. Blocked - 1}
  /\ at = [e \in Event |-> Nowhere]
  /\ doubts = (IF Unknown > 0 THEN {"untracked"} ELSE {})
                \union (IF Cardinality(ActiveImages) < Cardinality(Events("active"))
                        THEN {"shared"} ELSE {})

\* A task keeps its lane and its physical phone, and both for a while after.
Reserve(e, lane, start, end, buffer) ==
  /\ lanes' = lanes \union {[lane |-> lane, start |-> start, end |-> end + buffer,
                             image |-> {Image(e)}, of |-> {e}]}
  /\ at' = [at EXCEPT ![e] = <<lane, start, end>>]

Skip == UNCHANGED <<lanes, at>>

Settle(e) == todo' = todo \ {e} /\ UNCHANGED <<event, online, used>>

Unsettled(kind) == todo \intersect Events(kind)

\* The next of a kind: by time, then by id.
First(kind) ==
  CHOOSE e \in Unsettled(kind) : \A f \in Unsettled(kind) \ {e} :
    event[e].due < event[f].due \/ (event[e].due = event[f].due /\ e < f)

\* A run that overran its estimate keeps its slot until its end is confirmed.
HeldUntil(start, length) == IF start + length <= Now THEN Through ELSE start + length

\* Active runs get a lane each, in the order they started, after the blocked
\* ones. Those beyond the slots are not reserved at all.
PlaceActive ==
  /\ Unsettled("active") # {}
  /\ LET e == First("active")
         lane == Blocked + Cardinality(Events("active") \ todo)
         start == event[e].due
         end == HeldUntil(start, event[e].length)
     IN  /\ Settle(e)
         /\ IF lane >= SlotCount
            THEN Skip /\ doubts' = doubts \union {"exceeded"}
            ELSE /\ Reserve(e, lane, start, end, Gap)
                 /\ doubts' = doubts \union (IF start + event[e].length <= Now
                                             THEN {"overrun"} ELSE {})

Meets(i, start, end) == start < i.end /\ end > i.start

\* A finished run is shown in the first lane where it meets nothing.
PlaceFinished ==
  /\ Unsettled("active") = {} /\ Unsettled("finished") # {}
  /\ LET e == CHOOSE f \in Unsettled("finished") : \A g \in Unsettled("finished") : f <= g
         start == event[e].due
         end == start + event[e].length
         free == {lane \in StartupLane : \A i \in lanes : i.lane = lane => ~Meets(i, start, end)}
     IN  /\ Settle(e)
         /\ UNCHANGED doubts
         /\ IF free = {} THEN Skip ELSE Reserve(e, Min(free), start, end, 0)

\* Mutation of Opening: only the start has to be free.
OpeningAtStart(intervals, from, length) ==
  Min({s \in {from} \union {i.end : i \in intervals} :
         s >= from /\ \A i \in intervals : ~Meets(i, s, s + 1)})

\* The earliest start from a moment on that meets none of the intervals. The
\* code finds it in one pass over the intervals by start: moving past one that
\* it meets skips no opening.
Opening(intervals, from, length) ==
  Min({s \in {from} \union {i.end : i \in intervals} :
         s >= from /\ \A i \in intervals : ~Meets(i, s, s + length)})

\* Intervals a task has to avoid on a lane: the lane's and its phone's.
InTheWay(e, lane) == {i \in lanes : i.lane = lane \/ Image(e) \in i.image}

\* What waits is placed on the lane that lets it start first.
PlaceWaiting ==
  /\ Unsettled("active") \union Unsettled("finished") = {} /\ todo # {}
  /\ LET e == First("waiting")
         length == event[e].length + Startup
         from == Max({Now, event[e].due + event[e].wait})
         startOn == [lane \in StartupLane |-> Opening(InTheWay(e, lane), from, length)]
         start == Min({startOn[lane] : lane \in StartupLane})
         lane == Min({l \in StartupLane : startOn[l] = start})
     IN  /\ Settle(e)
         /\ UNCHANGED doubts
         /\ IF /\ PhoneFor[e] \in Eligible
               /\ start + length <= event[e].closes
               /\ start < Through
            THEN Reserve(e, lane, start, start + length, Gap)
            ELSE Skip

FleetNext == PlaceActive \/ PlaceFinished \/ PlaceWaiting
FleetSpec == FleetInit /\ [][FleetNext]_fleetVars

Reliable == doubts = {}

\* "Find open time": the first opening of each lane within the window, of which
\* the code offers the earliest.
OpenSlots(length, after) ==
  {s \in {[lane |-> lane, start |-> Opening({i \in lanes : i.lane = lane}, after, length)] :
            lane \in StartupLane} :
     Reliable /\ s.start + length <= Through}

-----------------------------------------------------------------------------
(* Properties. *)

\* The state has its type; a settled event that has a place has it on a lane
\* and reserved there.
FleetTypeOK ==
  \A e \in Event : at[e] # Nowhere =>
    /\ e \notin todo /\ at[e][1] \in StartupLane /\ at[e][2] < at[e][3]
    /\ \E i \in lanes : i.of = {e} /\ i.lane = at[e][1] /\ i.start = at[e][2]

Overlap(e, f) == at[e][2] < at[f][3] /\ at[f][2] < at[e][3]

\* "Phone aliases sharing a provider image are serialized as one physical
\* device" (docs/agency-command-center.md, line 30): while the forecast is
\* reliable, no two tasks use one phone, or one lane, at one time.
ReliablePlanSerializes ==
  Reliable => \A e, f \in Event :
    /\ e # f /\ at[e] # Nowhere /\ at[f] # Nowhere
    /\ ImageOf[PhoneFor[e]] = ImageOf[PhoneFor[f]] \/ at[e][1] = at[f][1]
    /\ {event[e].kind, event[f].kind} \subseteq {"active", "waiting"}
    => ~Overlap(e, f)

\* A task holds its slot from its start to its end, and an active run that
\* overran its estimate until its end is known.
Holds(e, m) ==
  /\ at[e] # Nowhere /\ at[e][2] <= m
  /\ m < at[e][3] \/ (event[e].kind = "active" /\ at[e][3] <= Now)

\* Whatever is known, at no moment of the window do more tasks hold a slot, with
\* the slots that are on without a known run, than there are slots; a run that
\* overran counts, since "this slot remains reserved until completion is
\* confirmed" (fleet-planning.ts, line 122).
NeverOverbooked ==
  \A m \in Now .. Through - 1 :
    Blocked + Cardinality({e \in Event : Holds(e, m)}) <= SlotCount

\* An open slot that is offered is one: a task that takes it for its whole
\* length exceeds the slots at no moment.
OfferedSlotIsFree ==
  todo = {} => \A length \in Runtimes : \A s \in OpenSlots(length + Startup, Now) :
    \A m \in s.start .. s.start + length + Startup - 1 :
      Blocked + Cardinality({e \in Event : Holds(e, m)}) < SlotCount

\* The spacing after a task is kept free on its lane: "Startup-slot forecasting
\* that includes ... phone serialization, startup allowance, and spacing"
\* (docs/agency-command-center.md, line 9). It does not hold: a task placed in
\* the gap before one that is already placed looks at its own length only.
LaneSpacingKept ==
  Reliable => \A i, j \in lanes :
    i # j /\ i.lane = j.lane => i.end <= j.start \/ j.end <= i.start

\* The forecast never promises a slot or a phone twice.
FleetHolds == FleetTypeOK /\ ReliablePlanSerializes /\ NeverOverbooked /\ OfferedSlotIsFree
=============================================================================
