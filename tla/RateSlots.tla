------------------------------ MODULE RateSlots ------------------------------
(***************************************************************************)
(* Spacing the calls to DuoPlus.  Every call of every process reserves a   *)
(* time slot in the database first (reserve_duoplus_rate_slot) and sleeps  *)
(* until then.  Connections linked to one capacity pool share the pool's   *)
(* slots; a connection not linked yet has slots of its own, which the link *)
(* merges into the pool.                                                   *)
(*                                                                         *)
(* The promise is about the reservations: two of one account are never     *)
(* closer than the gap the earlier one asked for.  The call itself leaves  *)
(* at its slot or, when the process is slow, some time after it.           *)
(***************************************************************************)
EXTENDS Integers

CONSTANTS RateConn,    \* connections
          RatePool,    \* capacity pools
          Caller,      \* calls to be made
          NoPool,
          MinGap,      \* duo_connections.min_gap_ms
          BaseGap      \* the floor, 1200 ms

ASSUME RateAssumption ==
  /\ NoPool \notin RatePool
  /\ BaseGap \in Nat /\ MinGap \in [RateConn -> Nat]

VARIABLES time,
          poolOf,     \* capacity_pool_id of a connection
          live,       \* connections with status active
          poolNext,   \* duo_capacity_pools.rate_next_available_at
          connNext,   \* duo_rate_slots.next_available_at
          slots,      \* every reservation made: who, when, with what gap
          call        \* call[k]: the slot a caller waits for, or what became of it

rateVars == <<time, poolOf, live, poolNext, connNext, slots, call>>

Slot == [conn : RateConn, at : Nat, gap : Nat]
NotCalled == [state |-> "idle", at |-> 0]

RateTypeOK ==
  /\ time \in Nat
  /\ poolOf \in [RateConn -> RatePool \cup {NoPool}]
  /\ live \in SUBSET RateConn
  /\ poolNext \in [RatePool -> Nat] /\ connNext \in [RateConn -> Nat]
  /\ slots \in SUBSET Slot
  /\ call \in [Caller -> [state : {"idle", "waiting", "sent"}, at : Nat]]

RateInit ==
  /\ time = 0
  /\ poolOf = [c \in RateConn |-> NoPool]
  /\ live = RateConn
  /\ poolNext = [p \in RatePool |-> 0]
  /\ connNext = [c \in RateConn |-> 0]
  /\ slots = {}
  /\ call = [k \in Caller |-> NotCalled]

Later(s, t) == IF s >= t THEN s ELSE t

\* The gaps of the connection and of the active ones of its pool; the greatest
\* of them applies.
Gaps(c) ==
  {BaseGap, MinGap[c]} \cup
  {MinGap[d] : d \in {e \in live : poolOf[c] # NoPool /\ poolOf[e] = poolOf[c]}}

\* Mutation of NextOf: a linked connection keeps slots of its own.
NextOfConnection(c) == connNext[c]

NextOf(c) == IF poolOf[c] = NoPool THEN connNext[c] ELSE poolNext[poolOf[c]]

\* reserve_duoplus_rate_slot, under the lock of the pool or the slot row.
Reserve(k, c) ==
  LET at == Later(time, NextOf(c)) IN
  /\ call[k].state = "idle"
  /\ \E g \in Gaps(c) :
       /\ \A h \in Gaps(c) : g >= h
       /\ slots' = slots \cup {[conn |-> c, at |-> at, gap |-> g]}
       /\ IF poolOf[c] = NoPool
          THEN connNext' = [connNext EXCEPT ![c] = at + g] /\ UNCHANGED poolNext
          ELSE poolNext' = [poolNext EXCEPT ![poolOf[c]] = at + g]
               /\ UNCHANGED connNext
  /\ call' = [call EXCEPT ![k] = [state |-> "waiting", at |-> at]]
  /\ UNCHANGED <<time, poolOf, live>>

\* waitForReservedSlot has slept; the request goes out.
Send(k) ==
  /\ call[k].state = "waiting" /\ time >= call[k].at
  /\ call' = [call EXCEPT ![k].state = "sent"]
  /\ UNCHANGED <<time, poolOf, live, poolNext, connNext, slots>>

\* The first link of a connection: its own slots are merged into the pool.
LinkPool(c, p) ==
  /\ c \in live /\ poolOf[c] = NoPool
  /\ poolOf' = [poolOf EXCEPT ![c] = p]
  /\ poolNext' = [poolNext EXCEPT ![p] = Later(@, connNext[c])]
  /\ UNCHANGED <<time, live, connNext, slots, call>>

\* Disconnecting, or being refused, and being connected again.  The pool stays.
ToggleLive(c) ==
  /\ live' = IF c \in live THEN live \ {c} ELSE live \cup {c}
  /\ UNCHANGED <<time, poolOf, poolNext, connNext, slots, call>>

RateTick ==
  /\ time' = time + 1
  /\ UNCHANGED <<poolOf, live, poolNext, connNext, slots, call>>

RateNext ==
  \/ \E k \in Caller : Send(k) \/ \E c \in RateConn : Reserve(k, c)
  \/ \E c \in RateConn : ToggleLive(c) \/ \E p \in RatePool : LinkPool(c, p)
  \/ RateTick

RateSpec == RateInit /\ [][RateNext]_rateVars

----------------------------------------------------------------------------
\* Two connections are known to be one account.
SameAccount(c, d) == c = d \/ (poolOf[c] # NoPool /\ poolOf[c] = poolOf[d])

\* A new reservation is never closer to an earlier one of the same account
\* than the gap the earlier one asked for: whichever process made them, before
\* or after the connections were linked, disconnected and connected again.
SlotsSpaced ==
  [][\A s \in slots' \ slots, t \in slots :
       SameAccount(s.conn, t.conn) => s.at >= t.at + t.gap]_rateVars

\* What that rests on: the next free time of an account lies beyond every
\* reservation of a connection that is linked to it by now.
NextBeyondSlots ==
  \A s \in slots : s.at + s.gap <= NextOf(s.conn)
=============================================================================
