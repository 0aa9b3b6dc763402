---------------------------- MODULE ClientProofs ----------------------------
(***************************************************************************)
(* The DuoPlus client, for every size: RateSlots and PagedFetch, which     *)
(* share no state.                                                         *)
(*                                                                         *)
(* The reservations of one DuoPlus account are spaced, for any number of   *)
(* connections, pools and callers and for all gaps.  SlotsSpaced speaks of *)
(* one step; it follows from NextBeyondSlots, which is inductive together  *)
(* with the types: the only step that moves a connection to another        *)
(* account, the link, raises the pool's next free time to the              *)
(* connection's own.                                                       *)
(*                                                                         *)
(* A complete read can be relied on, for lists of any length, pages of any *)
(* size and whatever totals DuoPlus reports.  The rows got so far are the  *)
(* first pages of a list that has not changed (Unchanged); with a total, a *)
(* list that changed in one way only has its first length again only if it *)
(* has not changed since the first page (Counted).  The rest is counting:  *)
(* as many different rows as the list is long are all of it (AllOfIt).     *)
(***************************************************************************)
EXTENDS RateSlots, PagedFetch, FiniteSetTheorems, FunctionTheorems, SequenceTheorems, TLAPS

-----------------------------------------------------------------------------
(* Rate slots.                                                             *)

RateInv == RateTypeOK /\ NextBeyondSlots

\* The gap that applies is a number.
LEMMA GapsAreNat ==
  ASSUME RateTypeOK, NEW c \in RateConn
  PROVE  Gaps(c) \subseteq Nat
BY RateAssumption DEF RateTypeOK, Gaps

\* The next free time of an account is a number.
LEMMA NextIsNat ==
  ASSUME RateTypeOK, NEW c \in RateConn
  PROVE  NextOf(c) \in Nat
BY DEF RateTypeOK, NextOf

LEMMA RateStarts == RateInit => RateInv
BY RateAssumption
   DEF RateInit, RateInv, RateTypeOK, NextBeyondSlots, NotCalled

\* A reservation takes its account's next free time, and moves it past itself.
LEMMA ReserveStep ==
  ASSUME RateInv, NEW k \in Caller, NEW c \in RateConn, Reserve(k, c)
  PROVE  /\ RateInv'
         /\ \A s \in slots' \ slots, t \in slots :
              SameAccount(s.conn, t.conn) => s.at >= t.at + t.gap
<1> DEFINE at == Later(time, NextOf(c))
<1>1. PICK g \in Gaps(c) :
        /\ slots' = slots \cup {[conn |-> c, at |-> at, gap |-> g]}
        /\ IF poolOf[c] = NoPool
           THEN connNext' = [connNext EXCEPT ![c] = at + g] /\ UNCHANGED poolNext
           ELSE poolNext' = [poolNext EXCEPT ![poolOf[c]] = at + g]
                /\ UNCHANGED connNext
  BY DEF Reserve
<1>2. g \in Nat /\ NextOf(c) \in Nat /\ at \in Nat /\ at >= NextOf(c)
  BY GapsAreNat, NextIsNat DEF RateInv, RateTypeOK, Later
<1>3. /\ UNCHANGED <<time, poolOf, live>>
      /\ call' = [call EXCEPT ![k] = [state |-> "waiting", at |-> at]]
  BY DEF Reserve
<1>4. RateTypeOK'
  <2>1. slots' \in SUBSET Slot
    BY <1>1, <1>2 DEF RateInv, RateTypeOK, Slot
  <2>2. poolNext' \in [RatePool -> Nat] /\ connNext' \in [RateConn -> Nat]
    BY <1>1, <1>2 DEF RateInv, RateTypeOK
  <2>3. call' \in [Caller -> [state : {"idle", "waiting", "sent"}, at : Nat]]
    BY <1>2, <1>3 DEF RateInv, RateTypeOK
  <2> QED
    BY <1>3, <2>1, <2>2, <2>3 DEF RateInv, RateTypeOK
<1>5. ASSUME NEW t \in slots, SameAccount(c, t.conn)
      PROVE  t.at + t.gap <= NextOf(c)
  <2>1. t \in Slot /\ t.at + t.gap <= NextOf(t.conn)
    BY DEF RateInv, RateTypeOK, NextBeyondSlots
  <2>2. NextOf(t.conn) = NextOf(c)
    BY <1>5 DEF SameAccount, NextOf
  <2> QED
    BY <2>1, <2>2
<1>6. NextBeyondSlots'
  <2> SUFFICES ASSUME NEW s \in slots'
               PROVE  s.at + s.gap <= NextOf(s.conn)'
    BY DEF NextBeyondSlots
  <2>1. CASE s = [conn |-> c, at |-> at, gap |-> g]
    BY <1>1, <1>2, <1>3, <2>1 DEF NextOf, RateInv, RateTypeOK
  <2>2. CASE s \in slots /\ SameAccount(c, s.conn)
    <3>1. s.at + s.gap <= NextOf(c) /\ s \in Slot
      BY <1>5, <2>2 DEF RateInv, RateTypeOK
    <3>2. NextOf(s.conn)' = at + g
      BY <1>1, <1>3, <2>2 DEF SameAccount, NextOf, RateInv, RateTypeOK
    <3> QED
      BY <1>2, <3>1, <3>2 DEF Slot
  <2>3. CASE s \in slots /\ ~SameAccount(c, s.conn)
    <3>1. s.at + s.gap <= NextOf(s.conn) /\ s.conn \in RateConn
      BY <2>3 DEF RateInv, RateTypeOK, NextBeyondSlots, Slot
    <3>2. NextOf(s.conn)' = NextOf(s.conn)
      BY <1>1, <1>3, <2>3, <3>1 DEF SameAccount, NextOf, RateInv, RateTypeOK
    <3> QED
      BY <3>1, <3>2
  <2> QED
    BY <1>1, <2>1, <2>2, <2>3
<1>7. ASSUME NEW s \in slots' \ slots, NEW t \in slots,
             SameAccount(s.conn, t.conn)
      PROVE  s.at >= t.at + t.gap
  <2>1. s = [conn |-> c, at |-> at, gap |-> g]
    BY <1>1, <1>7
  <2>2. t.at + t.gap <= NextOf(c) /\ t \in Slot
    BY <1>5, <1>7, <2>1 DEF RateInv, RateTypeOK
  <2> QED
    BY <1>2, <2>1, <2>2 DEF Slot
<1> QED
  BY <1>4, <1>6, <1>7 DEF RateInv

\* A link brings the connection's own reservations under the pool's time.
LEMMA RateLinkStep ==
  ASSUME RateInv, NEW c \in RateConn, NEW p \in RatePool, LinkPool(c, p)
  PROVE  RateInv' /\ slots' = slots
<1>1. /\ poolOf[c] = NoPool /\ poolOf' = [poolOf EXCEPT ![c] = p]
      /\ poolNext' = [poolNext EXCEPT ![p] = Later(@, connNext[c])]
      /\ UNCHANGED <<time, live, connNext, slots, call>>
  BY DEF LinkPool
<1>2. RateTypeOK'
  BY <1>1 DEF RateInv, RateTypeOK, Later
<1>3. NextBeyondSlots'
  <2> SUFFICES ASSUME NEW s \in slots
               PROVE  s.at + s.gap <= NextOf(s.conn)'
    BY <1>1 DEF NextBeyondSlots
  <2>1. /\ s \in Slot /\ s.conn \in RateConn
        /\ s.at + s.gap <= NextOf(s.conn)
    BY DEF RateInv, RateTypeOK, NextBeyondSlots, Slot
  <2>2. NextOf(s.conn) \in Nat /\ s.at + s.gap \in Nat
    BY <2>1, NextIsNat DEF RateInv, Slot
  <2>3. poolNext'[p] >= poolNext[p] /\ poolNext'[p] >= connNext[c]
        /\ poolNext'[p] \in Nat
    BY <1>1 DEF RateInv, RateTypeOK, Later
  <2>4. NextOf(s.conn)' >= NextOf(s.conn) /\ NextOf(s.conn)' \in Nat
    <3>1. CASE s.conn = c
      BY <1>1, <2>3, <3>1, RateAssumption DEF NextOf, RateInv, RateTypeOK
    <3>2. CASE s.conn # c
      BY <1>1, <2>1, <2>2, <2>3, <3>2 DEF NextOf, RateInv, RateTypeOK
    <3> QED
      BY <3>1, <3>2
  <2> QED
    BY <2>1, <2>2, <2>4
<1> QED
  BY <1>1, <1>2, <1>3 DEF RateInv

\* The other steps touch neither reservations nor next free times.
LEMMA RateStays ==
  ASSUME RateInv,
         \/ \E k \in Caller : Send(k)
         \/ \E c \in RateConn : ToggleLive(c)
         \/ RateTick
         \/ UNCHANGED rateVars
  PROVE  RateInv' /\ slots' = slots
<1>1. UNCHANGED <<poolOf, poolNext, connNext, slots>>
  BY DEF Send, ToggleLive, RateTick, rateVars
<1>2. NextBeyondSlots'
  BY <1>1 DEF RateInv, NextBeyondSlots, NextOf
<1>3. RateTypeOK'
  BY <1>1 DEF RateInv, RateTypeOK, Send, ToggleLive, RateTick, rateVars
<1> QED
  BY <1>1, <1>2, <1>3 DEF RateInv

\* Every step keeps the invariant and spaces what it reserves.
LEMMA RateStep ==
  ASSUME RateInv, [RateNext]_rateVars
  PROVE  /\ RateInv'
         /\ \A s \in slots' \ slots, t \in slots :
              SameAccount(s.conn, t.conn) => s.at >= t.at + t.gap
<1>1. CASE \E k \in Caller, c \in RateConn : Reserve(k, c)
  BY <1>1, ReserveStep
<1>2. CASE \E c \in RateConn, p \in RatePool : LinkPool(c, p)
  BY <1>2, RateLinkStep
<1>3. CASE \/ \E k \in Caller : Send(k)
           \/ \E c \in RateConn : ToggleLive(c)
           \/ RateTick
           \/ UNCHANGED rateVars
  BY <1>3, RateStays
<1> QED
  BY <1>1, <1>2, <1>3 DEF RateNext

\* In every behaviour the types hold.
THEOREM RateTypeCorrect == RateSpec => []RateTypeOK
<1>1. RateInv => RateTypeOK
  BY DEF RateInv
<1> QED
  BY <1>1, RateStarts, RateStep, PTL DEF RateSpec

\* No reservation lies beyond the next free time of its account.
THEOREM NextStaysBeyond == RateSpec => []NextBeyondSlots
<1>1. RateInv => NextBeyondSlots
  BY DEF RateInv
<1> QED
  BY <1>1, RateStarts, RateStep, PTL DEF RateSpec

\* Reservations of one account are spaced (rate-limit.ts and the function
\* reserve_duoplus_rate_slot), whatever the gaps and the order of links.
THEOREM SlotsAreSpaced == RateSpec => SlotsSpaced
<1>1. RateInv /\ [RateNext]_rateVars =>
        [\A s \in slots' \ slots, t \in slots :
           SameAccount(s.conn, t.conn) => s.at >= t.at + t.gap]_rateVars
  BY RateStep
<1> QED
  BY <1>1, RateStarts, RateStep, PTL DEF RateSpec, SlotsSpaced

-----------------------------------------------------------------------------
(* Sequences and sets.                                                     *)

LEMMA ElementsAre ==
  ASSUME NEW S, NEW s \in Seq(S)
  PROVE  /\ Len(s) \in Nat /\ DOMAIN s = 1..Len(s)
         /\ ToSet(s) = {s[i] : i \in 1..Len(s)} /\ ToSet(s) \subseteq S
<1>1. Len(s) \in Nat /\ DOMAIN s = 1..Len(s) /\ s \in [1..Len(s) -> S]
  BY LenProperties
<1> QED
  BY <1>1 DEF ToSet

LEMMA SliceIs ==
  ASSUME NEW S, NEW s \in Seq(S), NEW off \in Nat, NEW m \in Nat, m <= Len(s)
  PROVE  /\ Len(SubSeq(s, off + 1, m)) = IF off <= m THEN m - off ELSE 0
         /\ ToSet(SubSeq(s, off + 1, m)) = {s[i] : i \in (off + 1)..m}
<1>1. Len(s) \in Nat /\ \A i \in 1..Len(s) : s[i] \in S
  BY LenProperties
<1>2. PICK q : q = SubSeq(s, off + 1, m)
  OBVIOUS
<1>3. /\ q \in Seq(S)
      /\ Len(q) = IF off + 1 <= m THEN m - (off + 1) + 1 ELSE 0
      /\ \A i \in 1..(m - (off + 1) + 1) : q[i] = s[off + 1 + i - 1]
  <2>1. \A i \in (off + 1)..m : s[i] \in S
    BY <1>1
  <2> QED
    BY <1>2, <2>1, SubSeqProperties
<1>4. ToSet(q) = {q[i] : i \in 1..Len(q)}
  BY <1>3, ElementsAre
<1>5. ASSUME NEW i \in 1..Len(q) PROVE off + i \in (off + 1)..m /\ q[i] = s[off + i]
  BY <1>3, <1>5
<1>6. ASSUME NEW j \in (off + 1)..m PROVE j - off \in 1..Len(q) /\ q[j - off] = s[j]
  BY <1>3, <1>6
<1>7. ToSet(q) = {s[i] : i \in (off + 1)..m}
  <2>1. ASSUME NEW x \in ToSet(q) PROVE x \in {s[i] : i \in (off + 1)..m}
    <3>1. PICK i \in 1..Len(q) : x = q[i]
      BY <1>4, <2>1
    <3> QED
      BY <1>5, <3>1
  <2>2. ASSUME NEW x \in {s[i] : i \in (off + 1)..m} PROVE x \in ToSet(q)
    <3>1. PICK j \in (off + 1)..m : x = s[j]
      BY <2>2
    <3> QED
      BY <1>4, <1>6, <3>1
  <2> QED
    BY <2>1, <2>2
<1> QED
  BY <1>2, <1>3, <1>7

LEMMA ShortenedBy ==
  ASSUME NEW S, NEW s \in Seq(S), NEW j \in 1..Len(s)
  PROVE  RemoveAt(s, j) \in Seq(S) /\ Len(RemoveAt(s, j)) = Len(s) - 1
<1>1. Len(s) \in Nat /\ \A i \in 1..Len(s) : s[i] \in S
  BY LenProperties
<1>2. PICK u : u = SubSeq(s, 1, j - 1)
  OBVIOUS
<1>3. u \in Seq(S) /\ Len(u) = j - 1
  BY <1>1, <1>2, SubSeqProperties
<1>4. PICK v : v = SubSeq(s, j + 1, Len(s))
  OBVIOUS
<1>5. v \in Seq(S) /\ Len(v) = Len(s) - j
  BY <1>1, <1>4, SubSeqProperties
<1>6. u \o v \in Seq(S) /\ Len(u \o v) = Len(u) + Len(v)
  BY <1>3, <1>5, ConcatProperties
<1>7. RemoveAt(s, j) = u \o v
  BY <1>2, <1>4 DEF RemoveAt
<1> QED
  BY <1>1, <1>3, <1>5, <1>6, <1>7

LEMMA LengthenedBy ==
  ASSUME NEW S, NEW s \in Seq(S), NEW i \in 1..(Len(s) + 1), NEW e \in S
  PROVE  InsertAt(s, i, e) \in Seq(S) /\ Len(InsertAt(s, i, e)) = Len(s) + 1
<1>1. Len(s) \in Nat /\ \A j \in 1..Len(s) : s[j] \in S
  BY LenProperties
<1>2. PICK u : u = SubSeq(s, 1, i - 1)
  OBVIOUS
<1>3. u \in Seq(S) /\ Len(u) = i - 1
  BY <1>1, <1>2, SubSeqProperties
<1>4. PICK v : v = SubSeq(s, i, Len(s))
  OBVIOUS
<1>5. v \in Seq(S) /\ Len(v) = Len(s) - i + 1
  BY <1>1, <1>4, SubSeqProperties
<1>6. PICK w : w = <<e>>
  OBVIOUS
<1>7. w \in Seq(S) /\ Len(w) = 1
  BY <1>6
<1>8. u \o w \in Seq(S) /\ Len(u \o w) = Len(u) + Len(w)
  BY <1>3, <1>7, ConcatProperties
<1>9. (u \o w) \o v \in Seq(S) /\ Len((u \o w) \o v) = Len(u \o w) + Len(v)
  BY <1>5, <1>8, ConcatProperties
<1>10. InsertAt(s, i, e) = (u \o w) \o v
  BY <1>2, <1>4, <1>6 DEF InsertAt
<1> QED
  BY <1>1, <1>3, <1>5, <1>7, <1>8, <1>9, <1>10

LEMMA FirstNumbers ==
  ASSUME NEW n \in Nat
  PROVE  IsFiniteSet(1..n) /\ Cardinality(1..n) = n
<1>1. \A i, j \in Int : /\ IsFiniteSet(i..j)
                        /\ Cardinality(i..j) = IF i > j THEN 0 ELSE j - i + 1
  BY FS_Interval
<1>2. 1 \in Int /\ n \in Int
  OBVIOUS
<1>3. IsFiniteSet(1..n) /\ Cardinality(1..n) = IF 1 > n THEN 0 ELSE n - 1 + 1
  BY <1>1, <1>2, Zenon
<1> QED
  BY <1>3

\* As many different rows as the list is long are all of it.
LEMMA AllOfIt ==
  ASSUME NEW S, NEW s \in Seq(S), NEW all \in SUBSET ToSet(s), Cardinality(all) = Len(s)
  PROVE  all = ToSet(s)
<1>1. Len(s) \in Nat /\ s \in [1..Len(s) -> S] /\ ToSet(s) = {s[i] : i \in 1..Len(s)}
  BY LenProperties, ElementsAre
<1>2. s \in Surjection(1..Len(s), ToSet(s))
  <2>1. s \in [1..Len(s) -> ToSet(s)]
    BY <1>1
  <2>2. \A t \in ToSet(s) : \E i \in 1..Len(s) : s[i] = t
    BY <1>1
  <2> QED
    BY <2>1, <2>2 DEF Surjection
<1>3. IsFiniteSet(1..Len(s)) /\ Cardinality(1..Len(s)) = Len(s)
  BY <1>1, FirstNumbers
<1>4. IsFiniteSet(ToSet(s)) /\ Cardinality(ToSet(s)) <= Len(s)
  BY <1>2, <1>3, FS_Surjection
<1>5. Cardinality(all) <= Cardinality(ToSet(s))
  BY <1>4, FS_Subset
<1>6. Cardinality(all) = Cardinality(ToSet(s))
  BY <1>1, <1>4, <1>5, FS_CardinalityType
<1> QED
  BY <1>4, <1>6, FS_Subset

\* SetToSeq lists the set, in some order.
LEMMA SetIsListed ==
  ASSUME NEW S, IsFiniteSet(S)
  PROVE  SetToSeq(S) \in Seq(S) /\ ToSet(SetToSeq(S)) = S
<1>1. Cardinality(S) \in Nat /\ ExistsBijection(1..Cardinality(S), S)
  BY FS_CardinalityType
<1>2. PICK f : f \in Bijection(1..Cardinality(S), S)
  BY <1>1 DEF ExistsBijection
<1>3. f \in [1..Cardinality(S) -> S] /\ IsInjective(f)
  BY <1>2 DEF Bijection, Injection, IsInjective
<1>4. /\ SetToSeq(S) \in [1..Cardinality(S) -> S] /\ IsInjective(SetToSeq(S))
  BY <1>3 DEF SetToSeq
<1>5. PICK s : s = SetToSeq(S)
  OBVIOUS
<1>6. s \in Seq(S) /\ Len(s) = Cardinality(S) /\ DOMAIN s = 1..Cardinality(S)
  BY <1>1, <1>4, <1>5
<1>7. s \in Injection(1..Cardinality(S), S)
  BY <1>4, <1>5 DEF Injection, IsInjective
<1>8. Cardinality(1..Cardinality(S)) = Cardinality(S)
  BY <1>1, FirstNumbers
<1>9. s \in Surjection(1..Cardinality(S), S)
  BY <1>7, <1>8, FS_Injection
<1>10. ToSet(s) = S
  BY <1>6, <1>9 DEF ToSet, Surjection
<1> QED
  BY <1>5, <1>6, <1>10

\* The page on which a list of n rows ends.
LEMMA LastPage ==
  ASSUME NEW n \in Nat, NEW page \in Nat \ {0}, page >= (n + PageSize - 1) \div PageSize
  PROVE  n <= page * PageSize
<1>1. PICK d \in Nat \ {0} : d = PageSize
  BY FetchAssumption
<1>2. PICK q \in Nat : q = (n + d - 1) \div d /\ n <= q * d
  BY <1>1
<1>3. q * d <= page * d
  BY <1>1, <1>2
<1> QED
  BY <1>1, <1>2, <1>3

-----------------------------------------------------------------------------
(* The read that is under way.                                             *)

OneNumber == {<<>>} \cup {<<n>> : n \in Nat}

Fetches ==
  [state : {"idle", "reading", "returned", "failed"}, list : Lists, page : Nat \ {0},
   rows : SUBSET StartupSlot, total : OneNumber, pages : OneNumber]

FetchShapes ==
  /\ listed \in [Lists -> Seq(StartupSlot)]
  /\ report \in SUBSET {"total", "pages"}
  /\ fetch \in Fetches
  /\ got \in [Lists -> SUBSET StartupSlot]
  /\ edits \in SUBSET {"add", "remove"}
  /\ stayed \in SUBSET StartupSlot /\ existed \in SUBSET StartupSlot

Existed ==
  /\ fetch.state = "idle" => existed = {}
  /\ fetch.state # "idle" => \A l \in Lists : Listed(l) \subseteq existed
  /\ fetch.rows \subseteq existed /\ \A l \in Lists : got[l] \subseteq existed

\* While a list is read, what is known of it: the rows, if nothing has changed,
\* are its first pages; with a total, and changes of one kind only, the list
\* has its first length again only if it has not changed since the first page.
Fresh == fetch.page = 1 => fetch.rows = {} /\ fetch.total = <<>> /\ fetch.pages = <<>>

Unchanged ==
  edits = {} =>
    LET read == (fetch.page - 1) * PageSize IN
    /\ stayed = Listed(fetch.list)
    /\ read <= Len(listed[fetch.list])
    /\ fetch.rows = {listed[fetch.list][i] : i \in 1..read}
    /\ fetch.page > 1 => /\ fetch.total = Total(fetch.list)
                         /\ fetch.pages = Pages(fetch.list)

OneWay == edits \in {{}, {"add"}, {"remove"}}

Counted ==
  "total" \in report /\ fetch.page > 1 =>
    \E n \in Nat :
      /\ fetch.total = <<n>>
      /\ edits \subseteq {"add"} => n <= Len(listed[fetch.list])
      /\ edits \subseteq {"remove"} => Len(listed[fetch.list]) <= n
      /\ OneWay /\ Len(listed[fetch.list]) = n => fetch.rows \subseteq Listed(fetch.list)

ReadingHolds ==
  fetch.state = "reading" =>
    /\ stayed \subseteq Listed(fetch.list)
    /\ Fresh /\ Unchanged /\ Counted

FetchInv == FetchShapes /\ Existed /\ ReadingHolds /\ FetchedIsTrue

LEMMA NothingIs ==
  /\ Nothing \in Fetches /\ Nothing.rows = {} /\ Nothing.page = 1
  /\ Nothing.total = <<>> /\ Nothing.pages = <<>> /\ Nothing.state = "idle"
  /\ Nothing.list = "assigned"
BY DEF Nothing, Fetches, Lists, OneNumber

LEMMA FetchStarts == FetchInit => FetchInv
<1> SUFFICES ASSUME FetchInit PROVE FetchInv
  OBVIOUS
<1>1. <<>> \in Seq(StartupSlot)
  BY EmptySeq
<1>2. FetchShapes
  BY <1>1, NothingIs DEF FetchInit, FetchShapes
<1>3. Existed
  BY NothingIs DEF FetchInit, Existed
<1> QED
  BY <1>2, <1>3, NothingIs
     DEF FetchInit, FetchInv, ReadingHolds, FetchedIsTrue, QuietFetchIsExact,
         NothingStayingIsMissed

\* A list of which no page has been read yet.
LEMMA ReadBegins ==
  ASSUME FetchShapes', Existed', fetch'.state = "reading", fetch'.page = 1, fetch'.rows = {},
         fetch'.total = <<>>, fetch'.pages = <<>>, stayed' = Listed(fetch.list)'
  PROVE  FetchInv'
<1>1. (fetch'.page - 1) * PageSize = 0
  BY FetchAssumption
<1>2. listed'[fetch'.list] \in Seq(StartupSlot) /\ Len(listed'[fetch'.list]) \in Nat
  BY LenProperties DEF FetchShapes, Fetches
<1>3. Unchanged'
  BY <1>1, <1>2 DEF Unchanged
<1> QED
  BY <1>3 DEF FetchInv, ReadingHolds, Fresh, Counted, FetchedIsTrue, QuietFetchIsExact,
              NothingStayingIsMissed

\* The start of a list.
LEMMA StartFetchKeeps == FetchInv /\ StartFetch => FetchInv'
<1> SUFFICES ASSUME FetchInv, StartFetch PROVE FetchInv'
  OBVIOUS
<1>1. PICK A \in SUBSET StartupSlot, B \in SUBSET StartupSlot :
        /\ listed' = [assigned |-> SetToSeq(A), available |-> SetToSeq(B)]
        /\ existed' = A \cup B
  BY DEF StartFetch
<1>2. IsFiniteSet(A) /\ IsFiniteSet(B)
  BY FetchAssumption, FS_Subset
<1>3. /\ SetToSeq(A) \in Seq(StartupSlot) /\ ToSet(SetToSeq(A)) = A
      /\ SetToSeq(B) \in Seq(StartupSlot) /\ ToSet(SetToSeq(B)) = B
  <2>1. SetToSeq(A) \in Seq(A) /\ SetToSeq(B) \in Seq(B)
    BY <1>2, SetIsListed
  <2>2. Seq(A) \subseteq Seq(StartupSlot) /\ Seq(B) \subseteq Seq(StartupSlot)
    BY SeqMonotonic
  <2> QED
    BY <1>2, <2>1, <2>2, SetIsListed
<1>4. /\ listed' \in [Lists -> Seq(StartupSlot)]
      /\ listed'["assigned"] = SetToSeq(A) /\ listed'["available"] = SetToSeq(B)
  BY <1>1, <1>3 DEF Lists
<1>5. /\ Listed("assigned")' = A /\ Listed("available")' = B /\ stayed' = A
  BY <1>3, <1>4 DEF Listed, StartFetch
<1>6. /\ fetch' \in Fetches /\ fetch'.state = "reading" /\ fetch'.list = "assigned"
      /\ fetch'.page = 1 /\ fetch'.rows = {} /\ fetch'.total = <<>> /\ fetch'.pages = <<>>
  BY NothingIs DEF StartFetch, Fetches
<1>7. got' = got /\ edits' = edits /\ report' \in SUBSET {"total", "pages"}
  BY DEF StartFetch
<1>8. FetchShapes'
  BY <1>1, <1>4, <1>5, <1>6, <1>7 DEF FetchShapes, FetchInv
<1>9. Existed'
  <2>1. \A l \in Lists : got[l] = {}
    BY DEF StartFetch, FetchInv, Existed
  <2> QED
    BY <1>1, <1>5, <1>6, <1>7, <2>1 DEF Existed, Lists
<1> QED
  BY <1>5, <1>6, <1>8, <1>9, ReadBegins

LEMMA NextListKeeps == FetchInv /\ NextList => FetchInv'
<1> SUFFICES ASSUME FetchInv, NextList PROVE FetchInv'
  OBVIOUS
<1>1. /\ fetch' \in Fetches /\ fetch'.state = "reading" /\ fetch'.list = "available"
      /\ fetch'.page = 1 /\ fetch'.rows = {} /\ fetch'.total = <<>> /\ fetch'.pages = <<>>
  BY NothingIs DEF NextList, Fetches, Lists
<1>2. /\ UNCHANGED <<listed, report, got, existed>> /\ edits' = {}
      /\ stayed' = Listed("available") /\ fetch.state = "returned"
  BY DEF NextList
<1>3. Listed("available")' = Listed("available") /\ Listed("available") \subseteq StartupSlot
  <2>1. listed["available"] \in Seq(StartupSlot)
    BY DEF FetchInv, FetchShapes, Lists
  <2> QED
    BY <1>2, <2>1, ElementsAre DEF Listed
<1>4. FetchShapes'
  BY <1>1, <1>2, <1>3 DEF FetchShapes, FetchInv
<1>5. Existed'
  BY <1>1, <1>2 DEF FetchInv, Existed, Listed
<1> QED
  BY <1>1, <1>2, <1>3, <1>4, <1>5, ReadBegins

\* DuoPlus changes a list, the one that is read or another.
LEMMA EditKeeps ==
  ASSUME FetchInv, NEW new \in [Lists -> Seq(StartupSlot)],
         NEW kinds \in SUBSET {"add", "remove"}, Edit(new, kinds),
         fetch.state # "reading" => kinds = {},
         fetch.state = "reading" =>
           \/ kinds = {} /\ new[fetch.list] = listed[fetch.list]
           \/ kinds = {"add"} /\ Len(new[fetch.list]) = Len(listed[fetch.list]) + 1
           \/ kinds = {"remove"} /\ Len(new[fetch.list]) = Len(listed[fetch.list]) - 1
  PROVE  FetchInv'
<1>1. /\ listed' = new /\ edits' = edits \cup kinds /\ UNCHANGED <<report, fetch, got>>
      /\ existed' = existed \cup ToSet(new["assigned"]) \cup ToSet(new["available"])
      /\ stayed' = IF fetch.state = "reading" THEN stayed \cap ToSet(new[fetch.list])
                   ELSE stayed
      /\ fetch.state \in {"reading", "returned"}
  BY DEF Edit
<1>2. FetchShapes /\ fetch.list \in Lists
  BY DEF FetchInv, FetchShapes, Fetches
<1>3. \A l \in Lists : new[l] \in Seq(StartupSlot) /\ ToSet(new[l]) \subseteq StartupSlot
  BY ElementsAre
<1>4. FetchShapes'
  BY <1>1, <1>2, <1>3 DEF FetchShapes, Lists
<1>5. Existed'
  BY <1>1 DEF FetchInv, Existed, Listed, Lists
<1>6. CASE fetch.state = "returned"
  <2>1. edits' = edits /\ stayed' = stayed
    BY <1>1, <1>6
  <2> QED
    BY <1>1, <1>4, <1>5, <1>6, <2>1
       DEF FetchInv, ReadingHolds, FetchedIsTrue, QuietFetchIsExact, NothingStayingIsMissed
<1>7. CASE fetch.state = "reading"
  <2> DEFINE s == listed[fetch.list]
             t == new[fetch.list]
  <2>1. /\ s \in Seq(StartupSlot) /\ t \in Seq(StartupSlot) /\ Len(s) \in Nat /\ Len(t) \in Nat
        /\ fetch'.list = fetch.list /\ listed'[fetch.list] = t
    BY <1>1, <1>2, <1>3, LenProperties DEF FetchShapes
  <2>2. ReadingHolds
    BY DEF FetchInv
  <2>3. stayed' \subseteq Listed(fetch.list)'
    BY <1>1, <1>7, <2>1 DEF Listed
  <2>4. Fresh'
    BY <1>1, <1>7, <2>2 DEF ReadingHolds, Fresh
  <2>5. Unchanged'
    <3>1. SUFFICES ASSUME edits' = {} PROVE Unchanged'
      BY DEF Unchanged
    <3>2. kinds = {} /\ edits = {}
      BY <1>1, <3>1
    <3>3. t = s
      BY <1>7, <3>2
    <3>4. /\ Listed(fetch.list)' = Listed(fetch.list) /\ Total(fetch.list)' = Total(fetch.list)
          /\ Pages(fetch.list)' = Pages(fetch.list)
      BY <1>1, <2>1, <3>3 DEF Listed, Total, Pages
    <3>5. stayed' = stayed
      BY <1>1, <1>7, <2>2, <3>3 DEF ReadingHolds, Listed
    <3> HIDE DEF s, t
    <3> QED
      BY <1>1, <1>7, <2>1, <2>2, <3>1, <3>2, <3>3, <3>4, <3>5 DEF ReadingHolds, Unchanged, s, t
  <2>6. Counted'
    <3>1. SUFFICES ASSUME "total" \in report, fetch.page > 1 PROVE Counted'
      BY <1>1 DEF Counted
    <3>2. PICK n \in Nat :
            /\ fetch.total = <<n>>
            /\ edits \subseteq {"add"} => n <= Len(s)
            /\ edits \subseteq {"remove"} => Len(s) <= n
            /\ OneWay /\ Len(s) = n => fetch.rows \subseteq Listed(fetch.list)
      BY <1>7, <2>2, <3>1 DEF ReadingHolds, Counted
    <3>3. CASE kinds = {} /\ t = s
      <4>1. Listed(fetch.list)' = Listed(fetch.list) /\ edits' = edits
        BY <1>1, <2>1, <3>3 DEF Listed
      <4> QED
        BY <1>1, <2>1, <3>2, <3>3, <4>1 DEF Counted, OneWay
    <3>4. CASE kinds = {"add"} /\ Len(t) = Len(s) + 1
      <4>1. "add" \in edits'
        BY <1>1, <3>4
      <4>2. edits' \subseteq {"add"} => edits \subseteq {"add"}
        BY <1>1
      <4>3. /\ ~(edits' \subseteq {"remove"})
            /\ edits' \in {{}, {"add"}, {"remove"}} => edits' \subseteq {"add"}
        BY <4>1
      <4>4. edits' \subseteq {"add"} => n < Len(t)
        BY <2>1, <3>2, <3>4, <4>2
      <4> QED
        BY <1>1, <2>1, <3>2, <4>3, <4>4 DEF Counted, OneWay
    <3>5. CASE kinds = {"remove"} /\ Len(t) = Len(s) - 1
      <4>1. "remove" \in edits'
        BY <1>1, <3>5
      <4>2. edits' \subseteq {"remove"} => edits \subseteq {"remove"}
        BY <1>1
      <4>3. /\ ~(edits' \subseteq {"add"})
            /\ edits' \in {{}, {"add"}, {"remove"}} => edits' \subseteq {"remove"}
        BY <4>1
      <4>4. edits' \subseteq {"remove"} => Len(t) < n
        BY <2>1, <3>2, <3>5, <4>2
      <4> QED
        BY <1>1, <2>1, <3>2, <4>3, <4>4 DEF Counted, OneWay
    <3> QED
      BY <1>7, <3>3, <3>4, <3>5
  <2> QED
    BY <1>1, <1>4, <1>5, <1>7, <2>3, <2>4, <2>5, <2>6
       DEF FetchInv, ReadingHolds, FetchedIsTrue, QuietFetchIsExact, NothingStayingIsMissed
<1> QED
  BY <1>1, <1>6, <1>7

LEMMA OtherIs ==
  ASSUME NEW l \in Lists
  PROVE  Other(l) \in Lists /\ Other(l) # l /\ \A m \in Lists : m = l \/ m = Other(l)
BY DEF Lists, Other

LEMMA ListsChange ==
  ASSUME FetchInv, NEW l \in Lists,
         \/ \E j \in 1..Len(listed[l]) :
              Unlist(l, j) \/ \E i \in 1..(Len(listed[Other(l)]) + 1) : Move(l, j, i)
         \/ \E s \in StartupSlot, i \in 1..(Len(listed[l]) + 1) : Buy(l, s, i)
  PROVE  FetchInv'
<1> DEFINE o == Other(l)
<1>1. /\ listed \in [Lists -> Seq(StartupSlot)] /\ o \in Lists /\ o # l
      /\ \A m \in Lists : m = l \/ m = o
      /\ listed[l] \in Seq(StartupSlot) /\ listed[o] \in Seq(StartupSlot)
      /\ fetch.list \in Lists
  BY OtherIs DEF FetchInv, FetchShapes, Fetches
<1>2. Reading(l) <=> fetch.state = "reading" /\ fetch.list = l
  BY DEF Reading
<1>3. Reading(o) <=> fetch.state = "reading" /\ fetch.list = o
  BY DEF Reading
<1>4. ASSUME NEW j \in 1..Len(listed[l]), Unlist(l, j)
      PROVE  FetchInv'
  <2>1. PICK s \in Seq(StartupSlot) : s = RemoveAt(listed[l], j) /\ Len(s) = Len(listed[l]) - 1
    BY <1>1, ShortenedBy
  <2>2. PICK new \in [Lists -> Seq(StartupSlot)] : new = [listed EXCEPT ![l] = s]
    BY <1>1
  <2>3. PICK kinds \in SUBSET {"add", "remove"} :
          kinds = IF Reading(l) THEN {"remove"} ELSE {}
    OBVIOUS
  <2>4. Edit(new, kinds)
    BY <1>4, <2>1, <2>2, <2>3 DEF Unlist
  <2> QED
    BY <1>1, <1>2, <2>1, <2>2, <2>3, <2>4, EditKeeps
<1>5. ASSUME NEW s \in StartupSlot, NEW i \in 1..(Len(listed[l]) + 1), Buy(l, s, i)
      PROVE  FetchInv'
  <2>1. PICK t \in Seq(StartupSlot) :
          t = InsertAt(listed[l], i, s) /\ Len(t) = Len(listed[l]) + 1
    BY <1>1, LengthenedBy
  <2>2. PICK new \in [Lists -> Seq(StartupSlot)] : new = [listed EXCEPT ![l] = t]
    BY <1>1
  <2>3. PICK kinds \in SUBSET {"add", "remove"} : kinds = IF Reading(l) THEN {"add"} ELSE {}
    OBVIOUS
  <2>4. Edit(new, kinds)
    BY <1>5, <2>1, <2>2, <2>3 DEF Buy
  <2> QED
    BY <1>1, <1>2, <2>1, <2>2, <2>3, <2>4, EditKeeps
<1>6. ASSUME NEW j \in 1..Len(listed[l]), NEW i \in 1..(Len(listed[o]) + 1), Move(l, j, i)
      PROVE  FetchInv'
  <2>1. PICK s \in Seq(StartupSlot) : s = RemoveAt(listed[l], j) /\ Len(s) = Len(listed[l]) - 1
    BY <1>1, ShortenedBy
  <2>2. PICK e \in StartupSlot : e = listed[l][j]
    BY <1>1, LenProperties
  <2>3. PICK t \in Seq(StartupSlot) :
          t = InsertAt(listed[o], i, e) /\ Len(t) = Len(listed[o]) + 1
    BY <1>1, LengthenedBy
  <2>4. PICK new \in [Lists -> Seq(StartupSlot)] : new = [listed EXCEPT ![l] = s, ![o] = t]
    BY <1>1
  <2>5. new[l] = s /\ new[o] = t
    BY <1>1, <2>4
  <2>6. PICK kinds \in SUBSET {"add", "remove"} :
          kinds = IF Reading(l) THEN {"remove"} ELSE IF Reading(o) THEN {"add"} ELSE {}
    OBVIOUS
  <2>7. new = [listed EXCEPT ![l] = RemoveAt(@, j), ![Other(l)] = InsertAt(@, i, listed[l][j])]
    BY <1>1, <2>1, <2>2, <2>3, <2>4
  <2>8. Edit(new, kinds)
    BY <1>6, <2>6, <2>7 DEF Move
  <2> QED
    BY <1>1, <1>2, <1>3, <2>1, <2>3, <2>5, <2>6, <2>8, EditKeeps
<1> QED
  BY <1>4, <1>5, <1>6

-----------------------------------------------------------------------------
(* A page.                                                                 *)

\* The page after the first `read` rows of a list of n.
LEMMA PageIs ==
  ASSUME FetchInv, fetch.state = "reading"
  PROVE  \E s \in Seq(StartupSlot), n \in Nat, read \in Nat, end \in Nat :
           /\ s = listed[fetch.list] /\ n = Len(s)
           /\ read = (fetch.page - 1) * PageSize /\ fetch.page * PageSize = read + PageSize
           /\ end = IF read + PageSize <= n THEN read + PageSize ELSE n
           /\ LET rows == Rows(fetch.list, fetch.page)
              IN  /\ Len(rows) = IF read <= end THEN end - read ELSE 0
                  /\ ToSet(rows) = {s[i] : i \in (read + 1)..end}
                  /\ ToSet(rows) \subseteq Listed(fetch.list)
<1> DEFINE s == listed[fetch.list]
           n == Len(s)
           read == (fetch.page - 1) * PageSize
           end == IF read + PageSize <= n THEN read + PageSize ELSE n
<1>1. s \in Seq(StartupSlot) /\ n \in Nat /\ fetch.page \in Nat \ {0} /\ PageSize \in Nat \ {0}
  BY FetchAssumption, LenProperties DEF FetchInv, FetchShapes, Fetches
<1>2. read \in Nat /\ fetch.page * PageSize = read + PageSize
  BY <1>1
<1>3. end \in Nat /\ end <= n
  BY <1>1, <1>2
<1>4. Min({fetch.page * PageSize, Len(s)}) = end
  <2>1. PICK x \in Nat, y \in Nat : x = read + PageSize /\ y = n
    BY <1>1, <1>2
  <2>2. Min({x, y}) = IF x <= y THEN x ELSE y
    BY DEF Min
  <2> QED
    BY <1>2, <2>1, <2>2
<1>5. Rows(fetch.list, fetch.page) = SubSeq(s, read + 1, end)
  BY <1>4 DEF Rows
<1> HIDE DEF read
<1>6. /\ Len(SubSeq(s, read + 1, end)) = IF read <= end THEN end - read ELSE 0
      /\ ToSet(SubSeq(s, read + 1, end)) = {s[i] : i \in (read + 1)..end}
  <2>1. PICK e \in Nat, off \in Nat : e = end /\ off = read /\ e <= n
    BY <1>2, <1>3
  <2>2. PICK q \in Seq(StartupSlot) : q = s
    BY <1>1
  <2>3. e <= Len(q)
    BY <2>1, <2>2
  <2> HIDE DEF s, end
  <2>4. /\ Len(SubSeq(q, off + 1, e)) = IF off <= e THEN e - off ELSE 0
        /\ ToSet(SubSeq(q, off + 1, e)) = {q[i] : i \in (off + 1)..e}
    BY <2>3, SliceIs
  <2> QED
    BY <2>1, <2>2, <2>4
<1>7. ToSet(s) = {s[i] : i \in 1..n}
  BY <1>1, ElementsAre
<1>8. {s[i] : i \in (read + 1)..end} \subseteq Listed(fetch.list)
  BY <1>1, <1>2, <1>3, <1>7 DEF Listed
<1>9. /\ s \in Seq(StartupSlot) /\ n \in Nat /\ read \in Nat /\ end \in Nat
      /\ s = listed[fetch.list] /\ n = Len(s) /\ read = (fetch.page - 1) * PageSize
  BY <1>1, <1>2, <1>3 DEF read
<1> HIDE DEF s, n, end
<1> QED
  BY <1>2, <1>5, <1>6, <1>8, <1>9 DEF end

\* A list that is returned while nothing has changed it: all of it.
LEMMA QuietPage ==
  ASSUME FetchInv, fetch.state = "reading", edits = {},
         NEW all, all = Gathered(fetch, Rows(fetch.list, fetch.page)),
         NEW verdict, verdict = Judge(fetch, Rows(fetch.list, fetch.page), Total(fetch.list),
                                      Pages(fetch.list))
  PROVE  /\ verdict = "done" => all = stayed
         /\ verdict = "more" =>
              /\ fetch.page * PageSize <= Len(listed[fetch.list])
              /\ all = {listed[fetch.list][i] : i \in 1..(fetch.page * PageSize)}
         /\ Known(fetch.total, Total(fetch.list)) = Total(fetch.list)
         /\ Known(fetch.pages, Pages(fetch.list)) = Pages(fetch.list)
<1> DEFINE rows == Rows(fetch.list, fetch.page)
<1>1. PICK s \in Seq(StartupSlot), n \in Nat, read \in Nat, end \in Nat :
        /\ s = listed[fetch.list] /\ n = Len(s)
        /\ read = (fetch.page - 1) * PageSize /\ fetch.page * PageSize = read + PageSize
        /\ end = IF read + PageSize <= n THEN read + PageSize ELSE n
        /\ Len(rows) = IF read <= end THEN end - read ELSE 0
        /\ ToSet(rows) = {s[i] : i \in (read + 1)..end}
        /\ ToSet(rows) \subseteq Listed(fetch.list)
  BY PageIs
<1> HIDE DEF rows
<1>2. /\ stayed = Listed(fetch.list) /\ read <= n /\ fetch.rows = {s[i] : i \in 1..read}
      /\ fetch.page > 1 => fetch.total = Total(fetch.list) /\ fetch.pages = Pages(fetch.list)
      /\ fetch.page = 1 => fetch.total = <<>> /\ fetch.pages = <<>>
  BY <1>1 DEF FetchInv, ReadingHolds, Unchanged, Fresh
<1>3. fetch.page \in Nat \ {0} /\ PageSize \in Nat \ {0}
  BY FetchAssumption DEF FetchInv, FetchShapes, Fetches
<1>4. /\ Known(fetch.total, Total(fetch.list)) = Total(fetch.list)
      /\ Known(fetch.pages, Pages(fetch.list)) = Pages(fetch.list)
  <2>1. CASE fetch.page = 1
    BY <1>2, <2>1 DEF Known
  <2>2. CASE fetch.page > 1
    BY <1>2, <2>2 DEF Known
  <2> QED
    BY <1>3, <2>1, <2>2
<1>5. /\ end = IF read + PageSize <= n THEN read + PageSize ELSE n
      /\ Len(rows) = IF read <= end THEN end - read ELSE 0
      /\ read <= n /\ PageSize \in Nat \ {0}
  BY <1>1, <1>2, <1>3
<1>6. /\ read <= end /\ end <= n
      /\ Len(rows) < PageSize => end = n
      /\ ~(Len(rows) < PageSize) => read + PageSize = end
      /\ n <= read + PageSize => end = n
  BY <1>5
<1>7. all = {s[i] : i \in 1..end}
  <2>1. all = fetch.rows \cup ToSet(rows)
    BY DEF Gathered, rows
  <2>2. 1..end = 1..read \cup (read + 1)..end
    BY <1>6
  <2> QED
    BY <1>1, <1>2, <2>1, <2>2
<1>8. Listed(fetch.list) = {s[i] : i \in 1..n} /\ Listed(fetch.list) = ToSet(s)
  BY <1>1, ElementsAre DEF Listed
<1>9. all \subseteq ToSet(s)
  BY <1>6, <1>7, <1>8
<1>10. end = n => all = stayed
  BY <1>2, <1>7, <1>8
<1>11. ASSUME verdict = "done" PROVE all = stayed
  <2>1. \/ Total(fetch.list) # <<>> /\ Cardinality(all) = Total(fetch.list)[1]
        \/ Pages(fetch.list) # <<>> /\ fetch.page >= Pages(fetch.list)[1]
        \/ Len(rows) < PageSize
    BY <1>4, <1>11 DEF Judge, rows
  <2>2. CASE Total(fetch.list) # <<>> /\ Cardinality(all) = Total(fetch.list)[1]
    <3>1. Cardinality(all) = Len(s)
      BY <1>1, <2>2 DEF Total
    <3> QED
      BY <1>2, <1>8, <1>9, <3>1, AllOfIt
  <2>3. CASE Pages(fetch.list) # <<>> /\ fetch.page >= Pages(fetch.list)[1]
    <3>1. fetch.page >= (n + PageSize - 1) \div PageSize
      BY <1>1, <2>3 DEF Pages
    <3>2. n <= fetch.page * PageSize
      BY <1>3, <3>1, LastPage
    <3>3. n <= read + PageSize
      BY <1>1, <3>2
    <3> QED
      BY <1>6, <1>10, <3>3
  <2> QED
    BY <1>6, <1>10, <2>1, <2>2, <2>3
<1>12. ASSUME verdict = "more" PROVE fetch.page * PageSize = end /\ end <= n
  <2>1. ~(Len(rows) < PageSize)
    BY <1>12 DEF Judge, rows
  <2> QED
    BY <1>1, <1>6, <2>1
<1> QED
  BY <1>1, <1>4, <1>7, <1>11, <1>12

\* With a total: what is returned is the list as it is now, and a page that is
\* followed by another keeps the count.
LEMMA CountedPage ==
  ASSUME FetchInv, fetch.state = "reading", "total" \in report,
         NEW all, all = Gathered(fetch, Rows(fetch.list, fetch.page)),
         NEW verdict, verdict = Judge(fetch, Rows(fetch.list, fetch.page), Total(fetch.list),
                                      Pages(fetch.list)),
         verdict # "fail"
  PROVE  /\ OneWay => all \subseteq Listed(fetch.list)
         /\ verdict = "done" /\ OneWay => all = Listed(fetch.list)
         /\ Known(fetch.total, Total(fetch.list)) = <<Len(listed[fetch.list])>>
<1> DEFINE rows == Rows(fetch.list, fetch.page)
<1>1. PICK s \in Seq(StartupSlot), n \in Nat :
        /\ s = listed[fetch.list] /\ n = Len(s) /\ ToSet(rows) \subseteq Listed(fetch.list)
  BY PageIs
<1>2. fetch.page \in Nat \ {0} /\ Total(fetch.list) = <<n>> /\ Listed(fetch.list) = ToSet(s)
  BY <1>1 DEF FetchInv, FetchShapes, Fetches, Total, Listed
<1>3. all = fetch.rows \cup ToSet(rows)
  BY DEF Gathered
<1>4. Known(fetch.total, Total(fetch.list)) = <<n>> /\ (OneWay => fetch.rows \subseteq ToSet(s))
  <2>1. CASE fetch.page = 1
    BY <1>2, <2>1 DEF FetchInv, ReadingHolds, Fresh, Known
  <2>2. CASE fetch.page > 1
    <3>1. PICK m \in Nat :
            /\ fetch.total = <<m>>
            /\ OneWay /\ n = m => fetch.rows \subseteq ToSet(s)
      BY <1>1, <1>2, <2>2 DEF FetchInv, ReadingHolds, Counted
    <3>2. ~Changed(fetch.total, Total(fetch.list))
      BY DEF Judge
    <3>3. m = n
      BY <1>2, <3>1, <3>2 DEF Changed
    <3> QED
      BY <1>2, <3>1, <3>3 DEF Known
  <2> QED
    BY <1>2, <2>1, <2>2
<1>5. OneWay => all \subseteq ToSet(s)
  BY <1>1, <1>2, <1>3, <1>4
<1>6. ASSUME verdict = "done" PROVE Cardinality(all) = n
  <2>1. Known(fetch.total, Total(fetch.list)) # <<>>
        /\ Known(fetch.total, Total(fetch.list))[1] = n
    BY <1>4
  <2> QED
    BY <1>6, <2>1 DEF Judge
<1>7. verdict = "done" /\ OneWay => all = ToSet(s)
  BY <1>1, <1>5, <1>6, AllOfIt
<1> QED
  BY <1>1, <1>2, <1>4, <1>5, <1>7

LEMMA FetchPageKeeps == FetchInv /\ FetchPage => FetchInv'
<1> SUFFICES ASSUME FetchInv, FetchPage PROVE FetchInv'
  OBVIOUS
<1> DEFINE l == fetch.list
           rows == Rows(l, fetch.page)
<1>1. PICK all : all = Gathered(fetch, rows)
  OBVIOUS
<1>2. PICK verdict : verdict = Judge(fetch, rows, Total(l), Pages(l))
  OBVIOUS
<1>3. /\ fetch \in Fetches /\ l \in Lists /\ fetch.page \in Nat \ {0}
      /\ fetch.state = "reading" /\ listed[l] \in Seq(StartupSlot) /\ Len(listed[l]) \in Nat
      /\ UNCHANGED <<listed, report, edits, stayed, existed>>
  BY LenProperties DEF FetchPage, FetchInv, FetchShapes, Fetches
<1>4. /\ verdict = "more" =>
           fetch' = [fetch EXCEPT !.page = @ + 1, !.rows = all,
                                  !.total = Known(@, Total(l)), !.pages = Known(@, Pages(l))]
      /\ verdict # "more" =>
           fetch' = [Nothing EXCEPT !.list = l,
                                    !.state = IF verdict = "fail" THEN "failed" ELSE "returned"]
      /\ got' = IF verdict = "done" THEN [got EXCEPT ![l] = all] ELSE got
  BY <1>1, <1>2 DEF FetchPage
<1>5. all \subseteq existed /\ all \subseteq StartupSlot
  <2>1. ToSet(rows) \subseteq Listed(l)
    BY <1>3, PageIs
  <2>2. Listed(l) \subseteq existed
    BY <1>3 DEF FetchInv, Existed
  <2> QED
    BY <1>1, <2>1, <2>2 DEF Gathered, FetchInv, Existed, FetchShapes
<1>6. got' \in [Lists -> SUBSET StartupSlot] /\ \A k \in Lists : got'[k] \subseteq existed
  BY <1>3, <1>4, <1>5 DEF FetchInv, FetchShapes, Existed
<1>7. Total(l) \in OneNumber /\ Pages(l) \in OneNumber
  <2>1. (Len(listed[l]) + PageSize - 1) \div PageSize \in Nat
    <3>1. PICK d \in Nat \ {0}, n \in Nat : d = PageSize /\ n = Len(listed[l])
      BY <1>3, FetchAssumption
    <3>2. (n + d - 1) \div d \in Nat
      OBVIOUS
    <3> QED
      BY <3>1, <3>2
  <2> QED
    BY <1>3, <2>1 DEF Total, Pages, OneNumber
<1>8. verdict \in {"fail", "done", "more"}
  BY <1>2 DEF Judge
<1>9. CASE verdict # "more"
  <2>1. /\ fetch' \in Fetches /\ fetch'.list = l /\ fetch'.rows = {}
        /\ fetch'.state = IF verdict = "fail" THEN "failed" ELSE "returned"
    BY <1>3, <1>4, <1>9, NothingIs DEF Fetches
  <2>2. FetchShapes'
    BY <1>3, <1>6, <2>1 DEF FetchShapes, FetchInv
  <2>3. Existed'
    BY <1>3, <1>6, <2>1 DEF FetchInv, Existed, Listed
  <2>4. ReadingHolds'
    BY <2>1 DEF ReadingHolds
  <2>5. FetchedIsTrue'
    <3>1. SUFFICES ASSUME verdict = "done" PROVE FetchedIsTrue'
      BY <1>8, <1>9, <2>1 DEF FetchedIsTrue, QuietFetchIsExact, NothingStayingIsMissed
    <3>2. got'[fetch'.list] = all
      BY <1>3, <1>4, <2>1, <3>1 DEF FetchInv, FetchShapes
    <3>3. edits = {} => all = stayed
      BY <1>1, <1>2, <1>3, <3>1, QuietPage
    <3>4. "total" \in report /\ OneWay => all = Listed(l)
      BY <1>1, <1>2, <1>3, <3>1, CountedPage
    <3>5. stayed \subseteq Listed(l)
      BY <1>3 DEF FetchInv, ReadingHolds
    <3> QED
      BY <1>3, <3>2, <3>3, <3>4, <3>5
         DEF FetchedIsTrue, QuietFetchIsExact, NothingStayingIsMissed, OneWay
  <2> QED
    BY <2>2, <2>3, <2>4, <2>5 DEF FetchInv
<1>10. CASE verdict = "more"
  <2>1. PICK t \in OneNumber, p \in OneNumber :
          t = Known(fetch.total, Total(l)) /\ p = Known(fetch.pages, Pages(l))
    BY <1>3, <1>7 DEF Known, Fetches
  <2>2. fetch' = [fetch EXCEPT !.page = @ + 1, !.rows = all, !.total = t, !.pages = p]
    BY <1>3, <1>4, <1>10, <2>1 DEF Fetches
  <2>3. /\ fetch' \in Fetches /\ fetch'.state = "reading" /\ fetch'.list = l
        /\ fetch'.page = fetch.page + 1 /\ fetch'.rows = all /\ fetch'.total = t
        /\ fetch'.pages = p
    <3>1. PICK n \in Nat \ {0} : n = fetch.page + 1
      BY <1>3
    <3>2. PICK r \in SUBSET StartupSlot : r = all
      BY <1>5
    <3>3. fetch' = [fetch EXCEPT !.page = n, !.rows = r, !.total = t, !.pages = p]
      BY <1>3, <2>2, <3>1, <3>2 DEF Fetches
    <3> QED
      BY <1>3, <3>1, <3>2, <3>3 DEF Fetches
  <2>4. got' = got
    BY <1>4, <1>10
  <2>5. FetchShapes'
    BY <1>3, <2>3, <2>4 DEF FetchShapes, FetchInv
  <2>6. Existed'
    BY <1>3, <1>5, <2>3, <2>4 DEF FetchInv, Existed, Listed
  <2>7. Listed(l)' = Listed(l) /\ Total(l)' = Total(l) /\ Pages(l)' = Pages(l)
    BY <1>3, <2>3 DEF Listed, Total, Pages
  <2>8. stayed \subseteq Listed(l) /\ Fresh'
    BY <1>3, <2>3 DEF FetchInv, ReadingHolds, Fresh
  <2>9. Unchanged'
    <3>1. SUFFICES ASSUME edits = {} PROVE Unchanged'
      BY <1>3 DEF Unchanged
    <3>2. /\ fetch.page * PageSize <= Len(listed[l])
          /\ all = {listed[l][i] : i \in 1..(fetch.page * PageSize)}
          /\ t = Total(l) /\ p = Pages(l)
      BY <1>1, <1>2, <1>3, <1>10, <2>1, <3>1, QuietPage
    <3>3. fetch'.page - 1 = fetch.page
      BY <1>3, <2>3
    <3>4. stayed = Listed(l)
      BY <1>3, <3>1 DEF FetchInv, ReadingHolds, Unchanged
    <3> QED
      BY <1>3, <2>3, <2>7, <3>2, <3>3, <3>4 DEF Unchanged
  <2>10. Counted'
    <3>1. SUFFICES ASSUME "total" \in report PROVE Counted'
      BY <1>3 DEF Counted
    <3>2. t = <<Len(listed[l])>> /\ (OneWay => all \subseteq Listed(l))
      BY <1>1, <1>2, <1>3, <1>10, <2>1, <3>1, CountedPage
    <3> QED
      BY <1>3, <2>3, <2>7, <3>2 DEF Counted, OneWay
  <2>11. ReadingHolds'
    BY <1>3, <2>3, <2>7, <2>8, <2>9, <2>10 DEF ReadingHolds
  <2>12. FetchedIsTrue'
    BY <2>3 DEF FetchedIsTrue, QuietFetchIsExact, NothingStayingIsMissed
  <2> QED
    BY <2>5, <2>6, <2>11, <2>12 DEF FetchInv
<1> QED
  BY <1>9, <1>10

-----------------------------------------------------------------------------
LEMMA FetchSteps == FetchInv /\ [FetchNext]_fetchVars => FetchInv'
<1> SUFFICES ASSUME FetchInv, [FetchNext]_fetchVars PROVE FetchInv'
  OBVIOUS
<1>1. CASE UNCHANGED fetchVars
  <2>1. FetchShapes' /\ Existed' /\ FetchedIsTrue'
    BY <1>1 DEF FetchInv, fetchVars, FetchShapes, Existed, FetchedIsTrue, QuietFetchIsExact,
                NothingStayingIsMissed, Listed
  <2>2. Unchanged' <=> Unchanged
    BY <1>1 DEF fetchVars, Unchanged, Listed, Total, Pages
  <2>3. Counted' <=> Counted
    BY <1>1 DEF fetchVars, Counted, OneWay, Listed
  <2>4. ReadingHolds'
    BY <1>1, <2>2, <2>3 DEF FetchInv, fetchVars, ReadingHolds, Fresh, Listed
  <2> QED
    BY <2>1, <2>4 DEF FetchInv
<1>2. CASE FetchNext
  BY <1>2, StartFetchKeeps, FetchPageKeeps, NextListKeeps, ListsChange DEF FetchNext
<1> QED
  BY <1>1, <1>2

LEMMA FetchAlways == FetchSpec => []FetchInv
BY FetchStarts, FetchSteps, PTL DEF FetchSpec

\* What listCompleteInventory returns can be relied on, for lists of any
\* length, pages of any size and every total DuoPlus may report or not: a list
\* that did not change is returned exactly, and with a reported total nothing
\* that stayed in a list is missed, if it only grew or only shrank.
THEOREM FetchesAreTrue == FetchSpec => []FetchedIsTrue
<1>1. FetchInv => FetchedIsTrue
  BY DEF FetchInv
<1> QED
  BY <1>1, FetchAlways, PTL

\* The startup capacity never counts a slot twice, nor one that was not there.
THEOREM CapacityIsThere == FetchSpec => []CapacityNotOvercounted
<1>1. FetchInv => CapacityNotOvercounted
  <2> SUFFICES ASSUME FetchInv, Complete
               PROVE  Cardinality(InUse) + Cardinality(Available)
                        <= Cardinality(existed \ (Lapsed \cup Malformed))
    BY DEF CapacityNotOvercounted
  <2> DEFINE there == existed \ (Lapsed \cup Malformed)
  <2>1. /\ got["assigned"] \subseteq existed /\ got["available"] \subseteq existed
        /\ existed \subseteq StartupSlot
    BY DEF FetchInv, Existed, FetchShapes, Lists
  <2>2. InUse \cup Available \subseteq there /\ InUse \cap Available = {}
    BY <2>1 DEF Complete, Valid, InUse, Available
  <2>3. IsFiniteSet(there)
    BY <2>1, FetchAssumption, FS_Subset
  <2> HIDE DEF there
  <2>4. IsFiniteSet(InUse) /\ IsFiniteSet(Available) /\ IsFiniteSet(InUse \cup Available)
        /\ Cardinality(InUse \cup Available) <= Cardinality(there)
    BY <2>2, <2>3, FS_Subset
  <2>5. Cardinality(InUse \cup Available) =
          Cardinality(InUse) + Cardinality(Available) - Cardinality({})
    BY <2>2, <2>4, FS_Union
  <2>6. /\ Cardinality({}) = 0 /\ Cardinality(InUse) \in Nat /\ Cardinality(Available) \in Nat
        /\ Cardinality(there) \in Nat
    BY <2>3, <2>4, FS_EmptySet, FS_CardinalityType
  <2> QED
    BY <2>4, <2>5, <2>6 DEF there
<1> QED
  BY <1>1, FetchAlways, PTL
=============================================================================
