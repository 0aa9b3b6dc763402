----------------------------- MODULE PagedFetch -----------------------------
(***************************************************************************)
(* Reading a complete list from DuoPlus page by page, while it changes.    *)
(*                                                                         *)
(* listCompleteInventory asks for page after page, one rate slot apart, so *)
(* the list may change in between.  It has no snapshot to ask for: it can  *)
(* only compare the totals that DuoPlus reports with what it has got, and  *)
(* give up.  What it returns replaces the saved inventory, and what it     *)
(* misses is marked absent.                                                *)
(*                                                                         *)
(* The instance is the startup capacity: the assigned slots are read, then *)
(* the available ones, and a slot may move from one list to the other.     *)
(* The phone and template inventories are reads of a single list.          *)
(***************************************************************************)
EXTENDS Naturals, Sequences, FiniteSets, FiniteSetsExt, SequencesExt

CONSTANTS StartupSlot,           \* the subscription startups DuoPlus lists
          Lapsed, Malformed,     \* ... with expired_at past, or no number
          PageSize, MaxPages     \* 100 and 40 in client.ts

ASSUME FetchAssumption ==
  /\ IsFiniteSet(StartupSlot)
  /\ Lapsed \subseteq StartupSlot /\ Malformed \subseteq StartupSlot
  /\ PageSize \in Nat \ {0} /\ MaxPages \in Nat \ {0}

VARIABLES listed,    \* the two lists as DuoPlus has them
          report,    \* which totals its answers carry
          fetch,     \* the list being read, and how far
          got,       \* the complete lists returned so far
          edits,     \* kinds of changes made to a list while it was read
          stayed,    \* the slots that were in that list all the time
          existed    \* all slots there were since the read began

fetchVars == <<listed, report, fetch, got, edits, stayed, existed>>

Lists == {"assigned", "available"}
Nothing == [state |-> "idle", list |-> "assigned", page |-> 1, rows |-> {},
            total |-> <<>>, pages |-> <<>>]

FetchInit ==
  /\ listed = [l \in Lists |-> <<>>] /\ report = {}
  /\ fetch = Nothing
  /\ got = [l \in Lists |-> {}]
  /\ edits = {} /\ stayed = {} /\ existed = {}

Listed(l) == ToSet(listed[l])

----------------------------------------------------------------------------
(* One answer.  A total that is not reported is <<>>.                      *)

Rows(l, n) ==
  LET from == (n - 1) * PageSize + 1 IN
  SubSeq(listed[l], from, Min({n * PageSize, Len(listed[l])}))

Total(l) == IF "total" \in report THEN <<Len(listed[l])>> ELSE <<>>
Pages(l) == IF "pages" \in report
            THEN <<(Len(listed[l]) + PageSize - 1) \div PageSize>> ELSE <<>>

Known(a, b) == IF a = <<>> THEN b ELSE a     \* expectedTotal ??= pageTotal
Changed(a, b) == a # <<>> /\ b # <<>> /\ a # b

Gathered(f, rows) == f.rows \cup ToSet(rows)

\* Mutation of Judge: the totals are ignored.
JudgeByLength(f, rows, total, pages) ==
  IF Len(rows) < PageSize THEN "done"
  ELSE IF f.page >= MaxPages THEN "fail" ELSE "more"

\* What the loop makes of a page: "fail", "done" or "more".
Judge(f, rows, total, pages) ==
  LET all == Gathered(f, rows)
      t == Known(f.total, total)
      p == Known(f.pages, pages)
      complete == t # <<>> /\ Cardinality(all) = t[1]
      last == p # <<>> /\ f.page >= p[1]
      wrong == \/ Changed(f.total, total) \/ Changed(f.pages, pages)
               \/ t # <<>> /\ Cardinality(all) > t[1]  \* more rows than reported
               \/ rows # <<>> /\ all = f.rows          \* a repeated page
               \/ p = <<0>> /\ rows # <<>>
               \/ complete /\ p # <<>> /\ ~last        \* the totals disagree
               \/ last /\ t # <<>> /\ ~complete
      short == Len(rows) < PageSize
      early == short /\ (t # <<>> \/ p # <<>>)          \* ended early
      over  == ~short /\ f.page >= MaxPages
  IN IF wrong THEN "fail"
     ELSE IF last \/ complete THEN "done"
     ELSE IF early \/ over THEN "fail"
     ELSE IF short THEN "done" ELSE "more"

\* DuoPlus lists some slots as assigned and others as available, and its answers
\* carry some totals.
StartFetch ==
  /\ fetch.state = "idle"
  /\ \E A \in SUBSET StartupSlot : \E B \in SUBSET (StartupSlot \ A) :
       /\ listed' = [assigned |-> SetToSeq(A), available |-> SetToSeq(B)]
       /\ existed' = A \cup B
  /\ report' \in SUBSET {"total", "pages"}
  /\ fetch' = [Nothing EXCEPT !.state = "reading"]
  /\ stayed' = ToSet(listed'["assigned"])
  /\ UNCHANGED <<got, edits>>

FetchPage ==
  LET l == fetch.list
      rows == Rows(l, fetch.page)
      verdict == Judge(fetch, rows, Total(l), Pages(l))
      all == Gathered(fetch, rows)
      next == IF verdict = "more"
              THEN [fetch EXCEPT !.page = @ + 1, !.rows = all,
                                 !.total = Known(@, Total(l)),
                                 !.pages = Known(@, Pages(l))]
              ELSE [Nothing EXCEPT !.list = l, !.state =
                      IF verdict = "fail" THEN "failed" ELSE "returned"] IN
  /\ fetch.state = "reading"
  /\ fetch' = next
  /\ got' = IF verdict = "done" THEN [got EXCEPT ![l] = all] ELSE got
  /\ UNCHANGED <<listed, report, edits, stayed, existed>>

\* getSubscriptionStartupCapacity asks for the available slots next.
NextList ==
  /\ fetch.state = "returned" /\ fetch.list = "assigned"
  /\ fetch' = [Nothing EXCEPT !.state = "reading", !.list = "available"]
  /\ stayed' = Listed("available")
  /\ edits' = {}
  /\ UNCHANGED <<listed, report, got, existed>>

----------------------------------------------------------------------------
(* DuoPlus.  A slot is listed anywhere: what order it uses is not known.    *)

Reading(l) == fetch.state = "reading" /\ fetch.list = l

\* A slot leaves list l, or enters it, or moves to the other list.
Edit(new, kinds) ==
  /\ fetch.state = "reading" \/ (fetch.state = "returned" /\ fetch.list = "assigned")
  /\ listed' = new
  /\ edits' = edits \cup kinds
  /\ stayed' = IF fetch.state = "reading"
               THEN stayed \cap ToSet(new[fetch.list]) ELSE stayed
  /\ existed' = existed \cup ToSet(new["assigned"]) \cup ToSet(new["available"])
  /\ UNCHANGED <<report, fetch, got>>

Unlist(l, j) ==
  Edit([listed EXCEPT ![l] = RemoveAt(@, j)], IF Reading(l) THEN {"remove"} ELSE {})

Buy(l, s, i) ==
  /\ s \notin Listed("assigned") \cup Listed("available")
  /\ Edit([listed EXCEPT ![l] = InsertAt(@, i, s)], IF Reading(l) THEN {"add"} ELSE {})

Other(l) == IF l = "assigned" THEN "available" ELSE "assigned"

Move(l, j, i) ==
  Edit([listed EXCEPT ![l] = RemoveAt(@, j), ![Other(l)] = InsertAt(@, i, listed[l][j])],
       IF Reading(l) THEN {"remove"} ELSE IF Reading(Other(l)) THEN {"add"} ELSE {})

FetchNext ==
  \/ StartFetch \/ FetchPage \/ NextList
  \/ \E l \in Lists :
       \/ \E j \in 1..Len(listed[l]) :
            \/ Unlist(l, j)
            \/ \E i \in 1..(Len(listed[Other(l)]) + 1) : Move(l, j, i)
       \/ \E s \in StartupSlot, i \in 1..(Len(listed[l]) + 1) : Buy(l, s, i)

FetchSpec == FetchInit /\ [][FetchNext]_fetchVars

----------------------------------------------------------------------------
(* The capacity that comes out.                                            *)

Valid == got["assigned"] \cup got["available"] \subseteq StartupSlot \ Malformed
InUse == got["assigned"] \ Lapsed
\* Mutation of Available: a slot that moved counts in both lists.
AvailableTwice == got["available"] \ Lapsed

\* A slot seen in both lists moved in between: it counts once, as in use.
Available == got["available"] \ (Lapsed \cup InUse)

Complete == fetch.state = "returned" /\ fetch.list = "available" /\ Valid

\* A returned list that did not change while it was read is the list, whatever
\* totals DuoPlus reports.
QuietFetchIsExact ==
  fetch.state = "returned" /\ edits = {} =>
    got[fetch.list] = stayed

\* With a reported total a list that only shrank, or only grew, is never
\* returned without a slot that was in it all the time.
NothingStayingIsMissed ==
  /\ fetch.state = "returned" /\ "total" \in report
  /\ edits \in {{}, {"add"}, {"remove"}}
  => stayed \subseteq got[fetch.list]

\* The capacity never exceeds the slots there were that could be counted: one
\* that is read from both lists is not two.
CapacityNotOvercounted ==
  Complete => Cardinality(InUse) + Cardinality(Available)
                <= Cardinality(existed \ (Lapsed \cup Malformed))

\* A list that is returned can be relied on (listCompleteInventory).
FetchedIsTrue == QuietFetchIsExact /\ NothingStayingIsMissed
=============================================================================
