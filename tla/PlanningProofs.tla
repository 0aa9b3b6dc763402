--------------------------- MODULE PlanningProofs ---------------------------
(***************************************************************************)
(* Planning, for every size: Schedules and WorkerLoop, which share no      *)
(* state.                                                                  *)
(*                                                                         *)
(* Schedules and their planned runs, for any schedules, plans, editors and *)
(* ticks: what has begun is never planned again; a pause leaves nothing;   *)
(* no occurrence is skipped.  The first needs only that inserts go where   *)
(* no row is and deletes repeat their conditions.  The others rest on      *)
(* SchedInv, which says of every request and tick under way what the rows  *)
(* still have in common with what it read of them.                         *)
(*                                                                         *)
(* The worker's loop, for any lengths of ticks, backoff and days: it goes  *)
(* on, and the watchdog ends it only after three failures in a row, if the *)
(* configured times leave room for three (ThreeAttemptsFit).  LoopInv says *)
(* how late the clock can be at each place of the loop, counted from the   *)
(* last start (OnTime) and from the last success (AttemptsInTime).         *)
(***************************************************************************)
EXTENDS Schedules, WorkerLoop, FiniteSetTheorems, TLAPS

-----------------------------------------------------------------------------
(* Schedules.                                                              *)

\* Enough of the type of scheduler_runs to follow a write to one column.
Rows ==
  /\ planned = [k \in RunKey |-> planned[k]]
  /\ \A k \in RunKey : DOMAIN planned[k] = {"state", "plan", "cancel"}

Begun == {"working", "done", "cancelled"}
KeepsBegun == \A k \in RunKey : planned[k].state \in Begun => planned'[k].state \in Begun

-----------------------------------------------------------------------------
(* The statements that write planned rows.                                 *)

LEMMA InsertKeeps ==
  ASSUME Rows, NEW s, NEW keys, Insert(s, keys)
  PROVE  Rows' /\ KeepsBegun
BY DEF Insert, Rows, KeepsBegun, Begun

LEMMA DeleteKeeps ==
  ASSUME Rows, NEW keys, DeletePristine(keys)
  PROVE  Rows' /\ KeepsBegun
BY DEF DeletePristine, PristineOf, NoPlannedRun, Rows, KeepsBegun, Begun

LEMMA CancelKeeps ==
  ASSUME Rows, NEW keys, CancelRuns(keys)
  PROVE  Rows' /\ KeepsBegun
<1>1. planned' = [k \in RunKey |->
        IF k \in keys /\ planned[k].state \in OpenStates
        THEN [planned[k] EXCEPT !.cancel = TRUE] ELSE planned[k]]
  BY DEF CancelRuns
<1>2. ASSUME NEW k \in RunKey
      PROVE  /\ planned'[k].state = planned[k].state
             /\ DOMAIN planned'[k] = {"state", "plan", "cancel"}
  <2>1. DOMAIN planned[k] = {"state", "plan", "cancel"}
    BY DEF Rows
  <2> DEFINE row == [planned[k] EXCEPT !.cancel = TRUE]
  <2>2. row.state = planned[k].state /\ DOMAIN row = DOMAIN planned[k]
    BY <2>1
  <2>3. planned'[k] = planned[k] \/ planned'[k] = row
    BY <1>1
  <2> QED
    BY <2>1, <2>2, <2>3
<1> QED
  BY <1>1, <1>2 DEF Rows, KeepsBegun

LEMMA WorkKeeps ==
  ASSUME Rows, NEW k \in RunKey, Begin(k) \/ End(k)
  PROVE  Rows' /\ KeepsBegun
<1>1. PICK state \in Begun : planned' = [planned EXCEPT ![k].state = state]
  BY DEF Begin, End, Begun
<1>2. DOMAIN planned[k] = {"state", "plan", "cancel"}
  BY DEF Rows
<1> DEFINE row == [planned[k] EXCEPT !.state = state]
<1>3. row.state = state /\ DOMAIN row = DOMAIN planned[k]
  BY <1>2
<1>4. /\ planned'[k] = row
      /\ \A j \in RunKey \ {k} : planned'[j] = planned[j]
      /\ planned' = [j \in RunKey |-> planned'[j]]
  BY <1>1 DEF Rows
<1> QED
  BY <1>2, <1>3, <1>4 DEF Rows, KeepsBegun

-----------------------------------------------------------------------------
LEMMA EditKeeps ==
  ASSUME Rows, NEW e \in Editor,
         \/ EditChecks(e) \/ EditDeletes(e) \/ PauseDeletes(e) \/ Cancel(e)
  PROVE  Rows' /\ KeepsBegun
<1>1. CASE UNCHANGED planned
  BY <1>1 DEF Rows, KeepsBegun
<1>2. CASE \E keys : CancelRuns(keys)
  BY <1>2, CancelKeeps
<1>3. CASE DeletePristine(editor[e].keys)
  BY <1>3, DeleteKeeps
<1> QED
  BY <1>1, <1>2, <1>3 DEF EditChecks, EditDeletes, PauseDeletes, Cancel

LEMMA InitRows == SchedInit => Rows
BY DEF SchedInit, Rows, NoPlannedRun

LEMMA StepRows == Rows /\ [SchedNext]_schedVars => Rows' /\ KeepsBegun
<1> SUFFICES ASSUME Rows, [SchedNext]_schedVars PROVE Rows' /\ KeepsBegun
  OBVIOUS
<1>1. CASE UNCHANGED planned
  BY <1>1 DEF Rows, KeepsBegun
<1>2. ASSUME NEW h \in Ticker, NEW s \in Schedule, Materialize(h, s)
      PROVE  Rows' /\ KeepsBegun
  <2>1. UNCHANGED planned \/ \E keys : Insert(s, keys)
    BY <1>2 DEF Materialize
  <2> QED
    BY <1>1, <2>1, InsertKeeps
<1>3. ASSUME NEW e \in Editor,
             \/ EditChecks(e) \/ EditDeletes(e) \/ PauseDeletes(e) \/ Cancel(e)
      PROVE  Rows' /\ KeepsBegun
  BY <1>3, EditKeeps
<1>4. ASSUME NEW s \in Schedule, RunNow(s)
      PROVE  Rows' /\ KeepsBegun
  BY <1>4, InsertKeeps DEF RunNow
<1>5. ASSUME NEW k \in RunKey, Begin(k) \/ End(k)
      PROVE  Rows' /\ KeepsBegun
  BY <1>5, WorkKeeps
<1>6. ASSUME \/ \E h \in Ticker : ListDue(h)
             \/ \E s \in Schedule, p \in Plan, b \in BOOLEAN : Create(s, p, b)
             \/ \E e \in Editor, s \in Schedule :
                  Remove(e, s) \/ \E p \in Plan, kind \in EditKinds : Open(e, s, kind, p)
             \/ \E e \in Editor :
                  Update(e) \/ PauseReads(e) \/ Reload(e) \/ RemoveReads(e) \/ Fail(e)
             \/ SchedTick \/ UNCHANGED schedVars
      PROVE  UNCHANGED planned
  BY <1>6 DEF ListDue, Create, Remove, Open, Update, PauseReads, Reload,
              RemoveReads, Fail, SchedTick, schedVars
<1> QED
  BY <1>1, <1>2, <1>3, <1>4, <1>5, <1>6 DEF SchedNext

\* What has begun, ended or been cancelled is never planned again and never
\* deleted: the insert leaves existing rows alone, and the delete repeats its
\* conditions.  So it holds although next_run_at may be set back, ticks act on
\* what they listed, and edits on what they read.
THEOREM BegunStaysBegun == SchedSpec => StartedNeverReplanned
<1>1. Rows /\ [SchedNext]_schedVars
        => [\A k \in RunKey : planned[k].state \in {"working", "done", "cancelled"}
              => planned'[k].state \in {"working", "done", "cancelled"}]_schedVars
  BY StepRows DEF KeepsBegun, Begun
<1> QED
  BY <1>1, InitRows, StepRows, PTL DEF SchedSpec, StartedNeverReplanned
-----------------------------------------------------------------------------
(* Firing times: one in every stretch as long as the cadence.              *)

LEMMA Division ==
  ASSUME NEW x \in Int, NEW m \in Nat \ {0}
  PROVE  /\ x = m * (x \div m) + (x % m)
         /\ x \div m \in Int /\ x % m \in 0..(m - 1)
OBVIOUS

LEMMA Remainder ==
  ASSUME NEW q \in Int, NEW m \in Nat \ {0}, NEW r \in 0..(m - 1)
  PROVE  (m * q + r) % m = r
OBVIOUS

\* The last moment up to t that leaves the remainder of o.
LEMMA Latest ==
  ASSUME NEW o \in Int, NEW m \in Nat \ {0}, NEW t \in Int
  PROVE  LET u == t - ((t - o) % m) IN
         u \in Int /\ u % m = o % m /\ u <= t /\ t < u + m
<1> DEFINE q == (t - o) \div m
           r == (t - o) % m
           u == t - r
           k == o \div m + q
           rest == o % m
<1>1. t - o = m * q + r /\ q \in Int /\ r \in 0..(m - 1)
  BY Division
<1>2. o = m * (o \div m) + rest /\ o \div m \in Int /\ rest \in 0..(m - 1)
  BY Division
<1>3. u = m * k + rest /\ k \in Int
  BY <1>1, <1>2
<1> HIDE DEF k, rest
<1>4. (m * k + rest) % m = rest
  BY <1>2, <1>3, Remainder
<1>5. u % m = rest
  BY <1>3, <1>4
<1> QED
  BY <1>1, <1>5 DEF rest

LEMMA SameRemainder ==
  ASSUME NEW m \in Nat \ {0}, NEW u \in Int, NEW v \in Int, u % m = v % m, u < v
  PROVE  u + m <= v
<1> DEFINE d == (v \div m) - (u \div m)
<1>1. u = m * (u \div m) + (u % m) /\ u \div m \in Int /\ u % m \in 0..(m - 1)
  BY Division
<1>2. v = m * (v \div m) + (v % m) /\ v \div m \in Int /\ v % m \in 0..(m - 1)
  BY Division
<1>3. d \in Int /\ v - u = m * d
  BY <1>1, <1>2
<1>4. CASE d <= 0
  <2>1. m * d <= 0
    BY <1>3, <1>4
  <2> QED
    BY <2>1, <1>3
<1>5. CASE d >= 1
  <2>1. m * d >= m
    BY <1>3, <1>5
  <2> QED
    BY <2>1, <1>3
<1> QED
  BY <1>3, <1>4, <1>5

\* The last firing time that is not after t.
LastFire(p, t) == t - ((t - p.offset) % p.every)

LEMMA PlanNumbers ==
  ASSUME NEW p \in Plan
  PROVE  /\ p.every \in Nat \ {0} /\ p.offset \in Nat
         /\ p.every <= LongestGap /\ LongestGap \in Nat
BY ScheduleAssumption

LEMMA LastFireFires ==
  ASSUME NEW p \in Plan, NEW t \in Nat
  PROVE  /\ LastFire(p, t) \in Int /\ Fires(p, LastFire(p, t))
         /\ LastFire(p, t) <= t /\ t < LastFire(p, t) + p.every
<1> DEFINE m == p.every
           o == p.offset
<1>1. m \in Nat \ {0} /\ o \in Int /\ t \in Int
  BY PlanNumbers
<1> HIDE DEF m, o
<1>2. LET u == t - ((t - o) % m) IN
      u \in Int /\ u % m = o % m /\ u <= t /\ t < u + m
  BY <1>1, Latest
<1> QED
  BY <1>2 DEF LastFire, Fires, m, o

LEMMA FiringsAreApart ==
  ASSUME NEW p \in Plan, NEW u \in Int, NEW v \in Int,
         Fires(p, u), Fires(p, v), u < v
  PROVE  u + p.every <= v
<1>1. p.every \in Nat \ {0}
  BY PlanNumbers
<1>2. u % p.every = v % p.every
  BY DEF Fires
<1> QED
  BY <1>1, <1>2, SameRemainder

LEMMA NextFireFires ==
  ASSUME NEW p \in Plan, NEW t \in Nat
  PROVE  /\ NextFire(p, t) \in Nat
         /\ t < NextFire(p, t) /\ NextFire(p, t) <= t + p.every
         /\ \A v \in Nat : t < v /\ v < NextFire(p, t) => ~Fires(p, v)
<1> DEFINE m == p.every
           w == LastFire(p, t + m)
           S == {u \in (t + 1)..(t + m) : Fires(p, u)}
<1>1. m \in Nat \ {0} /\ t + m \in Nat
  BY ScheduleAssumption
<1>2. w \in Int /\ Fires(p, w) /\ w <= t + m /\ t + m < w + m
  BY <1>1, LastFireFires
<1>3. w \in S
  BY <1>1, <1>2
<1>4. ASSUME NEW v \in S PROVE v = w
  <2>1. v \in Int /\ Fires(p, v) /\ t < v /\ v <= t + m
    BY <1>1
  <2> HIDE DEF w
  <2>2. v < w => v + m <= w
    BY <1>2, <2>1, FiringsAreApart
  <2>3. w < v => w + m <= v
    BY <1>2, <2>1, FiringsAreApart
  <2> HIDE DEF m
  <2> QED
    BY <1>1, <1>2, <2>1, <2>2, <2>3
<1>5. S = {w}
  BY <1>3, <1>4
<1>6. NextFire(p, t) = w
  <2>1. NextFire(p, t) = Min(S)
    BY DEF NextFire
  <2>2. w <= w
    BY <1>2
  <2> HIDE DEF S, w
  <2> QED
    BY <1>5, <2>1, <2>2 DEF Min
<1>7. ASSUME NEW v \in Nat, t < v, v < w PROVE ~Fires(p, v)
  BY <1>1, <1>2, <1>4, <1>7
<1> QED
  BY <1>1, <1>2, <1>6, <1>7

\* The last occurrence that a tick plans.
LEMMA LastOccurrence ==
  ASSUME NEW p \in Plan, NEW next \in Nat, NEW end \in Nat, next <= end
  PROVE  LET times == Occurrences(p, next, end) IN
         /\ Max(times) \in times /\ times \subseteq next..end /\ next \in times
         /\ \A t \in times : t <= Max(times)
<1> DEFINE times == Occurrences(p, next, end)
           w == LastFire(p, end)
           last == IF w > next THEN w ELSE next
<1>1. times = {next} \cup {t \in (next + 1)..end : Fires(p, t)}
  BY DEF Occurrences
<1>2. w \in Int /\ Fires(p, w) /\ w <= end /\ end < w + p.every
  BY LastFireFires
<1>3. p.every \in Nat
  BY ScheduleAssumption
<1>4. last \in times
  BY <1>1, <1>2
<1>5. ASSUME NEW t \in times PROVE t <= last
  <2>1. CASE t = next
    BY <2>1, <1>2
  <2>2. CASE t \in (next + 1)..end /\ Fires(p, t)
    <3>1. t \in Int /\ next < t /\ t <= end
      BY <2>2
    <3> HIDE DEF w
    <3>2. w < t => w + p.every <= t
      BY <1>2, <2>2, <3>1, FiringsAreApart
    <3> QED
      BY <1>2, <1>3, <3>1, <3>2
  <2> QED
    BY <1>1, <2>1, <2>2
<1>6. times \subseteq next..end /\ next \in times
  BY <1>1
<1>7. \E x \in times : \A y \in times : x >= y
  <2>1. last \in Int /\ times \subseteq Int
    BY <1>2, <1>6
  <2> HIDE DEF times, last
  <2> QED
    BY <1>4, <1>5, <2>1
<1> HIDE DEF times
<1>8. Max(times) \in times /\ \A y \in times : Max(times) >= y
  BY <1>7 DEF Max
<1> QED
  BY <1>6, <1>8 DEF times
-----------------------------------------------------------------------------
(* The type of the tables and of the requests and ticks under way.         *)

RunRow == [state : RunState, plan : Plan, cancel : BOOLEAN]
ScheduleRow == [exists : BOOLEAN, enabled : BOOLEAN, plan : Plan, next : Time]
Listing == [plan : Plan, next : Time]
TickRow == [todo : SUBSET Schedule, end : Time, read : [Schedule -> Listing]]
Kind == EditKinds \cup {"rename"}
EditRow == [pc : EditorStep, kind : Kind, s : Schedule, plan : Plan, next : Time,
            keys : SUBSET RunKey]

LEMMA TypeParts ==
  SchedTypeOK <=>
    /\ now \in 0..MaxTime
    /\ sched \in [Schedule -> ScheduleRow]
    /\ planned \in [RunKey -> RunRow]
    /\ editor \in [Editor -> EditRow]
    /\ ticker \in [Ticker -> TickRow]
    /\ since \in [Schedule -> Time]
    /\ raced \in SUBSET Schedule /\ requests \in 0..MaxRequests
    /\ standing \in SUBSET Editor /\ kept \in SUBSET Schedule
BY DEF SchedTypeOK, RunRow, ScheduleRow, TickRow, Listing, EditRow, Kind

LEMMA Bounds ==
  /\ MaxTime \in Nat /\ Ahead \in Nat /\ LongestGap \in Nat /\ MaxRequests \in Nat
  /\ 0 \in Time /\ Time \subseteq Nat
  /\ \A t \in Nat : t <= MaxTime + Ahead => t \in Time
BY ScheduleAssumption DEF Time

LEMMA PlannedAhead ==
  ASSUME NEW p \in Plan, NEW t \in Nat, t <= MaxTime + Ahead
  PROVE  NextFire(p, t) \in Time
<1>1. /\ NextFire(p, t) \in Nat /\ NextFire(p, t) <= t + p.every
      /\ p.every \in Nat /\ p.every <= LongestGap
  BY NextFireFires, PlanNumbers
<1> QED
  BY <1>1, Bounds DEF Time

LEMMA Defaults ==
  /\ AnyPlan \in Plan /\ NoPlannedRun(AnyPlan) \in RunRow
  /\ Quiet \in EditRow /\ Quiet.pc = "idle" /\ Resting \in TickRow
<1>1. AnyPlan \in Plan
  BY ScheduleAssumption DEF AnyPlan
<1>2. (CHOOSE s \in Schedule : TRUE) \in Schedule
  BY ScheduleAssumption
<1> QED
  BY <1>1, <1>2, Bounds DEF NoPlannedRun, RunRow, RunState, Quiet, EditRow, Kind,
     EditorStep, Resting, TickRow, Listing

-----------------------------------------------------------------------------
(* What the statements do to the rows.                                     *)

\* Open, without a request for cancellation.
Wanted(k) == planned[k].state \in OpenStates /\ ~planned[k].cancel

\* Nothing is wanted that was not, and nothing disappears.
Winding == \A k \in RunKey : Wanted(k)' => Wanted(k)
Staying == \A k \in RunKey : planned[k].state # "absent" => planned'[k].state # "absent"

LEMMA InsertDoes ==
  ASSUME SchedTypeOK, NEW s \in Schedule, NEW keys \in SUBSET RunKey, Insert(s, keys)
  PROVE  /\ planned' \in [RunKey -> RunRow] /\ Staying
         /\ \A k \in RunKey \ keys : planned'[k] = planned[k]
         /\ \A k \in keys : planned'[k].state # "absent"
<1> DEFINE row == [state |-> "pristine", plan |-> sched[s].plan, cancel |-> FALSE]
<1>1. planned \in [RunKey -> RunRow] /\ sched[s] \in ScheduleRow
  BY TypeParts
<1>2. row \in RunRow /\ row.state = "pristine"
  BY <1>1 DEF RunRow, RunState, ScheduleRow
<1>3. planned' = [k \in RunKey |->
         IF k \in keys /\ planned[k].state = "absent" THEN row ELSE planned[k]]
  BY DEF Insert
<1> HIDE DEF row
<1> QED
  BY <1>1, <1>2, <1>3 DEF Staying

LEMMA DeleteDoes ==
  ASSUME SchedTypeOK, NEW keys \in SUBSET RunKey, DeletePristine(keys)
  PROVE  /\ planned' \in [RunKey -> RunRow] /\ Winding
         /\ \A k \in RunKey \ keys : planned'[k] = planned[k]
<1>1. planned \in [RunKey -> RunRow]
  BY TypeParts
<1>2. /\ NoPlannedRun(AnyPlan) \in RunRow
      /\ NoPlannedRun(AnyPlan).state = "absent"
  BY Defaults DEF NoPlannedRun
<1>3. PristineOf(keys) \subseteq keys
  BY DEF PristineOf
<1>4. planned' = [k \in RunKey |->
         IF k \in PristineOf(keys) THEN NoPlannedRun(AnyPlan) ELSE planned[k]]
  BY DEF DeletePristine
<1> QED
  BY <1>1, <1>2, <1>3, <1>4 DEF Winding, Wanted, OpenStates

LEMMA CancelDoes ==
  ASSUME SchedTypeOK, NEW keys \in SUBSET RunKey, CancelRuns(keys)
  PROVE  /\ planned' \in [RunKey -> RunRow] /\ Winding /\ Staying
         /\ \A k \in RunKey : planned'[k].state = planned[k].state
         /\ \A k \in keys : ~Wanted(k)'
<1>1. planned \in [RunKey -> RunRow]
  BY TypeParts
<1> DEFINE row(k) == [planned[k] EXCEPT !.cancel = TRUE]
<1>2. \A k \in RunKey : row(k) \in RunRow /\ row(k).state = planned[k].state /\ row(k).cancel
  BY <1>1 DEF RunRow
<1>3. planned' = [k \in RunKey |->
         IF k \in keys /\ planned[k].state \in OpenStates THEN row(k) ELSE planned[k]]
  BY DEF CancelRuns
<1> HIDE DEF row
<1> QED
  BY <1>1, <1>2, <1>3 DEF Winding, Staying, Wanted

\* A worker starts or ends a run; one of a paused schedule only to cancel it.
LEMMA WorkDoes ==
  ASSUME SchedTypeOK, NEW k \in RunKey, Begin(k) \/ End(k)
  PROVE  planned' \in [RunKey -> RunRow] /\ Winding /\ Staying
<1>1. planned \in [RunKey -> RunRow]
  BY TypeParts
<1>2. PICK state \in {"working", "done", "cancelled"} :
         planned' = [planned EXCEPT ![k].state = state]
  BY DEF Begin, End
<1>3. planned[k].state \in OpenStates
  BY DEF Begin, End, OpenStates
<1> DEFINE row == [planned[k] EXCEPT !.state = state]
<1>4. row \in RunRow /\ row.state = state /\ row.cancel = planned[k].cancel
  BY <1>1 DEF RunRow, RunState
<1>5. planned'[k] = row /\ \A j \in RunKey \ {k} : planned'[j] = planned[j]
  BY <1>1, <1>2
<1>6. planned' \in [RunKey -> RunRow]
  BY <1>1, <1>2, <1>4
<1> HIDE DEF row
<1> QED
  BY <1>1, <1>3, <1>4, <1>5, <1>6 DEF Winding, Staying, Wanted

-----------------------------------------------------------------------------
(* What a tick that plans a schedule does.                                 *)

TicksInOrder ==
  \A h \in Ticker :
    /\ ticker[h].end <= MaxTime + Ahead
    /\ \A s \in ticker[h].todo : ticker[h].read[s].next <= ticker[h].end

CalendarKeys(s, times) == {<<s, "calendar", t>> : t \in times}

LEMMA MaterializeDoes ==
  ASSUME SchedTypeOK, TicksInOrder, NEW h \in Ticker, NEW s \in Schedule,
         Materialize(h, s)
  PROVE  /\ planned' \in [RunKey -> RunRow] /\ Staying
         /\ \A k \in RunKey : k[1] # s => planned'[k] = planned[k]
         /\ sched' \in [Schedule -> ScheduleRow]
         /\ \/ UNCHANGED <<planned, sched, raced>>
            \/ LET read == ticker[h].read[s] IN
               /\ sched[s].enabled
               /\ \A r \in Schedule \ {s} : sched'[r] = sched[r]
               /\ sched'[s] = [sched[s] EXCEPT !.next = sched'[s].next]
               /\ \/ raced' = raced \cup {s}
                  \/ /\ read.plan = sched[s].plan /\ read.next = sched[s].next
                     /\ raced' = raced
               /\ read.next <= sched'[s].next
               /\ \A t \in Time :
                    read.next <= t /\ t < sched'[s].next /\ Fires(read.plan, t)
                      /\ read.plan = sched[s].plan /\ read.next = sched[s].next
                      => planned'[<<s, "calendar", t>>].state # "absent"
<1> DEFINE read == ticker[h].read[s]
           end == ticker[h].end
           times == Occurrences(read.plan, read.next, end)
           keys == CalendarKeys(s, times)
           new == {k \in keys : planned[k].state = "absent"}
           next == NextFire(read.plan, Max(times))
<1>1. CASE ~MayInsert(s, new)
  <2>1. UNCHANGED <<planned, sched, raced>>
    BY <1>1 DEF Materialize, CalendarKeys
  <2> QED
    BY <2>1, TypeParts DEF Staying
<1>2. CASE MayInsert(s, new)
  <2>1. /\ Insert(s, keys) /\ s \in ticker[h].todo
        /\ sched' = [sched EXCEPT ![s].next = next]
        /\ raced' = IF read = [plan |-> sched[s].plan, next |-> sched[s].next]
                    THEN raced ELSE raced \cup {s}
    BY <1>2 DEF Materialize, CalendarKeys
  <2>2. sched[s].enabled
    BY <1>2 DEF MayInsert
  <2>3. /\ read \in Listing /\ end \in Time /\ sched[s] \in ScheduleRow
        /\ sched \in [Schedule -> ScheduleRow]
    BY TypeParts DEF TickRow
  <2>4. read.plan \in Plan /\ read.next \in Nat /\ end \in Nat /\ end \in Time
    BY <2>3, Bounds DEF Listing
  <2>5. read.next <= end /\ end <= MaxTime + Ahead
    BY <2>1 DEF TicksInOrder
  <2> HIDE DEF read, end
  <2>6. /\ Max(times) \in times /\ times \subseteq read.next..end /\ read.next \in times
        /\ \A t \in times : t <= Max(times)
    BY <2>4, <2>5, LastOccurrence
  <2>7. Max(times) \in Nat /\ Max(times) <= end /\ read.next <= Max(times)
    BY <2>4, <2>6
  <2>8. /\ next \in Time /\ next \in Nat /\ Max(times) < next
        /\ \A t \in Nat : Max(times) < t /\ t < next => ~Fires(read.plan, t)
    <3> HIDE DEF times
    <3>1. Max(times) <= MaxTime + Ahead
      BY <2>4, <2>5, <2>7, Bounds
    <3> QED
      BY <2>4, <2>7, <3>1, PlannedAhead, NextFireFires
  <2>9. keys \in SUBSET RunKey /\ \A k \in keys : k[1] = s
    <3>1. times \subseteq Time
      BY <2>4, <2>5, <2>6, Bounds
    <3> HIDE DEF times
    <3>2. \A t \in times : <<s, "calendar", t>> \in RunKey /\ <<s, "calendar", t>>[1] = s
      BY <3>1 DEF RunKey
    <3> QED
      BY <3>2 DEF CalendarKeys
  <2>10. /\ planned' \in [RunKey -> RunRow] /\ Staying
         /\ \A k \in RunKey \ keys : planned'[k] = planned[k]
         /\ \A k \in keys : planned'[k].state # "absent"
    <3> HIDE DEF keys
    <3> QED
      BY <2>1, <2>9, InsertDoes
  <2> HIDE DEF next
  <2>11. /\ sched' \in [Schedule -> ScheduleRow]
         /\ sched'[s] = [sched[s] EXCEPT !.next = next] /\ sched'[s].next = next
         /\ \A r \in Schedule \ {s} : sched'[r] = sched[r]
    BY <2>1, <2>3, <2>8 DEF ScheduleRow
  <2>12. \/ raced' = raced \cup {s}
         \/ /\ read.plan = sched[s].plan /\ read.next = sched[s].next
            /\ raced' = raced
    BY <2>1
  <2>13. ASSUME NEW t \in Time, read.next <= t, t < next, Fires(read.plan, t)
         PROVE  planned'[<<s, "calendar", t>>].state # "absent"
    <3>1. t \in Nat
      BY Bounds
    <3>2. t <= Max(times)
      <4> HIDE DEF times
      <4> QED
        BY <2>7, <2>8, <2>13, <3>1
    <3>3. t <= end
      <4> HIDE DEF times
      <4> QED
        BY <2>4, <2>7, <3>1, <3>2
    <3>4. t \in times
      BY <2>4, <2>13, <3>1, <3>3 DEF Occurrences
    <3> QED
      BY <2>10, <3>4 DEF CalendarKeys
  <2>14. read.next <= next
    <3> HIDE DEF times
    <3> QED
      BY <2>4, <2>7, <2>8
  <2>15. \A k \in RunKey : k[1] # s => planned'[k] = planned[k]
    <3> HIDE DEF keys
    <3> QED
      BY <2>9, <2>10
  <2> HIDE DEF times, keys, new
  <2> QED
    BY <2>2, <2>10, <2>11, <2>12, <2>13, <2>14, <2>15 DEF read
<1> QED
  BY <1>1, <1>2
-----------------------------------------------------------------------------
(* Requests under way.                                                     *)

Active(e, s) == editor[e].pc # "idle" /\ editor[e].s = s

\* What a request has come to, and the schedule it is about.
RequestsInOrder ==
  \A e \in Editor : editor[e].pc # "idle" =>
    /\ sched[editor[e].s].exists
    /\ editor[e].pc \in {"open", "delete"} => editor[e].kind = "edit"
    /\ editor[e].pc \in {"pauseOpen", "pauseDelete"} => editor[e].kind = "pause"
    /\ editor[e].pc = "update" => editor[e].kind # "remove"
    /\ \A k \in editor[e].keys : k[1] = editor[e].s

OnlySchedulesRun == \A s \in Schedule : sched[s].enabled => sched[s].exists

\* A pause or removal still has to look, or is about to cancel all that is left.
EndsBy(e, s) ==
  /\ Active(e, s)
  /\ \/ editor[e].pc \in {"pauseOpen", "pauseDelete", "reload", "removeOpen"}
     \/ /\ editor[e].pc = "cancel"
        /\ \A k \in RunKey : k[1] = s /\ Wanted(k) => k \in editor[e].keys

Ended(s) == \A k \in RunKey : k[1] = s => ~Wanted(k)

\* A schedule is disabled while a request that did so stands, which ends it, and
\* once such a request has answered.
EndsSoon(s) ==
  /\ \A e \in standing : editor[e].s = s => ~sched[s].enabled /\ EndsBy(e, s)
  /\ s \in kept => sched[s].exists /\ ~sched[s].enabled /\ Ended(s)
PausesEnd == \A s \in Schedule : EndsSoon(s)

\* A schedule is raced when two requests change it at once.
OneAtATime ==
  \A d, e \in Editor :
    /\ editor[d].pc # "idle" /\ editor[d].kind # "remove" /\ editor[d].s \notin raced
    /\ Active(e, editor[d].s) /\ editor[e].kind # "remove"
    => d = e

\* So what a request has read of it is still so.
HeldBy(e) ==
  editor[e].pc # "idle" /\ editor[e].s \notin raced =>
    /\ editor[e].pc \in {"pauseOpen", "pauseDelete"} => ~sched[editor[e].s].enabled
    /\ editor[e].pc = "update" /\ editor[e].kind \notin {"edit", "resume"} =>
         /\ editor[e].plan = sched[editor[e].s].plan
         /\ editor[e].next <= sched[editor[e].s].next
Held == \A e \in Editor : HeldBy(e)

\* Every firing time up to next_run_at is planned, unless an edit that has
\* deleted the plans is about to start afresh.
AllThere(s) ==
  \A t \in Time : since[s] <= t /\ t < sched[s].next /\ Fires(sched[s].plan, t)
    => planned[<<s, "calendar", t>>].state # "absent"
Rewritten(s) == \E e \in Editor : Active(e, s) /\ editor[e].pc = "update" /\ editor[e].kind = "edit"
NoneLostOf(s) == s \notin raced /\ sched[s].enabled /\ ~Rewritten(s) => AllThere(s)
NoneLost == \A s \in Schedule : NoneLostOf(s)

SchedInv ==
  /\ SchedTypeOK /\ TicksInOrder /\ RequestsInOrder /\ OnlySchedulesRun
  /\ PausesEnd /\ OneAtATime /\ Held /\ NoneLost

-----------------------------------------------------------------------------
OthersWait(e) == \A d \in Editor \ {e} : editor'[d] = editor[d]

LEMMA ToDoes ==
  ASSUME SchedTypeOK, NEW e \in Editor, NEW pc \in EditorStep, NEW keys \in SUBSET RunKey,
         To(e, pc, keys)
  PROVE  /\ editor' \in [Editor -> EditRow] /\ OthersWait(e)
         /\ editor'[e].pc = pc /\ editor'[e].keys = keys
         /\ editor'[e].kind = editor[e].kind /\ editor'[e].s = editor[e].s
         /\ editor'[e].plan = editor[e].plan /\ editor'[e].next = editor[e].next
<1>1. editor \in [Editor -> EditRow]
  BY TypeParts
<1> QED
  BY <1>1 DEF To, EditRow, OthersWait

LEMMA LeaveDoes ==
  ASSUME SchedTypeOK, NEW e \in Editor, Leave(e)
  PROVE  editor' \in [Editor -> EditRow] /\ OthersWait(e) /\ editor'[e].pc = "idle"
<1>1. editor \in [Editor -> EditRow]
  BY TypeParts
<1> QED
  BY <1>1, Defaults DEF Leave, OthersWait

LEMMA KeysOfRuns ==
  ASSUME NEW s
  PROVE  /\ OpenRuns(s) \in SUBSET RunKey /\ PristineOf(OpenRuns(s)) \in SUBSET RunKey
         /\ \A k \in OpenRuns(s) : k[1] = s
         /\ \A k \in PristineOf(OpenRuns(s)) : k[1] = s
         /\ \A k \in RunKey : k[1] = s /\ Wanted(k) => k \in OpenRuns(s)
BY DEF OpenRuns, PristineOf, Wanted

LEMMA CalendarKey ==
  ASSUME NEW s \in Schedule, NEW t \in Time
  PROVE  <<s, "calendar", t>> \in RunKey /\ <<s, "calendar", t>>[1] = s
BY DEF RunKey

LEMMA AllThereStays ==
  ASSUME NEW s \in Schedule, AllThere(s),
         \A k \in RunKey : k[1] = s =>
           (planned[k].state # "absent" => planned'[k].state # "absent"),
         since'[s] = since[s], sched'[s].next = sched[s].next,
         sched'[s].plan = sched[s].plan
  PROVE  AllThere(s)'
BY CalendarKey DEF AllThere

LEMMA EndsByStays ==
  ASSUME NEW s \in Schedule, NEW d \in Editor, EndsBy(d, s), editor'[d] = editor[d],
         \A k \in RunKey : k[1] = s => (Wanted(k)' => Wanted(k))
  PROVE  EndsBy(d, s)'
BY DEF EndsBy, Active

LEMMA EndedStays ==
  ASSUME NEW s \in Schedule, Ended(s),
         \A k \in RunKey : k[1] = s => (Wanted(k)' => Wanted(k))
  PROVE  Ended(s)'
BY DEF Ended

\* Other requests go on, and the rows of s stay disabled if they were.
LEMMA EndsSoonStays ==
  ASSUME SchedTypeOK, NEW s \in Schedule, EndsSoon(s),
         \A e \in standing' : editor'[e].s = s => e \in standing /\ editor'[e] = editor[e],
         s \in kept' => s \in kept,
         sched'[s].exists = sched[s].exists,
         sched'[s].enabled => sched[s].enabled,
         sched[s].enabled \/ \A k \in RunKey : k[1] = s => (Wanted(k)' => Wanted(k))
  PROVE  EndsSoon(s)'
<1>1. standing \subseteq Editor
  BY TypeParts
<1>2. ASSUME NEW e \in standing', editor'[e].s = s
      PROVE  ~sched'[s].enabled /\ EndsBy(e, s)'
  <2>1. e \in standing /\ e \in Editor /\ editor'[e] = editor[e]
    BY <1>1, <1>2
  <2>2. ~sched[s].enabled /\ EndsBy(e, s)
    BY <1>2, <2>1 DEF EndsSoon
  <2> QED
    BY <2>1, <2>2, EndsByStays
<1>3. s \in kept' => sched'[s].exists /\ ~sched'[s].enabled /\ Ended(s)'
  BY EndedStays DEF EndsSoon
<1> QED
  BY <1>2, <1>3 DEF EndsSoon

\* A request that stands has disabled its schedule and looks at its runs.
LEMMA StandingGoesOn ==
  ASSUME SchedInv, NEW e \in standing
  PROVE  /\ e \in Editor /\ ~sched[editor[e].s].enabled /\ EndsBy(e, editor[e].s)
         /\ editor[e].pc \in {"pauseOpen", "pauseDelete", "reload", "removeOpen", "cancel"}
<1>1. e \in Editor /\ editor[e].s \in Schedule
  BY TypeParts DEF SchedInv, EditRow
<1> QED
  BY <1>1 DEF SchedInv, PausesEnd, EndsSoon, EndsBy

-----------------------------------------------------------------------------
(* Steps of workers and ticks.                                             *)

LEMMA WorkKeepsAll ==
  ASSUME SchedInv, NEW k \in RunKey, Begin(k) \/ End(k)
  PROVE  SchedInv'
<1>1. SchedTypeOK
  BY DEF SchedInv
<1>2. UNCHANGED <<now, sched, editor, ticker, since, raced, standing, kept, requests>>
  BY DEF Begin, End, pauseHistory
<1>3. planned' \in [RunKey -> RunRow] /\ Winding /\ Staying
  BY <1>1, WorkDoes
<1>4. SchedTypeOK'
  BY <1>1, <1>2, <1>3, TypeParts DEF SchedTypeOK, RunRow
<1>5. TicksInOrder' /\ RequestsInOrder' /\ OnlySchedulesRun' /\ OneAtATime' /\ Held'
  BY <1>2 DEF SchedInv, TicksInOrder, RequestsInOrder, OnlySchedulesRun, OneAtATime, Held,
              HeldBy, Active
<1>6. ASSUME NEW s \in Schedule PROVE EndsSoon(s)'
  <2>1. EndsSoon(s)
    BY DEF SchedInv, PausesEnd
  <2> QED
    BY <1>1, <1>2, <1>3, <2>1, EndsSoonStays DEF Winding
<1>7. ASSUME NEW s \in Schedule PROVE NoneLostOf(s)'
  <2>1. NoneLostOf(s)
    BY DEF SchedInv, NoneLost
  <2> QED
    BY <1>2, <1>3, <2>1, AllThereStays DEF Staying, NoneLostOf, Rewritten, Active
<1> QED
  BY <1>4, <1>5, <1>6, <1>7 DEF SchedInv, PausesEnd, NoneLost

LEMMA RunNowKeepsAll ==
  ASSUME SchedInv, NEW s \in Schedule, RunNow(s)
  PROVE  SchedInv'
<1> DEFINE k == <<s, "manual", now>>
<1>1. SchedTypeOK
  BY DEF SchedInv
<1>2. /\ UNCHANGED <<now, sched, editor, ticker, since, raced, standing, kept>>
      /\ sched[s].enabled /\ Insert(s, {k})
  BY DEF RunNow, pauseHistory
<1>3. requests' \in 0..MaxRequests
  BY <1>1, Bounds DEF SchedTypeOK, RunNow, Request
<1>4. {k} \in SUBSET RunKey /\ k[1] = s
  <2>1. now \in Time
    BY <1>1, Bounds DEF SchedTypeOK
  <2> QED
    BY <2>1 DEF RunKey
<1> HIDE DEF k
<1>5. /\ planned' \in [RunKey -> RunRow] /\ Staying
      /\ \A j \in RunKey : j[1] # s => planned'[j] = planned[j]
  BY <1>1, <1>2, <1>4, InsertDoes
<1>6. SchedTypeOK'
  BY <1>1, <1>2, <1>3, <1>5, TypeParts DEF SchedTypeOK, RunRow
<1>7. TicksInOrder' /\ RequestsInOrder' /\ OnlySchedulesRun' /\ OneAtATime' /\ Held'
  BY <1>2 DEF SchedInv, TicksInOrder, RequestsInOrder, OnlySchedulesRun, OneAtATime, Held,
              HeldBy, Active
<1>8. ASSUME NEW r \in Schedule PROVE EndsSoon(r)'
  <2>1. EndsSoon(r)
    BY DEF SchedInv, PausesEnd
  <2>2. r # s => \A j \in RunKey : j[1] = r => (Wanted(j)' => Wanted(j))
    BY <1>5 DEF Wanted
  <2> QED
    BY <1>1, <1>2, <2>1, <2>2, EndsSoonStays
<1>9. ASSUME NEW r \in Schedule PROVE NoneLostOf(r)'
  <2>1. NoneLostOf(r)
    BY DEF SchedInv, NoneLost
  <2> QED
    BY <1>2, <1>5, <2>1, AllThereStays DEF Staying, NoneLostOf, Rewritten, Active
<1> QED
  BY <1>6, <1>7, <1>8, <1>9 DEF SchedInv, PausesEnd, NoneLost

LEMMA ListKeepsAll ==
  ASSUME SchedInv, \/ \E h \in Ticker : ListDue(h)
                   \/ SchedTick \/ UNCHANGED schedVars
  PROVE  SchedInv'
<1>1. SchedTypeOK /\ TicksInOrder
  BY DEF SchedInv
<1>2. UNCHANGED <<sched, planned, editor, since, raced, standing, kept, requests>>
  BY DEF ListDue, SchedTick, schedVars, pauseHistory
<1>3. /\ RequestsInOrder' /\ OnlySchedulesRun' /\ PausesEnd' /\ OneAtATime'
      /\ Held' /\ NoneLost'
  BY <1>2 DEF SchedInv, RequestsInOrder, OnlySchedulesRun, PausesEnd, EndsSoon, Ended, EndsBy,
       Wanted, OneAtATime, Held, HeldBy, NoneLost, NoneLostOf, AllThere, Rewritten, Active
<1>4. now' \in 0..MaxTime
  BY <1>1, Bounds DEF SchedTypeOK, ListDue, SchedTick, schedVars
<1>5. ticker' \in [Ticker -> TickRow] /\ TicksInOrder'
  <2>1. CASE UNCHANGED ticker
    BY <1>1, <2>1, TypeParts DEF TicksInOrder
  <2>2. ASSUME NEW h \in Ticker, ListDue(h)
        PROVE  ticker' \in [Ticker -> TickRow] /\ TicksInOrder'
    <3> DEFINE due == {s \in Schedule : sched[s].enabled /\ sched[s].next <= now + Ahead}
               read == [s \in Schedule |->
                 IF s \in due THEN [plan |-> sched[s].plan, next |-> sched[s].next]
                 ELSE Resting.read[s]]
               row == [todo |-> due, end |-> now + Ahead, read |-> read]
    <3>1. ticker' = [ticker EXCEPT ![h] = row]
      BY <2>2 DEF ListDue
    <3>2. now + Ahead \in Time /\ now + Ahead <= MaxTime + Ahead
      BY <1>1, Bounds DEF SchedTypeOK
    <3>3. sched \in [Schedule -> ScheduleRow] /\ ticker \in [Ticker -> TickRow]
      BY <1>1, TypeParts
    <3>4. read \in [Schedule -> Listing]
      BY <3>3, Defaults DEF ScheduleRow, Listing, TickRow
    <3>5. /\ row \in TickRow /\ row.end = now + Ahead /\ row.todo = due
          /\ \A s \in due : row.read[s].next <= now + Ahead
      <4>1. \A s \in due : read[s].next <= now + Ahead
        OBVIOUS
      <4> HIDE DEF due, read
      <4>2. due \subseteq Schedule
        BY DEF due
      <4> QED
        BY <3>2, <3>4, <4>1, <4>2 DEF TickRow
    <3> HIDE DEF row, due, read
    <3>6. ticker' \in [Ticker -> TickRow] /\ ticker'[h] = row
      BY <3>1, <3>3, <3>5
    <3>7. \A g \in Ticker \ {h} : ticker'[g] = ticker[g]
      BY <3>1, <3>3
    <3>8. TicksInOrder'
      BY <1>1, <3>2, <3>5, <3>6, <3>7 DEF TicksInOrder
    <3> QED
      BY <3>6, <3>8
  <2> QED
    BY <2>1, <2>2 DEF SchedTick, schedVars
<1>6. SchedTypeOK'
  BY <1>1, <1>2, <1>4, <1>5, TypeParts DEF SchedTypeOK, TickRow, Listing
<1> QED
  BY <1>3, <1>5, <1>6 DEF SchedInv

LEMMA MaterializeKeepsAll ==
  ASSUME SchedInv, NEW h \in Ticker, NEW s \in Schedule, Materialize(h, s)
  PROVE  SchedInv'
<1> DEFINE read == ticker[h].read[s]
<1>1. SchedTypeOK /\ TicksInOrder
  BY DEF SchedInv
<1>2. UNCHANGED <<now, editor, since, standing, kept, requests>>
  BY DEF Materialize, pauseHistory
<1>3. /\ planned' \in [RunKey -> RunRow] /\ Staying
      /\ \A k \in RunKey : k[1] # s => planned'[k] = planned[k]
      /\ sched' \in [Schedule -> ScheduleRow]
  BY <1>1, MaterializeDoes
<1>4. \/ UNCHANGED <<planned, sched, raced>>
      \/ /\ sched[s].enabled
         /\ \A r \in Schedule \ {s} : sched'[r] = sched[r]
         /\ sched'[s] = [sched[s] EXCEPT !.next = sched'[s].next]
         /\ \/ raced' = raced \cup {s}
            \/ /\ read.plan = sched[s].plan /\ read.next = sched[s].next
               /\ raced' = raced
         /\ read.next <= sched'[s].next
         /\ \A t \in Time :
              read.next <= t /\ t < sched'[s].next /\ Fires(read.plan, t)
                /\ read.plan = sched[s].plan /\ read.next = sched[s].next
                => planned'[<<s, "calendar", t>>].state # "absent"
  BY <1>1, MaterializeDoes
<1> HIDE DEF read
<1>5. \A r \in Schedule : /\ sched[r] \in ScheduleRow
                          /\ sched'[r] \in ScheduleRow
  BY <1>1, <1>3, TypeParts
<1>6. \A r \in Schedule : /\ sched'[r].exists = sched[r].exists
                          /\ sched'[r].enabled = sched[r].enabled
                          /\ sched'[r].plan = sched[r].plan
  BY <1>4, <1>5 DEF ScheduleRow
<1>7. \A r \in Schedule : r \notin raced' => r \notin raced /\ sched[r].next <= sched'[r].next
  <2>1. \A r \in Schedule : sched[r].next \in Nat
    BY <1>5, Bounds DEF ScheduleRow
  <2> QED
    BY <1>4, <2>1
<1>8. ticker' \in [Ticker -> TickRow] /\ TicksInOrder'
  <2>1. ticker \in [Ticker -> TickRow]
    BY <1>1, TypeParts
  <2>2. ticker[h] \in TickRow /\ Resting.read[s] \in Listing
    BY <2>1, Defaults DEF TickRow
  <2> DEFINE readings == [ticker[h].read EXCEPT ![s] = Resting.read[s]]
             end == IF ticker[h].todo = {s} THEN 0 ELSE ticker[h].end
             row == [[[ticker[h] EXCEPT !.todo = @ \ {s}] EXCEPT !.read = readings]
                       EXCEPT !.end = end]
  <2>3. ticker' = [ticker EXCEPT ![h] = row]
    BY <2>1, <2>2 DEF Materialize, TickRow
  <2>4. readings \in [Schedule -> Listing] /\ \A r \in Schedule \ {s} : readings[r] = ticker[h].read[r]
    BY <2>2 DEF TickRow
  <2>5. end \in Time /\ end <= MaxTime + Ahead /\ (end # ticker[h].end => ticker[h].todo = {s})
    BY <1>1, <2>2, Bounds DEF TickRow, TicksInOrder
  <2> HIDE DEF readings, end
  <2>6. /\ row \in TickRow /\ row.todo = ticker[h].todo \ {s}
        /\ row.end = end /\ row.read = readings
    BY <2>2, <2>4, <2>5 DEF TickRow
  <2> HIDE DEF row
  <2>7. ticker' \in [Ticker -> TickRow] /\ ticker'[h] = row
    BY <2>1, <2>3, <2>6
  <2>8. \A g \in Ticker \ {h} : ticker'[g] = ticker[g]
    BY <2>1, <2>3
  <2>9. ASSUME NEW g \in Ticker
        PROVE  /\ ticker'[g].end <= MaxTime + Ahead
               /\ \A r \in ticker'[g].todo : ticker'[g].read[r].next <= ticker'[g].end
    <3>1. CASE g # h
      BY <1>1, <2>8, <3>1 DEF TicksInOrder
    <3>2. CASE g = h
      <4>1. ticker[h].todo \subseteq Schedule
        BY <2>2 DEF TickRow
      <4>2. \A r \in ticker[h].todo \ {s} : row.read[r].next <= row.end
        BY <1>1, <2>4, <2>5, <2>6, <4>1 DEF TicksInOrder
      <4> QED
        BY <2>5, <2>6, <2>7, <3>2, <4>2
    <3> QED
      BY <3>1, <3>2
  <2> QED
    BY <2>7, <2>9 DEF TicksInOrder
<1>9. raced' \in SUBSET Schedule
  BY <1>1, <1>4, TypeParts
<1>10. SchedTypeOK'
  BY <1>1, <1>2, <1>3, <1>8, <1>9, TypeParts DEF SchedTypeOK, RunRow, ScheduleRow, TickRow, Listing
<1>11. editor \in [Editor -> EditRow]
  BY <1>1, TypeParts
<1>12. RequestsInOrder' /\ OnlySchedulesRun' /\ OneAtATime'
  <2>1. \A e \in Editor : editor[e].s \in Schedule
    BY <1>11 DEF EditRow
  <2> QED
    BY <1>2, <1>6, <1>7, <2>1
    DEF SchedInv, RequestsInOrder, OnlySchedulesRun, OneAtATime, Active
<1>13. ASSUME NEW e \in Editor PROVE HeldBy(e)'
  <2>1. HeldBy(e) /\ editor[e].s \in Schedule /\ editor[e].next \in Nat
    BY <1>11, Bounds DEF SchedInv, Held, EditRow
  <2>2. sched[editor[e].s].next \in Nat /\ sched'[editor[e].s].next \in Nat
    BY <1>5, <2>1, Bounds DEF ScheduleRow
  <2> QED
    BY <1>2, <1>6, <1>7, <2>1, <2>2 DEF HeldBy
<1>14. ASSUME NEW r \in Schedule PROVE EndsSoon(r)'
  <2>1. EndsSoon(r)
    BY DEF SchedInv, PausesEnd
  <2>2. CASE UNCHANGED planned \/ r # s
    <3>1. \A j \in RunKey : j[1] = r => (Wanted(j)' => Wanted(j))
      BY <1>3, <2>2 DEF Wanted
    <3> QED
      BY <1>1, <1>2, <1>6, <2>1, <3>1, EndsSoonStays
  <2>3. CASE r = s /\ sched[s].enabled
    BY <1>1, <1>2, <1>6, <2>1, <2>3, EndsSoonStays
  <2> QED
    BY <1>4, <2>2, <2>3
<1>15. ASSUME NEW r \in Schedule PROVE NoneLostOf(r)'
  <2>1. NoneLostOf(r)
    BY DEF SchedInv, NoneLost
  <2>2. CASE sched'[r] = sched[r]
    BY <1>2, <1>3, <1>6, <1>7, <2>1, <2>2, AllThereStays
    DEF Staying, NoneLostOf, Rewritten, Active
  <2>3. CASE r = s /\ sched'[s] # sched[s]
    <3> SUFFICES ASSUME s \notin raced', sched'[s].enabled, ~Rewritten(s)'
                 PROVE  AllThere(s)'
      BY <2>3 DEF NoneLostOf
    <3>1. read.plan = sched[s].plan /\ read.next = sched[s].next
      BY <1>4, <2>3
    <3>2. AllThere(s)
      BY <1>2, <1>6, <1>7, <2>1, <2>3 DEF NoneLostOf, Rewritten, Active
    <3>3. ASSUME NEW t \in Time, since'[s] <= t, t < sched'[s].next,
                 Fires(sched'[s].plan, t)
          PROVE  planned'[<<s, "calendar", t>>].state # "absent"
      <4>1. t \in Nat /\ sched[s].next \in Nat
        BY <1>5, Bounds DEF ScheduleRow
      <4>2. CASE t < sched[s].next
        BY <1>2, <1>3, <1>6, <3>2, <3>3, <4>2, CalendarKey DEF AllThere, Staying
      <4>3. CASE sched[s].next <= t
        BY <1>4, <1>6, <2>3, <3>1, <3>3, <4>3
      <4> QED
        BY <4>1, <4>2, <4>3
    <3> QED
      BY <3>3 DEF AllThere
  <2> QED
    BY <1>4, <2>2, <2>3
<1> QED
  BY <1>8, <1>10, <1>12, <1>13, <1>14, <1>15 DEF SchedInv, PausesEnd, Held, NoneLost

-----------------------------------------------------------------------------
(* Steps of a request between its statements on the schedule's row.        *)

\* The request e ends or goes on, and only winds down what is its own.
GoesOn(e) ==
  LET row == editor'[e] IN
  /\ row.kind = editor[e].kind /\ row.s = editor[e].s
  /\ row.plan = editor[e].plan /\ row.next = editor[e].next
  /\ row.pc \in {"open", "delete", "update"} => row.kind = "edit"
  /\ row.pc \in {"pauseOpen", "pauseDelete"} => editor[e].pc \in {"pauseOpen", "pauseDelete"}
  /\ \A k \in row.keys : k[1] = row.s
Spares(e) ==
  \A k \in RunKey :
    \/ planned[k].state # "absent" => planned'[k].state # "absent"
    \/ /\ k[1] = editor[e].s
       /\ \/ editor[e].s \in raced' \/ ~sched[editor[e].s].enabled
          \/ editor'[e].pc = "update" /\ GoesOn(e)

LEMMA OnwardKeepsAll ==
  ASSUME SchedInv, NEW e \in Editor, editor[e].pc # "idle",
         UNCHANGED <<now, sched, ticker, since, requests>>,
         editor' \in [Editor -> EditRow], OthersWait(e),
         planned' \in [RunKey -> RunRow], Winding,
         raced \subseteq raced', raced' \subseteq Schedule,
         editor'[e].pc = "idle" \/ GoesOn(e),
         Spares(e),
         NEW own \in Schedule, own = editor[e].s,
         editor[e].pc = "update" =>
           editor'[e].pc = "idle" /\ (editor[e].kind = "edit" => own \in raced'),
         standing' \subseteq standing, e \in standing' => EndsBy(e, own)',
         kept' \subseteq kept \cup {own},
         own \in kept' => own \in kept \/ (e \in standing /\ Ended(own)')
  PROVE  SchedInv'
<1>1. SchedTypeOK /\ editor \in [Editor -> EditRow]
  BY TypeParts DEF SchedInv
<1>2. SchedTypeOK'
  BY <1>1, TypeParts DEF SchedTypeOK, RunRow, EditRow, Kind
<1>3. TicksInOrder' /\ OnlySchedulesRun'
  BY DEF SchedInv, TicksInOrder, OnlySchedulesRun
<1>4. RequestsInOrder'
  <2>1. ASSUME NEW d \in Editor, editor'[d].pc # "idle"
        PROVE  /\ sched'[editor'[d].s].exists
               /\ editor'[d].pc \in {"open", "delete"} => editor'[d].kind = "edit"
               /\ editor'[d].pc \in {"pauseOpen", "pauseDelete"} => editor'[d].kind = "pause"
               /\ editor'[d].pc = "update" => editor'[d].kind # "remove"
               /\ \A k \in editor'[d].keys : k[1] = editor'[d].s
    <3>1. CASE d # e
      BY <2>1, <3>1 DEF SchedInv, RequestsInOrder, OthersWait
    <3>2. CASE d = e
      BY <2>1, <3>2 DEF SchedInv, RequestsInOrder, GoesOn
    <3> QED
      BY <3>1, <3>2
  <2> QED
    BY <2>1 DEF RequestsInOrder
<1>5. \A d \in Editor : editor'[d].pc # "idle" =>
        /\ editor[d].pc # "idle" /\ editor'[d].kind = editor[d].kind
        /\ editor'[d].s = editor[d].s
  BY DEF OthersWait, GoesOn
<1>6. OneAtATime'
  BY <1>5 DEF SchedInv, OneAtATime, Active
<1>7. ASSUME NEW d \in Editor PROVE HeldBy(d)'
  <2>1. HeldBy(d)
    BY DEF SchedInv, Held
  <2>2. CASE d # e
    BY <2>1, <2>2 DEF HeldBy, OthersWait
  <2>3. CASE d = e
    BY <2>1, <2>3 DEF HeldBy, GoesOn
  <2> QED
    BY <2>2, <2>3
<1>8. ASSUME NEW s \in Schedule PROVE EndsSoon(s)'
  <2>1. EndsSoon(s)
    BY DEF SchedInv, PausesEnd
  <2>2. \A k \in RunKey : k[1] = s => (Wanted(k)' => Wanted(k))
    BY DEF Winding
  <2>3. ASSUME NEW d \in standing', editor'[d].s = s
        PROVE  ~sched'[s].enabled /\ EndsBy(d, s)'
    <3>1. d \in standing /\ d \in Editor /\ ~sched[editor[d].s].enabled
          /\ EndsBy(d, editor[d].s)
      BY <2>3, StandingGoesOn
    <3>2. CASE d = e
      <4>1. editor'[e].pc # "idle"
        BY <2>3, <3>2 DEF EndsBy, Active
      <4>2. s = own
        BY <2>3, <3>2, <4>1 DEF GoesOn
      <4> QED
        BY <2>3, <3>1, <3>2, <4>2
    <3>3. CASE d # e
      <4>1. editor'[d] = editor[d]
        BY <3>1, <3>3 DEF OthersWait
      <4> QED
        BY <2>2, <2>3, <3>1, <4>1, EndsByStays
    <3> QED
      BY <3>2, <3>3
  <2>4. s \in kept' => sched'[s].exists /\ ~sched'[s].enabled /\ Ended(s)'
    <3>1. CASE s \in kept
      BY <2>1, <2>2, <3>1, EndedStays DEF EndsSoon
    <3>2. CASE s \notin kept /\ s \in kept'
      <4>1. s = own /\ e \in standing /\ Ended(own)'
        BY <3>2
      <4> QED
        BY <4>1, StandingGoesOn DEF SchedInv, RequestsInOrder
    <3> QED
      BY <3>1, <3>2
  <2> QED
    BY <2>3, <2>4 DEF EndsSoon
<1>9. ASSUME NEW s \in Schedule PROVE NoneLostOf(s)'
  <2> SUFFICES ASSUME s \notin raced', sched[s].enabled, ~Rewritten(s)'
               PROVE  AllThere(s)'
    BY DEF NoneLostOf
  <2>1. NoneLostOf(s) /\ s \notin raced
    BY DEF SchedInv, NoneLost
  <2>2. ~Rewritten(s)
    <3>1. ASSUME NEW d \in Editor, Active(d, s), editor[d].pc = "update",
                 editor[d].kind = "edit"
          PROVE  FALSE
      <4>1. CASE d = e
        BY <3>1, <4>1 DEF Active
      <4>2. CASE d # e
        BY <3>1, <4>2 DEF Rewritten, Active, OthersWait
      <4> QED
        BY <4>1, <4>2
    <3> QED
      BY <3>1 DEF Rewritten
  <2>3. \A k \in RunKey : k[1] = s =>
          (planned[k].state # "absent" => planned'[k].state # "absent")
    <3>1. editor'[e].pc = "update" /\ GoesOn(e) => editor[e].s # s
      BY DEF Rewritten, Active, GoesOn
    <3> QED
      BY <3>1 DEF Spares
  <2> QED
    BY <2>1, <2>2, <2>3, AllThereStays DEF NoneLostOf
<1> QED
  BY <1>2, <1>3, <1>4, <1>6, <1>7, <1>8, <1>9 DEF SchedInv, PausesEnd, Held, NoneLost

\* A step that reads, and goes to where it knows what to do.
LEMMA ReadKeepsAll ==
  ASSUME SchedInv, NEW e \in Editor,
         PauseReads(e) \/ Reload(e) \/ RemoveReads(e)
  PROVE  SchedInv'
<1>s. PICK s \in Schedule : s = editor[e].s
  BY TypeParts DEF SchedInv, EditRow
<1> DEFINE keys == IF PauseReads(e) THEN PristineOf(OpenRuns(s)) ELSE OpenRuns(s)
           pc == IF PauseReads(e) THEN "pauseDelete" ELSE "cancel"
<1>1. SchedTypeOK /\ editor \in [Editor -> EditRow] /\ planned \in [RunKey -> RunRow]
      /\ raced \in SUBSET Schedule
  BY TypeParts DEF SchedInv
<1>2. UNCHANGED <<now, sched, planned, ticker, since, raced, standing, kept, requests>>
  BY DEF PauseReads, Reload, RemoveReads, Stay, pauseHistory
<1>3. To(e, pc, keys)
  BY <1>s DEF PauseReads, Reload, RemoveReads, At
<1>4. keys \in SUBSET RunKey /\ \A k \in keys : k[1] = s
  BY KeysOfRuns
<1>5. PauseReads(e) \/ \A k \in RunKey : k[1] = s /\ Wanted(k) => k \in keys
  BY KeysOfRuns
<1>6. editor[e].pc \in {"pauseOpen", "reload", "removeOpen"}
      /\ (PauseReads(e) <=> editor[e].pc = "pauseOpen")
  BY DEF PauseReads, Reload, RemoveReads, At
<1>7. pc \in EditorStep
  BY DEF EditorStep
<1>8. pc = "pauseDelete" \/ (pc = "cancel" /\ ~PauseReads(e))
  OBVIOUS
<1>9. pc = "pauseDelete" => editor[e].pc = "pauseOpen"
  BY <1>s, <1>6
<1> HIDE DEF keys, pc
<1>10. /\ editor' \in [Editor -> EditRow] /\ OthersWait(e)
       /\ editor'[e].pc = pc /\ editor'[e].keys = keys
       /\ editor'[e].kind = editor[e].kind /\ editor'[e].s = editor[e].s
       /\ editor'[e].plan = editor[e].plan /\ editor'[e].next = editor[e].next
  BY <1>1, <1>3, <1>4, <1>7, ToDoes
<1>11. GoesOn(e)
  BY <1>s, <1>4, <1>8, <1>9, <1>10 DEF GoesOn
<1>12. EndsBy(e, s)'
  BY <1>s, <1>2, <1>5, <1>8, <1>10 DEF EndsBy, Active, Wanted
<1>13. Winding /\ Spares(e)
  BY <1>2 DEF Winding, Spares, Wanted
<1> QED
  BY <1>s, <1>1, <1>2, <1>6, <1>10, <1>11, <1>12, <1>13, OnwardKeepsAll

LEMMA PauseDeletesKeepsAll ==
  ASSUME SchedInv, NEW e \in Editor, PauseDeletes(e)
  PROVE  SchedInv'
<1>s. PICK s \in Schedule : s = editor[e].s
  BY TypeParts DEF SchedInv, EditRow
<1>1. SchedTypeOK /\ editor \in [Editor -> EditRow] /\ raced \in SUBSET Schedule
  BY TypeParts DEF SchedInv
<1>2. /\ UNCHANGED <<now, sched, ticker, since, raced, standing, kept, requests>>
      /\ editor[e].pc = "pauseDelete" /\ DeletePristine(editor[e].keys) /\ To(e, "reload", {})
  BY DEF PauseDeletes, Stay, At, pauseHistory
<1>3. editor[e] \in EditRow /\ editor[e].keys \in SUBSET RunKey /\ editor[e].s \in Schedule
  BY <1>1 DEF EditRow
<1>4. /\ planned' \in [RunKey -> RunRow] /\ Winding
      /\ \A k \in RunKey \ editor[e].keys : planned'[k] = planned[k]
  BY <1>1, <1>2, <1>3, DeleteDoes
<1>5. "reload" \in EditorStep /\ {} \in SUBSET RunKey
  BY DEF EditorStep
<1>6. /\ editor' \in [Editor -> EditRow] /\ OthersWait(e)
      /\ editor'[e].pc = "reload" /\ editor'[e].keys = {}
      /\ editor'[e].kind = editor[e].kind /\ editor'[e].s = editor[e].s
      /\ editor'[e].plan = editor[e].plan /\ editor'[e].next = editor[e].next
  BY <1>1, <1>2, <1>5, ToDoes
<1>7. GoesOn(e) /\ EndsBy(e, s)'
  BY <1>s, <1>6 DEF GoesOn, EndsBy, Active
<1>8. s \in raced \/ ~sched[s].enabled
  BY <1>s, <1>2 DEF SchedInv, Held, HeldBy
<1>9. \A k \in editor[e].keys : k[1] = s
  BY <1>s, <1>2 DEF SchedInv, RequestsInOrder
<1>10. Spares(e)
  BY <1>s, <1>2, <1>4, <1>8, <1>9 DEF Spares
<1> QED
  BY <1>s, <1>1, <1>2, <1>4, <1>6, <1>7, <1>10, OnwardKeepsAll

LEMMA CancelKeepsAll ==
  ASSUME SchedInv, NEW e \in Editor, Cancel(e)
  PROVE  SchedInv'
<1>s. PICK s \in Schedule : s = editor[e].s
  BY TypeParts DEF SchedInv, EditRow
<1>1. SchedTypeOK /\ editor \in [Editor -> EditRow] /\ raced \in SUBSET Schedule
  BY TypeParts DEF SchedInv
<1>2. /\ UNCHANGED <<now, sched, ticker, since, raced, requests>>
      /\ editor[e].pc = "cancel" /\ CancelRuns(editor[e].keys) /\ Leave(e)
      /\ kept' = IF e \in standing THEN kept \cup {s} ELSE kept
      /\ standing' = standing \ {e}
  BY <1>s DEF Cancel, Stay, At
<1>3. editor[e].keys \in SUBSET RunKey
  BY <1>1 DEF EditRow
<1>4. /\ planned' \in [RunKey -> RunRow] /\ Winding /\ Staying
      /\ \A k \in editor[e].keys : ~Wanted(k)'
  BY <1>1, <1>2, <1>3, CancelDoes
<1>5. editor' \in [Editor -> EditRow] /\ OthersWait(e) /\ editor'[e].pc = "idle"
  BY <1>1, <1>2, LeaveDoes
<1>6. e \in standing => Ended(s)'
  BY <1>s, <1>2, <1>4, StandingGoesOn DEF EndsBy, Ended, Winding
<1>7. Spares(e)
  BY <1>4 DEF Spares, Staying
<1> QED
  BY <1>s, <1>1, <1>2, <1>4, <1>5, <1>6, <1>7, OnwardKeepsAll

LEMMA EditChecksKeepsAll ==
  ASSUME SchedInv, NEW e \in Editor, EditChecks(e)
  PROVE  SchedInv'
<1>s. PICK s \in Schedule : s = editor[e].s
  BY TypeParts DEF SchedInv, EditRow
<1> DEFINE open == OpenRuns(s)
           busy == open \ PristineOf(open)
           pc == IF open = {} THEN "update" ELSE "delete"
<1>1. SchedTypeOK /\ editor \in [Editor -> EditRow] /\ raced \in SUBSET Schedule
      /\ planned \in [RunKey -> RunRow]
  BY TypeParts DEF SchedInv
<1>2. /\ UNCHANGED <<now, sched, ticker, since, raced, standing, kept, requests>>
      /\ editor[e].pc = "open"
  BY DEF EditChecks, Stay, At, pauseHistory
<1>3. open \in SUBSET RunKey /\ busy \in SUBSET RunKey /\ \A k \in open : k[1] = s
  BY KeysOfRuns
<1>4. e \notin standing /\ editor[e].kind = "edit"
  BY <1>s, <1>2, StandingGoesOn DEF SchedInv, RequestsInOrder
<1>5. CASE CancelRuns(busy) /\ Leave(e)
  <2> HIDE DEF busy
  <2>1. planned' \in [RunKey -> RunRow] /\ Winding /\ Staying
    BY <1>1, <1>3, <1>5, CancelDoes
  <2>2. editor' \in [Editor -> EditRow] /\ OthersWait(e) /\ editor'[e].pc = "idle"
    BY <1>1, <1>5, LeaveDoes
  <2>3. Spares(e)
    BY <2>1 DEF Spares, Staying
  <2> QED
    BY <1>s, <1>1, <1>2, <1>4, <2>1, <2>2, <2>3, OnwardKeepsAll
<1>6. CASE To(e, pc, open) /\ UNCHANGED planned
  <2>1. pc \in EditorStep /\ pc \in {"update", "delete"}
    BY DEF EditorStep
  <2> HIDE DEF pc, open
  <2>2. /\ editor' \in [Editor -> EditRow] /\ OthersWait(e)
        /\ editor'[e].pc = pc /\ editor'[e].keys = open
        /\ editor'[e].kind = editor[e].kind /\ editor'[e].s = editor[e].s
        /\ editor'[e].plan = editor[e].plan /\ editor'[e].next = editor[e].next
    BY <1>1, <1>3, <1>6, <2>1, ToDoes
  <2>3. GoesOn(e)
    BY <1>s, <1>3, <1>4, <2>1, <2>2 DEF GoesOn
  <2>4. Winding /\ Spares(e)
    BY <1>6 DEF Winding, Spares, Wanted
  <2> QED
    BY <1>s, <1>1, <1>2, <1>4, <1>6, <2>2, <2>3, <2>4, OnwardKeepsAll
<1> QED
  BY <1>s, <1>5, <1>6 DEF EditChecks

LEMMA EditDeletesKeepsAll ==
  ASSUME SchedInv, NEW e \in Editor, EditDeletes(e)
  PROVE  SchedInv'
<1>s. PICK s \in Schedule : s = editor[e].s
  BY TypeParts DEF SchedInv, EditRow
<1>1. SchedTypeOK /\ editor \in [Editor -> EditRow] /\ raced \in SUBSET Schedule
  BY TypeParts DEF SchedInv
<1>2. /\ UNCHANGED <<now, sched, ticker, since, standing, kept, requests>>
      /\ editor[e].pc = "delete" /\ DeletePristine(editor[e].keys)
  BY DEF EditDeletes, At, pauseHistory
<1>3. editor[e].keys \in SUBSET RunKey /\ s \in Schedule
  BY <1>1 DEF EditRow
<1>4. /\ planned' \in [RunKey -> RunRow] /\ Winding
      /\ \A k \in RunKey \ editor[e].keys : planned'[k] = planned[k]
  BY <1>1, <1>2, <1>3, DeleteDoes
<1>5. e \notin standing /\ editor[e].kind = "edit" /\ \A k \in editor[e].keys : k[1] = s
  BY <1>s, <1>2, StandingGoesOn DEF SchedInv, RequestsInOrder
<1>6. CASE To(e, "update", {}) /\ UNCHANGED raced
  <2>1. "update" \in EditorStep /\ {} \in SUBSET RunKey
    BY DEF EditorStep
  <2>2. /\ editor' \in [Editor -> EditRow] /\ OthersWait(e)
        /\ editor'[e].pc = "update" /\ editor'[e].keys = {}
        /\ editor'[e].kind = editor[e].kind /\ editor'[e].s = editor[e].s
        /\ editor'[e].plan = editor[e].plan /\ editor'[e].next = editor[e].next
    BY <1>1, <1>6, <2>1, ToDoes
  <2>3. GoesOn(e)
    BY <1>s, <1>5, <2>2 DEF GoesOn
  <2>4. Spares(e)
    BY <1>s, <1>4, <1>5, <2>2, <2>3 DEF Spares
  <2> QED
    BY <1>s, <1>1, <1>2, <1>4, <1>5, <1>6, <2>2, <2>3, <2>4, OnwardKeepsAll
<1>7. CASE Leave(e) /\ raced' = raced \cup {s}
  <2>1. editor' \in [Editor -> EditRow] /\ OthersWait(e) /\ editor'[e].pc = "idle"
    BY <1>1, <1>7, LeaveDoes
  <2>2. Spares(e)
    BY <1>s, <1>4, <1>5, <1>7 DEF Spares
  <2>3. raced \subseteq raced' /\ raced' \subseteq Schedule
    BY <1>s, <1>1, <1>3, <1>7
  <2> QED
    BY <1>s, <1>1, <1>2, <1>4, <1>5, <2>1, <2>2, <2>3, OnwardKeepsAll
<1> QED
  BY <1>s, <1>6, <1>7 DEF EditDeletes

\* A request that fails leaves its schedule as it is by then; only an edit about
\* to update has plans on its conscience, and its schedule is raced.
LEMMA FailKeepsAll ==
  ASSUME SchedInv, NEW e \in Editor, Fail(e)
  PROVE  SchedInv'
<1>s. PICK s \in Schedule : s = editor[e].s
  BY TypeParts DEF SchedInv, EditRow
<1>1. SchedTypeOK /\ planned \in [RunKey -> RunRow] /\ raced \in SUBSET Schedule
  BY TypeParts DEF SchedInv
<1>2. /\ UNCHANGED <<now, sched, planned, ticker, since, kept, requests>>
      /\ editor[e].pc # "idle" /\ Leave(e) /\ standing' = standing \ {e}
      /\ raced \subseteq raced' /\ raced' \subseteq raced \cup {s}
      /\ editor[e].pc = "update" /\ editor[e].kind = "edit" => s \in raced'
  BY <1>s DEF Fail, At
<1>3. editor' \in [Editor -> EditRow] /\ OthersWait(e) /\ editor'[e].pc = "idle"
  BY <1>1, <1>2, LeaveDoes
<1>4. Winding /\ Spares(e) /\ raced' \subseteq Schedule
  BY <1>1, <1>2 DEF Winding, Spares, Wanted
<1> QED
  BY <1>s, <1>1, <1>2, <1>3, <1>4, OnwardKeepsAll

-----------------------------------------------------------------------------
(* Steps that write the row of a schedule, or begin a request.             *)

LEMMA CreateKeepsAll ==
  ASSUME SchedInv, NEW s \in Schedule, NEW p \in Plan, NEW enabled \in BOOLEAN,
         Create(s, p, enabled)
  PROVE  SchedInv'
<1> DEFINE next == NextFire(p, now)
           row == [exists |-> TRUE, enabled |-> enabled, plan |-> p, next |-> next]
<1>1. /\ SchedTypeOK /\ sched \in [Schedule -> ScheduleRow]
      /\ since \in [Schedule -> Time] /\ editor \in [Editor -> EditRow]
  BY TypeParts DEF SchedInv
<1>2. /\ UNCHANGED <<now, planned, editor, ticker, raced, standing, kept, requests>>
      /\ sched' = [sched EXCEPT ![s] = row] /\ since' = [since EXCEPT ![s] = next]
      /\ ~sched[s].exists
  BY DEF Create, pauseHistory
<1>3. next \in Time
  BY <1>1, Bounds, PlannedAhead DEF SchedTypeOK
<1>4. row \in ScheduleRow /\ row.exists /\ row.next = next
  BY <1>3 DEF ScheduleRow
<1> HIDE DEF row, next
<1>5. /\ sched' \in [Schedule -> ScheduleRow] /\ sched'[s] = row
      /\ since' \in [Schedule -> Time] /\ since'[s] = next
      /\ \A r \in Schedule \ {s} : sched'[r] = sched[r] /\ since'[r] = since[r]
  BY <1>1, <1>2, <1>3, <1>4
<1>6. SchedTypeOK'
  BY <1>1, <1>2, <1>5, TypeParts DEF SchedTypeOK, ScheduleRow
<1>7. \A e \in Editor : editor[e].pc # "idle" => editor[e].s \in Schedule \ {s}
  BY <1>1, <1>2 DEF SchedInv, RequestsInOrder, EditRow
<1>8. TicksInOrder' /\ RequestsInOrder' /\ OneAtATime'
  BY <1>2, <1>5, <1>7 DEF SchedInv, TicksInOrder, RequestsInOrder, OneAtATime, Active
<1>9. OnlySchedulesRun' /\ Held'
  BY <1>2, <1>4, <1>5, <1>7 DEF SchedInv, OnlySchedulesRun, Held, HeldBy
<1>10. ASSUME NEW r \in Schedule PROVE EndsSoon(r)'
  <2>1. EndsSoon(r) /\ \A k \in RunKey : Wanted(k)' => Wanted(k)
    BY <1>2 DEF SchedInv, PausesEnd, Wanted
  <2>2. CASE r # s
    BY <1>1, <1>2, <1>5, <2>1, <2>2, EndsSoonStays
  <2>3. CASE r = s
    <3>1. s \notin kept /\ \A d \in standing : editor[d].s # s
      BY <1>2, <1>7, <2>1, <2>3, StandingGoesOn DEF EndsSoon
    <3> QED
      BY <1>2, <2>3, <3>1 DEF EndsSoon
  <2> QED
    BY <2>2, <2>3
<1>11. ASSUME NEW r \in Schedule PROVE NoneLostOf(r)'
  <2>1. CASE r # s
    BY <1>2, <1>5, <2>1 DEF SchedInv, NoneLost, NoneLostOf, AllThere, Rewritten, Active
  <2>2. CASE r = s
    BY <1>3, <1>4, <1>5, <2>2, Bounds DEF NoneLostOf, AllThere
  <2> QED
    BY <2>1, <2>2
<1> QED
  BY <1>6, <1>8, <1>9, <1>10, <1>11 DEF SchedInv, PausesEnd, NoneLost

LEMMA OpenKeepsAll ==
  ASSUME SchedInv, NEW e \in Editor, NEW s \in Schedule, NEW p \in Plan,
         NEW kind \in EditKinds, Open(e, s, kind, p)
  PROVE  SchedInv'
<1> DEFINE fresh == kind = "edit" \/ (kind = "resume" /\ ~sched[s].enabled)
           plan == IF kind = "edit" THEN p ELSE sched[s].plan
           next == IF fresh THEN NextFire(plan, now) ELSE sched[s].next
           pc == IF kind = "edit" THEN "open" ELSE "update"
           row == [pc |-> pc, kind |-> kind, s |-> s, plan |-> plan, next |-> next, keys |-> {}]
<1>1. /\ SchedTypeOK /\ sched \in [Schedule -> ScheduleRow] /\ now \in 0..MaxTime
      /\ editor \in [Editor -> EditRow] /\ raced \in SUBSET Schedule
  BY TypeParts DEF SchedInv
<1>2. /\ UNCHANGED <<now, sched, planned, ticker, since, standing, kept>>
      /\ editor[e].pc = "idle" /\ kind # "remove" /\ sched[s].exists
      /\ editor' = [editor EXCEPT ![e] = row]
      /\ raced' = IF \E d \in Editor : editor[d].pc # "idle" /\ editor[d].s = s
                  THEN raced \cup {s} ELSE raced
  BY DEF Open, At, pauseHistory
<1>3. requests' \in 0..MaxRequests
  BY <1>1, Bounds DEF SchedTypeOK, Open, Request
<1>4. plan \in Plan /\ next \in Time
  <2>1. plan \in Plan /\ sched[s].next \in Time
    BY <1>1 DEF ScheduleRow
  <2>2. now \in Nat /\ now <= MaxTime + Ahead
    BY <1>1, Bounds
  <2> HIDE DEF plan
  <2> QED
    BY <2>1, <2>2, PlannedAhead
<1>5. /\ row \in EditRow /\ row.pc = pc /\ row.kind = kind /\ row.s = s
      /\ row.plan = plan /\ row.next = next /\ row.keys = {}
  <2>1. pc \in EditorStep
    BY DEF EditorStep
  <2> HIDE DEF pc, plan, next
  <2> QED
    BY <1>4, <2>1 DEF EditRow, Kind
<1>6. kind \notin {"edit", "resume"} => plan = sched[s].plan /\ next = sched[s].next
  OBVIOUS
<1>7. \/ pc = "open" /\ kind = "edit"
      \/ pc = "update" /\ kind # "edit"
  OBVIOUS
<1> HIDE DEF row, pc, plan, next
<1>8. editor' \in [Editor -> EditRow] /\ editor'[e] = row /\ OthersWait(e)
  BY <1>1, <1>2, <1>5 DEF OthersWait
<1>9. raced' \in SUBSET Schedule /\ raced \subseteq raced'
  BY <1>1, <1>2
<1>10. SchedTypeOK'
  BY <1>1, <1>2, <1>3, <1>8, <1>9, TypeParts DEF SchedTypeOK, EditRow, Kind
<1>11. TicksInOrder' /\ OnlySchedulesRun'
  BY <1>2 DEF SchedInv, TicksInOrder, OnlySchedulesRun
<1>12. RequestsInOrder'
  <2>1. ASSUME NEW d \in Editor, editor'[d].pc # "idle"
        PROVE  /\ sched'[editor'[d].s].exists
               /\ editor'[d].pc \in {"open", "delete"} => editor'[d].kind = "edit"
               /\ editor'[d].pc \in {"pauseOpen", "pauseDelete"} => editor'[d].kind = "pause"
               /\ editor'[d].pc = "update" => editor'[d].kind # "remove"
               /\ \A k \in editor'[d].keys : k[1] = editor'[d].s
    <3>1. CASE d # e
      BY <1>2, <1>8, <2>1, <3>1 DEF SchedInv, RequestsInOrder, OthersWait
    <3>2. CASE d = e
      BY <1>2, <1>5, <1>7, <1>8, <3>2
    <3> QED
      BY <3>1, <3>2
  <2> QED
    BY <2>1 DEF RequestsInOrder
<1>13. OneAtATime'
  BY <1>1, <1>2, <1>5, <1>8, <1>9 DEF SchedInv, OneAtATime, Active, OthersWait
<1>14. ASSUME NEW d \in Editor PROVE HeldBy(d)'
  <2>1. CASE d # e
    BY <1>2, <1>8, <1>9, <2>1 DEF SchedInv, Held, HeldBy, OthersWait
  <2>2. CASE d = e
    <3>1. next \in Nat
      BY <1>4, Bounds
    <3> QED
      BY <1>2, <1>5, <1>6, <1>7, <1>8, <2>2, <3>1 DEF HeldBy
  <2> QED
    BY <2>1, <2>2
<1>15. ASSUME NEW r \in Schedule PROVE EndsSoon(r)'
  <2>1. EndsSoon(r)
    BY DEF SchedInv, PausesEnd
  <2>2. \A d \in standing : d \in Editor /\ d # e
    BY <1>2, StandingGoesOn
  <2>3. \A k \in RunKey : Wanted(k)' => Wanted(k)
    BY <1>2 DEF Wanted
  <2> QED
    BY <1>1, <1>2, <1>8, <2>1, <2>2, <2>3, EndsSoonStays DEF OthersWait
<1>16. ASSUME NEW r \in Schedule PROVE NoneLostOf(r)'
  <2>1. Rewritten(r) => Rewritten(r)'
    BY <1>2, <1>8 DEF Rewritten, Active, OthersWait
  <2> QED
    BY <1>2, <1>9, <2>1 DEF SchedInv, NoneLost, NoneLostOf, AllThere
<1> QED
  BY <1>10, <1>11, <1>12, <1>13, <1>14, <1>15, <1>16 DEF SchedInv, PausesEnd, Held, NoneLost

LEMMA RemoveKeepsAll ==
  ASSUME SchedInv, NEW e \in Editor, NEW s \in Schedule, Remove(e, s)
  PROVE  SchedInv'
<1> DEFINE row == [Quiet EXCEPT !.pc = "removeOpen", !.kind = "remove", !.s = s]
           off == [sched[s] EXCEPT !.enabled = FALSE]
<1>1. /\ SchedTypeOK /\ sched \in [Schedule -> ScheduleRow] /\ editor \in [Editor -> EditRow]
  BY TypeParts DEF SchedInv
<1>2. /\ UNCHANGED <<now, planned, ticker, since, raced, kept>>
      /\ standing' = standing \cup {e}
      /\ editor[e].pc = "idle" /\ sched[s].exists /\ "remove" \in EditKinds
      /\ editor' = [editor EXCEPT ![e] = row]
      /\ sched' = [sched EXCEPT ![s].enabled = FALSE]
  BY DEF Remove, At, Stay
<1>3. requests' \in 0..MaxRequests
  BY <1>1, Bounds DEF SchedTypeOK, Remove, Request
<1>4. row \in EditRow /\ row.pc = "removeOpen" /\ row.kind = "remove" /\ row.s = s /\ row.keys = {}
  <2>1. Quiet \in EditRow /\ Quiet.keys = {}
    BY Defaults DEF Quiet
  <2> QED
    BY <1>2, <2>1 DEF EditRow, Kind, EditorStep
<1>5. /\ off \in ScheduleRow /\ ~off.enabled /\ off.exists = sched[s].exists
      /\ off.plan = sched[s].plan /\ off.next = sched[s].next
  BY <1>1 DEF ScheduleRow
<1>6. sched' = [sched EXCEPT ![s] = off]
  BY <1>2
<1> HIDE DEF row, off
<1>7. /\ editor' \in [Editor -> EditRow] /\ editor'[e] = row /\ OthersWait(e)
      /\ sched' \in [Schedule -> ScheduleRow] /\ sched'[s] = off
      /\ \A r \in Schedule \ {s} : sched'[r] = sched[r]
  BY <1>1, <1>2, <1>4, <1>5, <1>6 DEF OthersWait
<1>8. SchedTypeOK'
  BY <1>1, <1>2, <1>3, <1>7, TypeParts DEF SchedTypeOK, EditRow, Kind, ScheduleRow
<1>9. \A r \in Schedule : /\ sched'[r].exists = sched[r].exists
                          /\ sched'[r].plan = sched[r].plan
                          /\ sched'[r].next = sched[r].next
                          /\ sched'[r].enabled => sched[r].enabled /\ r # s
  BY <1>5, <1>7
<1>10. TicksInOrder' /\ OnlySchedulesRun'
  BY <1>2, <1>9 DEF SchedInv, TicksInOrder, OnlySchedulesRun
<1>11. \A d \in Editor : editor[d].s \in Schedule
  BY <1>1 DEF EditRow
<1>12. RequestsInOrder'
  <2>1. ASSUME NEW d \in Editor, editor'[d].pc # "idle"
        PROVE  /\ sched'[editor'[d].s].exists
               /\ editor'[d].pc \in {"open", "delete"} => editor'[d].kind = "edit"
               /\ editor'[d].pc \in {"pauseOpen", "pauseDelete"} => editor'[d].kind = "pause"
               /\ editor'[d].pc = "update" => editor'[d].kind # "remove"
               /\ \A k \in editor'[d].keys : k[1] = editor'[d].s
    <3>1. CASE d # e
      BY <1>7, <1>9, <1>11, <2>1, <3>1 DEF SchedInv, RequestsInOrder, OthersWait
    <3>2. CASE d = e
      BY <1>2, <1>4, <1>7, <1>9, <3>2
    <3> QED
      BY <3>1, <3>2
  <2> QED
    BY <2>1 DEF RequestsInOrder
<1>13. OneAtATime'
  BY <1>2, <1>4, <1>7 DEF SchedInv, OneAtATime, Active, OthersWait
<1>14. ASSUME NEW d \in Editor PROVE HeldBy(d)'
  <2>1. CASE d # e
    BY <1>2, <1>7, <1>9, <1>11, <2>1 DEF SchedInv, Held, HeldBy, OthersWait
  <2>2. CASE d = e
    BY <1>4, <1>7, <2>2 DEF HeldBy
  <2> QED
    BY <2>1, <2>2
<1>15. ASSUME NEW r \in Schedule PROVE EndsSoon(r)'
  <2>1. EndsSoon(r) /\ \A k \in RunKey : Wanted(k)' => Wanted(k)
    BY <1>2 DEF SchedInv, PausesEnd, Wanted
  <2>2. \A d \in standing : d \in Editor /\ (d # e => editor'[d] = editor[d])
    BY <1>7, StandingGoesOn DEF OthersWait
  <2>3. ASSUME NEW d \in standing', editor'[d].s = r
        PROVE  ~sched'[r].enabled /\ EndsBy(d, r)'
    <3>1. CASE d = e
      BY <1>4, <1>5, <1>7, <2>3, <3>1 DEF EndsBy, Active
    <3>2. CASE d # e
      <4>1. d \in standing /\ d \in Editor /\ editor'[d] = editor[d]
        BY <1>2, <2>2, <2>3, <3>2
      <4>2. ~sched[r].enabled /\ EndsBy(d, r)
        BY <2>1, <2>3, <4>1 DEF EndsSoon
      <4> QED
        BY <1>9, <2>1, <4>1, <4>2, EndsByStays
    <3> QED
      BY <3>1, <3>2
  <2>4. r \in kept' => sched'[r].exists /\ ~sched'[r].enabled /\ Ended(r)'
    BY <1>2, <1>9, <2>1, EndedStays DEF EndsSoon
  <2> QED
    BY <2>3, <2>4 DEF EndsSoon
<1>16. ASSUME NEW r \in Schedule PROVE NoneLostOf(r)'
  <2>1. Rewritten(r) => Rewritten(r)'
    BY <1>2, <1>7 DEF Rewritten, Active, OthersWait
  <2> QED
    BY <1>2, <1>9, <2>1 DEF SchedInv, NoneLost, NoneLostOf, AllThere
<1> QED
  BY <1>8, <1>10, <1>12, <1>13, <1>14, <1>15, <1>16 DEF SchedInv, PausesEnd, Held, NoneLost

LEMMA UpdateKeepsAll ==
  ASSUME SchedInv, NEW e \in Editor, Update(e)
  PROVE  SchedInv'
<1>s. PICK s \in Schedule : s = editor[e].s
  BY TypeParts DEF SchedInv, EditRow
<1> DEFINE kind == editor[e].kind
           enabled == IF kind = "pause" THEN FALSE
                      ELSE IF kind = "resume" THEN TRUE ELSE sched[s].enabled
           row == [exists |-> TRUE, enabled |-> enabled, plan |-> editor[e].plan,
                   next |-> editor[e].next]
           from == IF kind \in {"edit", "resume"} THEN editor[e].next ELSE since[s]
<1>1. /\ SchedTypeOK /\ sched \in [Schedule -> ScheduleRow] /\ editor \in [Editor -> EditRow]
      /\ since \in [Schedule -> Time]
  BY TypeParts DEF SchedInv
<1>2. /\ UNCHANGED <<now, planned, ticker, raced, requests>>
      /\ editor[e].pc = "update"
      /\ standing' = IF kind = "pause" THEN standing \cup {e}
                     ELSE IF kind = "resume" THEN {d \in standing : editor[d].s # s}
                     ELSE standing
      /\ kept' = IF kind = "resume" THEN kept \ {s} ELSE kept
  BY <1>s DEF Update, At, Stay
<1>3. sched' = [sched EXCEPT ![s] = row] /\ since' = [since EXCEPT ![s] = from]
  BY <1>s DEF Update
<1>4. /\ enabled \in BOOLEAN /\ editor[e].plan \in Plan /\ editor[e].next \in Time
      /\ editor[e].next \in Nat /\ from \in Time
  BY <1>1, Bounds DEF EditRow, ScheduleRow
<1>5. /\ row \in ScheduleRow /\ row.exists /\ row.enabled = enabled
      /\ row.plan = editor[e].plan /\ row.next = editor[e].next
  <2> HIDE DEF enabled
  <2> QED
    BY <1>4 DEF ScheduleRow
<1> HIDE DEF row
<1>6. /\ sched' \in [Schedule -> ScheduleRow] /\ sched'[s] = row
      /\ since' \in [Schedule -> Time] /\ since'[s] = from
      /\ \A r \in Schedule \ {s} : sched'[r] = sched[r] /\ since'[r] = since[r]
  <2> HIDE DEF from
  <2> QED
    BY <1>1, <1>3, <1>4, <1>5
<1>7. \/ kind = "pause" /\ To(e, "pauseOpen", {})
      \/ kind # "pause" /\ Leave(e)
  BY DEF Update
<1>8. /\ editor' \in [Editor -> EditRow] /\ OthersWait(e)
      /\ \/ kind # "pause" /\ editor'[e].pc = "idle"
         \/ /\ kind = "pause" /\ editor'[e].pc = "pauseOpen" /\ editor'[e].keys = {}
            /\ editor'[e].kind = kind /\ editor'[e].s = s
  <2>1. "pauseOpen" \in EditorStep /\ {} \in SUBSET RunKey
    BY DEF EditorStep
  <2>2. CASE kind = "pause" /\ To(e, "pauseOpen", {})
    BY <1>s, <1>1, <2>1, <2>2, ToDoes
  <2>3. CASE kind # "pause" /\ Leave(e)
    BY <1>1, <2>3, LeaveDoes
  <2> QED
    BY <1>7, <2>2, <2>3
<1>9. SchedTypeOK'
  BY <1>1, <1>2, <1>6, <1>8, TypeParts DEF SchedTypeOK, EditRow, Kind, ScheduleRow
<1>10. \A r \in Schedule : sched[r].exists => sched'[r].exists
  BY <1>5, <1>6
<1>11. TicksInOrder' /\ OnlySchedulesRun'
  BY <1>2, <1>5, <1>6 DEF SchedInv, TicksInOrder, OnlySchedulesRun
<1>12. \A d \in Editor : editor[d].s \in Schedule
  BY <1>1 DEF EditRow
<1>13. RequestsInOrder'
  <2>1. ASSUME NEW d \in Editor, editor'[d].pc # "idle"
        PROVE  /\ sched'[editor'[d].s].exists
               /\ editor'[d].pc \in {"open", "delete"} => editor'[d].kind = "edit"
               /\ editor'[d].pc \in {"pauseOpen", "pauseDelete"} => editor'[d].kind = "pause"
               /\ editor'[d].pc = "update" => editor'[d].kind # "remove"
               /\ \A k \in editor'[d].keys : k[1] = editor'[d].s
    <3>1. CASE d # e
      BY <1>8, <1>10, <1>12, <2>1, <3>1 DEF SchedInv, RequestsInOrder, OthersWait
    <3>2. CASE d = e
      BY <1>5, <1>6, <1>8, <2>1, <3>2
    <3> QED
      BY <3>1, <3>2
  <2> QED
    BY <2>1 DEF RequestsInOrder
<1>14. \A d \in Editor : editor'[d].pc # "idle" =>
         /\ editor[d].pc # "idle" /\ editor'[d].kind = editor[d].kind
         /\ editor'[d].s = editor[d].s
  BY <1>s, <1>2, <1>8 DEF OthersWait
<1>15. OneAtATime'
  BY <1>2, <1>14 DEF SchedInv, OneAtATime, Active
<1>16. s \notin raced => \A d \in Editor \ {e} : Active(d, s) => editor[d].kind = "remove"
  BY <1>s, <1>2 DEF SchedInv, OneAtATime, RequestsInOrder, Active
<1>17. ASSUME NEW d \in Editor PROVE HeldBy(d)'
  <2>1. CASE d # e /\ editor[d].s # s
    BY <1>2, <1>6, <1>8, <1>12, <2>1 DEF SchedInv, Held, HeldBy, OthersWait
  <2>2. CASE d # e /\ editor[d].s = s
    BY <1>2, <1>8, <1>16, <2>2 DEF SchedInv, RequestsInOrder, HeldBy, Active, OthersWait
  <2>3. CASE d = e
    BY <1>5, <1>6, <1>8, <2>3 DEF HeldBy
  <2> QED
    BY <2>1, <2>2, <2>3
<1>18. ASSUME NEW r \in Schedule PROVE EndsSoon(r)'
  <2>1. EndsSoon(r) /\ \A k \in RunKey : Wanted(k)' => Wanted(k)
    BY <1>2 DEF SchedInv, PausesEnd, Wanted
  <2>2. \A d \in standing : d \in Editor /\ d # e /\ editor'[d] = editor[d]
    BY <1>2, <1>8, StandingGoesOn DEF OthersWait
  <2>3. r = s => (sched'[r].enabled => kind = "resume" \/ (kind # "pause" /\ sched[r].enabled))
    BY <1>5, <1>6
  <2>4. sched[r].exists => sched'[r].exists
    BY <1>10
  <2>5. ASSUME NEW d \in standing', editor'[d].s = r
        PROVE  ~sched'[r].enabled /\ EndsBy(d, r)'
    <3>1. CASE d = e /\ kind = "pause"
      BY <1>5, <1>6, <1>8, <2>5, <3>1 DEF EndsBy, Active
    <3>2. CASE d \in standing
      <4>1. d \in Editor /\ editor'[d] = editor[d] /\ (kind = "resume" => r # s)
        BY <1>2, <2>2, <2>5, <3>2
      <4>2. ~sched[r].enabled /\ EndsBy(d, r)
        BY <2>1, <2>5, <3>2, <4>1 DEF EndsSoon
      <4>3. ~sched'[r].enabled
        BY <1>6, <2>3, <4>1, <4>2
      <4> QED
        BY <2>1, <4>1, <4>2, <4>3, EndsByStays
    <3> QED
      BY <1>2, <2>5, <3>1, <3>2
  <2>6. ASSUME r \in kept'
        PROVE  sched'[r].exists /\ ~sched'[r].enabled /\ Ended(r)'
    <3>1. r \in kept /\ (kind = "resume" => r # s)
      BY <1>2, <2>6
    <3>2. sched[r].exists /\ ~sched[r].enabled /\ Ended(r)
      BY <2>1, <3>1 DEF EndsSoon
    <3> QED
      BY <1>6, <2>1, <2>3, <2>4, <3>1, <3>2, EndedStays
  <2> QED
    BY <2>5, <2>6 DEF EndsSoon
<1>19. ASSUME NEW r \in Schedule PROVE NoneLostOf(r)'
  <2>1. CASE r # s
    <3>1. Rewritten(r) => Rewritten(r)'
      BY <1>s, <1>8, <2>1 DEF Rewritten, Active, OthersWait
    <3> QED
      BY <1>2, <1>6, <2>1, <3>1 DEF SchedInv, NoneLost, NoneLostOf, AllThere
  <2>2. CASE r = s /\ kind \in {"edit", "resume"}
    <3>1. since'[s] = editor[e].next /\ sched'[s].next = editor[e].next
      BY <1>5, <1>6, <2>2
    <3>2. \A t \in Time : ~(since'[s] <= t /\ t < sched'[s].next)
      BY <1>4, <3>1, Bounds
    <3> QED
      BY <2>2, <3>2 DEF NoneLostOf, AllThere
  <2>3. CASE r = s /\ kind = "pause"
    BY <1>5, <1>6, <2>3 DEF NoneLostOf
  <2>4. CASE r = s /\ kind \notin {"edit", "resume", "pause"}
    <3> SUFFICES ASSUME s \notin raced, sched'[s].enabled
                 PROVE  AllThere(s)'
      BY <1>2, <2>4 DEF NoneLostOf
    <3>1. sched[s].enabled
      BY <1>5, <1>6, <2>4
    <3>2. ~Rewritten(s)
      BY <1>16, <2>4 DEF Rewritten, Active
    <3>3. AllThere(s)
      BY <3>1, <3>2 DEF SchedInv, NoneLost, NoneLostOf
    <3>4. editor[e].plan = sched[s].plan /\ editor[e].next <= sched[s].next
      BY <1>s, <1>2, <2>4 DEF SchedInv, Held, HeldBy
    <3>5. sched[s].next \in Nat /\ \A t \in Time : t \in Nat
      BY <1>1, Bounds DEF ScheduleRow
    <3> QED
      BY <1>2, <1>4, <1>5, <1>6, <2>4, <3>3, <3>4, <3>5 DEF AllThere
  <2> QED
    BY <2>1, <2>2, <2>3, <2>4
<1> QED
  BY <1>9, <1>11, <1>13, <1>15, <1>17, <1>18, <1>19 DEF SchedInv, PausesEnd, Held, NoneLost

-----------------------------------------------------------------------------
LEMMA InitAll == SchedInit => SchedInv
<1> SUFFICES ASSUME SchedInit PROVE SchedInv
  OBVIOUS
<1>1. SchedTypeOK
  BY Defaults, Bounds DEF SchedInit, SchedTypeOK, RunRow, EditRow, Kind, TickRow, Listing
<1>2. \A e \in Editor : editor[e].pc = "idle"
  BY Defaults DEF SchedInit
<1>3. TicksInOrder
  BY Bounds DEF SchedInit, TicksInOrder, Resting
<1>4. RequestsInOrder /\ OneAtATime /\ Held
  BY <1>2 DEF RequestsInOrder, OneAtATime, Held, HeldBy
<1>5. \A s \in Schedule : ~sched[s].enabled
  BY DEF SchedInit
<1>6. standing = {} /\ kept = {}
  BY DEF SchedInit
<1>7. OnlySchedulesRun /\ PausesEnd /\ NoneLost
  BY <1>5, <1>6 DEF OnlySchedulesRun, PausesEnd, EndsSoon, NoneLost, NoneLostOf
<1> QED
  BY <1>1, <1>3, <1>4, <1>7 DEF SchedInv

LEMMA StepAll == SchedInv /\ [SchedNext]_schedVars => SchedInv'
<1> SUFFICES ASSUME SchedInv, [SchedNext]_schedVars PROVE SchedInv'
  OBVIOUS
<1>1. CASE \/ \E h \in Ticker : ListDue(h)
           \/ SchedTick \/ UNCHANGED schedVars
  BY <1>1, ListKeepsAll
<1>2. ASSUME NEW h \in Ticker, NEW s \in Schedule, Materialize(h, s) PROVE SchedInv'
  BY <1>2, MaterializeKeepsAll
<1>3. ASSUME NEW s \in Schedule, NEW p \in Plan, NEW b \in BOOLEAN, Create(s, p, b)
      PROVE  SchedInv'
  BY <1>3, CreateKeepsAll
<1>4. ASSUME NEW e \in Editor, NEW s \in Schedule, NEW p \in Plan, NEW kind \in EditKinds,
             Open(e, s, kind, p)
      PROVE  SchedInv'
  BY <1>4, OpenKeepsAll
<1>5. ASSUME NEW e \in Editor, NEW s \in Schedule, Remove(e, s) PROVE SchedInv'
  BY <1>5, RemoveKeepsAll
<1>6. ASSUME NEW e \in Editor, \/ EditChecks(e) \/ EditDeletes(e) \/ Update(e)
      PROVE  SchedInv'
  BY <1>6, EditChecksKeepsAll, EditDeletesKeepsAll, UpdateKeepsAll
<1>7. ASSUME NEW e \in Editor,
             \/ PauseReads(e) \/ PauseDeletes(e) \/ Reload(e) \/ RemoveReads(e) \/ Cancel(e)
             \/ Fail(e)
      PROVE  SchedInv'
  BY <1>7, ReadKeepsAll, PauseDeletesKeepsAll, CancelKeepsAll, FailKeepsAll
<1>8. ASSUME NEW s \in Schedule, RunNow(s) PROVE SchedInv'
  BY <1>8, RunNowKeepsAll
<1>9. ASSUME NEW k \in RunKey, Begin(k) \/ End(k) PROVE SchedInv'
  BY <1>9, WorkKeepsAll
<1> QED
  BY <1>1, <1>2, <1>3, <1>4, <1>5, <1>6, <1>7, <1>8, <1>9 DEF SchedNext

LEMMA AlwaysInOrder == SchedSpec => []SchedInv
BY InitAll, StepAll, PTL DEF SchedSpec

\* Once a pause or a removal has answered success, and until a resumption, the
\* schedule stays disabled and whatever is still open of it has its cancellation
\* requested, for any number of requests, ticks and workers at once, whichever of
\* the others fail half-way: a disabled schedule gets no new run, a run of it
\* starts only to be cancelled, and each request that disables it looks at its
\* runs afterwards.
THEOREM NothingIsLeft == SchedSpec => []PauseLeavesNothing
<1>1. SchedInv => PauseLeavesNothing
  <2> SUFFICES ASSUME SchedInv, NEW s \in kept
               PROVE  ~sched[s].enabled /\ \A k \in OpenRuns(s) : planned[k].cancel
    BY DEF PauseLeavesNothing
  <2>1. s \in Schedule
    BY TypeParts DEF SchedInv
  <2>2. ~sched[s].enabled /\ Ended(s)
    BY <2>1 DEF SchedInv, PausesEnd, EndsSoon
  <2> QED
    BY <2>2 DEF OpenRuns, Ended, Wanted
<1> QED
  BY <1>1, AlwaysInOrder, PTL

\* No firing time before next_run_at is skipped, and the rows are well typed,
\* for any schedules, plans, requests and ticks, as long as nothing overtook the
\* tick that planned it and no two requests changed the schedule at once.  The
\* tick plans up to where it moves next_run_at, and only an edit, which starts
\* afresh from its own next_run_at, deletes plans of an enabled schedule.
THEOREM NothingIsSkipped == SchedSpec => []PlanIsComplete
<1>1. SchedInv => PlanIsComplete
  BY DEF SchedInv, PlanIsComplete, NoOccurrenceSkipped, NoneLost, NoneLostOf, AllThere,
         Rewritten, Active
<1> QED
  BY <1>1, AlwaysInOrder, PTL

-----------------------------------------------------------------------------
(* The worker's loop.                                                      *)

\* The process of the loop.
LoopProc ==
  [pc : {"cycle", "tick", "wait", "over"}, mode : Mode, started : 0..LastMoment,
   cycle : 0..LastMoment, wake : 0..(LastMoment + MaxBackoff), success : Never..LastMoment,
   day : Never..LastMoment, doing : Never..LastMoment, failures : 0..5]

\* Since when the watchdog counts, and how long after that the first, the
\* second and the third attempt in a row may begin.
Since == IF proc.success = Never THEN 0 ELSE proc.success
LatestStart(failures) ==
  IF failures = 0 THEN 1
  ELSE IF failures = 1 THEN 1 + TickMax + Backoff(1)
  ELSE 1 + TickMax + Backoff(1) + TickMax + Backoff(2)

\* The third of them fails before the watchdog barks.
ThreeAttemptsFit == LatestStart(2) + TickMax < StaleAfter

\* Until the signal every wait ends on time and every tick within TickMax.
OnTime ==
  exit = "none" /\ ~signal =>
    /\ proc.pc # "over"
    /\ proc.pc = "cycle" /\ proc.mode = "minute" =>
         clock <= proc.started + TickMax + MaxBackoff
    /\ proc.pc = "cycle" /\ proc.mode = "horizon" =>
         clock <= proc.started + TickMax /\ proc.success = clock
    /\ proc.pc = "tick" => clock <= proc.started + TickMax
    /\ proc.pc = "wait" => clock <= proc.wake /\ proc.wake <= proc.started + TickMax + MaxBackoff

\* ... and with fewer than three failures the next attempt begins in time.
AttemptsInTime ==
  exit = "none" /\ ~signal /\ proc.failures < 3 =>
    /\ proc.pc = "cycle" => clock <= Since + LatestStart(proc.failures)
    /\ proc.pc = "tick" => proc.started <= Since + LatestStart(proc.failures)
    /\ proc.pc = "wait" => proc.wake <= Since + LatestStart(proc.failures)

LoopInv ==
  /\ LoopTypeOK /\ DayWasPlanned /\ ExitsAfterThreeFailures
  /\ proc.pc = "tick" => proc.doing # Never
  /\ proc.cycle <= clock
  /\ OnTime /\ AttemptsInTime

-----------------------------------------------------------------------------
(* Numbers *)

LEMMA Positive == /\ TickMax \in Nat \ {0} /\ MaxBackoff \in Nat \ {0} /\ StaleAfter \in Nat \ {0}
                  /\ DayLength \in Nat \ {0} /\ LastMoment \in Nat \ {0}
BY LoopAssumption

LEMMA LesserOfTwo ==
  ASSUME NEW m \in Int, NEW n \in Int
  PROVE  Min({m, n}) = IF m <= n THEN m ELSE n
BY DEF Min

LEMMA GreaterOfTwo ==
  ASSUME NEW m \in Int, NEW n \in Int
  PROVE  Max({m, n}) = IF m >= n THEN m ELSE n
BY DEF Max

LEMMA BackoffBounded ==
  ASSUME NEW n \in 1..5
  PROVE  Backoff(n) \in 1..MaxBackoff
<1>1. Min({n, 4}) \in 1..4
  BY LesserOfTwo
<1>2. 2 ^ 1 = 2 /\ 2 ^ 2 = 4 /\ 2 ^ 3 = 8 /\ 2 ^ 4 = 16
  OBVIOUS
<1>3. 2 ^ Min({n, 4}) \in 1..16
  <2>1. CASE Min({n, 4}) = 1
    BY <1>2, <2>1
  <2>2. CASE Min({n, 4}) = 2
    BY <1>2, <2>2
  <2>3. CASE Min({n, 4}) = 3
    BY <1>2, <2>3
  <2>4. CASE Min({n, 4}) = 4
    BY <1>2, <2>4
  <2> QED
    BY <1>1, <2>1, <2>2, <2>3, <2>4
<1>4. PICK b \in 1..16 : b = 2 ^ Min({n, 4})
  BY <1>3
<1>5. Backoff(n) = Min({MaxBackoff, b})
  BY <1>4 DEF Backoff
<1> QED
  BY <1>5, LesserOfTwo, Positive

LEMMA WindowBounded ==
  ASSUME NEW time \in 0..LastMoment
  PROVE  WindowAt(time) \in 0..LastMoment
BY Positive DEF WindowAt

LEMMA FailedCounts ==
  ASSUME LoopTypeOK
  PROVE  /\ Failed \in 1..5
         /\ Failed < 3 => Failed = proc.failures + 1
BY LesserOfTwo DEF LoopTypeOK, Failed

\* The end of a cycle, field by field.
LEMMA CycleEnds ==
  ASSUME LoopInv, exit = "none", NEW n \in 0..5, NEW s \in Never..LastMoment,
         NEW d \in Never..LastMoment, EndCycle(n, s, d)
  PROVE  /\ proc' \in LoopProc
         /\ proc'.pc = IF signal THEN "over" ELSE "wait"
         /\ proc'.failures = n /\ proc'.success = s /\ proc'.day = d
         /\ proc'.started = proc.started
         /\ clock <= proc'.wake
         /\ n = 0 => proc'.wake <= clock + 1
         /\ n # 0 => proc'.wake = clock + Backoff(n) /\ proc'.wake <= clock + MaxBackoff
<1>1. proc \in LoopProc /\ clock \in 0..LastMoment
  BY DEF LoopInv, LoopTypeOK, LoopProc
<1>2. Max({0, 1 - (clock - proc.cycle)}) = IF 0 >= 1 - (clock - proc.cycle) THEN 0
                                             ELSE 1 - (clock - proc.cycle)
  BY <1>1, GreaterOfTwo DEF LoopProc
<1>3. n # 0 => Backoff(n) \in 1..MaxBackoff
  BY BackoffBounded
<1>4. PICK w : w = clock + IF n > 0 THEN Backoff(n) ELSE Max({0, 1 - (clock - proc.cycle)})
  OBVIOUS
<1>5. proc' = [proc EXCEPT !.pc = IF signal THEN "over" ELSE "wait", !.failures = n,
                           !.success = s, !.day = d, !.mode = "minute", !.wake = w]
  BY <1>4 DEF EndCycle
<1>6. /\ clock <= w /\ w \in 0..(LastMoment + MaxBackoff)
      /\ n = 0 => w <= clock + 1
      /\ n # 0 => w = clock + Backoff(n) /\ w <= clock + MaxBackoff
  <2>1. CASE n = 0
    <3>1. proc.cycle \in 0..LastMoment /\ proc.cycle <= clock
      BY <1>1 DEF LoopProc, LoopInv
    <3> QED
      BY <1>1, <1>2, <1>4, <2>1, <3>1, Positive
  <2>2. CASE n # 0
    BY <1>1, <1>3, <1>4, <2>2, Positive
  <2> QED
    BY <2>1, <2>2
<1>7. proc' \in LoopProc
  BY <1>1, <1>5, <1>6 DEF LoopProc, Mode
<1> QED
  BY <1>1, <1>5, <1>6, <1>7 DEF LoopProc

-----------------------------------------------------------------------------
LEMMA LoopStarts == LoopInit => LoopInv
<1> SUFFICES ASSUME LoopInit PROVE LoopInv
  OBVIOUS
<1>1. LoopTypeOK
  <2>1. proc \in LoopProc
    BY Positive DEF LoopInit, LoopProc, Mode, Never
  <2> QED
    BY <2>1, Positive DEF LoopInit, LoopTypeOK, LoopProc
<1> QED
  BY <1>1, Positive DEF LoopInit, LoopInv, DayWasPlanned, ExitsAfterThreeFailures, OnTime,
     AttemptsInTime, Since, LatestStart, Never

\* How late the three attempts may be.
LEMMA StartsBounded ==
  /\ LatestStart(0) = 1
  /\ LatestStart(1) = LatestStart(0) + TickMax + Backoff(1)
  /\ LatestStart(2) = LatestStart(1) + TickMax + Backoff(2)
  /\ \A n \in 0..2 : LatestStart(n) \in 1..LatestStart(2)
<1>1. Backoff(1) \in Nat /\ Backoff(2) \in Nat /\ TickMax \in Nat
  BY BackoffBounded, Positive
<1>2. PICK x \in Nat, y \in Nat : x = Backoff(1) /\ y = Backoff(2)
  BY <1>1
<1> QED
  BY <1>1, <1>2 DEF LatestStart

\* A cycle that succeeded leaves its next attempt in time.
LEMMA SuccessEnds ==
  ASSUME LoopInv, exit = "none", NEW d \in Never..LastMoment, EndCycle(0, clock, d),
         signal' = signal, clock' = clock, exit' = exit,
         began \subseteq began', began' \subseteq 0..LastMoment,
         d # Never => d \in began',
         ~signal => clock <= proc.started + TickMax
  PROVE  LoopInv'
<1>1. clock \in 0..LastMoment /\ proc.started \in 0..LastMoment /\ signal \in BOOLEAN
  BY DEF LoopInv, LoopTypeOK
<1>2. /\ proc' \in LoopProc /\ proc'.pc = (IF signal THEN "over" ELSE "wait")
      /\ proc'.failures = 0 /\ proc'.success = clock /\ proc'.day = d
      /\ proc'.started = proc.started /\ clock <= proc'.wake /\ proc'.wake <= clock + 1
  BY <1>1, CycleEnds DEF Never
<1>3. proc'.cycle = proc.cycle
  BY DEF EndCycle, LoopInv, LoopTypeOK
<1>4. LoopTypeOK'
  BY <1>1, <1>2 DEF LoopTypeOK, LoopProc, LoopInv
<1>5. OnTime'
  BY <1>1, <1>2, Positive DEF OnTime, LoopProc
<1>6. AttemptsInTime'
  BY <1>1, <1>2, StartsBounded DEF AttemptsInTime, Since, Never, LoopProc
<1> QED
  BY <1>1, <1>2, <1>3, <1>4, <1>5, <1>6
     DEF LoopInv, DayWasPlanned, ExitsAfterThreeFailures

LEMMA StartTickKeeps == LoopInv /\ StartTick => LoopInv'
<1> SUFFICES ASSUME LoopInv, StartTick PROVE LoopInv'
  OBVIOUS
<1>1. proc \in LoopProc /\ clock \in 0..LastMoment
  BY DEF LoopInv, LoopTypeOK, LoopProc
<1>2. PICK w \in 0..LastMoment : w = WindowAt(clock)
  BY <1>1, WindowBounded
<1>3. PICK y \in 0..LastMoment : /\ y = IF proc.mode = "minute" THEN clock ELSE proc.cycle
                               /\ y <= clock
  BY <1>1 DEF LoopProc, LoopInv
<1>4. /\ proc' = [proc EXCEPT !.pc = "tick", !.mode = proc.mode, !.started = clock,
                              !.cycle = y, !.doing = w]
      /\ exit = "none" /\ proc.pc = "cycle" /\ ~signal
      /\ UNCHANGED <<clock, signal, began, exit>>
  BY <1>1, <1>2, <1>3 DEF StartTick, BeginTick, MayTick, LoopProc
<1>5. /\ proc' \in LoopProc /\ proc'.pc = "tick" /\ proc'.started = clock /\ proc'.doing = w
      /\ proc'.cycle <= clock /\ proc'.success = proc.success /\ proc'.day = proc.day
      /\ proc'.failures = proc.failures /\ proc'.mode = proc.mode
  <2>1. w \in Never..LastMoment
    BY DEF Never
  <2> QED
    BY <1>1, <1>3, <1>4, <2>1 DEF LoopProc
<1>6. LoopTypeOK' /\ DayWasPlanned' /\ ExitsAfterThreeFailures' /\ OnTime'
  BY <1>1, <1>4, <1>5, Positive
     DEF LoopInv, LoopTypeOK, LoopProc, DayWasPlanned, ExitsAfterThreeFailures, OnTime
<1>7. AttemptsInTime'
  BY <1>1, <1>4, <1>5 DEF LoopInv, AttemptsInTime, Since
<1> QED
  BY <1>2, <1>4, <1>5, <1>6, <1>7 DEF LoopInv, Never

LEMMA EndLoopKeeps == LoopInv /\ EndLoop => LoopInv'
<1> SUFFICES ASSUME LoopInv, EndLoop PROVE LoopInv'
  OBVIOUS
<1>1. /\ clock \in 0..LastMoment /\ proc \in LoopProc
      /\ UNCHANGED <<clock, signal, began, exit>> /\ began \subseteq 0..LastMoment
      /\ EndCycle(0, proc.success, proc.day) /\ exit = "none" /\ proc.pc = "cycle"
  BY DEF EndLoop, LoopInv, LoopTypeOK, LoopProc
<1>2. CASE signal
  <2>1. /\ proc' \in LoopProc /\ proc'.pc = "over" /\ proc'.day = proc.day
    BY <1>1, <1>2, CycleEnds DEF LoopProc
  <2>2. proc'.cycle = proc.cycle
    BY <1>1 DEF EndCycle, LoopProc
  <2> QED
    BY <1>1, <1>2, <2>1, <2>2
       DEF LoopInv, LoopTypeOK, LoopProc, DayWasPlanned, ExitsAfterThreeFailures, OnTime,
           AttemptsInTime
<1>3. CASE ~signal
  <2>1. proc.mode = "horizon" /\ proc.success = clock
    BY <1>1, <1>3 DEF EndLoop, MayTick, LoopInv, OnTime
  <2>2. clock <= proc.started + TickMax
    BY <1>1, <1>3, <2>1 DEF LoopInv, OnTime
  <2>3. proc.day \in Never..LastMoment /\ (proc.day # Never => proc.day \in began)
    BY <1>1 DEF LoopInv, DayWasPlanned, LoopProc
  <2>4. EndCycle(0, clock, proc.day)
    BY <1>1, <2>1
  <2> QED
    BY <1>1, <2>2, <2>3, <2>4, SuccessEnds
<1> QED
  BY <1>2, <1>3

LEMMA TickSucceedsKeeps == LoopInv /\ TickSucceeds => LoopInv'
<1> SUFFICES ASSUME LoopInv, TickSucceeds PROVE LoopInv'
  OBVIOUS
<1>1. /\ clock \in 0..LastMoment /\ proc \in LoopProc
      /\ UNCHANGED <<clock, signal, exit>> /\ began \subseteq 0..LastMoment
      /\ exit = "none" /\ proc.pc = "tick" /\ proc.doing # Never
      /\ ~signal => clock <= proc.started + TickMax
  BY DEF TickSucceeds, LoopInv, LoopTypeOK, LoopProc, OnTime
<1>2. CASE /\ began' = began
           /\ proc' = [proc EXCEPT !.pc = "cycle", !.mode = "horizon", !.success = clock]
  <2>1. /\ proc' \in LoopProc /\ proc'.pc = "cycle" /\ proc'.mode = "horizon"
        /\ proc'.success = clock /\ proc'.started = proc.started /\ proc'.day = proc.day
        /\ proc'.cycle = proc.cycle /\ proc'.failures = proc.failures
    <3>1. clock \in Never..LastMoment
      BY <1>1 DEF Never
    <3>2. proc' = [proc EXCEPT !.pc = "cycle", !.mode = "horizon", !.success = clock]
      BY <1>2
    <3> QED
      BY <1>1, <3>1, <3>2 DEF LoopProc, Mode
  <2>2. LoopTypeOK' /\ DayWasPlanned' /\ ExitsAfterThreeFailures' /\ OnTime'
    BY <1>1, <1>2, <2>1
       DEF LoopInv, LoopTypeOK, LoopProc, DayWasPlanned, ExitsAfterThreeFailures, OnTime
  <2>3. AttemptsInTime'
    <3>1. proc.failures \in Nat /\ (proc.failures < 3 => proc.failures \in 0..2)
      BY <1>1 DEF LoopProc
    <3> QED
      BY <1>1, <2>1, <3>1, StartsBounded DEF AttemptsInTime, Since, Never
  <2> QED
    BY <1>1, <2>1, <2>2, <2>3 DEF LoopInv
<1>3. CASE EndCycle(0, clock, DayDone) /\ began' = began \cup {proc.doing}
  <2>1. proc.doing \in 0..LastMoment
    BY <1>1 DEF LoopProc, Never
  <2>2. /\ DayDone \in Never..LastMoment /\ DayDone \in began' /\ began \subseteq began'
        /\ began' \subseteq 0..LastMoment
    <3>1. DayDone = proc.doing /\ began' = began \cup {proc.doing}
      BY <1>3 DEF DayDone
    <3>2. proc.doing \in Never..LastMoment
      BY <2>1 DEF Never
    <3> QED
      BY <1>1, <2>1, <3>1, <3>2
  <2> QED
    BY <1>1, <1>3, <2>2, SuccessEnds
<1> QED
  BY <1>2, <1>3 DEF TickSucceeds

LEMMA TickFailsKeeps == LoopInv /\ TickFails => LoopInv'
<1> SUFFICES ASSUME LoopInv, TickFails PROVE LoopInv'
  OBVIOUS
<1>1. /\ clock \in 0..LastMoment /\ proc \in LoopProc
      /\ UNCHANGED <<clock, signal, began, exit>>
      /\ exit = "none" /\ proc.pc = "tick" /\ EndCycle(Failed, proc.success, proc.day)
      /\ ~signal => clock <= proc.started + TickMax
  BY DEF TickFails, LoopInv, LoopTypeOK, LoopProc, OnTime
<1>2. Failed \in 1..5 /\ (Failed < 3 => Failed = proc.failures + 1)
  BY FailedCounts DEF LoopInv
<1>3. /\ proc' \in LoopProc /\ proc'.pc = (IF signal THEN "over" ELSE "wait")
      /\ proc'.failures = Failed /\ proc'.success = proc.success /\ proc'.day = proc.day
      /\ proc'.started = proc.started /\ clock <= proc'.wake
      /\ proc'.wake = clock + Backoff(Failed) /\ proc'.wake <= clock + MaxBackoff
  <2>1. Failed \in 0..5 /\ Failed # 0 /\ proc.success \in Never..LastMoment
        /\ proc.day \in Never..LastMoment
    BY <1>1, <1>2 DEF LoopProc
  <2> QED
    BY <1>1, <2>1, CycleEnds
<1>4. proc'.cycle = proc.cycle
  BY <1>1 DEF EndCycle, LoopProc
<1>5. LoopTypeOK' /\ DayWasPlanned' /\ ExitsAfterThreeFailures'
  BY <1>1, <1>3
     DEF LoopInv, LoopTypeOK, LoopProc, DayWasPlanned, ExitsAfterThreeFailures
<1>6. OnTime'
  BY <1>1, <1>3, Positive DEF OnTime, LoopProc
<1>7. AttemptsInTime'
  <2>1. SUFFICES ASSUME ~signal, Failed < 3
                 PROVE  proc'.wake <= Since + LatestStart(Failed)
    BY <1>1, <1>3 DEF AttemptsInTime, Since
  <2>2. PICK n \in {0, 1} : n = proc.failures /\ Failed = n + 1
    BY <1>1, <1>2, <2>1 DEF LoopProc
  <2>3. proc.started <= Since + LatestStart(n)
    BY <1>1, <2>1, <2>2 DEF LoopInv, AttemptsInTime
  <2>4. LatestStart(n + 1) = LatestStart(n) + TickMax + Backoff(n + 1)
    BY StartsBounded
  <2>5. /\ LatestStart(n) \in Nat /\ Backoff(n + 1) \in Nat /\ Since \in Nat /\ TickMax \in Nat
        /\ proc.started \in Nat /\ clock \in Nat
    BY <1>1, StartsBounded, BackoffBounded, Positive DEF Since, LoopProc, Never
  <2> QED
    BY <1>1, <1>3, <2>1, <2>2, <2>3, <2>4, <2>5
<1> QED
  BY <1>1, <1>3, <1>4, <1>5, <1>6, <1>7 DEF LoopInv

LEMMA WakeKeeps == LoopInv /\ Wake => LoopInv'
<1> SUFFICES ASSUME LoopInv, Wake PROVE LoopInv'
  OBVIOUS
<1>1. proc \in LoopProc /\ clock \in 0..LastMoment
  BY DEF LoopInv, LoopTypeOK, LoopProc
<1>2. PICK pc \in {"over", "cycle"} : pc = IF signal THEN "over" ELSE "cycle"
  OBVIOUS
<1>3. /\ proc' = [proc EXCEPT !.pc = pc, !.mode = "minute", !.cycle = clock]
      /\ exit = "none" /\ proc.pc = "wait" /\ UNCHANGED <<clock, signal, began, exit>>
  BY <1>2 DEF Wake
<1>4. /\ proc' \in LoopProc /\ proc'.pc = pc /\ proc'.mode = "minute" /\ proc'.cycle = clock
      /\ proc'.started = proc.started /\ proc'.success = proc.success
      /\ proc'.day = proc.day /\ proc'.failures = proc.failures
  BY <1>1, <1>3 DEF LoopProc, Mode
<1>5. LoopTypeOK' /\ DayWasPlanned' /\ ExitsAfterThreeFailures'
  BY <1>1, <1>3, <1>4
     DEF LoopInv, LoopTypeOK, LoopProc, DayWasPlanned, ExitsAfterThreeFailures
<1>6. OnTime'
  BY <1>1, <1>2, <1>3, <1>4, Positive DEF LoopInv, OnTime, LoopProc
<1>7. AttemptsInTime'
  <2>1. SUFFICES ASSUME ~signal, proc.failures < 3
                 PROVE  clock <= Since + LatestStart(proc.failures)
    BY <1>2, <1>3, <1>4 DEF AttemptsInTime, Since
  <2>2. /\ clock <= proc.wake /\ proc.wake <= Since + LatestStart(proc.failures)
        /\ proc.wake \in Nat /\ Since \in Nat /\ proc.failures \in 0..2
    BY <1>1, <1>3, <2>1 DEF LoopInv, OnTime, AttemptsInTime, LoopProc, Since, Never
  <2> QED
    BY <1>1, <2>2, StartsBounded
<1> QED
  BY <1>1, <1>2, <1>3, <1>4, <1>5, <1>6, <1>7 DEF LoopInv

LEMMA ElapseKeeps == LoopInv /\ Elapse => LoopInv'
<1> SUFFICES ASSUME LoopInv, Elapse PROVE LoopInv'
  OBVIOUS
<1>1. /\ proc \in LoopProc /\ clock \in 0..LastMoment /\ clock' = clock + 1
      /\ clock < LastMoment /\ exit = "none" /\ UNCHANGED <<proc, signal, began, exit>>
      /\ \/ proc.pc = "wait" /\ ~signal /\ clock < proc.wake
         \/ proc.pc = "tick" /\ clock < proc.started + TickMax
  BY DEF Elapse, LoopInv, LoopTypeOK, LoopProc
<1>2. LoopTypeOK' /\ DayWasPlanned' /\ ExitsAfterThreeFailures' /\ proc'.cycle <= clock'
  <2>1. clock + 1 \in 0..LastMoment
    BY <1>1, Positive
  <2>2. LoopTypeOK'
    BY <1>1, <2>1 DEF LoopInv, LoopTypeOK
  <2>3. proc.cycle \in Nat /\ proc.cycle <= clock
    BY <1>1 DEF LoopInv, LoopProc
  <2> QED
    BY <1>1, <2>2, <2>3 DEF LoopInv, DayWasPlanned, ExitsAfterThreeFailures
<1>3. OnTime'
  BY <1>1, Positive DEF LoopInv, OnTime, LoopProc
<1>4. AttemptsInTime'
  BY <1>1 DEF LoopInv, AttemptsInTime, Since
<1> QED
  BY <1>1, <1>2, <1>3, <1>4 DEF LoopInv

\* The watchdog finds a process that has failed three times.
LEMMA WatchdogKeeps == ThreeAttemptsFit /\ LoopInv /\ Watchdog => LoopInv'
<1> SUFFICES ASSUME ThreeAttemptsFit, LoopInv, Watchdog PROVE LoopInv'
  OBVIOUS
<1>1. /\ proc \in LoopProc /\ clock \in 0..LastMoment /\ exit = "none" /\ ~signal
      /\ clock - Since >= StaleAfter /\ exit' = "stalled"
      /\ UNCHANGED <<clock, proc, signal, began>>
  BY DEF Watchdog, Stale, Since, LoopInv, LoopTypeOK, LoopProc
<1>2. proc.failures >= 3
  <2>1. SUFFICES ASSUME proc.failures < 3 PROVE FALSE
    BY <1>1 DEF LoopProc
  <2>2. /\ proc.failures \in 0..2 /\ Since \in Nat /\ proc.started \in Nat /\ proc.wake \in Nat
        /\ proc.pc \in {"cycle", "tick", "wait"}
    BY <1>1, <2>1 DEF LoopInv, OnTime, LoopProc, Since, Never
  <2>3. PICK n \in 1..LatestStart(2) : n = LatestStart(proc.failures)
    BY <2>2, StartsBounded
  <2>4. LatestStart(2) \in Nat /\ TickMax \in Nat /\ StaleAfter \in Nat
    BY StartsBounded, Positive
  <2>5. clock <= Since + n + TickMax
    <3>1. CASE proc.pc = "cycle"
      BY <1>1, <2>1, <2>2, <2>3, <2>4, <3>1 DEF LoopInv, AttemptsInTime
    <3>2. CASE proc.pc = "tick"
      BY <1>1, <2>1, <2>2, <2>3, <2>4, <3>2 DEF LoopInv, AttemptsInTime, OnTime
    <3>3. CASE proc.pc = "wait"
      BY <1>1, <2>1, <2>2, <2>3, <2>4, <3>3 DEF LoopInv, AttemptsInTime, OnTime
    <3> QED
      BY <2>2, <3>1, <3>2, <3>3
  <2> QED
    BY <1>1, <2>2, <2>3, <2>4, <2>5 DEF ThreeAttemptsFit
<1> QED
  BY <1>1, <1>2
     DEF LoopInv, LoopTypeOK, DayWasPlanned, ExitsAfterThreeFailures, OnTime, AttemptsInTime

LEMMA EndsKeep == LoopInv /\ (Exit \/ Stop \/ Cut) => LoopInv'
BY DEF LoopInv, Exit, Stop, Cut, LoopTypeOK, DayWasPlanned, ExitsAfterThreeFailures, OnTime,
       AttemptsInTime

LEMMA LoopSteps == ThreeAttemptsFit /\ LoopInv /\ [LoopNext]_loopVars => LoopInv'
<1>1. LoopInv /\ UNCHANGED loopVars => LoopInv'
  BY DEF LoopInv, loopVars, LoopTypeOK, DayWasPlanned, ExitsAfterThreeFailures, OnTime,
         AttemptsInTime, Since
<1> QED
  BY <1>1, StartTickKeeps, EndLoopKeeps, TickSucceedsKeeps, TickFailsKeeps, WakeKeeps,
     ElapseKeeps, WatchdogKeeps, EndsKeep DEF LoopNext

LEMMA OnTimeGoesOn == LoopInv => AttemptsGoOn
<1> SUFFICES ASSUME LoopInv, exit = "none", ~signal
             PROVE  clock - proc.started <= Max({TickMax, 1}) + MaxBackoff
  BY DEF AttemptsGoOn
<1>1. /\ proc \in LoopProc /\ clock \in 0..LastMoment
  BY DEF LoopInv, LoopTypeOK, LoopProc
<1>2. Max({TickMax, 1}) = TickMax
  BY Positive, GreaterOfTwo
<1> QED
  BY <1>1, <1>2, Positive DEF LoopInv, OnTime, LoopProc, Mode

\* If three attempts fit before the watchdog barks, the loop goes on: it is
\* ended as stalled only after three failures in a row, attempts never lie
\* further apart than a tick and the longest backoff, and a day that counts as
\* planned was planned by a tick that began in it.
THEOREM LoopGoesOn == ThreeAttemptsFit => (LoopSpec => []LoopKeepsGoing)
<1> SUFFICES ASSUME ThreeAttemptsFit PROVE LoopSpec => []LoopKeepsGoing
  OBVIOUS
<1>1. LoopInv => LoopKeepsGoing
  BY OnTimeGoesOn DEF LoopInv, LoopKeepsGoing
<1>2. LoopInv /\ [LoopNext]_loopVars => LoopInv'
  BY LoopSteps
<1> QED
  BY <1>1, <1>2, LoopStarts, PTL DEF LoopSpec
=============================================================================
