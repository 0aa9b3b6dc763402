-------------------------- MODULE PhonePowerProofs --------------------------
(***************************************************************************)
(* What holds of the phones, the workers that wake them and the sweeps     *)
(* that switch them off, for any number of rows, phones, runs, sweeps and  *)
(* faults:                                                                 *)
(*                                                                         *)
(*   PowerTypeCorrect    the state keeps its shape;                        *)
(*   TasksAreSpared      no sweep switches a phone off under a task;       *)
(*   StartsAreAskedOnce  a phone that is starting is not asked again;      *)
(*   CeilingIsKept       the startup capacity is not exceeded;             *)
(*   PhonesAreShutOnce   one start answers for one request to switch off.  *)
(*                                                                         *)
(* The inductive invariants come in layers, each for what the environment  *)
(* is then taken not to do.  PowerBase (whatever it does): what a row of a *)
(* phone has - a lease, a reservation, a claim - no other row of the phone *)
(* has, and workers, sweeps and tasks go with it.  OffClaimed: a sweep     *)
(* about to switch off still holds its claim, and no run is at work on the *)
(* phone.  Two arguments lead there.  Without inventory syncs nothing      *)
(* erases a claim (ClaimsKept).  With them, but without people and without *)
(* reservations that run out during a start, a session has one owner       *)
(* (Sessions, WorkersKnow), so what a sync still has to write of a phone   *)
(* that is claimed is not that it is off; with PowerBase and OffClaimed    *)
(* they are the invariant Attended.  On ClaimsKept rest WakesMarked and    *)
(* StartsMarked (no expiry): a phone the scheduler asked to start carries  *)
(* the marker of the request; and Counted (nobody uses the power button):  *)
(* every phone that runs is in the occupancy the capacity is checked       *)
(* against.  Attended, or Answered (no call is lost, no syncs), shows that *)
(* what is left of a session that was asked to end cannot be consumed      *)
(* again, from which AskedOnce.                                            *)
(*                                                                         *)
(* A layer rests on lemmas about what each step makes of the columns of a  *)
(* row (the first two sections) and about what other processes leave alone *)
(* (RunFrame, SweepFrame, WorldFrame); its Step lemma puts them together.  *)
(***************************************************************************)
EXTENDS PhonePower, FiniteSetTheorems, TLAPS

\* What the environment is taken not to do.
NoSyncs   == "inventory" \notin FaultKinds
NoPeople  == "person" \notin FaultKinds
NoExpiry  == "expire" \notin FaultKinds
NoLostCalls == "net" \notin FaultKinds

Mates(p, q) == ImageOf[p] = ImageOf[q]
At(r, pcs) == job[r].pc \in pcs
SweepAt(s, pcs) == sweep[s].pc \in pcs

\* A lease, a reservation and a power-off claim each belong to one row of a
\* phone, and to a run or a sweep of that row.
Bound ==
  /\ \A p \in Row : row[p].slot \in Run => RowOf[row[p].slot] = p
  /\ \A r \in Run : job[r].pc # "idle" => /\ row[RowOf[r]].lease = r
                                          /\ row[RowOf[r]].live
  /\ \A s \in Sweeper : sweep[s].pc # "idle" => sweep[s].row \in Row

Exclusive ==
  \A p, q \in Row : Mates(p, q) =>
    /\ row[p].live /\ row[q].live => p = q
    /\ row[p].live /\ row[q].held => p = q
    /\ row[p].held /\ row[q].held => p = q
    /\ row[p].offLive /\ row[q].offLive => p = q
    /\ row[p].offLive => ~row[q].live /\ ~row[q].held

\* A task belongs to a run of the phone that is submitting or running.
TasksKnown ==
  /\ \A i \in Image : \A r \in image[i].tasks :
       ImageOfRun(r) = i /\ job[r].life \in {"submitting", "running"}
  /\ \A r \in Run :
       /\ At(r, {"look", "record", "attempt", "wake", "mark", "wait", "confirm",
                 "fence", "fail"}) => job[r].life = "preparing"
       /\ At(r, {"add"}) => job[r].life = "submitting" /\ r \notin image[ImageOfRun(r)].tasks
       /\ At(r, {"check"}) => job[r].life \in {"submitting", "running"}

PowerBase == PowerTypeOK /\ Bound /\ Exclusive /\ TasksKnown

\* A sweep about to switch off holds its claim, and no run of the phone is at
\* work.
OffClaimed ==
  \A s \in Sweeper : SweepAt(s, {"off"}) =>
    /\ Claims(s)
    /\ \A r \in Run : ImageOfRun(r) = ImageOf[sweep[s].row] => ~Occupies(r)

\* Without inventory syncs it holds its claim to the end.
ClaimsKept ==
  /\ OffClaimed
  /\ \A p \in Row : sync[p] = NoSync
  /\ \A s \in Sweeper : SweepAt(s, {"off", "complete", "abandon"}) => Claims(s)

\* The marker that a phone was asked to start.
Marked(x) == x.held /\ x.tried /\ x.status = "off"
HasMark(i) == \E p \in Mirrors(i) : Marked(row[p])
SeesOff(r) == At(r, {"record"}) /\ job[r].seen = "off"

WakesMarked ==
  \A r \in Run :
    /\ At(r, {"wake"}) => Marked(row[RowOf[r]]) /\ row[RowOf[r]].slot = r
    /\ (At(r, {"look", "attempt"}) \/ SeesOff(r)) /\ row[RowOf[r]].slot = r
         => row[RowOf[r]].status = "off"

\* Without expiry too: a phone the scheduler has asked to start is marked.
Starting(i) == image[i].power = "starting" /\ image[i].by = "scheduler"
StartsMarked ==
  \A i \in Image : Starting(i) =>
    /\ HasMark(i)
    /\ \A r \in Run : ImageOfRun(r) = i =>
         ~At(r, {"wake"}) /\ (At(r, {"record"}) => job[r].seen = "off")

\* Without people too: a phone that runs is known to, and counted.
Runs(i) == image[i].power # "off"
Reservation(i) == \E p \in Mirrors(i) : row[p].held
Counted ==
  /\ \A i \in Image : Runs(i) =>
       /\ image[i].by = "scheduler"
       /\ HasMark(i) \/ \E p \in Mirrors(i) : row[p].status # "off"
  /\ \A r \in Run : SeesOff(r) /\ Runs(ImageOfRun(r)) => HasMark(ImageOfRun(r))
  /\ \A s \in Sweeper :
       SweepAt(s, {"settle", "complete"}) /\ Claims(s) => ~Runs(ImageOf[sweep[s].row])
  /\ Cardinality({i \in Image : Runs(i) \/ Reservation(i)}) <= Limit

\* One session of a phone is owned by one row, from its start to its shutdown.
NoneOwned(i) == \A p \in Mirrors(i) : row[p].power = "none"
OthersUnowned(r) ==
  \A q \in Row \ {RowOf[r]} : ImageOf[q] = ImageOfRun(r) => row[q].power = "none"
SeesOn(r) == At(r, {"confirm"}) \/ (At(r, {"record"}) /\ job[r].seen = "on")

\* With people out of it and no expiry, inventory syncs or not.  A session that
\* is recorded exists.  One requested is pending until it is confirmed, so no
\* other row is used meanwhile.  An owned phone is on, so that what a sync
\* reads from then on is not that it is off; before it counts as idle, or is
\* claimed, earlier readings have been written.
Sessions ==
  /\ \A p, q \in Row : Mates(p, q) /\ row[p].power # "none" /\ row[q].power # "none"
                         => p = q
  /\ \A p \in Row :
       /\ row[p].power # "none" => /\ Runs(ImageOf[p]) /\ asked[ImageOf[p]] = 0
                                   /\ RowOf[row[p].starter] = p
       /\ row[p].power = "requested" => row[p].recent /\ (row[p].slot = NoRun \/ row[p].held)
       /\ row[p].power = "owned" =>
            /\ image[ImageOf[p]].power = "on"
            /\ row[p].idle \/ row[p].offLive => sync[p].power # "off"
  /\ \A s \in Sweeper : SweepAt(s, {"off"}) =>
       /\ NoneOwned(ImageOf[sweep[s].row])
       /\ image[ImageOf[sweep[s].row]].power = "on" /\ sync[sweep[s].row].power # "off"

\* What a worker of the phone takes for granted.
WorkersKnow ==
  \A r \in Run :
    /\ ~At(r, {"idle"}) => \A q \in Row \ {RowOf[r]} :
         ImageOf[q] = ImageOfRun(r) => row[q].power # "requested"
    /\ At(r, {"look", "record", "attempt", "wake", "mark", "wait"}) =>
         row[RowOf[r]].slot = NoRun \/ row[RowOf[r]].held
    /\ At(r, {"attempt", "wake", "mark"}) \/ SeesOff(r) => OthersUnowned(r)
    /\ SeesOn(r) => image[ImageOfRun(r)].power = "on"
    /\ At(r, {"mark"}) => Runs(ImageOfRun(r)) /\ asked[ImageOfRun(r)] = 0

\* If no call is lost: a phone asked to go off is off.
Answered ==
  /\ \A i \in Image : asked[i] # 0 => ~Runs(i)
  /\ \A s \in Sweeper : SweepAt(s, {"consume"}) /\ Claims(s) => asked[ImageOf[sweep[s].row]] = 0

AskedOnce ==
  /\ OneShutdownPerStart
  /\ \A s \in Sweeper : SweepAt(s, {"off"}) => asked[ImageOf[sweep[s].row]] = 0
-----------------------------------------------------------------------------
(* What the building blocks do to the columns of a row: y is x written.    *)

\* The rows PowerTypeOK admits.
SoundRow == {x \in PhoneRow :
  /\ x.live => x.lease \in Run
  /\ x.held \/ x.tried => x.slot \in Run
  /\ x.power = "none" <=> x.starter = NoRun
  /\ x.offLive => x.off \in Sweeper}

SameLease(x, y) == y.live = x.live /\ y.lease = x.lease
SameSlot(x, y)  == y.slot = x.slot /\ y.held = x.held /\ y.tried = x.tried
SamePower(x, y) == y.power = x.power /\ y.starter = x.starter
SameClaim(x, y) == y.off = x.off /\ y.offLive = x.offLive
EmptySlot(y)    == y.slot = NoRun /\ ~y.held /\ ~y.tried

\* A status report: a phone that turns out to be off loses everything that
\* was tied to its session, one that is on its reservation.
StatusWritten(x, y, status) ==
  /\ y.status = status /\ SameLease(x, y)
  /\ \/ /\ status = "off" /\ x.status # "off"
        /\ EmptySlot(y) /\ ~y.offLive /\ y.power = "none"
     \/ /\ status # "off" \/ x.status = "off"
        /\ SamePower(x, y) /\ SameClaim(x, y)
        /\ \/ status = "on" /\ EmptySlot(y)
           \/ status # "on" /\ SameSlot(x, y)

\* A lease for run r, with a reservation when the phone is off.
SlotReserved(x, y, r) ==
  \/ x.status # "off" /\ EmptySlot(y)
  \/ x.status = "off" /\ x.slot = r /\ x.held /\ SameSlot(x, y)
  \/ /\ x.status = "off" /\ ~(x.slot = r /\ x.held)
     /\ y.slot = r /\ y.held /\ ~y.tried

LEMMA SoundRows == PowerTypeOK => row \in [Row -> SoundRow]
BY DEF PowerTypeOK, SoundRow

LEMMA NoSlotFacts ==
  ASSUME NEW x \in SoundRow
  PROVE  LET y == NoSlot(x) IN
         /\ y \in SoundRow /\ EmptySlot(y) /\ y.status = x.status
         /\ SameLease(x, y) /\ SamePower(x, y) /\ SameClaim(x, y)
BY DEF NoSlot, SoundRow, PhoneRow, Stamp, EmptySlot, SameLease, SamePower, SameClaim

LEMMA UnownedFacts ==
  ASSUME NEW x \in SoundRow
  PROVE  LET y == Unowned(x) IN
         /\ y \in SoundRow /\ y.power = "none" /\ y.status = x.status
         /\ SameLease(x, y) /\ SameSlot(x, y) /\ SameClaim(x, y)
BY DEF Unowned, SoundRow, PhoneRow, Stamp, SameLease, SameSlot, SameClaim

LEMMA NoClaimFacts ==
  ASSUME NEW x \in SoundRow
  PROVE  LET y == NoClaim(x) IN
         /\ y \in SoundRow /\ ~y.offLive /\ y.status = x.status
         /\ SameLease(x, y) /\ SameSlot(x, y) /\ SamePower(x, y)
BY DEF NoClaim, SoundRow, PhoneRow, SameLease, SameSlot, SamePower

LEMMA UnleasedFacts ==
  ASSUME NEW x \in SoundRow
  PROVE  LET y == Unleased(x) IN
         /\ y \in SoundRow /\ ~y.live /\ y.status = x.status
         /\ SameSlot(x, y) /\ SamePower(x, y) /\ SameClaim(x, y)
BY DEF Unleased, SoundRow, PhoneRow, SameSlot, SamePower, SameClaim

LEMMA WithStatusFacts ==
  ASSUME NEW x \in SoundRow, NEW status \in Power
  PROVE  /\ WithStatus(x, status) \in SoundRow
         /\ StatusWritten(x, WithStatus(x, status), status)
<1> DEFINE z == [x EXCEPT !.status = status]
<1>1. /\ z \in SoundRow /\ z.status = status
      /\ SameLease(x, z) /\ SameSlot(x, z) /\ SamePower(x, z) /\ SameClaim(x, z)
  BY DEF SoundRow, PhoneRow, Power, SameLease, SameSlot, SamePower, SameClaim
<1> HIDE DEF z
<1>2. CASE status = "on"
  <2>1. WithStatus(x, status) = NoSlot(z)
    BY <1>2 DEF WithStatus, z
  <2> QED
    BY <1>1, <1>2, <2>1, NoSlotFacts DEF StatusWritten, SameLease, SamePower, SameClaim
<1>3. CASE status = "off" /\ x.status # "off"
  <2>1. WithStatus(x, status) = NoClaim(Unowned(NoSlot(z)))
    BY <1>3 DEF WithStatus, z
  <2>2. NoSlot(z) \in SoundRow /\ Unowned(NoSlot(z)) \in SoundRow
    BY <1>1, NoSlotFacts, UnownedFacts
  <2> QED
    BY <1>1, <1>3, <2>1, <2>2, NoSlotFacts, UnownedFacts, NoClaimFacts
       DEF StatusWritten, SameLease, SameSlot, SamePower, EmptySlot
<1>4. CASE status # "on" /\ ~(status = "off" /\ x.status # "off")
  <2>1. WithStatus(x, status) = z
    BY <1>4 DEF WithStatus, z
  <2> QED
    BY <1>1, <1>4, <2>1 DEF StatusWritten
<1> QED
  BY <1>2, <1>3, <1>4

LEMMA ReservedFacts ==
  ASSUME NEW x \in SoundRow, NEW r \in Run
  PROVE  LET y == Reserved(x, r) IN
         /\ y \in SoundRow /\ SlotReserved(x, y, r) /\ y.status = x.status
         /\ SameLease(x, y) /\ SamePower(x, y) /\ SameClaim(x, y)
<1> USE DEF SlotReserved, SameLease, SamePower, SameClaim, SameSlot, EmptySlot
<1>1. CASE x.status # "off"
  BY <1>1, NoSlotFacts DEF Reserved
<1>2. CASE x.status = "off" /\ x.slot = r /\ x.held
  BY <1>2 DEF Reserved
<1>3. CASE x.status = "off" /\ ~(x.slot = r /\ x.held)
  <2>1. Reserved(x, r) = [x EXCEPT !.slot = r, !.held = TRUE, !.tried = FALSE]
    BY <1>3 DEF Reserved
  <2> QED
    BY <1>3, <2>1 DEF SoundRow, PhoneRow
<1> QED
  BY <1>1, <1>2, <1>3
-----------------------------------------------------------------------------
(* The steps that write phone rows, column by column.                      *)

LEMMA Places ==
  /\ \A r \in Run : RowOf[r] \in Row /\ ImageOfRun(r) \in Image
  /\ \A p \in Row : ImageOf[p] \in Image
  /\ \A i \in Image : \A p \in Row : p \in Mirrors(i) <=> ImageOf[p] = i
BY PowerAssumption DEF PowerAssumption, ImageOfRun, Mirrors

OthersSame(p) == row' \in [Row -> SoundRow] /\ \A q \in Row \ {p} : row'[q] = row[q]

LEMMA Put ==
  ASSUME row \in [Row -> SoundRow], NEW p \in Row, NEW y \in SoundRow,
         row' = [row EXCEPT ![p] = y]
  PROVE  OthersSame(p) /\ row'[p] = y
BY DEF OthersSame

LEMMA NowIsStamp == Now \in Stamp
BY DEF Now, Stamp

LEMMA AcquireNewRow ==
  ASSUME PowerTypeOK, NEW r \in Run, NEW p \in Row, p = RowOf[r], AcquireNew(r)
  PROVE  /\ OthersSame(p)
         /\ row'[p].live /\ row'[p].lease = r /\ row'[p].status = row[p].status
         /\ SlotReserved(row[p], row'[p], r)
         /\ SamePower(row[p], row'[p]) /\ SameClaim(row[p], row'[p])
<1> USE DEF SlotReserved, SameLease, SamePower, SameClaim, SameSlot, EmptySlot
<1> DEFINE x == row[p]  z == Reserved(x, r)  y == [z EXCEPT !.lease = r, !.live = TRUE]
<1>1. x \in SoundRow /\ z \in SoundRow
  BY SoundRows, ReservedFacts
<1>2. /\ y \in SoundRow /\ y.live /\ y.lease = r /\ y.status = z.status
      /\ SamePower(z, y) /\ SameClaim(z, y) /\ SameSlot(z, y)
  <2> HIDE DEF z
  <2> QED
    BY <1>1 DEF SoundRow, PhoneRow
<1>3. row' = [row EXCEPT ![p] = y]
  BY DEF AcquireNew
<1> HIDE DEF y
<1>4. OthersSame(p) /\ row'[p] = y
  BY <1>2, <1>3, SoundRows, Put
<1> QED
  BY <1>1, <1>2, <1>4, ReservedFacts

LEMMA AcquireExistingRow ==
  ASSUME PowerTypeOK, NEW r \in Run, NEW p \in Row, p = RowOf[r], AcquireExisting(r)
  PROVE  /\ OthersSame(p)
         /\ row'[p].live /\ row'[p].lease = r /\ row'[p].status = row[p].status
         /\ SameSlot(row[p], row'[p])
         /\ SamePower(row[p], row'[p]) /\ SameClaim(row[p], row'[p])
<1> DEFINE x == row[p]  y == [x EXCEPT !.lease = r, !.live = TRUE]
<1>1. x \in SoundRow
  BY SoundRows
<1>2. /\ y \in SoundRow /\ y.live /\ y.lease = r /\ y.status = x.status
      /\ SamePower(x, y) /\ SameClaim(x, y) /\ SameSlot(x, y)
  BY <1>1 DEF SoundRow, PhoneRow, SamePower, SameClaim, SameSlot
<1>3. row' = [row EXCEPT ![p] = y]
  BY SoundRows DEF AcquireExisting
<1> HIDE DEF y
<1> QED
  BY <1>2, <1>3, SoundRows, Put

\* updatePhoneSnapshot and replace_duoplus_phone_inventory.
LEMMA ReportRow ==
  ASSUME PowerTypeOK, NEW p \in Row, NEW status \in Power, NEW at \in Stamp,
         row' = [row EXCEPT ![p] = [WithStatus(@, status) EXCEPT !.seenAt = at]]
  PROVE  OthersSame(p) /\ StatusWritten(row[p], row'[p], status)
<1> DEFINE x == row[p]  z == WithStatus(x, status)  y == [z EXCEPT !.seenAt = at]
<1>1. x \in SoundRow /\ z \in SoundRow /\ StatusWritten(x, z, status)
  BY SoundRows, WithStatusFacts
<1>2. /\ y \in SoundRow /\ y.status = z.status
      /\ SameLease(z, y) /\ SamePower(z, y) /\ SameClaim(z, y) /\ SameSlot(z, y)
  <2> HIDE DEF z
  <2> QED
    BY <1>1 DEF SoundRow, PhoneRow, Stamp, SameLease, SamePower, SameClaim, SameSlot
<1>3. row' = [row EXCEPT ![p] = y]
  OBVIOUS
<1> HIDE DEF y, z
<1>4. OthersSame(p) /\ row'[p] = y
  BY <1>2, <1>3, SoundRows, Put
<1> QED
  BY <1>1, <1>2, <1>4
     DEF StatusWritten, SameLease, SamePower, SameClaim, SameSlot, EmptySlot

LEMMA SyncWriteRow ==
  ASSUME PowerTypeOK, NEW p \in Row, SyncWrite(p)
  PROVE  OthersSame(p) /\ StatusWritten(row[p], row'[p], sync[p].power)
<1>1. sync[p].power \in Power /\ sync[p].at \in Stamp
  BY DEF SyncWrite, PowerTypeOK, Sync
<1> QED
  BY <1>1, ReportRow DEF SyncWrite

LEMMA AttemptRow ==
  ASSUME PowerTypeOK, NEW r \in Run, NEW p \in Row, p = RowOf[r], Attempt(r)
  PROVE  \/ UNCHANGED row /\ Go(r, "wait")
         \/ /\ MayWake(row[p], r) /\ Go(r, "wake")
            /\ OthersSame(p) /\ row'[p].status = row[p].status
            /\ row'[p].slot = row[p].slot /\ row'[p].held = row[p].held /\ row'[p].tried
            /\ SameLease(row[p], row'[p]) /\ SamePower(row[p], row'[p])
            /\ SameClaim(row[p], row'[p])
<1>1. CASE ~MayWake(row[p], r)
  BY <1>1 DEF Attempt
<1>2. CASE MayWake(row[p], r)
  <2> DEFINE x == row[p]  y == [x EXCEPT !.tried = TRUE, !.poweredAt = Now]
  <2>1. x \in SoundRow
    BY SoundRows
  <2>2. /\ y \in SoundRow /\ y.status = x.status
        /\ y.slot = x.slot /\ y.held = x.held /\ y.tried
        /\ SameLease(x, y) /\ SamePower(x, y) /\ SameClaim(x, y)
    BY <1>2, <2>1, NowIsStamp DEF MayWake, SoundRow, PhoneRow, SameLease, SamePower, SameClaim
  <2>3. row' = [row EXCEPT ![p] = y] /\ Go(r, "wake")
    BY <1>2, SoundRows DEF Attempt
  <2> HIDE DEF y
  <2> QED
    BY <1>2, <2>2, <2>3, SoundRows, Put
<1> QED
  BY <1>1, <1>2

LEMMA MarkRow ==
  ASSUME PowerTypeOK, NEW r \in Run, NEW p \in Row, p = RowOf[r], Mark(r)
  PROVE  \/ UNCHANGED row
         \/ /\ OthersSame(p) /\ row'[p].status = row[p].status /\ ~row'[p].offLive
            /\ SameLease(row[p], row'[p]) /\ SameSlot(row[p], row'[p])
            /\ row[p].power = "none" /\ row'[p].power = "requested"
<1>1. CASE UNCHANGED row
  BY <1>1
<1>2. CASE row' # row
  <2> DEFINE x == row[p]  z == NoClaim(x)
             y == [z EXCEPT !.power = "requested", !.starter = r, !.recent = TRUE,
                            !.idle = FALSE, !.poweredAt = Now]
  <2>1. x \in SoundRow /\ z \in SoundRow
    BY SoundRows, NoClaimFacts
  <2>2. /\ y \in SoundRow /\ y.status = z.status /\ y.offLive = z.offLive
        /\ SameLease(z, y) /\ SameSlot(z, y) /\ y.power = "requested"
    <3> HIDE DEF z
    <3> QED
      BY <2>1, NowIsStamp, PowerAssumption
         DEF PowerAssumption, SoundRow, PhoneRow, SameLease, SameSlot
  <2>3. row' = [row EXCEPT ![p] = y] /\ x.power = "none"
    BY <1>2, SoundRows DEF Mark
  <2> HIDE DEF y
  <2>4. OthersSame(p) /\ row'[p] = y
    BY <2>2, <2>3, SoundRows, Put
  <2> QED
    BY <2>1, <2>2, <2>3, <2>4, NoClaimFacts DEF SameLease, SameSlot
<1> QED
  BY <1>1, <1>2

LEMMA ConfirmRow ==
  ASSUME PowerTypeOK, NEW r \in Run, NEW p \in Row, p = RowOf[r], Confirm(r)
  PROVE  \/ UNCHANGED row
         \/ /\ OthersSame(p) /\ row'[p].status = row[p].status
            /\ SameLease(row[p], row'[p]) /\ SameSlot(row[p], row'[p])
            /\ SameClaim(row[p], row'[p])
            /\ row[p].power # "none" /\ row'[p].power # "none"
<1>1. CASE UNCHANGED row
  BY <1>1
<1>2. CASE row' # row
  <2> DEFINE x == row[p]
             y == [x EXCEPT !.power = "owned", !.idle = FALSE, !.poweredAt = Now]
  <2>1. x \in SoundRow
    BY SoundRows
  <2>2. row' = [row EXCEPT ![p] = y] /\ x.power = "requested"
    BY <1>2, SoundRows DEF Confirm
  <2>3. /\ y \in SoundRow /\ y.status = x.status /\ y.power = "owned"
        /\ SameLease(x, y) /\ SameSlot(x, y) /\ SameClaim(x, y)
    BY <2>1, <2>2, NowIsStamp DEF SoundRow, PhoneRow, SameLease, SameSlot, SameClaim
  <2> HIDE DEF y
  <2> QED
    BY <2>2, <2>3, SoundRows, Put
<1> QED
  BY <1>1, <1>2

\* Release, Reap and the end of a lease.
LeaseDropped(x, y) ==
  /\ ~y.live /\ y.status = x.status
  /\ SamePower(x, y) /\ SameClaim(x, y)
  /\ SameSlot(x, y) \/ (EmptySlot(y) /\ ~x.tried)

LEMMA ReleaseRow ==
  ASSUME PowerTypeOK, NEW r \in Run, NEW p \in Row, p = RowOf[r], Release(r)
  PROVE  \/ UNCHANGED row /\ row[p].lease # r
         \/ OthersSame(p) /\ LeaseDropped(row[p], row'[p]) /\ row[p].lease = r
<1> USE DEF LeaseDropped, SamePower, SameClaim, SameSlot
<1> DEFINE x == row[p]  z == Unleased(x)
<1>1. x \in SoundRow /\ z \in SoundRow /\ NoSlot(z) \in SoundRow
  BY SoundRows, UnleasedFacts, NoSlotFacts
<1>2. CASE x.lease # r
  BY <1>2 DEF Release
<1>3. CASE x.lease = r /\ x.slot = r /\ ~x.tried
  <2>1. row' = [row EXCEPT ![p] = NoSlot(z)]
    BY <1>3, SoundRows DEF Release
  <2>2. LeaseDropped(x, NoSlot(z))
    BY <1>1, <1>3, UnleasedFacts, NoSlotFacts DEF SameLease
  <2> QED
    BY <1>1, <1>3, <2>1, <2>2, SoundRows, Put
<1>4. CASE x.lease = r /\ ~(x.slot = r /\ ~x.tried)
  <2>1. row' = [row EXCEPT ![p] = z]
    BY <1>4, SoundRows DEF Release
  <2>2. LeaseDropped(x, z)
    BY <1>1, UnleasedFacts
  <2> QED
    BY <1>1, <1>4, <2>1, <2>2, SoundRows, Put
<1> QED
  BY <1>2, <1>3, <1>4

LEMMA ReapRow ==
  ASSUME PowerTypeOK, NEW r \in Run, NEW p \in Row, p = RowOf[r], Reap(r)
  PROVE  OthersSame(p) /\ LeaseDropped(row[p], row'[p])
<1>1. row' = [row EXCEPT ![p] = Unleased(row[p])]
  BY SoundRows DEF Reap
<1> QED
  BY <1>1, SoundRows, UnleasedFacts, Put DEF LeaseDropped

LEMMA LeaseEndsRow ==
  ASSUME PowerTypeOK, NEW p \in Row, LeaseEnds(p)
  PROVE  OthersSame(p) /\ LeaseDropped(row[p], row'[p])
<1> DEFINE x == row[p]  y == [x EXCEPT !.live = FALSE]
<1>1. x \in SoundRow
  BY SoundRows
<1>2. y \in SoundRow /\ LeaseDropped(x, y)
  BY <1>1 DEF SoundRow, PhoneRow, LeaseDropped, SamePower, SameClaim, SameSlot
<1>3. row' = [row EXCEPT ![p] = y]
  BY SoundRows DEF LeaseEnds
<1> HIDE DEF y
<1> QED
  BY <1>2, <1>3, SoundRows, Put

LEMMA SweepClaimRow ==
  ASSUME PowerTypeOK, NEW s \in Sweeper, NEW p \in Row, SweepClaim(s, p)
  PROVE  /\ OthersSame(p) /\ row'[p].status = row[p].status
         /\ row'[p].off = s /\ row'[p].offLive
         /\ SameLease(row[p], row'[p]) /\ SameSlot(row[p], row'[p])
         /\ SamePower(row[p], row'[p])
<1> DEFINE x == row[p]  y == [x EXCEPT !.off = s, !.offLive = TRUE]
<1>1. x \in SoundRow
  BY SoundRows
<1>2. /\ y \in SoundRow /\ y.status = x.status /\ y.off = s /\ y.offLive
      /\ SameLease(x, y) /\ SameSlot(x, y) /\ SamePower(x, y)
  BY <1>1 DEF SoundRow, PhoneRow, SamePower, SameLease, SameSlot
<1>3. row' = [row EXCEPT ![p] = y]
  BY SoundRows DEF SweepClaim
<1> HIDE DEF y
<1> QED
  BY <1>2, <1>3, SoundRows, Put

\* The ownership of a session is given up, with or without the claim.
LEMMA UnownedRow ==
  ASSUME PowerTypeOK, NEW p \in Row, row' = [row EXCEPT ![p] = Unowned(@)]
  PROVE  /\ OthersSame(p) /\ row'[p].status = row[p].status /\ row'[p].power = "none"
         /\ SameLease(row[p], row'[p]) /\ SameSlot(row[p], row'[p])
         /\ SameClaim(row[p], row'[p])
<1>1. row[p] \in SoundRow /\ Unowned(row[p]) \in SoundRow
  BY SoundRows, UnownedFacts
<1>2. row' = [row EXCEPT ![p] = Unowned(row[p])]
  OBVIOUS
<1> QED
  BY <1>1, <1>2, SoundRows, UnownedFacts, Put

LEMMA NoClaimRow ==
  ASSUME PowerTypeOK, NEW p \in Row, row' = [row EXCEPT ![p] = NoClaim(@)]
  PROVE  /\ OthersSame(p) /\ row'[p].status = row[p].status /\ ~row'[p].offLive
         /\ SameLease(row[p], row'[p]) /\ SameSlot(row[p], row'[p])
         /\ SamePower(row[p], row'[p])
<1>1. row[p] \in SoundRow /\ NoClaim(row[p]) \in SoundRow
  BY SoundRows, NoClaimFacts
<1>2. row' = [row EXCEPT ![p] = NoClaim(row[p])]
  OBVIOUS
<1> QED
  BY <1>1, <1>2, SoundRows, NoClaimFacts, Put

LEMMA ClaimEndsRow ==
  ASSUME PowerTypeOK, NEW p \in Row, ClaimEnds(p)
  PROVE  /\ OthersSame(p) /\ row'[p].status = row[p].status /\ ~row'[p].offLive
         /\ SameLease(row[p], row'[p]) /\ SameSlot(row[p], row'[p])
         /\ SamePower(row[p], row'[p])
<1> DEFINE x == row[p]  y == [x EXCEPT !.offLive = FALSE]
<1>1. x \in SoundRow
  BY SoundRows
<1>2. /\ y \in SoundRow /\ y.status = x.status /\ ~y.offLive
      /\ SameLease(x, y) /\ SameSlot(x, y) /\ SamePower(x, y)
  BY <1>1 DEF SoundRow, PhoneRow, SamePower, SameLease, SameSlot
<1>3. row' = [row EXCEPT ![p] = y]
  BY SoundRows DEF ClaimEnds
<1> HIDE DEF y
<1> QED
  BY <1>2, <1>3, SoundRows, Put

LEMMA ReservationEndsRow ==
  ASSUME PowerTypeOK, NEW p \in Row, ReservationEnds(p)
  PROVE  /\ OthersSame(p) /\ row'[p].status = row[p].status
         /\ row'[p].slot = row[p].slot /\ ~row'[p].held /\ row'[p].tried = row[p].tried
         /\ SameLease(row[p], row'[p]) /\ SamePower(row[p], row'[p])
         /\ SameClaim(row[p], row'[p])
<1> DEFINE x == row[p]  y == [x EXCEPT !.held = FALSE, !.recent = FALSE]
<1>1. x \in SoundRow
  BY SoundRows
<1>2. /\ y \in SoundRow /\ y.status = x.status /\ y.slot = x.slot
      /\ ~y.held /\ y.tried = x.tried
      /\ SameLease(x, y) /\ SamePower(x, y) /\ SameClaim(x, y)
  BY <1>1 DEF SoundRow, PhoneRow, SamePower, SameLease, SameClaim
<1>3. row' = [row EXCEPT ![p] = y]
  BY SoundRows DEF ReservationEnds
<1> HIDE DEF y
<1> QED
  BY <1>2, <1>3, SoundRows, Put

\* The columns the invariants speak of stay as they are.
QuietRows ==
  /\ row' \in [Row -> SoundRow]
  /\ \A p \in Row : /\ row'[p].status = row[p].status
                    /\ SameLease(row[p], row'[p]) /\ SameSlot(row[p], row'[p])
                    /\ SamePower(row[p], row'[p]) /\ SameClaim(row[p], row'[p])

LEMMA UnchangedRows == PowerTypeOK /\ UNCHANGED row => QuietRows
BY SoundRows DEF QuietRows, SameLease, SameSlot, SamePower, SameClaim

LEMMA GoesIdleRow ==
  ASSUME PowerTypeOK, NEW p \in Row, GoesIdle(p)
  PROVE  QuietRows
<1> DEFINE x == row[p]  y == [x EXCEPT !.idle = TRUE]
<1>1. x \in SoundRow
  BY SoundRows
<1>2. /\ y \in SoundRow /\ y.status = x.status
      /\ SameLease(x, y) /\ SameSlot(x, y) /\ SamePower(x, y) /\ SameClaim(x, y)
  BY <1>1 DEF SoundRow, PhoneRow, SamePower, SameLease, SameSlot, SameClaim
<1>3. row' = [row EXCEPT ![p] = y]
  BY SoundRows DEF GoesIdle
<1> HIDE DEF y
<1> QED
  BY <1>2, <1>3, SoundRows, Put
     DEF QuietRows, OthersSame, SamePower, SameLease, SameSlot, SameClaim

LEMMA RefreshPublishRow ==
  ASSUME PowerTypeOK, RefreshPublish
  PROVE  QuietRows
<1> DEFINE y(x) == [x EXCEPT !.seenAt = Dated(@), !.poweredAt = Dated(@)]
<1>1. row' = [p \in Row |-> y(row[p])]
  BY DEF RefreshPublish
<1>2. ASSUME NEW x \in SoundRow
      PROVE  /\ y(x) \in SoundRow /\ y(x).status = x.status /\ SameLease(x, y(x))
             /\ SameSlot(x, y(x)) /\ SamePower(x, y(x)) /\ SameClaim(x, y(x))
  <2>1. Dated(x.seenAt) \in Stamp /\ Dated(x.poweredAt) \in Stamp
    BY DEF Dated, Stamp
  <2>2. y(x) = [x EXCEPT !.seenAt = Dated(x.seenAt), !.poweredAt = Dated(x.poweredAt)]
    OBVIOUS
  <2> QED
    BY <2>1, <2>2 DEF SoundRow, PhoneRow, SamePower, SameLease, SameSlot, SameClaim
<1> HIDE DEF y
<1> QED
  BY <1>1, <1>2, SoundRows DEF QuietRows

\* The confirmed shutdown: every row of the phone starts over.
PhoneReset(i) ==
  /\ row' \in [Row -> SoundRow]
  /\ \A p \in Row : ImageOf[p] # i => row'[p] = row[p]
  /\ \A p \in Row : ImageOf[p] = i =>
       /\ row'[p].status = "off" /\ ~row'[p].live /\ EmptySlot(row'[p])
       /\ row'[p].power = "none" /\ ~row'[p].offLive

LEMMA SweepCompleteRow ==
  ASSUME PowerTypeOK, NEW s \in Sweeper, SweepComplete(s)
  PROVE  \/ UNCHANGED row
         \/ Claims(s) /\ PhoneReset(ImageOf[sweep[s].row]) /\ sweep' = [sweep EXCEPT ![s] = NoSweep]
<1>1. CASE UNCHANGED row
  BY <1>1
<1>2. CASE row' # row
  <2> DEFINE i == ImageOf[sweep[s].row]
             u(x) == [Unleased(x) EXCEPT !.status = "off"]
             done(x) == [NoClaim(Unowned(NoSlot(u(x)))) EXCEPT !.seenAt = Now]
  <2>1. /\ Claims(s) /\ sweep' = [sweep EXCEPT ![s] = NoSweep]
        /\ row' = [q \in Row |-> IF q \in Mirrors(i) THEN done(row[q]) ELSE row[q]]
    BY <1>2 DEF SweepComplete
  <2>2. ASSUME NEW x \in SoundRow
        PROVE  /\ done(x) \in SoundRow
               /\ done(x).status = "off" /\ ~done(x).live /\ EmptySlot(done(x))
               /\ done(x).power = "none" /\ ~done(x).offLive
    <3>1. u(x) \in SoundRow /\ u(x).status = "off" /\ ~u(x).live
      <4> DEFINE w == Unleased(x)
      <4>1. w \in SoundRow /\ ~w.live
        BY UnleasedFacts
      <4> HIDE DEF w
      <4>2. LET v == [w EXCEPT !.status = "off"]
            IN  v \in SoundRow /\ v.status = "off" /\ ~v.live
        BY <4>1 DEF SoundRow, PhoneRow, Power
      <4> QED
        BY <4>2 DEF w
    <3> HIDE DEF u
    <3> DEFINE n == NoSlot(u(x))
    <3>2. n \in SoundRow /\ EmptySlot(n) /\ n.status = "off" /\ ~n.live
      BY <3>1, NoSlotFacts DEF SameLease
    <3> HIDE DEF n
    <3> DEFINE o == Unowned(n)
    <3>3. o \in SoundRow /\ EmptySlot(o) /\ o.status = "off" /\ ~o.live /\ o.power = "none"
      BY <3>2, UnownedFacts DEF SameLease, SameSlot, EmptySlot
    <3> HIDE DEF o
    <3> DEFINE c == NoClaim(o)
    <3>4. /\ c \in SoundRow /\ EmptySlot(c) /\ c.status = "off" /\ ~c.live
          /\ c.power = "none" /\ ~c.offLive
      BY <3>3, NoClaimFacts DEF SameLease, SameSlot, SamePower, EmptySlot
    <3> HIDE DEF c
    <3>5. LET v == [c EXCEPT !.seenAt = Now]
          IN  /\ v \in SoundRow /\ EmptySlot(v) /\ v.status = "off" /\ ~v.live
              /\ v.power = "none" /\ ~v.offLive
      BY <3>4, NowIsStamp DEF SoundRow, PhoneRow, EmptySlot
    <3>6. done(x) = [c EXCEPT !.seenAt = Now]
      BY DEF c, o, n
    <3> QED
      BY <3>5, <3>6
  <2> HIDE DEF done
  <2> QED
    BY <2>1, <2>2, SoundRows DEF PhoneReset, Mirrors
<1> QED
  BY <1>1, <1>2
-----------------------------------------------------------------------------
(* Types.                                                                  *)

OtherTypes ==
  /\ pool \in Pool /\ job \in [Run -> Job] /\ sweep \in [Sweeper -> Sweep]
  /\ sync \in [Row -> Sync] /\ image \in [Image -> Phone] /\ asked \in [Image -> Nat]
  /\ faults \in 0 .. MaxFaults

LEMMA TypeParts == PowerTypeOK <=> row \in [Row -> SoundRow] /\ OtherTypes
BY DEF PowerTypeOK, OtherTypes, SoundRow

LEMMA FaultTypes ==
  ASSUME PowerTypeOK, NoFault \/ \E kind : Fault(kind)
  PROVE  faults' \in 0 .. MaxFaults
BY PowerAssumption DEF PowerAssumption, PowerTypeOK, NoFault, Fault

LEMMA RunTypes ==
  ASSUME PowerTypeOK, NEW r \in Run,
         \/ AcquireNew(r) \/ AcquireExisting(r) \/ Dispatch(r) \/ Crash(r) \/ Reap(r)
         \/ ComesDue(r) \/ Closes(r)
  PROVE  job' \in [Run -> Job] /\ image' \in [Image -> Phone] /\ asked' \in [Image -> Nat]
<1> USE DEF PowerTypeOK
<1>1. ImageOfRun(r) \in Image
  BY Places
<1>2. ASSUME \/ AcquireNew(r) \/ AcquireExisting(r) \/ Attempt(r) \/ Mark(r) \/ Confirm(r)
             \/ Fence(r) \/ PreparationFails(r) \/ Release(r)
      PROVE  job' \in [Run -> Job]
  <2>1. ASSUME NEW pc \in JobPc, Go(r, pc)
        PROVE  job' \in [Run -> Job]
    BY <2>1 DEF Go, Job
  <2>2. CASE AcquireNew(r)
    BY <2>2 DEF AcquireNew, Job, JobPc, Life
  <2>3. CASE Confirm(r) \/ Fence(r)
    BY <2>3 DEF Confirm, Fence, Job, JobPc, Life, Power
  <2> QED
    BY <1>2, <2>1, <2>2, <2>3
       DEF AcquireExisting, Attempt, Mark, PreparationFails, Release, JobPc
<1>3. ASSUME \/ Wait(r) \/ Fail(r) \/ Crash(r) \/ Reap(r) \/ ComesDue(r) \/ Closes(r)
      PROVE  job' \in [Run -> Job]
  BY <1>3 DEF Wait, Fail, Crash, Reap, ComesDue, Closes, Job, Life, JobPc, Power
<1>4. CASE Look(r)
  <2>1. Reported(ImageOfRun(r)) \in Power
    BY <1>1 DEF Reported, Phone, Actual, Power
  <2> QED
    BY <1>4, <2>1 DEF Look, Job, JobPc
<1>5. CASE Record(r)
  <2>1. PICK pc \in JobPc : Go(r, pc)
    BY <1>5 DEF Record, JobPc
  <2> QED
    BY <1>5, <2>1 DEF Record, Go, Job
<1>6. CASE Wake(r)
  <2>1. job' \in [Run -> Job]
    BY <1>6 DEF Wake, Go, Job, JobPc
  <2>2. image' \in [Image -> Phone] /\ asked' \in [Image -> Nat]
    BY <1>1, <1>6 DEF Wake, Phone, Actual
  <2> QED
    BY <2>1, <2>2
<1>7. CASE Add(r)
  <2>1. job' \in [Run -> Job]
    BY <1>7 DEF Add, Go, Job, JobPc, Life
  <2>2. image' \in [Image -> Phone] /\ asked' \in [Image -> Nat]
    BY <1>1, <1>7 DEF Add, Phone
  <2> QED
    BY <2>1, <2>2
<1>8. CASE Check(r)
  BY <1>8 DEF Check, Job, JobPc, Life
<1> QED
  BY <1>2, <1>3, <1>4, <1>5, <1>6, <1>7, <1>8
     DEF Dispatch, AcquireNew, AcquireExisting, Attempt, Mark, Confirm, Fence,
         PreparationFails, Release, Wait, Fail, Crash, Reap, ComesDue, Closes

LEMMA SweepTypes ==
  ASSUME PowerTypeOK, NEW s \in Sweeper, \A t \in Sweeper : SweepAt(t, {"off"}) => sweep[t].row \in Row,
         SweepStep(s) \/ SweepCrash(s) \/ \E p \in Row : SweepClaim(s, p)
  PROVE  sweep' \in [Sweeper -> Sweep] /\ image' \in [Image -> Phone] /\ asked' \in [Image -> Nat]
<1> USE DEF PowerTypeOK
<1>1. NoSweep \in Sweep
  BY DEF NoSweep, Sweep, SweepPc
<1>2. ASSUME \/ SweepInspect(s) \/ SweepConsume(s) \/ SweepComplete(s)
      PROVE  sweep' \in [Sweeper -> Sweep]
  <2>1. sweep' = [sweep EXCEPT ![s] = NoSweep] \/ \E pc \in SweepPc : SweepGo(s, pc)
    BY <1>2 DEF SweepInspect, SweepConsume, SweepComplete, SweepPc
  <2> QED
    BY <1>1, <2>1 DEF SweepGo, Sweep
<1>3. ASSUME SweepRelease(s) \/ SweepCrash(s) \/ \E p \in Row : SweepClaim(s, p)
      PROVE  sweep' \in [Sweeper -> Sweep]
  <2>1. \E y \in Sweep : sweep' = [sweep EXCEPT ![s] = y]
    BY <1>1, <1>3 DEF SweepRelease, SweepCrash, SweepClaim, Sweep, SweepPc
  <2> QED
    BY <2>1
<1>4. CASE SweepOff(s)
  <2>1. ImageOf[sweep[s].row] \in Image
    BY <1>4, Places DEF SweepOff, SweepAt
  <2>2. sweep' \in [Sweeper -> Sweep]
    BY <1>4 DEF SweepOff, SweepGo, Sweep, SweepPc
  <2>3. image' \in [Image -> Phone] /\ asked' \in [Image -> Nat]
    BY <1>4, <2>1 DEF SweepOff, Phone, Actual, Power
  <2> QED
    BY <2>2, <2>3
<1> QED
  BY <1>2, <1>3, <1>4
     DEF SweepStep, SweepInspect, SweepConsume, SweepComplete, SweepRelease, SweepCrash, SweepClaim

LEMMA WorldTypes ==
  ASSUME PowerTypeOK, NEW i \in Image, Boots(i) \/ TaskEnds(i) \/ PowerButton(i)
  PROVE  image' \in [Image -> Phone] /\ asked' \in [Image -> Nat]
<1> USE DEF PowerTypeOK
<1>1. CASE Boots(i)
  BY <1>1 DEF Boots, Phone, Actual, Power
<1>2. CASE TaskEnds(i)
  <2>1. PICK r \in image[i].tasks :
          image' = [image EXCEPT ![i].tasks = @ \ {r}, ![i].done = @ \cup {r}]
    BY <1>2 DEF TaskEnds
  <2> DEFINE x == image[i]
             y == [x EXCEPT !.tasks = @ \ {r}, !.done = @ \cup {r}]
  <2>2. x \in Phone /\ x.tasks \ {r} \in SUBSET Run /\ x.done \cup {r} \in SUBSET Run
    BY DEF Phone
  <2>3. y \in Phone
    BY <2>2 DEF Phone
  <2>4. image' = [image EXCEPT ![i] = y]
    BY <2>1
  <2> HIDE DEF y
  <2> QED
    BY <1>2, <2>3, <2>4 DEF TaskEnds
<1>3. CASE PowerButton(i)
  <2> DEFINE x == image[i]
             up == [x EXCEPT !.power = "starting", !.by = "person"]
             down == [x EXCEPT !.power = "off", !.tasks = {}, !.done = x.done \cup x.tasks]
  <2>1. x \in Phone
    OBVIOUS
  <2>2. up \in Phone
    BY <2>1 DEF Phone, Actual, Power
  <2>3. down \in Phone
    <3>1. x.done \cup x.tasks \in SUBSET Run
      BY <2>1 DEF Phone
    <3> QED
      BY <2>1, <3>1 DEF Phone, Actual, Power
  <2>4. image' = [image EXCEPT ![i] = up] \/ image' = [image EXCEPT ![i] = down]
    <3>1. CASE x.power = "off"
      <4>1. image' = [image EXCEPT ![i] = up]
        BY <1>3, <3>1 DEF PowerButton
      <4> QED
        BY <4>1
    <3>2. CASE x.power # "off"
      <4>1. image' = [image EXCEPT ![i] = down]
        BY <1>3, <3>2 DEF PowerButton
      <4> QED
        BY <4>1
    <3> QED
      BY <3>1, <3>2
  <2>5. asked' \in [Image -> Nat]
    BY <1>3 DEF PowerButton
  <2> HIDE DEF up, down
  <2> QED
    BY <2>2, <2>3, <2>4, <2>5
<1> QED
  BY <1>1, <1>2, <1>3

\* Syncs and capacity refreshes.
LEMMA SourceTypes ==
  ASSUME PowerTypeOK,
         \/ \E p \in Row : SyncRead(p) \/ SyncWrite(p)
         \/ RefreshBegin \/ RefreshRead \/ RefreshPublish
  PROVE  sync' \in [Row -> Sync] /\ pool' \in Pool
<1> USE DEF PowerTypeOK
<1>1. ASSUME NEW p \in Row, SyncRead(p)
      PROVE  sync' \in [Row -> Sync]
  <2>1. Reported(ImageOf[p]) \in Power
    BY Places DEF Reported, Phone, Actual, Power
  <2> QED
    BY <1>1, <2>1, NowIsStamp DEF SyncRead, Sync
<1>2. ASSUME NEW p \in Row, SyncWrite(p)
      PROVE  sync' \in [Row -> Sync]
  BY <1>2 DEF SyncWrite, Sync
<1>3. CASE RefreshBegin
  BY <1>3 DEF RefreshBegin, Pool
<1>4. CASE RefreshRead
  <2> DEFINE up == {i \in Image : image[i].power # "off"}
  <2>1. IsFiniteSet(Image) /\ up \subseteq Image
    BY PowerAssumption DEF PowerAssumption
  <2>2. Cardinality(up) \in 0 .. Cardinality(Image)
    BY <2>1, FS_Subset, FS_CardinalityType
  <2>3. pool' = [pool EXCEPT !.pc = "read", !.seen = Cardinality(up)]
    BY <1>4 DEF RefreshRead
  <2> HIDE DEF up
  <2> QED
    BY <1>4, <2>2, <2>3 DEF RefreshRead, Pool
<1>5. CASE RefreshPublish
  <2>1. pool' \in Pool
    <3>1. IsFiniteSet(Image)
      BY PowerAssumption DEF PowerAssumption
    <3>2. 0 \in 0 .. Cardinality(Image)
      BY <3>1, FS_CardinalityType
    <3> QED
      BY <1>5, <3>2 DEF RefreshPublish, Pool
  <2>2. ASSUME NEW x \in Sync
        PROVE  [x EXCEPT !.at = Dated(@)] \in Sync
    <3>1. CASE x = NoSync
      <4>1. [x EXCEPT !.at = Dated(@)] = NoSync
        BY <3>1 DEF NoSync, Dated
      <4> QED
        BY <4>1 DEF Sync
    <3>2. CASE x \in [power : Power, at : Stamp]
      <4>1. Dated(x.at) \in Stamp
        BY DEF Dated, Stamp
      <4> QED
        BY <3>2, <4>1 DEF Sync
    <3> QED
      BY <3>1, <3>2 DEF Sync
  <2>3. sync' = [p \in Row |-> [sync[p] EXCEPT !.at = Dated(@)]]
    BY <1>5 DEF RefreshPublish
  <2> QED
    BY <2>1, <2>2, <2>3
<1> QED
  BY <1>1, <1>2, <1>3, <1>4, <1>5
     DEF SyncRead, SyncWrite, RefreshBegin, RefreshRead, RefreshPublish
-----------------------------------------------------------------------------
(* Leases, reservations and claims, under whatever the environment does.   *)

\* Nothing is taken that was free.
Shrinks ==
  /\ row' \in [Row -> SoundRow]
  /\ \A p \in Row : /\ row'[p].live => row[p].live
                    /\ row'[p].held => row[p].held
                    /\ row'[p].offLive => row[p].offLive
                    /\ row'[p].slot \in Run => row'[p].slot = row[p].slot

LEMMA ShrinkExclusive ==
  ASSUME PowerBase, Shrinks
  PROVE  Exclusive' /\ \A p \in Row : row'[p].slot \in Run => RowOf[row'[p].slot] = p
BY DEF PowerBase, Bound, Exclusive, Shrinks, Mates

\* Workers keep their leases, and sweeps stay on rows.
HoldersKept ==
  /\ \A r \in Run : job'[r].pc # "idle" => /\ row'[RowOf[r]].lease = r
                                           /\ row'[RowOf[r]].live
  /\ \A s \in Sweeper : sweep'[s].pc # "idle" => sweep'[s].row \in Row

LEMMA ShrinkHolds ==
  ASSUME PowerBase, Shrinks, HoldersKept
  PROVE  row' \in [Row -> SoundRow] /\ Bound' /\ Exclusive'
BY ShrinkExclusive DEF Shrinks, HoldersKept, Bound

LEMMA NoRunIsNone == NoRun \notin Run
BY PowerAssumption DEF PowerAssumption

\* No worker starts, and leases stay as they are.
LEMMA SameHolders ==
  ASSUME PowerBase, \A p \in Row : SameLease(row[p], row'[p]),
         \A r \in Run : job'[r].pc # "idle" => job[r].pc # "idle",
         UNCHANGED sweep
  PROVE  HoldersKept
BY Places DEF PowerBase, Bound, HoldersKept, SameLease

LEMMA QuietHolds ==
  ASSUME PowerBase, QuietRows, HoldersKept
  PROVE  row' \in [Row -> SoundRow] /\ Bound' /\ Exclusive'
BY ShrinkHolds DEF QuietRows, Shrinks, SameLease, SameSlot, SameClaim

\* Taking the lease of a row, with or without a reservation.
LEMMA AcquireHolds ==
  ASSUME PowerBase, NEW r \in Run, AcquireNew(r) \/ AcquireExisting(r)
  PROVE  row' \in [Row -> SoundRow] /\ Bound' /\ Exclusive'
<1> DEFINE p == RowOf[r]
<1>1. p \in Row /\ PhoneFree(r) /\ PowerTypeOK /\ UNCHANGED sweep
  BY Places DEF AcquireNew, AcquireExisting, PowerBase
<1>2. /\ OthersSame(p) /\ row'[p].live /\ row'[p].lease = r
      /\ SameClaim(row[p], row'[p])
      /\ row'[p].slot \in {row[p].slot, NoRun, r}
      /\ row'[p].held => row[p].held \/ row'[p].slot = r
  <2>1. CASE AcquireNew(r)
    BY <1>1, <2>1, AcquireNewRow DEF SlotReserved, EmptySlot, SameSlot
  <2>2. CASE AcquireExisting(r)
    BY <1>1, <2>2, AcquireExistingRow DEF SameSlot
  <2> QED
    BY <2>1, <2>2
<1> HIDE DEF p
<1>3. \A q \in Row : Mates(q, p) => ~row[q].live /\ ~row[q].offLive
  BY <1>1, Places DEF PhoneFree, Mates, p, ImageOfRun
<1>4. \A q \in Row : Mates(q, p) /\ row[q].held => q = p
  <2> SUFFICES ASSUME NEW q \in Row, Mates(q, p), row[q].held PROVE q = p
    OBVIOUS
  <2>1. row[q].slot = r
    BY <1>1, Places DEF PhoneFree, Mates, p, ImageOfRun
  <2> QED
    BY <2>1 DEF p, PowerBase, Bound
<1>5. Exclusive'
  BY <1>1, <1>2, <1>3, <1>4 DEF PowerBase, Exclusive, OthersSame, SameClaim, Mates
<1>6. \A q \in Row : row'[q].slot \in Run => RowOf[row'[q].slot] = q
  BY <1>1, <1>2, NoRunIsNone DEF PowerBase, Bound, OthersSame, p
<1>7. \A t \in Run : job'[t].pc # "idle" => row'[RowOf[t]].lease = t /\ row'[RowOf[t]].live
  <2> SUFFICES ASSUME NEW t \in Run, job'[t].pc # "idle"
               PROVE  row'[RowOf[t]].lease = t /\ row'[RowOf[t]].live
    OBVIOUS
  <2>1. CASE t = r
    BY <1>2, <2>1 DEF p
  <2>2. CASE t # r
    <3>1. job'[t] = job[t]
      BY <2>2 DEF AcquireNew, AcquireExisting, Go, PowerBase, PowerTypeOK
    <3>2. row[RowOf[t]].lease = t /\ row[RowOf[t]].live
      BY <3>1 DEF PowerBase, Bound
    <3>3. RowOf[t] \in Row /\ RowOf[t] # p
      BY <1>1, <1>3, <3>2, Places DEF Mates
    <3> QED
      BY <1>2, <3>2, <3>3 DEF OthersSame
  <2> QED
    BY <2>1, <2>2
<1> QED
  BY <1>1, <1>2, <1>5, <1>6, <1>7 DEF Bound, PowerBase, OthersSame

\* A worker that keeps its row's lease.
LEMMA WorkHolds ==
  ASSUME PowerBase, NEW r \in Run,
         \/ Look(r) \/ Record(r) \/ Attempt(r) \/ Wake(r) \/ Mark(r) \/ Wait(r)
         \/ Confirm(r) \/ Fence(r) \/ Add(r) \/ Check(r) \/ Fail(r)
         \/ PreparationFails(r) \/ Crash(r) \/ ComesDue(r) \/ Closes(r)
  PROVE  row' \in [Row -> SoundRow] /\ Bound' /\ Exclusive'
<1> DEFINE p == RowOf[r]
<1>1. p \in Row /\ PowerTypeOK /\ row \in [Row -> SoundRow]
  BY Places, SoundRows DEF PowerBase
<1>2. UNCHANGED sweep
  BY DEF Look, Record, Attempt, Wake, Mark, Wait, Confirm, Fence, Add, Check, Fail,
         PreparationFails, Crash, ComesDue, Closes
<1>3. \A t \in Run : job'[t].pc # "idle" => job[t].pc # "idle"
  <2>1. \A t \in Run \ {r} : job'[t] = job[t]
    BY <1>1 DEF Look, Record, Attempt, Wake, Mark, Wait, Confirm, Fence, Add, Check, Fail,
                PreparationFails, Crash, ComesDue, Closes, Go, PowerTypeOK
  <2>2. CASE job[r].pc # "idle"
    BY <2>1, <2>2
  <2>3. CASE job[r].pc = "idle"
    <3>1. ComesDue(r) \/ Closes(r)
      BY <2>3 DEF Look, Record, Attempt, Wake, Mark, Wait, Confirm, Fence, Add, Check, Fail,
                  PreparationFails, Crash
    <3>2. job'[r].pc = "idle"
      BY <1>1, <2>3, <3>1 DEF ComesDue, Closes, PowerTypeOK, Job
    <3> QED
      BY <2>1, <3>2
  <2> QED
    BY <2>2, <2>3
<1>4. Shrinks /\ \A q \in Row : SameLease(row[q], row'[q])
  <2> USE DEF Shrinks, SameLease, SameSlot, SameClaim, EmptySlot
  <2>1. CASE UNCHANGED row
    BY <1>1, <2>1
  <2>2. CASE row' # row
    <3>1. CASE Record(r)
      <4>1. /\ job[r].seen \in Power /\ Now \in Stamp
            /\ row' = [row EXCEPT ![p] = [WithStatus(@, job[r].seen) EXCEPT !.seenAt = Now]]
        BY <1>1, <2>2, <3>1, NowIsStamp DEF Record, PowerTypeOK, Job
      <4>2. OthersSame(p) /\ StatusWritten(row[p], row'[p], job[r].seen)
        BY <1>1, <4>1, ReportRow
      <4> QED
        BY <1>1, <4>2, NoRunIsNone DEF OthersSame, StatusWritten
    <3>2. CASE Attempt(r)
      BY <1>1, <2>2, <3>2, AttemptRow DEF OthersSame
    <3>3. CASE Mark(r)
      BY <1>1, <2>2, <3>3, MarkRow DEF OthersSame
    <3>4. CASE Confirm(r)
      BY <1>1, <2>2, <3>4, ConfirmRow DEF OthersSame
    <3> QED
      BY <2>2, <3>1, <3>2, <3>3, <3>4
         DEF Look, Wake, Wait, Fence, Add, Check, Fail, PreparationFails, Crash, ComesDue, Closes
  <2> QED
    BY <2>1, <2>2
<1> QED
  BY <1>2, <1>3, <1>4, SameHolders, ShrinkHolds

\* Leases end: released, reaped or run out.
LEMMA DropHolds ==
  ASSUME PowerBase,
         \/ \E r \in Run : Release(r) \/ Reap(r)
         \/ \E p \in Row : LeaseEnds(p)
  PROVE  row' \in [Row -> SoundRow] /\ Bound' /\ Exclusive'
<1>1. PowerTypeOK /\ UNCHANGED sweep /\ row \in [Row -> SoundRow]
  BY SoundRows DEF PowerBase, Release, Reap, LeaseEnds
<1>2. CASE UNCHANGED row
  <2>1. \A t \in Run : job'[t].pc # "idle" => job[t].pc # "idle"
    <3>1. ASSUME NEW r \in Run, Release(r)
          PROVE  \A t \in Run : job'[t].pc # "idle" => job[t].pc # "idle"
      BY <1>1, <3>1 DEF Release, Go, PowerTypeOK, Job
    <3>2. ASSUME NEW r \in Run, Reap(r)
          PROVE  \A t \in Run : job'[t].pc # "idle" => job[t].pc # "idle"
      BY <1>1, <3>2 DEF Reap, PowerTypeOK, Job
    <3> QED
      BY <3>1, <3>2 DEF LeaseEnds
  <2> QED
    BY <1>1, <1>2, <2>1, UnchangedRows, SameHolders, QuietHolds DEF QuietRows
<1>3. ASSUME NEW p \in Row, OthersSame(p), LeaseDropped(row[p], row'[p]),
             \A t \in Run : job'[t].pc # "idle" => job[t].pc # "idle" /\ RowOf[t] # p
      PROVE  row' \in [Row -> SoundRow] /\ Bound' /\ Exclusive'
  <2>1. Shrinks
    BY <1>1, <1>3, NoRunIsNone
       DEF Shrinks, OthersSame, LeaseDropped, SameClaim, SameSlot, EmptySlot
  <2>2. HoldersKept
    BY <1>1, <1>3, Places DEF HoldersKept, PowerBase, Bound, OthersSame
  <2> QED
    BY <2>1, <2>2, ShrinkHolds
<1>4. ASSUME NEW r \in Run, Release(r)
      PROVE  row' \in [Row -> SoundRow] /\ Bound' /\ Exclusive'
  <2>1. PICK p \in Row : p = RowOf[r]
    BY Places
  <2>2. CASE OthersSame(p) /\ LeaseDropped(row[p], row'[p]) /\ row[p].lease = r
    <3>1. \A t \in Run : job'[t].pc # "idle" => job[t].pc # "idle" /\ t # r
      BY <1>1, <1>4 DEF Release, Go, PowerTypeOK, Job
    <3>2. \A t \in Run : job'[t].pc # "idle" => RowOf[t] # p
      BY <2>2, <3>1 DEF PowerBase, Bound
    <3> QED
      BY <1>3, <2>2, <3>1, <3>2
  <2> QED
    BY <1>1, <1>2, <1>4, <2>1, <2>2, ReleaseRow
<1>5. ASSUME NEW r \in Run, Reap(r)
      PROVE  row' \in [Row -> SoundRow] /\ Bound' /\ Exclusive'
  <2>1. PICK p \in Row : p = RowOf[r]
    BY Places
  <2>2. OthersSame(p) /\ LeaseDropped(row[p], row'[p]) /\ row[p].lease = r
    BY <1>1, <1>5, <2>1, ReapRow DEF Reap
  <2>3. \A t \in Run : job'[t].pc # "idle" => job[t].pc # "idle" /\ t # r
    BY <1>1, <1>5 DEF Reap, PowerTypeOK, Job
  <2>4. \A t \in Run : job'[t].pc # "idle" => RowOf[t] # p
    BY <2>2, <2>3 DEF PowerBase, Bound
  <2> QED
    BY <1>3, <2>2, <2>3, <2>4
<1>6. ASSUME NEW p \in Row, LeaseEnds(p)
      PROVE  row' \in [Row -> SoundRow] /\ Bound' /\ Exclusive'
  <2>1. OthersSame(p) /\ LeaseDropped(row[p], row'[p]) /\ UNCHANGED job
    BY <1>1, <1>6, LeaseEndsRow DEF LeaseEnds
  <2>2. \A t \in Run : job'[t].pc # "idle" => job[t].pc # "idle" /\ RowOf[t] # p
    BY <1>6, <2>1 DEF PowerBase, Bound, LeaseEnds
  <2> QED
    BY <1>3, <2>1, <2>2
<1> QED
  BY <1>4, <1>5, <1>6
\* The steps of sweeps other than taking a claim.
LEMMA SweepHolds ==
  ASSUME PowerBase, NEW s \in Sweeper, SweepStep(s) \/ SweepCrash(s)
  PROVE  row' \in [Row -> SoundRow] /\ Bound' /\ Exclusive'
<1> DEFINE p == sweep[s].row
<1>1. PowerTypeOK /\ UNCHANGED job /\ row \in [Row -> SoundRow] /\ p \in Row
  BY SoundRows DEF PowerBase, Bound, SweepStep, SweepInspect, SweepConsume, SweepOff,
                   SweepComplete, SweepRelease, SweepCrash
<1>2. \A t \in Sweeper : sweep'[t].pc # "idle" => sweep'[t].row \in Row
  <2>1. \/ \E pc : SweepGo(s, pc)
        \/ sweep' = [sweep EXCEPT ![s] = NoSweep]
    BY DEF SweepStep, SweepInspect, SweepConsume, SweepOff, SweepComplete,
           SweepRelease, SweepCrash
  <2>2. \A t \in Sweeper : sweep'[t].pc # "idle" =>
          sweep'[t].row = sweep[t].row /\ (t = s \/ sweep[t].pc # "idle")
    BY <1>1, <2>1 DEF SweepGo, NoSweep, PowerTypeOK, Sweep
  <2> QED
    BY <1>1, <2>2 DEF PowerBase, Bound
<1>3. CASE PhoneReset(ImageOf[p]) /\ Claims(s)
  <2>1. Shrinks
    BY <1>1, <1>3, NoRunIsNone DEF Shrinks, PhoneReset, EmptySlot
  <2>2. \A q \in Row : Mates(p, q) => ~row[q].live
    BY <1>1, <1>3 DEF Claims, PowerBase, Exclusive
  <2>3. HoldersKept
    BY <1>1, <1>2, <1>3, <2>2, Places DEF HoldersKept, PhoneReset, PowerBase, Bound, Mates
  <2> QED
    BY <2>1, <2>3, ShrinkHolds
<1>4. ASSUME Shrinks, \A q \in Row : SameLease(row[q], row'[q])
      PROVE  row' \in [Row -> SoundRow] /\ Bound' /\ Exclusive'
  <2>1. HoldersKept
    BY <1>1, <1>2, <1>4, Places DEF HoldersKept, PowerBase, Bound, SameLease
  <2> QED
    BY <1>4, <2>1, ShrinkHolds
<1>5. CASE UNCHANGED row
  BY <1>1, <1>4, <1>5 DEF Shrinks, SameLease
<1>6. CASE row' = [row EXCEPT ![p] = Unowned(@)]
  BY <1>1, <1>4, <1>6, UnownedRow DEF Shrinks, OthersSame, SameLease, SameSlot, SameClaim
<1>7. CASE row' = [row EXCEPT ![p] = NoClaim(@)]
  BY <1>1, <1>4, <1>7, NoClaimRow DEF Shrinks, OthersSame, SameLease, SameSlot
<1>8. CASE SweepComplete(s)
  BY <1>1, <1>3, <1>5, <1>8, SweepCompleteRow
<1>9. CASE SweepConsume(s) \/ SweepRelease(s)
  BY <1>5, <1>6, <1>7, <1>9 DEF SweepConsume, Consumed, SweepRelease
<1> QED
  BY <1>5, <1>8, <1>9 DEF SweepStep, SweepInspect, SweepOff, SweepCrash

\* A sweep takes its claim only where no other claim, lease or reservation is.
LEMMA ClaimHolds ==
  ASSUME PowerBase, NEW s \in Sweeper, NEW p \in Row, SweepClaim(s, p)
  PROVE  row' \in [Row -> SoundRow] /\ Bound' /\ Exclusive'
<1>1. PowerTypeOK /\ UNCHANGED job /\ NoRow \notin Row
  BY PowerAssumption DEF PowerBase, SweepClaim, PowerAssumption
<1>2. /\ OthersSame(p) /\ row'[p].off = s /\ row'[p].offLive
      /\ SameLease(row[p], row'[p]) /\ SameSlot(row[p], row'[p])
  BY <1>1, SweepClaimRow
<1>3. \A q \in Row : Mates(q, p) => ~row[q].live /\ ~row[q].held /\ ~row[q].offLive
  BY <1>1, Places DEF SweepClaim, ProtectedWork, Mates
<1>4. Exclusive'
  BY <1>2, <1>3 DEF PowerBase, Exclusive, OthersSame, SameLease, SameSlot, Mates
<1>5. \A q \in Row : row'[q].slot \in Run => RowOf[row'[q].slot] = q
  BY <1>2 DEF PowerBase, Bound, OthersSame, SameSlot
<1>6. \A r \in Run : job'[r].pc # "idle" => row'[RowOf[r]].lease = r /\ row'[RowOf[r]].live
  BY <1>1, <1>2, Places DEF PowerBase, Bound, OthersSame, SameLease
<1>7. \A t \in Sweeper : sweep'[t].pc # "idle" => sweep'[t].row \in Row
  BY <1>1 DEF SweepClaim, PowerBase, PowerTypeOK, Bound
<1> QED
  BY <1>2, <1>4, <1>5, <1>6, <1>7 DEF Bound, OthersSame

\* Syncs, refreshes, time and the phone itself.
LEMMA WorldHolds ==
  ASSUME PowerBase,
         \/ \E p \in Row : SyncRead(p) \/ SyncWrite(p) \/ GoesIdle(p) \/ ClaimEnds(p)
                           \/ ReservationEnds(p)
         \/ RefreshBegin \/ RefreshRead \/ RefreshPublish
         \/ \E i \in Image : Boots(i) \/ TaskEnds(i) \/ PowerButton(i)
         \/ UNCHANGED vars
  PROVE  row' \in [Row -> SoundRow] /\ Bound' /\ Exclusive'
<1>1. PowerTypeOK /\ UNCHANGED <<job, sweep>> /\ row \in [Row -> SoundRow]
  BY SoundRows DEF PowerBase, SyncRead, SyncWrite, GoesIdle, ClaimEnds, ReservationEnds,
         RefreshBegin, RefreshRead, RefreshPublish, Boots, TaskEnds, PowerButton, vars
<1>2. ASSUME Shrinks, \A q \in Row : SameLease(row[q], row'[q])
      PROVE  row' \in [Row -> SoundRow] /\ Bound' /\ Exclusive'
  BY <1>1, <1>2, SameHolders, ShrinkHolds
<1>3. CASE QuietRows
  BY <1>2, <1>3 DEF QuietRows, Shrinks, SameLease, SameSlot, SameClaim
<1>4. ASSUME NEW p \in Row, SyncWrite(p)
      PROVE  row' \in [Row -> SoundRow] /\ Bound' /\ Exclusive'
  <2>1. sync[p].power \in Power /\ sync[p].at \in Stamp
    BY <1>1, <1>4 DEF SyncWrite, PowerTypeOK, Sync
  <2>2. OthersSame(p) /\ StatusWritten(row[p], row'[p], sync[p].power)
    BY <1>1, <1>4, <2>1, ReportRow DEF SyncWrite
  <2> QED
    BY <1>1, <1>2, <2>2, NoRunIsNone
       DEF Shrinks, OthersSame, StatusWritten, SameLease, SameSlot, SameClaim, EmptySlot
<1>5. ASSUME NEW p \in Row, ClaimEnds(p)
      PROVE  row' \in [Row -> SoundRow] /\ Bound' /\ Exclusive'
  BY <1>1, <1>2, <1>5, ClaimEndsRow DEF Shrinks, OthersSame, SameLease, SameSlot
<1>6. ASSUME NEW p \in Row, ReservationEnds(p)
      PROVE  row' \in [Row -> SoundRow] /\ Bound' /\ Exclusive'
  BY <1>1, <1>2, <1>6, ReservationEndsRow DEF Shrinks, OthersSame, SameLease, SameClaim
<1>7. ASSUME UNCHANGED row
      PROVE  QuietRows
  BY <1>1, <1>7, UnchangedRows
<1> QED
  BY <1>1, <1>3, <1>4, <1>5, <1>6, <1>7, GoesIdleRow, RefreshPublishRow
     DEF SyncRead, RefreshBegin, RefreshRead, Boots, TaskEnds, PowerButton, vars
-----------------------------------------------------------------------------
(* The tasks on a phone.                                                   *)

\* A run with a task stays submitting or running until the task is over, as
\* only a lookup that finds the task over, or none, ends such a run.
LEMMA RunTasks ==
  ASSUME PowerBase, NEW r \in Run,
         \/ AcquireNew(r) \/ AcquireExisting(r) \/ Dispatch(r) \/ Crash(r) \/ Reap(r)
         \/ ComesDue(r) \/ Closes(r)
  PROVE  TasksKnown'
<1> DEFINE i == ImageOfRun(r)
<1>1. PowerTypeOK /\ i \in Image
  BY Places DEF PowerBase
<1>2. \A j \in Image : image[j].tasks \subseteq Run
  BY <1>1 DEF PowerTypeOK, Phone
<1>3. \A t \in Run \ {r} : job'[t] = job[t]
  <2>1. job' = [job EXCEPT ![r] = job'[r]]
    BY <1>1
       DEF AcquireNew, AcquireExisting, Dispatch, Look, Record, Attempt, Wake, Mark, Wait,
           Confirm, Fence, Add, Check, Fail, PreparationFails, Release, Crash, Reap,
           ComesDue, Closes, Go, PowerTypeOK
  <2> QED
    BY <1>1, <2>1 DEF PowerTypeOK
<1>4. ASSUME \A j \in Image : image'[j].tasks = image[j].tasks,
             \A j \in Image : r \in image[j].tasks => job'[r].life \in {"submitting", "running"},
             At(r, {"look", "record", "attempt", "wake", "mark", "wait", "confirm",
                    "fence", "fail"})' => job'[r].life = "preparing",
             At(r, {"add"})' => job'[r].life = "submitting" /\ r \notin image[i].tasks,
             At(r, {"check"})' => job'[r].life \in {"submitting", "running"}
      PROVE  TasksKnown'
  <2>1. \A j \in Image : \A t \in image'[j].tasks :
          ImageOfRun(t) = j /\ job'[t].life \in {"submitting", "running"}
    BY <1>2, <1>3, <1>4 DEF PowerBase, TasksKnown
  <2>2. ASSUME NEW t \in Run
        PROVE  /\ At(t, {"look", "record", "attempt", "wake", "mark", "wait", "confirm",
                         "fence", "fail"})' => job'[t].life = "preparing"
               /\ At(t, {"add"})' => /\ job'[t].life = "submitting"
                                    /\ t \notin image'[ImageOfRun(t)].tasks
               /\ At(t, {"check"})' => job'[t].life \in {"submitting", "running"}
    <3>1. CASE t = r
      BY <1>1, <1>4, <3>1
    <3>2. CASE t # r
      BY <1>3, <1>4, <3>2, Places DEF PowerBase, TasksKnown, At
    <3> QED
      BY <3>1, <3>2
  <2> QED
    BY <2>1, <2>2 DEF TasksKnown
<1>5. \A j \in Image : r \in image[j].tasks => job[r].life \in {"submitting", "running"}
  BY DEF PowerBase, TasksKnown
<1>6. CASE AcquireNew(r)
  BY <1>1, <1>4, <1>5, <1>6 DEF AcquireNew, PowerTypeOK, Job, At
<1>7. CASE AcquireExisting(r)
  BY <1>1, <1>4, <1>5, <1>7 DEF AcquireExisting, Go, PowerTypeOK, Job, At
<1>8. CASE Look(r) \/ Attempt(r) \/ Mark(r)
  BY <1>1, <1>4, <1>5, <1>8 DEF Look, Attempt, Mark, Go, PowerTypeOK, Job, At, PowerBase, TasksKnown
<1>9. CASE Record(r)
  <2>1. PICK pc \in {"confirm", "attempt", "wait"} : Go(r, pc)
    BY <1>9 DEF Record
  <2> QED
    BY <1>1, <1>4, <1>5, <1>9, <2>1 DEF Record, Go, PowerTypeOK, Job, At, PowerBase, TasksKnown
<1>10. CASE Wake(r)
  <2>1. \A j \in Image : image'[j].tasks = image[j].tasks
    BY <1>1, <1>10 DEF Wake, PowerTypeOK, Phone
  <2> QED
    BY <1>1, <1>4, <1>5, <1>10, <2>1 DEF Wake, Go, PowerTypeOK, Job, At, PowerBase, TasksKnown
<1>11. CASE Wait(r) \/ Confirm(r) \/ Fence(r)
  <2>1. job[r].life = "preparing" /\ \A j \in Image : r \notin image[j].tasks
    BY <1>5, <1>11 DEF Wait, Confirm, Fence, At, PowerBase, TasksKnown
  <2> QED
    BY <1>1, <1>4, <1>11, <2>1 DEF Wait, Confirm, Fence, PowerTypeOK, Job, At
<1>12. CASE Add(r)
  <2>1. job[r].life = "submitting" /\ r \notin image[i].tasks
    BY <1>12 DEF Add, At, PowerBase, TasksKnown
  <2>2. \A j \in Image : r \notin image[j].tasks
    BY <2>1 DEF PowerBase, TasksKnown
  <2>3. /\ job'[r].pc = "release"
        /\ \/ image' = image
           \/ /\ \A j \in Image \ {i} : image'[j].tasks = image[j].tasks
              /\ image'[i].tasks = image[i].tasks \cup {r}
              /\ job'[r].life \in {"submitting", "running"}
    BY <1>1, <1>12, <2>1 DEF Add, Go, PowerTypeOK, Job, Phone
  <2>4. CASE image' = image
    BY <1>4, <2>2, <2>3, <2>4 DEF At
  <2>5. CASE image' # image
    <3>1. \A j \in Image : \A t \in image'[j].tasks :
            ImageOfRun(t) = j /\ job'[t].life \in {"submitting", "running"}
      BY <1>1, <1>2, <1>3, <2>2, <2>3, <2>5 DEF PowerBase, TasksKnown
    <3>2. ASSUME NEW t \in Run \ {r}
          PROVE  t \in image'[ImageOfRun(t)].tasks => t \in image[ImageOfRun(t)].tasks
      BY <1>1, <2>3, <2>5, Places
    <3> QED
      BY <1>3, <2>3, <3>1, <3>2 DEF PowerBase, TasksKnown, At
  <2> QED
    BY <2>4, <2>5
<1>13. CASE Check(r)
  <2>1. job[r].life \in {"submitting", "running"}
    BY <1>13 DEF Check, At, PowerBase, TasksKnown
  <2>2. \A j \in Image : r \in image[j].tasks => j = i
    BY DEF PowerBase, TasksKnown
  <2> QED
    BY <1>1, <1>4, <1>13, <2>1, <2>2 DEF Check, PowerTypeOK, Job, At
<1>14. CASE Fail(r) \/ PreparationFails(r)
  <2>1. job[r].life = "preparing" /\ \A j \in Image : r \notin image[j].tasks
    BY <1>5, <1>14 DEF Fail, PreparationFails, At, PowerBase, TasksKnown
  <2> QED
    BY <1>1, <1>4, <1>14, <2>1 DEF Fail, PreparationFails, Go, PowerTypeOK, Job, At
<1>15. CASE Release(r) \/ Crash(r)
  BY <1>1, <1>4, <1>5, <1>15 DEF Release, Crash, Go, PowerTypeOK, Job, At
<1>16. CASE Reap(r) \/ ComesDue(r) \/ Closes(r)
  <2>1. job'[r].pc = "idle" /\ (job'[r].life = job[r].life
          \/ job[r].life \notin {"submitting", "running"})
    BY <1>1, <1>16 DEF Reap, ComesDue, Closes, PowerTypeOK, Job
  <2> QED
    BY <1>1, <1>4, <1>5, <1>16, <2>1 DEF Reap, ComesDue, Closes, At
<1> QED
  BY <1>6, <1>7, <1>8, <1>9, <1>10, <1>11, <1>12, <1>13, <1>14, <1>15, <1>16 DEF Dispatch

\* Everything else leaves the runs alone and at most takes tasks away.
LEMMA OtherTasks ==
  ASSUME PowerBase, UNCHANGED job,
         \A i \in Image : image'[i].tasks \subseteq image[i].tasks
  PROVE  TasksKnown'
BY Places DEF PowerBase, TasksKnown, At

LEMMA TasksShrink ==
  ASSUME PowerBase,
         \/ \E s \in Sweeper : SweepStep(s) \/ SweepCrash(s) \/ \E p \in Row : SweepClaim(s, p)
         \/ \E p \in Row : SyncRead(p) \/ SyncWrite(p) \/ GoesIdle(p) \/ LeaseEnds(p)
                           \/ ClaimEnds(p) \/ ReservationEnds(p)
         \/ RefreshBegin \/ RefreshRead \/ RefreshPublish
         \/ \E i \in Image : Boots(i) \/ TaskEnds(i) \/ PowerButton(i)
         \/ UNCHANGED vars
  PROVE  UNCHANGED job /\ \A i \in Image : image'[i].tasks \subseteq image[i].tasks
<1> USE DEF PowerBase, PowerTypeOK
<1>1. CASE UNCHANGED <<job, image>>
  BY <1>1
<1>2. ASSUME NEW s \in Sweeper, SweepOff(s)
      PROVE  UNCHANGED job /\ \A i \in Image : image'[i].tasks \subseteq image[i].tasks
  BY <1>2 DEF SweepOff, Phone
<1>3. ASSUME NEW i \in Image, Boots(i)
      PROVE  UNCHANGED job /\ \A j \in Image : image'[j].tasks \subseteq image[j].tasks
  BY <1>3 DEF Boots, Phone
<1>4. ASSUME NEW i \in Image, TaskEnds(i)
      PROVE  UNCHANGED job /\ \A j \in Image : image'[j].tasks \subseteq image[j].tasks
  <2>1. PICK r \in image[i].tasks :
          image' = [image EXCEPT ![i].tasks = @ \ {r}, ![i].done = @ \cup {r}]
    BY <1>4 DEF TaskEnds
  <2> QED
    BY <1>4, <2>1 DEF TaskEnds, Phone
<1>5. ASSUME NEW i \in Image, PowerButton(i)
      PROVE  UNCHANGED job /\ \A j \in Image : image'[j].tasks \subseteq image[j].tasks
  <2>1. CASE image[i].power = "off"
    BY <1>5, <2>1 DEF PowerButton, Phone
  <2>2. CASE image[i].power # "off"
    BY <1>5, <2>2 DEF PowerButton, Phone
  <2> QED
    BY <2>1, <2>2
<1> QED
  BY <1>1, <1>2, <1>3, <1>4, <1>5
     DEF SweepStep, SweepInspect, SweepConsume, SweepComplete, SweepRelease, SweepCrash,
         SweepClaim, SyncRead, SyncWrite, GoesIdle, LeaseEnds, ClaimEnds, ReservationEnds,
         RefreshBegin, RefreshRead, RefreshPublish, vars
-----------------------------------------------------------------------------
LEMMA InitBase == Init => PowerBase
<1> SUFFICES ASSUME Init PROVE PowerBase
  OBVIOUS
<1>1. NewRow \in SoundRow
  BY PowerAssumption DEF PowerAssumption, NewRow, SoundRow, PhoneRow, Power, Stamp
<1>2. row \in [Row -> SoundRow] /\ \A p \in Row : row[p] = NewRow
  BY <1>1 DEF Init
<1>3. OtherTypes
  <2>1. Cardinality(Image) \in Nat
    BY PowerAssumption, FS_CardinalityType DEF PowerAssumption
  <2>2. pool \in Pool
    BY <2>1 DEF Init, Pool
  <2>3. job \in [Run -> Job] /\ sweep \in [Sweeper -> Sweep]
    BY DEF Init, Job, Life, JobPc, Power, NoSweep, Sweep, SweepPc
  <2>4. sync \in [Row -> Sync] /\ image \in [Image -> Phone] /\ asked \in [Image -> Nat]
    BY DEF Init, Sync, Phone, Actual, Power
  <2>5. faults \in 0 .. MaxFaults
    BY PowerAssumption DEF Init, PowerAssumption
  <2> QED
    BY <2>2, <2>3, <2>4, <2>5 DEF OtherTypes
<1>4. \A r \in Run : job[r].pc = "idle"
  BY DEF Init
<1>5. \A s \in Sweeper : sweep[s].pc = "idle"
  BY DEF Init, NoSweep
<1>6. Bound /\ Exclusive
  BY <1>2, <1>4, <1>5, NoRunIsNone DEF Bound, Exclusive, NewRow
<1>7. TasksKnown
  BY <1>4 DEF TasksKnown, At, Init
<1> QED
  BY <1>2, <1>3, <1>6, <1>7, TypeParts DEF PowerBase

LEMMA StepBase == PowerBase /\ [Next]_vars => PowerBase'
<1> SUFFICES ASSUME PowerBase, [Next]_vars PROVE PowerBase'
  OBVIOUS
<1>1. PowerTypeOK
  BY DEF PowerBase
<1>2. ASSUME row' \in [Row -> SoundRow] /\ Bound' /\ Exclusive', TasksKnown', OtherTypes'
      PROVE  PowerBase'
  BY <1>2 DEF PowerBase, PowerTypeOK, OtherTypes, SoundRow
<1>3. ASSUME NEW r \in Run,
             \/ AcquireNew(r) \/ AcquireExisting(r) \/ Dispatch(r) \/ Crash(r) \/ Reap(r)
             \/ ComesDue(r) \/ Closes(r)
      PROVE  PowerBase'
  <2>1. row' \in [Row -> SoundRow] /\ Bound' /\ Exclusive'
    BY <1>3, AcquireHolds, WorkHolds, DropHolds DEF Dispatch
  <2>2. /\ UNCHANGED <<pool, sync>>
        /\ NoFault \/ \E kind : Fault(kind)
        /\ UNCHANGED sweep
    BY <1>3 DEF AcquireNew, AcquireExisting, Dispatch, Look, Record, Attempt, Wake, Mark,
                Wait, Confirm, Fence, Add, Check, Fail, PreparationFails, Release, Crash,
                Reap, ComesDue, Closes
  <2>3. OtherTypes'
    BY <1>1, <1>3, <2>2, RunTypes, FaultTypes DEF OtherTypes, PowerTypeOK
  <2> QED
    BY <1>2, <1>3, <2>1, <2>3, RunTasks
<1>4. ASSUME NEW s \in Sweeper,
             SweepStep(s) \/ SweepCrash(s) \/ \E p \in Row : SweepClaim(s, p)
      PROVE  PowerBase'
  <2>1. row' \in [Row -> SoundRow] /\ Bound' /\ Exclusive'
    BY <1>4, SweepHolds, ClaimHolds
  <2>2. UNCHANGED <<pool, sync, job>> /\ (NoFault \/ \E kind : Fault(kind))
    BY <1>4 DEF SweepStep, SweepInspect, SweepConsume, SweepOff, SweepComplete,
                SweepRelease, SweepCrash, SweepClaim
  <2>3. sweep' \in [Sweeper -> Sweep] /\ image' \in [Image -> Phone] /\ asked' \in [Image -> Nat]
    BY <1>1, <1>4, SweepTypes DEF PowerBase, Bound, SweepAt
  <2>4. OtherTypes'
    BY <1>1, <2>2, <2>3, FaultTypes DEF OtherTypes, PowerTypeOK
  <2>5. TasksKnown'
    BY <1>4, TasksShrink, OtherTasks
  <2> QED
    BY <1>2, <2>1, <2>4, <2>5
<1>5. ASSUME \/ \E p \in Row : SyncRead(p) \/ SyncWrite(p) \/ GoesIdle(p) \/ LeaseEnds(p)
                               \/ ClaimEnds(p) \/ ReservationEnds(p)
             \/ RefreshBegin \/ RefreshRead \/ RefreshPublish
             \/ \E i \in Image : Boots(i) \/ TaskEnds(i) \/ PowerButton(i)
             \/ UNCHANGED vars
      PROVE  PowerBase'
  <2>1. row' \in [Row -> SoundRow] /\ Bound' /\ Exclusive'
    BY <1>5, WorldHolds, DropHolds
  <2>2. UNCHANGED <<job, sweep>> /\ (NoFault \/ \E kind : Fault(kind))
    BY <1>5 DEF SyncRead, SyncWrite, GoesIdle, LeaseEnds, ClaimEnds, ReservationEnds,
                RefreshBegin, RefreshRead, RefreshPublish, Boots, TaskEnds, PowerButton,
                NoFault, vars
  <2>3. sync' \in [Row -> Sync] /\ pool' \in Pool
    <3>1. \/ \E p \in Row : SyncRead(p) \/ SyncWrite(p)
          \/ RefreshBegin \/ RefreshRead \/ RefreshPublish
          \/ UNCHANGED <<sync, pool>>
      BY <1>5 DEF GoesIdle, LeaseEnds, ClaimEnds, ReservationEnds, Boots, TaskEnds,
                  PowerButton, vars
    <3> QED
      BY <1>1, <3>1, SourceTypes DEF PowerTypeOK
  <2>4. image' \in [Image -> Phone] /\ asked' \in [Image -> Nat]
    <3>1. \/ \E i \in Image : Boots(i) \/ TaskEnds(i) \/ PowerButton(i)
          \/ UNCHANGED <<image, asked>>
      BY <1>5 DEF SyncRead, SyncWrite, GoesIdle, LeaseEnds, ClaimEnds, ReservationEnds,
                  RefreshBegin, RefreshRead, RefreshPublish, vars
    <3> QED
      BY <1>1, <3>1, WorldTypes DEF PowerTypeOK
  <2>5. OtherTypes'
    BY <1>1, <2>2, <2>3, <2>4, FaultTypes DEF OtherTypes, PowerTypeOK
  <2>6. TasksKnown'
    BY <1>5, TasksShrink, OtherTasks
  <2> QED
    BY <1>2, <2>1, <2>5, <2>6
<1> QED
  BY <1>3, <1>4, <1>5 DEF Next

\* Every variable stays in its type, whatever the environment does.
THEOREM PowerTypeCorrect == Spec => []PowerTypeOK
<1>1. PowerBase => PowerTypeOK
  BY DEF PowerBase
<1> QED
  BY <1>1, InitBase, StepBase, PTL DEF Spec
-----------------------------------------------------------------------------
(* What one process leaves alone.                                          *)

RunStep(r) ==
  \/ AcquireNew(r) \/ AcquireExisting(r) \/ Dispatch(r) \/ Crash(r) \/ Reap(r)
  \/ ComesDue(r) \/ Closes(r)

LEMMA RunFrame ==
  ASSUME PowerBase, NEW r \in Run, RunStep(r)
  PROVE  /\ OthersSame(RowOf[r])
         /\ SameClaim(row[RowOf[r]], row'[RowOf[r]]) \/ row[RowOf[r]].live
         /\ row'[RowOf[r]].offLive => row[RowOf[r]].offLive
         /\ \A t \in Run \ {r} : job'[t] = job[t]
         /\ UNCHANGED <<pool, sweep, sync>>
<1> DEFINE p == RowOf[r]
<1>1. PowerTypeOK /\ p \in Row /\ row \in [Row -> SoundRow]
  BY Places, SoundRows DEF PowerBase
<1>2. /\ \A t \in Run \ {r} : job'[t] = job[t]
      /\ UNCHANGED <<pool, sweep, sync>>
  <2>1. job' = [job EXCEPT ![r] = job'[r]] /\ UNCHANGED <<pool, sweep, sync>>
    BY <1>1
       DEF RunStep, AcquireNew, AcquireExisting, Dispatch, Look, Record, Attempt, Wake, Mark,
           Wait, Confirm, Fence, Add, Check, Fail, PreparationFails, Release, Crash, Reap,
           ComesDue, Closes, Go, PowerTypeOK
  <2> QED
    BY <1>1, <2>1 DEF PowerTypeOK
<1>3. /\ OthersSame(p)
      /\ SameClaim(row[p], row'[p]) \/ row[p].live
      /\ row'[p].offLive => row[p].offLive
  <2>1. CASE UNCHANGED row
    BY <1>1, <2>1 DEF OthersSame, SameClaim
  <2>2. CASE AcquireNew(r) \/ AcquireExisting(r)
    BY <1>1, <2>2, AcquireNewRow, AcquireExistingRow DEF SameClaim
  <2>3. CASE Record(r) /\ row' # row
    <3>1. /\ job[r].seen \in Power /\ Now \in Stamp
          /\ row' = [row EXCEPT ![p] = [WithStatus(@, job[r].seen) EXCEPT !.seenAt = Now]]
      BY <1>1, <2>3, NowIsStamp DEF Record, PowerTypeOK, Job
    <3>2. OthersSame(p) /\ StatusWritten(row[p], row'[p], job[r].seen)
      BY <1>1, <3>1, ReportRow
    <3>3. row[p].live
      BY <2>3 DEF Record, PowerBase, Bound
    <3> QED
      BY <3>2, <3>3 DEF StatusWritten, SameClaim
  <2>4. CASE Attempt(r) /\ row' # row
    BY <1>1, <2>4, AttemptRow DEF SameClaim
  <2>5. CASE Mark(r) /\ row' # row
    <3>1. row[p].live
      BY <2>5 DEF Mark, PowerBase, Bound
    <3> QED
      BY <1>1, <2>5, <3>1, MarkRow
  <2>6. CASE Confirm(r) /\ row' # row
    BY <1>1, <2>6, ConfirmRow DEF SameClaim
  <2>7. CASE (Release(r) \/ Reap(r)) /\ row' # row
    BY <1>1, <2>7, ReleaseRow, ReapRow DEF LeaseDropped, SameClaim
  <2> QED
    BY <2>1, <2>2, <2>3, <2>4, <2>5, <2>6, <2>7
       DEF RunStep, Dispatch, Look, Wake, Wait, Fence, Add, Check, Fail, PreparationFails,
           Crash, ComesDue, Closes
<1> QED
  BY <1>2, <1>3

LEMMA SweepFrame ==
  ASSUME PowerBase, NEW s \in Sweeper, SweepStep(s) \/ SweepCrash(s)
  PROVE  /\ UNCHANGED <<pool, job, sync>>
         /\ \A t \in Sweeper \ {s} : sweep'[t] = sweep[t]
         /\ sweep[s].row \in Row
         /\ sweep'[s] = NoSweep \/ sweep'[s].row = sweep[s].row
<1>1. UNCHANGED <<pool, job, sync>> /\ sweep[s].row \in Row
  BY DEF SweepStep, SweepInspect, SweepConsume, SweepOff, SweepComplete, SweepRelease,
         SweepCrash, PowerBase, Bound
<1>2. \/ \E pc : SweepGo(s, pc)
      \/ sweep' = [sweep EXCEPT ![s] = NoSweep]
  BY DEF SweepStep, SweepInspect, SweepConsume, SweepOff, SweepComplete,
         SweepRelease, SweepCrash
<1>3. /\ \A t \in Sweeper \ {s} : sweep'[t] = sweep[t]
      /\ sweep'[s] = NoSweep \/ sweep'[s].row = sweep[s].row
  BY <1>2 DEF SweepGo, PowerBase, PowerTypeOK, Sweep
<1> QED
  BY <1>1, <1>3

\* The steps that concern neither a run nor a sweep.
WorldStep ==
  \/ \E p \in Row : SyncRead(p) \/ SyncWrite(p) \/ GoesIdle(p) \/ LeaseEnds(p)
                    \/ ClaimEnds(p) \/ ReservationEnds(p)
  \/ RefreshBegin \/ RefreshRead \/ RefreshPublish
  \/ \E i \in Image : Boots(i) \/ TaskEnds(i) \/ PowerButton(i)
  \/ UNCHANGED vars

LEMMA WorldFrame == WorldStep => UNCHANGED <<job, sweep>>
BY DEF WorldStep, SyncRead, SyncWrite, GoesIdle, LeaseEnds, ClaimEnds, ReservationEnds,
       RefreshBegin, RefreshRead, RefreshPublish, Boots, TaskEnds, PowerButton, vars

LEMMA StepKinds ==
  ASSUME [Next]_vars
  PROVE  \/ \E r \in Run : RunStep(r)
         \/ \E s \in Sweeper : \/ SweepStep(s) \/ SweepCrash(s)
                               \/ \E p \in Row : SweepClaim(s, p)
         \/ WorldStep
BY DEF Next, RunStep, WorldStep

-----------------------------------------------------------------------------
(* The claims of sweeps.                                                   *)

ClaimStates == {"off", "complete", "abandon"}

\* Two sweeps never hold claims on one phone.
LEMMA OneClaimant ==
  ASSUME PowerBase, NEW s \in Sweeper, NEW t \in Sweeper, Claims(s), Claims(t),
         sweep[s].row \in Row, sweep[t].row \in Row, Mates(sweep[s].row, sweep[t].row)
  PROVE  s = t
BY DEF PowerBase, Exclusive, Claims

\* Only a report that the phone is off takes the claim of a sweep that has
\* consumed the ownership, while the sweep waits.
LEMMA ClaimStays ==
  ASSUME PowerBase, [Next]_vars, NEW s \in Sweeper, SweepAt(s, ClaimStates), Claims(s),
         sweep'[s] = sweep[s], sync[sweep[s].row].power # "off"
  PROVE  Claims(s)'
<1> DEFINE p == sweep[s].row
<1>1. PowerTypeOK /\ row \in [Row -> SoundRow] /\ p \in Row
  BY SoundRows DEF PowerBase, Bound, SweepAt, ClaimStates
<1>2. row[p].off = s /\ row[p].offLive /\ ~row[p].live
  BY <1>1 DEF Claims, PowerBase, Exclusive, Mates
<1>3. SUFFICES SameClaim(row[p], row'[p])
  BY <1>2 DEF Claims, SameClaim
<1>4. ASSUME NEW r \in Run, RunStep(r)
      PROVE  SameClaim(row[p], row'[p])
  BY <1>1, <1>2, <1>4, RunFrame DEF OthersSame, SameClaim
<1>5. ASSUME NEW t \in Sweeper, SweepStep(t) \/ SweepCrash(t)
      PROVE  SameClaim(row[p], row'[p])
  <2>1. t # s
    BY <1>1, <1>5
       DEF SweepStep, SweepInspect, SweepConsume, SweepOff, SweepComplete, SweepRelease,
           SweepCrash, SweepGo, SweepAt, ClaimStates, NoSweep, PowerTypeOK, Sweep
  <2>2. sweep[t].row \in Row
    BY <1>5, SweepFrame
  <2>3. Claims(t) => ~Mates(sweep[t].row, p)
    BY <1>1, <2>1, <2>2, OneClaimant DEF Mates
  <2>4. CASE UNCHANGED row
    BY <2>4 DEF SameClaim
  <2>5. CASE SweepComplete(t)
    BY <1>1, <2>3, <2>4, <2>5, SweepCompleteRow DEF PhoneReset, SameClaim, Mates
  <2>6. CASE (SweepConsume(t) \/ SweepRelease(t)) /\ row' # row
    <3>1. Claims(t) /\ sweep[t].row # p
      BY <1>2, <2>1, <2>6 DEF SweepConsume, Consumable, SweepRelease, Claims
    <3>2. \/ row' = [row EXCEPT ![sweep[t].row] = Unowned(@)]
          \/ row' = [row EXCEPT ![sweep[t].row] = NoClaim(@)]
      BY <2>6 DEF SweepConsume, Consumed, SweepRelease
    <3> QED
      BY <1>1, <2>2, <3>1, <3>2, UnownedRow, NoClaimRow DEF OthersSame, SameClaim
  <2> QED
    BY <1>5, <2>4, <2>5, <2>6 DEF SweepStep, SweepInspect, SweepOff, SweepCrash
<1>6. ASSUME NEW t \in Sweeper, NEW q \in Row, SweepClaim(t, q)
      PROVE  SameClaim(row[p], row'[p])
  <2>1. q # p
    BY <1>2, <1>6 DEF SweepClaim
  <2> QED
    BY <1>1, <1>6, <2>1, SweepClaimRow DEF OthersSame, SameClaim
<1>7. CASE WorldStep
  <2>1. CASE QuietRows
    BY <1>1, <2>1 DEF QuietRows
  <2>2. ASSUME NEW q \in Row, LeaseEnds(q) \/ ReservationEnds(q)
        PROVE  SameClaim(row[p], row'[p])
    BY <1>1, <2>2, LeaseEndsRow, ReservationEndsRow DEF LeaseDropped, OthersSame, SameClaim
  <2>3. ASSUME NEW q \in Row, ClaimEnds(q)
        PROVE  SameClaim(row[p], row'[p])
    <3>1. q # p
      BY <1>2, <2>3 DEF ClaimEnds, SweepAt, ClaimStates
    <3> QED
      BY <1>1, <2>3, <3>1, ClaimEndsRow DEF OthersSame, SameClaim
  <2>4. ASSUME NEW q \in Row, SyncWrite(q)
        PROVE  SameClaim(row[p], row'[p])
    BY <1>1, <2>4, SyncWriteRow DEF OthersSame, StatusWritten, SameClaim
  <2>5. UNCHANGED row => QuietRows
    BY <1>1, UnchangedRows
  <2> QED
    BY <1>1, <1>7, <2>1, <2>2, <2>3, <2>4, <2>5, GoesIdleRow, RefreshPublishRow
       DEF WorldStep, SyncRead, RefreshBegin, RefreshRead, Boots, TaskEnds, PowerButton, vars
<1> QED
  BY <1>4, <1>5, <1>6, <1>7, StepKinds

\* While a sweep holds its claim, no run starts work on the phone.
LEMMA StaysAway ==
  ASSUME PowerBase, [Next]_vars, NEW s \in Sweeper, Claims(s), sweep[s].row \in Row,
         NEW r \in Run, ImageOfRun(r) = ImageOf[sweep[s].row], ~Occupies(r)
  PROVE  ~Occupies(r)'
<1>1. row[sweep[s].row].offLive /\ PowerTypeOK /\ RowOf[r] \in Row
  BY Places DEF Claims, PowerBase
<1>2. ~RunStep(r) => job'[r] = job[r]
  BY StepKinds, RunFrame, SweepFrame, WorldFrame DEF SweepClaim
<1>3. CASE RunStep(r)
  <2>1. ~PhoneFree(r)
    BY <1>1, Places DEF PhoneFree
  <2>2. job[r].pc = "idle"
    BY <1>1 DEF PowerBase, Bound, Exclusive, Mates, ImageOfRun
  <2>3. ~Dispatch(r) /\ ~Crash(r) /\ ~AcquireNew(r) /\ ~AcquireExisting(r)
    BY <2>1, <2>2
       DEF Dispatch, Look, Record, Attempt, Wake, Mark, Wait, Confirm, Fence, Add, Check,
           Fail, PreparationFails, Release, Crash, AcquireNew, AcquireExisting
  <2>4. job'[r].life \in {job[r].life, "soon", "closed"}
    BY <1>1, <1>3, <2>3 DEF RunStep, Reap, ComesDue, Closes, PowerTypeOK, Job
  <2> QED
    BY <2>4 DEF Occupies
<1> QED
  BY <1>2, <1>3 DEF Occupies

\* Who moves which sweep.
LEMMA SweepMoves ==
  ASSUME PowerBase, [Next]_vars, NEW s \in Sweeper, sweep'[s] # sweep[s]
  PROVE  SweepStep(s) \/ SweepCrash(s) \/ \E p \in Row : SweepClaim(s, p)
<1>1. ASSUME NEW t \in Sweeper \ {s}, NEW p \in Row, SweepClaim(t, p)
      PROVE  FALSE
  BY <1>1 DEF SweepClaim, PowerBase, PowerTypeOK
<1> QED
  BY <1>1, StepKinds, RunFrame, SweepFrame, WorldFrame

\* A sweep gets to its powerOff call by consuming the ownership.
LEMMA NowOff ==
  ASSUME PowerBase, [Next]_vars, NEW s \in Sweeper, SweepAt(s, {"off"})'
  PROVE  \/ sweep'[s] = sweep[s] /\ ~SweepOff(s)
         \/ /\ SweepConsume(s) /\ Consumable(s)
            /\ row' = [row EXCEPT ![sweep[s].row] = Unowned(@)]
            /\ sweep'[s].row = sweep[s].row /\ sweep[s].row \in Row
<1>1. PowerTypeOK /\ sweep'[s].pc = "off"
  BY DEF PowerBase, SweepAt
<1>2. CASE SweepStep(s) \/ SweepCrash(s)
  <2>1. SweepConsume(s) /\ Consumable(s)
    BY <1>1, <1>2
       DEF SweepStep, SweepInspect, SweepConsume, SweepOff, SweepComplete, SweepRelease,
           SweepCrash, SweepGo, NoSweep, PowerTypeOK, Sweep
  <2>2. row' = [row EXCEPT ![sweep[s].row] = Unowned(@)]
    BY <2>1 DEF SweepConsume, Consumed
  <2> QED
    BY <1>1, <1>2, <2>1, <2>2, SweepFrame DEF NoSweep
<1>3. ASSUME NEW p \in Row, SweepClaim(s, p)
      PROVE  FALSE
  BY <1>1, <1>3 DEF SweepClaim, PowerTypeOK, Sweep
<1>4. CASE ~(SweepStep(s) \/ SweepCrash(s)) /\ \A p \in Row : ~SweepClaim(s, p)
  <2>1. sweep'[s] = sweep[s]
    BY <1>4, SweepMoves
  <2> QED
    BY <1>4, <2>1 DEF SweepStep
<1> QED
  BY <1>2, <1>3, <1>4

\* The consumption finds the claim in force and no run of the phone at work.
LEMMA ConsumedAlone ==
  ASSUME PowerBase, NEW s \in Sweeper, SweepConsume(s), Consumable(s),
         sweep[s].row \in Row, sweep'[s].row = sweep[s].row,
         row' = [row EXCEPT ![sweep[s].row] = Unowned(@)]
  PROVE  /\ Claims(s)'
         /\ \A r \in Run : ImageOfRun(r) = ImageOf[sweep[s].row] => ~Occupies(r)'
<1> DEFINE p == sweep[s].row
<1>1. SameClaim(row[p], row'[p])
  BY UnownedRow DEF PowerBase
<1>2. Claims(s)'
  BY <1>1 DEF Consumable, Claims, SameClaim
<1>3. \A r \in Run : ImageOfRun(r) = ImageOf[p] => ~Occupies(r)
  BY Places DEF Consumable, ProtectedWork, Protects, Occupies, ImageOfRun
<1> QED
  BY <1>2, <1>3 DEF SweepConsume, Occupies

LEMMA StepOffClaimed ==
  ASSUME PowerBase, OffClaimed, [Next]_vars,
         \A s \in Sweeper : SweepAt(s, {"off"}) => sync[sweep[s].row].power # "off"
  PROVE  OffClaimed'
<1> SUFFICES ASSUME NEW s \in Sweeper, SweepAt(s, {"off"})'
             PROVE  /\ Claims(s)'
                    /\ \A r \in Run : ImageOfRun(r) = ImageOf[sweep'[s].row] => ~Occupies(r)'
  BY DEF OffClaimed
<1>1. CASE sweep'[s] = sweep[s]
  <2>1. SweepAt(s, {"off"}) /\ SweepAt(s, ClaimStates)
    BY <1>1 DEF SweepAt, ClaimStates
  <2>2. Claims(s) /\ sweep[s].row \in Row
    BY <2>1 DEF OffClaimed, PowerBase, Bound, SweepAt
  <2>3. Claims(s)'
    BY <1>1, <2>1, <2>2, ClaimStays
  <2>4. \A r \in Run : ImageOfRun(r) = ImageOf[sweep[s].row] => ~Occupies(r)'
    BY <2>1, <2>2, StaysAway DEF OffClaimed
  <2> QED
    BY <1>1, <2>3, <2>4
<1>2. CASE /\ SweepConsume(s) /\ Consumable(s)
           /\ row' = [row EXCEPT ![sweep[s].row] = Unowned(@)]
           /\ sweep'[s].row = sweep[s].row /\ sweep[s].row \in Row
  BY <1>2, ConsumedAlone
<1> QED
  BY <1>1, <1>2, NowOff

\* Without inventory syncs.
LEMMA StepClaims ==
  ASSUME PowerBase, ClaimsKept, NoSyncs, [Next]_vars
  PROVE  ClaimsKept'
<1>1. PowerTypeOK /\ \A p \in Row : sync[p].power # "off"
  BY DEF PowerBase, ClaimsKept, NoSync
<1>2. \A s \in Sweeper : sweep[s].pc # "idle" => sync[sweep[s].row].power # "off"
  BY <1>1 DEF PowerBase, Bound
<1>3. OffClaimed'
  BY <1>2, StepOffClaimed DEF ClaimsKept, SweepAt
<1>4. \A p \in Row : sync'[p] = NoSync
  <2>1. CASE UNCHANGED sync
    BY <2>1 DEF ClaimsKept
  <2>2. CASE RefreshPublish
    <3>1. [NoSync EXCEPT !.at = Dated(@)] = NoSync
      BY DEF NoSync, Dated
    <3> QED
      BY <2>2, <3>1 DEF RefreshPublish, ClaimsKept
  <2>3. \A p \in Row : ~SyncRead(p) /\ ~SyncWrite(p)
    BY DEF SyncRead, SyncWrite, Fault, NoSyncs, ClaimsKept
  <2> QED
    BY <2>1, <2>2, <2>3, StepKinds, RunFrame, SweepFrame
       DEF SweepClaim, WorldStep, GoesIdle, LeaseEnds, ClaimEnds, ReservationEnds,
           RefreshBegin, RefreshRead, Boots, TaskEnds, PowerButton, vars
<1>5. ASSUME NEW s \in Sweeper, SweepAt(s, {"complete", "abandon"})'
      PROVE  Claims(s)'
  <2>1. CASE sweep'[s] = sweep[s]
    <3>1. SweepAt(s, ClaimStates) /\ Claims(s) /\ sweep[s].pc # "idle"
      BY <1>5, <2>1 DEF SweepAt, ClaimStates, ClaimsKept
    <3> QED
      BY <1>2, <2>1, <3>1, ClaimStays
  <2>2. CASE SweepStep(s) \/ SweepCrash(s)
    <3>1. SweepOff(s) \/ (SweepComplete(s) /\ sweep[s].pc = "complete")
      BY <1>1, <1>5, <2>2
         DEF SweepStep, SweepInspect, SweepConsume, SweepOff, SweepComplete, SweepRelease,
             SweepCrash, SweepGo, NoSweep, SweepAt, PowerTypeOK, Sweep
    <3>2. Claims(s) /\ sweep'[s] # NoSweep
      BY <1>5, <3>1 DEF ClaimsKept, SweepOff, SweepAt, NoSweep
    <3>3. UNCHANGED row
      BY <1>1, <3>1, <3>2, SweepCompleteRow DEF SweepOff, PowerTypeOK
    <3> QED
      BY <2>2, <3>2, <3>3, SweepFrame DEF Claims
  <2>3. ASSUME NEW p \in Row, SweepClaim(s, p)
        PROVE  FALSE
    BY <1>1, <1>5, <2>3 DEF SweepClaim, SweepAt, PowerTypeOK, Sweep
  <2> QED
    BY <2>1, <2>2, <2>3, SweepMoves
<1> QED
  BY <1>3, <1>4, <1>5 DEF ClaimsKept, OffClaimed, SweepAt

\* A task belongs to a run that is at work, so a claim keeps the phone clear.
LEMMA NoTasksAtOff ==
  ASSUME PowerBase, OffClaimed, NEW s \in Sweeper, SweepAt(s, {"off"})
  PROVE  image[ImageOf[sweep[s].row]].tasks = {}
<1> SUFFICES ASSUME NEW r \in image[ImageOf[sweep[s].row]].tasks PROVE FALSE
  OBVIOUS
<1>1. sweep[s].row \in Row /\ ImageOf[sweep[s].row] \in Image
  BY Places DEF PowerBase, Bound, SweepAt
<1>2. r \in Run
  BY <1>1 DEF PowerBase, PowerTypeOK, Phone
<1>3. ImageOfRun(r) = ImageOf[sweep[s].row] /\ job[r].life \in {"submitting", "running"}
  BY <1>1 DEF PowerBase, TasksKnown
<1> QED
  BY <1>2, <1>3 DEF OffClaimed, Occupies

-----------------------------------------------------------------------------
(* Without inventory syncs: the marker of a phone asked to start.          *)

\* Two workers are never on one phone.
LEMMA OneWorker ==
  ASSUME PowerBase, NEW r \in Run, NEW t \in Run, ImageOfRun(r) = ImageOfRun(t),
         job[r].pc # "idle", job[t].pc # "idle"
  PROVE  r = t
BY Places DEF PowerBase, Bound, Exclusive, Mates, ImageOfRun

\* While a worker is on a phone, other runs write none of its rows' columns
\* but a lease that ran out.
LEMMA OthersAway ==
  ASSUME PowerBase, NEW r \in Run, RunStep(r), NEW t \in Run \ {r}, job[t].pc # "idle",
         ImageOfRun(r) = ImageOfRun(t)
  PROVE  /\ UNCHANGED row \/ (OthersSame(RowOf[r]) /\ LeaseDropped(row[RowOf[r]], row'[RowOf[r]])
                              /\ RowOf[r] # RowOf[t])
         /\ job'[r].pc = "idle" /\ UNCHANGED <<image, asked>>
<1>1. job[r].pc = "idle" /\ PowerTypeOK /\ RowOf[r] \in Row /\ RowOf[t] \in Row
  BY OneWorker, Places DEF PowerBase
<1>2. row[RowOf[t]].live /\ row[RowOf[t]].lease = t
  BY DEF PowerBase, Bound
<1>3. ~AcquireNew(r) /\ ~AcquireExisting(r)
  BY <1>1, <1>2, Places DEF AcquireNew, AcquireExisting, PhoneFree, ImageOfRun
<1>4. Reap(r) \/ ComesDue(r) \/ Closes(r)
  BY <1>1, <1>3
     DEF RunStep, Dispatch, Look, Record, Attempt, Wake, Mark, Wait, Confirm, Fence, Add,
         Check, Fail, PreparationFails, Release, Crash
<1>5. job'[r].pc = "idle" /\ UNCHANGED <<image, asked>>
  BY <1>1, <1>4 DEF Reap, ComesDue, Closes, PowerTypeOK, Job
<1>6. CASE Reap(r)
  BY <1>1, <1>2, <1>5, <1>6, ReapRow DEF Reap
<1> QED
  BY <1>4, <1>5, <1>6 DEF ComesDue, Closes

\* A report by the phone's worker.
LEMMA RecordRow ==
  ASSUME PowerBase, NEW r \in Run, Record(r)
  PROVE  \/ UNCHANGED row
         \/ /\ OthersSame(RowOf[r])
            /\ StatusWritten(row[RowOf[r]], row'[RowOf[r]], job[r].seen)
<1>1. PowerTypeOK /\ job[r].seen \in Power /\ RowOf[r] \in Row
  BY Places DEF PowerBase, PowerTypeOK, Job
<1> QED
  BY <1>1, ReportRow, NowIsStamp DEF Record

\* No sweep resets a phone with a lease or a reservation.
LEMMA ResetIdle ==
  ASSUME PowerBase, NEW s \in Sweeper, Claims(s), sweep[s].row \in Row, NEW q \in Row,
         Mates(sweep[s].row, q)
  PROVE  ~row[q].live /\ ~row[q].held
BY DEF PowerBase, Exclusive, Claims

\* The columns of a row a sweep writes, but for the confirmed shutdown.
LEMMA SweepRows ==
  ASSUME PowerBase, NEW s \in Sweeper, SweepStep(s) \/ SweepCrash(s)
  PROVE  \/ Claims(s) /\ SweepComplete(s) /\ PhoneReset(ImageOf[sweep[s].row])
         \/ /\ \A q \in Row : /\ row'[q].status = row[q].status
                              /\ SameSlot(row[q], row'[q]) /\ SameLease(row[q], row'[q])
                              /\ row'[q].power \in {row[q].power, "none"}
            /\ \A q \in Row \ {sweep[s].row} : row'[q] = row[q]
<1>1. PowerTypeOK /\ sweep[s].row \in Row
  BY SweepFrame DEF PowerBase
<1>2. CASE UNCHANGED row
  BY <1>2 DEF SameSlot, SameLease
<1>3. CASE SweepComplete(s)
  BY <1>1, <1>2, <1>3, SweepCompleteRow
<1>4. CASE SweepConsume(s) \/ SweepRelease(s)
  <2>1. \/ UNCHANGED row
        \/ row' = [row EXCEPT ![sweep[s].row] = Unowned(@)]
        \/ row' = [row EXCEPT ![sweep[s].row] = NoClaim(@)]
    BY <1>4 DEF SweepConsume, Consumed, SweepRelease
  <2>2. CASE row' = [row EXCEPT ![sweep[s].row] = Unowned(@)]
    BY <1>1, <2>2, UnownedRow DEF OthersSame, SameSlot, SameLease
  <2>3. CASE row' = [row EXCEPT ![sweep[s].row] = NoClaim(@)]
    BY <1>1, <2>3, NoClaimRow DEF OthersSame, SameSlot, SameLease, SamePower
  <2> QED
    BY <1>2, <2>1, <2>2, <2>3
<1> QED
  BY <1>2, <1>3, <1>4 DEF SweepStep, SweepInspect, SweepOff, SweepCrash

\* The columns the world writes, inventory syncs apart.
LEMMA WorldRows ==
  ASSUME PowerBase, ClaimsKept, NoSyncs, WorldStep
  PROVE  /\ \A q \in Row : row'[q].status = row[q].status /\ SamePower(row[q], row'[q])
         /\ \/ \A q \in Row : SameSlot(row[q], row'[q])
            \/ \E p \in Row :
                 /\ OthersSame(p) /\ ReservationEnds(p) /\ ~row[p].live /\ ~row'[p].held
                 /\ row'[p].slot = row[p].slot /\ row'[p].tried = row[p].tried
<1>1. PowerTypeOK /\ row \in [Row -> SoundRow]
  BY SoundRows DEF PowerBase
<1>2. \A p \in Row : ~SyncWrite(p)
  BY DEF SyncWrite, ClaimsKept
<1>3. CASE UNCHANGED row
  BY <1>3 DEF SamePower, SameSlot
<1>4. CASE QuietRows
  BY <1>4 DEF QuietRows
<1>5. ASSUME NEW p \in Row, LeaseEnds(p)
      PROVE  \A q \in Row : /\ row'[q].status = row[q].status /\ SamePower(row[q], row'[q])
                            /\ SameSlot(row[q], row'[q])
  <2>1. row' = [row EXCEPT ![p].live = FALSE]
    BY <1>5 DEF LeaseEnds
  <2> QED
    BY <1>1, <2>1 DEF SoundRow, PhoneRow, SamePower, SameSlot
<1>6. ASSUME NEW p \in Row, ClaimEnds(p)
      PROVE  \A q \in Row : /\ row'[q].status = row[q].status /\ SamePower(row[q], row'[q])
                            /\ SameSlot(row[q], row'[q])
  BY <1>1, <1>6, ClaimEndsRow DEF OthersSame, SamePower, SameSlot
<1>7. ASSUME NEW p \in Row, ReservationEnds(p)
      PROVE  /\ OthersSame(p) /\ row'[p].status = row[p].status /\ ~row[p].live
             /\ SamePower(row[p], row'[p]) /\ ~row'[p].held
             /\ row'[p].slot = row[p].slot /\ row'[p].tried = row[p].tried
  BY <1>1, <1>7, ReservationEndsRow DEF ReservationEnds
<1>8. ASSUME NEW p \in Row, ReservationEnds(p)
      PROVE  \A q \in Row : row'[q].status = row[q].status /\ SamePower(row[q], row'[q])
  BY <1>1, <1>8, <1>7 DEF OthersSame, SamePower
<1> QED
  BY <1>1, <1>2, <1>3, <1>4, <1>5, <1>6, <1>7, <1>8, GoesIdleRow, RefreshPublishRow
     DEF WorldStep, SyncRead, RefreshBegin, RefreshRead, Boots, TaskEnds, PowerButton, vars

\* A marker goes only with a report that the phone is not off, or with the
\* reservation.
LEMMA MarkStays ==
  ASSUME PowerBase, ClaimsKept, NoSyncs, [Next]_vars, NEW q \in Row, Marked(row[q])
  PROVE  \/ Marked(row'[q])
         \/ \E r \in Run : RowOf[r] = q /\ Record(r) /\ job[r].seen # "off"
         \/ ReservationEnds(q)
<1>1. PowerTypeOK /\ row \in [Row -> SoundRow]
  BY SoundRows DEF PowerBase
<1>2. ASSUME NEW r \in Run, RunStep(r)
      PROVE  Marked(row'[q]) \/ (RowOf[r] = q /\ Record(r) /\ job[r].seen # "off")
  <2>1. CASE q # RowOf[r] \/ UNCHANGED row
    BY <1>2, <2>1, RunFrame DEF OthersSame
  <2>2. CASE q = RowOf[r] /\ row' # row
    <3> USE DEF Marked, SameSlot
    <3>1. CASE AcquireNew(r)
      <4>1. row[q].slot = r
        BY <2>2, <3>1, Places DEF AcquireNew, PhoneFree, ImageOfRun
      <4> QED
        BY <1>1, <2>2, <3>1, <4>1, AcquireNewRow DEF SlotReserved
    <3>2. CASE AcquireExisting(r)
      BY <1>1, <2>2, <3>2, AcquireExistingRow
    <3>3. CASE Record(r)
      BY <2>2, <3>3, RecordRow DEF StatusWritten
    <3>4. CASE Attempt(r)
      BY <1>1, <2>2, <3>4, AttemptRow
    <3>5. CASE Mark(r)
      BY <1>1, <2>2, <3>5, MarkRow
    <3>6. CASE Confirm(r)
      BY <1>1, <2>2, <3>6, ConfirmRow
    <3>7. CASE Release(r) \/ Reap(r)
      BY <1>1, <2>2, <3>7, ReleaseRow, ReapRow DEF LeaseDropped
    <3> QED
      BY <1>2, <2>2, <3>1, <3>2, <3>3, <3>4, <3>5, <3>6, <3>7
         DEF RunStep, Dispatch, Look, Wake, Wait, Fence, Add, Check, Fail, PreparationFails,
             Crash, ComesDue, Closes
  <2> QED
    BY <2>1, <2>2
<1>3. ASSUME NEW s \in Sweeper, SweepStep(s) \/ SweepCrash(s)
      PROVE  Marked(row'[q])
  <2>1. CASE Claims(s) /\ PhoneReset(ImageOf[sweep[s].row])
    <3>1. ImageOf[q] # ImageOf[sweep[s].row]
      BY <1>3, <2>1, SweepFrame, ResetIdle DEF Mates, Marked
    <3> QED
      BY <2>1, <3>1 DEF PhoneReset
  <2> QED
    BY <1>3, <2>1, SweepRows DEF SameSlot, Marked
<1>4. ASSUME NEW s \in Sweeper, NEW p \in Row, SweepClaim(s, p)
      PROVE  Marked(row'[q])
  BY <1>1, <1>4, SweepClaimRow DEF OthersSame, SameSlot, Marked
<1>5. CASE WorldStep
  <2>1. CASE \A p \in Row : SameSlot(row[p], row'[p])
    BY <1>5, <2>1, WorldRows DEF SameSlot, Marked
  <2> QED
    BY <1>5, <2>1, WorldRows DEF OthersSame
<1> QED
  BY <1>2, <1>3, <1>4, <1>5, StepKinds
\* What a worker's own step makes of its row and of where it stands.
LEMMA RunMarked ==
  ASSUME PowerBase, WakesMarked, NEW r \in Run, RunStep(r), NEW p \in Row, p = RowOf[r]
  PROVE  /\ At(r, {"wake"})' => Marked(row'[p]) /\ row'[p].slot = r
         /\ (At(r, {"look", "attempt"})' \/ SeesOff(r)') /\ row'[p].slot = r
              => row'[p].status = "off"
<1>1. PowerTypeOK /\ row \in [Row -> SoundRow] /\ r # NoRun
  BY SoundRows, NoRunIsNone DEF PowerBase
<1> USE DEF At, SeesOff
<1>2. CASE AcquireNew(r)
  <2>1. job'[r].pc = "look"
    BY <1>1, <1>2 DEF AcquireNew, PowerTypeOK, Job
  <2>2. row'[p].status = row[p].status /\ SlotReserved(row[p], row'[p], r)
    BY <1>1, <1>2, AcquireNewRow
  <2> QED
    BY <1>1, <2>1, <2>2 DEF SlotReserved, EmptySlot
<1>3. CASE Look(r)
  <2>1. job'[r].pc = "record" /\ UNCHANGED row /\ job[r].pc = "look"
    BY <1>1, <1>3 DEF Look, PowerTypeOK, Job
  <2> QED
    BY <2>1 DEF WakesMarked
<1>4. CASE Record(r)
  <2>1. /\ job'[r].seen = job[r].seen /\ job[r].pc = "record"
        /\ job'[r].pc \in {"confirm", "attempt", "wait"}
        /\ job'[r].pc = "attempt" => job[r].seen = "off"
    BY <1>1, <1>4 DEF Record, Go, PowerTypeOK, Job
  <2>2. row'[p] = row[p] \/ StatusWritten(row[p], row'[p], job[r].seen)
    BY <1>4, RecordRow
  <2> QED
    BY <2>1, <2>2 DEF WakesMarked, StatusWritten
<1>5. CASE Attempt(r)
  <2>1. /\ job[r].pc = "attempt"
        /\ job'[r].pc = "wait" \/ (job'[r].pc = "wake" /\ MayWake(row[p], r))
    BY <1>1, <1>5 DEF Attempt, Go, PowerTypeOK, Job
  <2>2. CASE job'[r].pc = "wait"
    BY <2>2
  <2>3. CASE job'[r].pc = "wake" /\ MayWake(row[p], r)
    <3>1. /\ row'[p].status = row[p].status /\ row'[p].slot = row[p].slot
          /\ row'[p].held = row[p].held /\ row'[p].tried
      BY <1>1, <1>5, <2>3, AttemptRow DEF Go, PowerTypeOK, Job
    <3>2. row[p].slot = r /\ row[p].held
      BY <2>3 DEF MayWake
    <3> QED
      BY <2>1, <2>3, <3>1, <3>2 DEF WakesMarked, Marked
  <2> QED
    BY <2>1, <2>2, <2>3
<1>6. CASE Wait(r)
  BY <1>1, <1>6 DEF Wait, PowerTypeOK, Job
<1>7. CASE \/ AcquireExisting(r) \/ Wake(r) \/ Mark(r) \/ Confirm(r) \/ Fence(r) \/ Add(r)
           \/ Check(r) \/ Fail(r) \/ PreparationFails(r) \/ Release(r) \/ Crash(r)
  <2>1. job'[r].pc \in {"check", "mark", "fail", "wait", "fence", "add", "release", "idle"}
    BY <1>1, <1>7
       DEF AcquireExisting, Wake, Mark, Confirm, Fence, Add, Check, Fail, PreparationFails,
           Release, Crash, Go, PowerTypeOK, Job
  <2> QED
    BY <2>1
<1>8. CASE Reap(r) \/ ComesDue(r) \/ Closes(r)
  <2>1. job'[r].pc = "idle"
    BY <1>1, <1>8 DEF Reap, ComesDue, Closes, PowerTypeOK, Job
  <2> QED
    BY <2>1
<1> QED
  BY <1>2, <1>3, <1>4, <1>5, <1>6, <1>7, <1>8 DEF RunStep, Dispatch

LEMMA StepMarked ==
  ASSUME PowerBase, ClaimsKept, NoSyncs, WakesMarked, [Next]_vars
  PROVE  WakesMarked'
<1> SUFFICES ASSUME NEW t \in Run, NEW q \in Row, q = RowOf[t],
                    job'[t].pc \in {"look", "record", "attempt", "wake"}
             PROVE  /\ At(t, {"wake"})' => Marked(row'[q]) /\ row'[q].slot = t
                    /\ (At(t, {"look", "attempt"})' \/ SeesOff(t)') /\ row'[q].slot = t
                         => row'[q].status = "off"
  BY Places DEF WakesMarked, At, SeesOff
<1>1. PowerTypeOK /\ row \in [Row -> SoundRow]
  BY SoundRows DEF PowerBase
<1>2. ASSUME job'[t] = job[t], row'[q].status = row[q].status, SameSlot(row[q], row'[q])
      PROVE  /\ At(t, {"wake"})' => Marked(row'[q]) /\ row'[q].slot = t
             /\ (At(t, {"look", "attempt"})' \/ SeesOff(t)') /\ row'[q].slot = t
                  => row'[q].status = "off"
  BY <1>2 DEF WakesMarked, At, SeesOff, SameSlot, Marked
<1>3. job[t].pc # "idle" => row[q].live
  BY DEF PowerBase, Bound
<1>4. ASSUME NEW r \in Run, RunStep(r), r # t
      PROVE  job'[t] = job[t] /\ row'[q] = row[q]
  <2>1. job'[t] = job[t] /\ OthersSame(RowOf[r])
    BY <1>4, RunFrame
  <2>2. CASE RowOf[r] # q
    BY <2>1, <2>2 DEF OthersSame
  <2>3. CASE RowOf[r] = q
    BY <1>4, <2>1, <2>3, OthersAway DEF ImageOfRun
  <2> QED
    BY <2>1, <2>2, <2>3
<1>5. ASSUME NEW s \in Sweeper, SweepStep(s) \/ SweepCrash(s)
      PROVE  job'[t] = job[t] /\ row'[q].status = row[q].status /\ SameSlot(row[q], row'[q])
  <2>1. job'[t] = job[t] /\ row[q].live
    BY <1>3, <1>5, SweepFrame
  <2>2. CASE Claims(s) /\ PhoneReset(ImageOf[sweep[s].row])
    <3>1. ImageOf[q] # ImageOf[sweep[s].row]
      BY <1>5, <2>1, <2>2, SweepFrame, ResetIdle DEF Mates
    <3> QED
      BY <2>1, <2>2, <3>1 DEF PhoneReset, SameSlot
  <2> QED
    BY <1>5, <2>1, <2>2, SweepRows
<1>6. ASSUME NEW s \in Sweeper, NEW p \in Row, SweepClaim(s, p)
      PROVE  job'[t] = job[t] /\ row'[q].status = row[q].status /\ SameSlot(row[q], row'[q])
  BY <1>1, <1>6, SweepClaimRow DEF OthersSame, SameSlot, SweepClaim
<1>7. CASE WorldStep
  <2>1. job'[t] = job[t] /\ row[q].live
    BY <1>3, <1>7, WorldFrame
  <2>2. row'[q].status = row[q].status /\ SameSlot(row[q], row'[q])
    BY <1>7, <2>1, WorldRows DEF OthersSame, SameSlot
  <2> QED
    BY <1>2, <2>1, <2>2
<1>8. ASSUME RunStep(t)
      PROVE  /\ At(t, {"wake"})' => Marked(row'[q]) /\ row'[q].slot = t
             /\ (At(t, {"look", "attempt"})' \/ SeesOff(t)') /\ row'[q].slot = t
                  => row'[q].status = "off"
  BY <1>8, RunMarked
<1>9. ASSUME NEW r \in Run, RunStep(r), r # t
      PROVE  /\ At(t, {"wake"})' => Marked(row'[q]) /\ row'[q].slot = t
             /\ (At(t, {"look", "attempt"})' \/ SeesOff(t)') /\ row'[q].slot = t
                  => row'[q].status = "off"
  BY <1>2, <1>4, <1>9 DEF SameSlot
<1> QED
  BY <1>2, <1>5, <1>6, <1>7, <1>8, <1>9, StepKinds

-----------------------------------------------------------------------------
(* Without expiry too: who has asked a phone to start has left the marker. *)

\* A start by the scheduler is one worker's powerOn of a phone that was off.
LEMMA StartsByWake ==
  ASSUME PowerBase, [Next]_vars, NEW i \in Image, Starting(i)', ~Starting(i)
  PROVE  \E r \in Run : Wake(r) /\ ImageOfRun(r) = i
<1>1. PowerTypeOK
  BY DEF PowerBase
<1>2. image' # image
  BY DEF Starting
<1>3. ASSUME NEW r \in Run, RunStep(r)
      PROVE  \E t \in Run : Wake(t) /\ ImageOfRun(t) = i
  <2>1. Wake(r) \/ Add(r)
    BY <1>2, <1>3
       DEF RunStep, AcquireNew, AcquireExisting, Dispatch, Look, Record, Attempt, Mark, Wait,
           Confirm, Fence, Check, Fail, PreparationFails, Release, Crash, Reap, ComesDue, Closes
  <2>2. ~Add(r)
    BY <1>1, Places DEF Add, Starting, PowerTypeOK, Phone
  <2>3. CASE Wake(r) /\ ImageOfRun(r) # i
    BY <1>1, <2>3, Places DEF Wake, Starting, PowerTypeOK, Phone
  <2> QED
    BY <2>1, <2>2, <2>3
<1>4. ASSUME NEW s \in Sweeper, SweepOff(s)
      PROVE  FALSE
  <2>1. ImageOf[sweep[s].row] \in Image
    BY <1>4, Places DEF SweepOff, PowerBase, Bound
  <2> QED
    BY <1>1, <1>4, <2>1 DEF SweepOff, Starting, PowerTypeOK, Phone
<1>5. ASSUME NEW j \in Image, Boots(j)
      PROVE  FALSE
  BY <1>1, <1>5 DEF Boots, Starting, PowerTypeOK, Phone
<1>6. ASSUME NEW j \in Image, TaskEnds(j)
      PROVE  FALSE
  <2>1. PICK r \in image[j].tasks :
          image' = [image EXCEPT ![j].tasks = @ \ {r}, ![j].done = @ \cup {r}]
    BY <1>6 DEF TaskEnds
  <2> QED
    BY <1>1, <2>1 DEF Starting, PowerTypeOK, Phone
<1>7. ASSUME NEW j \in Image, PowerButton(j)
      PROVE  FALSE
  <2>1. CASE image[j].power = "off"
    BY <1>1, <1>7, <2>1 DEF PowerButton, Starting, PowerTypeOK, Phone
  <2>2. CASE image[j].power # "off"
    BY <1>1, <1>7, <2>2 DEF PowerButton, Starting, PowerTypeOK, Phone
  <2> QED
    BY <2>1, <2>2
<1> QED
  BY <1>2, <1>3, <1>4, <1>5, <1>6, <1>7, StepKinds
     DEF SweepStep, SweepInspect, SweepConsume, SweepComplete, SweepRelease, SweepCrash,
         SweepClaim, WorldStep, SyncRead, SyncWrite, GoesIdle, LeaseEnds, ClaimEnds,
         ReservationEnds, RefreshBegin, RefreshRead, RefreshPublish, vars

LEMMA StartedRuns ==
  ASSUME PowerBase, StartsMarked, NEW i \in Image, Starting(i), NEW t \in Run,
         ImageOfRun(t) = i, RunStep(t)
  PROVE  ~At(t, {"wake"})' /\ (At(t, {"record"})' => job'[t].seen = "off")
<1>1. PowerTypeOK /\ HasMark(i) /\ ~At(t, {"wake"})
  BY DEF PowerBase, StartsMarked
<1> USE DEF At
<1>2. CASE Look(t)
  <2>1. Reported(i) = "off"
    BY DEF Reported, Starting
  <2> QED
    BY <1>1, <1>2, <2>1 DEF Look, PowerTypeOK, Job
<1>3. CASE Attempt(t)
  <2>1. ~MayWake(row[RowOf[t]], t)
    <3>1. PICK q \in Row : ImageOf[q] = i /\ row[q].held /\ row[q].tried
      BY <1>1 DEF HasMark, Mirrors, Marked
    <3>2. RowOf[t] \in Row /\ Mates(RowOf[t], q)
      BY <3>1, Places DEF Mates, ImageOfRun
    <3> QED
      BY <3>1, <3>2 DEF MayWake, PowerBase, Exclusive
  <2> QED
    BY <1>1, <1>3, <2>1 DEF Attempt, Go, PowerTypeOK, Job
<1>4. CASE Wait(t)
  <2>1. image[i].power # "on"
    BY DEF Starting
  <2> QED
    BY <1>1, <1>4, <2>1 DEF Wait, PowerTypeOK, Job
<1>5. CASE Record(t)
  BY <1>1, <1>5 DEF Record, Go, PowerTypeOK, Job
<1>6. CASE \/ AcquireNew(t) \/ AcquireExisting(t) \/ Wake(t) \/ Mark(t) \/ Confirm(t)
           \/ Fence(t) \/ Add(t) \/ Check(t) \/ Fail(t) \/ PreparationFails(t)
           \/ Release(t) \/ Crash(t)
  <2>1. job'[t].pc \in {"look", "check", "mark", "fail", "wait", "fence", "add", "release",
                        "idle"}
    BY <1>1, <1>6
       DEF AcquireNew, AcquireExisting, Wake, Mark, Confirm, Fence, Add, Check, Fail,
           PreparationFails, Release, Crash, Go, PowerTypeOK, Job
  <2> QED
    BY <2>1
<1>7. CASE Reap(t) \/ ComesDue(t) \/ Closes(t)
  <2>1. job'[t].pc = "idle"
    BY <1>1, <1>7 DEF Reap, ComesDue, Closes, PowerTypeOK, Job
  <2> QED
    BY <2>1
<1> QED
  BY <1>2, <1>3, <1>4, <1>5, <1>6, <1>7 DEF RunStep, Dispatch

\* Who moves which run.
LEMMA JobMoves ==
  ASSUME PowerBase, [Next]_vars, NEW t \in Run, job'[t] # job[t]
  PROVE  RunStep(t)
BY StepKinds, RunFrame, SweepFrame, WorldFrame DEF SweepClaim

LEMMA StepStarts ==
  ASSUME PowerBase, ClaimsKept, NoSyncs, NoExpiry, WakesMarked, StartsMarked, [Next]_vars
  PROVE  StartsMarked'
<1> SUFFICES ASSUME NEW i \in Image, Starting(i)'
             PROVE  /\ HasMark(i)'
                    /\ \A t \in Run : ImageOfRun(t) = i =>
                         ~At(t, {"wake"})' /\ (At(t, {"record"})' => job'[t].seen = "off")
  BY Zenon DEF StartsMarked
<1>1. PowerTypeOK
  BY DEF PowerBase
<1>2. CASE ~Starting(i)
  <2>1. PICK r \in Run : Wake(r) /\ ImageOfRun(r) = i
    BY <1>2, StartsByWake
  <2>2. HasMark(i)'
    BY <2>1, Places DEF Wake, WakesMarked, At, HasMark, Mirrors, ImageOfRun, Marked
  <2>3. job'[r].pc \in {"mark", "fail"} /\ job[r].pc # "idle"
    BY <1>1, <2>1 DEF Wake, Go, PowerTypeOK, Job
  <2>4. ASSUME NEW t \in Run \ {r}, ImageOfRun(t) = i
        PROVE  job'[t].pc = "idle"
    <3>1. job'[t] = job[t]
      BY <2>1, RunFrame DEF RunStep, Dispatch
    <3>2. job[t].pc = "idle"
      BY <2>1, <2>3, <2>4, OneWorker
    <3> QED
      BY <3>1, <3>2
  <2> QED
    BY <2>2, <2>3, <2>4 DEF At
<1>3. CASE Starting(i)
  <2>1. PICK q \in Row : ImageOf[q] = i /\ Marked(row[q])
    BY <1>3 DEF StartsMarked, HasMark, Mirrors
  <2>2. ~ReservationEnds(q)
    BY <1>3, <2>1 DEF ReservationEnds, NoExpiry, Starting
  <2>3. ASSUME NEW r \in Run, RowOf[r] = q, Record(r)
        PROVE  job[r].seen = "off"
    BY <1>3, <2>1, <2>3 DEF StartsMarked, ImageOfRun, At, Record
  <2>4. HasMark(i)'
    BY <2>1, <2>2, <2>3, MarkStays DEF HasMark, Mirrors
  <2>5. ASSUME NEW t \in Run, ImageOfRun(t) = i
        PROVE  ~At(t, {"wake"})' /\ (At(t, {"record"})' => job'[t].seen = "off")
    <3>1. CASE job'[t] = job[t]
      BY <1>3, <2>5, <3>1 DEF StartsMarked, At
    <3> QED
      BY <1>3, <2>5, <3>1, JobMoves, StartedRuns
  <2> QED
    BY <2>4, <2>5
<1> QED
  BY <1>2, <1>3

\* Inventory syncs apart, and as long as a startup reservation outlives the
\* start it was made for, a phone the scheduler has asked to start is not asked
\* again before DuoPlus reports it booting: the marker
\* (startup_power_attempted_at) is set before the call and outlives leases,
\* retries and dead workers, lost answers included.
THEOREM StartsAreAskedOnce == NoSyncs /\ NoExpiry => (Spec => WakesOnce)
<1>1. ASSUME NoSyncs, NoExpiry PROVE Spec => WakesOnce
  <2> DEFINE Inv == PowerBase /\ ClaimsKept /\ WakesMarked /\ StartsMarked
  <2>1. Init => Inv
    <3>1. Init => ClaimsKept
      BY DEF Init, ClaimsKept, OffClaimed, SweepAt, NoSweep
    <3>2. Init => WakesMarked /\ StartsMarked
      BY DEF Init, WakesMarked, StartsMarked, At, SeesOff, Starting
    <3> QED
      BY <3>1, <3>2, InitBase
  <2>2. Inv /\ [Next]_vars => Inv'
    BY <1>1, StepBase, StepClaims, StepMarked, StepStarts
  <2>3. Inv /\ [Next]_vars => [WakesOnceStep]_vars
    <3> SUFFICES ASSUME Inv, NEW r \in Run, SwitchesOn(r), image[ImageOfRun(r)].power = "starting"
                 PROVE  image[ImageOfRun(r)].by = "person"
      BY DEF WakesOnceStep
    <3>1. image[ImageOfRun(r)].by \in {"scheduler", "person"} /\ ImageOfRun(r) \in Image
      BY Places DEF PowerBase, PowerTypeOK, Phone
    <3> QED
      BY <3>1 DEF StartsMarked, Starting, SwitchesOn, At
  <2> QED
    BY <2>1, <2>2, <2>3, PTL DEF Spec, WakesOnce
<1> QED
  BY <1>1
-----------------------------------------------------------------------------
(* Without people too: what runs is known to, and counted.                 *)

\* A phone that is off, or whose session is someone else's, is started by a
\* worker or by a person.
LEMMA RunsByWake ==
  ASSUME PowerBase, NoPeople, [Next]_vars, NEW i \in Image, Runs(i)',
         ~Runs(i) \/ image'[i].by # image[i].by
  PROVE  \E r \in Run : Wake(r) /\ ImageOfRun(r) = i /\ image'[i].by = "scheduler"
<1>1. PowerTypeOK /\ image' # image
  BY DEF PowerBase, Runs
<1>2. ASSUME NEW r \in Run, RunStep(r)
      PROVE  \E t \in Run : Wake(t) /\ ImageOfRun(t) = i /\ image'[i].by = "scheduler"
  <2>1. Wake(r) \/ Add(r)
    BY <1>1, <1>2
       DEF RunStep, AcquireNew, AcquireExisting, Dispatch, Look, Record, Attempt, Mark, Wait,
           Confirm, Fence, Check, Fail, PreparationFails, Release, Crash, Reap, ComesDue, Closes
  <2>2. ~Add(r)
    <3>1. Add(r) => image' = [image EXCEPT ![ImageOfRun(r)].tasks = @ \cup {r}]
      BY <1>1 DEF Add
    <3> QED
      BY <1>1, <3>1, Places DEF Runs, PowerTypeOK, Phone
  <2>3. CASE Wake(r)
    <3>1. image' = [image EXCEPT ![ImageOfRun(r)].power = "starting",
                                 ![ImageOfRun(r)].by = "scheduler"]
      BY <1>1, <2>3 DEF Wake
    <3> QED
      BY <1>1, <2>3, <3>1, Places DEF Runs, PowerTypeOK, Phone
  <2> QED
    BY <2>1, <2>2, <2>3
<1>3. ASSUME NEW s \in Sweeper, SweepOff(s)
      PROVE  FALSE
  <2>1. ImageOf[sweep[s].row] \in Image
    BY <1>3, Places DEF SweepOff, PowerBase, Bound
  <2> QED
    BY <1>1, <1>3, <2>1 DEF SweepOff, Runs, PowerTypeOK, Phone
<1>4. ASSUME NEW j \in Image, Boots(j)
      PROVE  FALSE
  BY <1>1, <1>4 DEF Boots, Runs, PowerTypeOK, Phone
<1>5. ASSUME NEW j \in Image, TaskEnds(j)
      PROVE  FALSE
  <2>1. PICK r \in image[j].tasks :
          image' = [image EXCEPT ![j].tasks = @ \ {r}, ![j].done = @ \cup {r}]
    BY <1>5 DEF TaskEnds
  <2> QED
    BY <1>1, <2>1 DEF Runs, PowerTypeOK, Phone
<1>6. \A j \in Image : ~PowerButton(j)
  BY DEF PowerButton, Fault, NoPeople
<1> QED
  BY <1>1, <1>2, <1>3, <1>4, <1>5, <1>6, StepKinds
     DEF SweepStep, SweepInspect, SweepConsume, SweepComplete, SweepRelease, SweepCrash,
         SweepClaim, WorldStep, SyncRead, SyncWrite, GoesIdle, LeaseEnds, ClaimEnds,
         ReservationEnds, RefreshBegin, RefreshRead, RefreshPublish, vars

\* What one run's step makes of the slot and the status of its row.
LEMMA RunRow ==
  ASSUME PowerBase, NEW r \in Run, RunStep(r), NEW q \in Row
  PROVE  /\ row'[q].held => row[q].held \/ (AcquireNew(r) /\ q = RowOf[r])
         /\ \/ row'[q].status = row[q].status
            \/ q = RowOf[r] /\ Record(r) /\ row'[q].status = job[r].seen
<1>1. PowerTypeOK /\ row \in [Row -> SoundRow]
  BY SoundRows DEF PowerBase
<1>2. CASE q # RowOf[r] \/ UNCHANGED row
  BY <1>2, RunFrame DEF OthersSame
<1>3. CASE q = RowOf[r] /\ row' # row
  <2> USE DEF SameSlot
  <2>1. CASE AcquireNew(r) \/ AcquireExisting(r)
    BY <1>1, <1>3, <2>1, AcquireNewRow, AcquireExistingRow
  <2>2. CASE Record(r)
    BY <1>3, <2>2, RecordRow DEF StatusWritten, EmptySlot
  <2>3. CASE Attempt(r)
    BY <1>1, <1>3, <2>3, AttemptRow
  <2>4. CASE Mark(r)
    BY <1>1, <1>3, <2>4, MarkRow
  <2>5. CASE Confirm(r)
    BY <1>1, <1>3, <2>5, ConfirmRow
  <2>6. CASE Release(r) \/ Reap(r)
    BY <1>1, <1>3, <2>6, ReleaseRow, ReapRow DEF LeaseDropped, EmptySlot
  <2> QED
    BY <1>3, <2>1, <2>2, <2>3, <2>4, <2>5, <2>6
       DEF RunStep, Dispatch, Look, Wake, Wait, Fence, Add, Check, Fail, PreparationFails,
           Crash, ComesDue, Closes
<1> QED
  BY <1>2, <1>3

\* Reservations are made by acquire_phone_lease alone.
LEMMA HeldStays ==
  ASSUME PowerBase, ClaimsKept, NoSyncs, [Next]_vars, NEW q \in Row, row'[q].held
  PROVE  row[q].held \/ \E r \in Run : AcquireNew(r) /\ q = RowOf[r]
<1>1. PowerTypeOK
  BY DEF PowerBase
<1>2. ASSUME NEW s \in Sweeper, SweepStep(s) \/ SweepCrash(s)
      PROVE  row[q].held
  <2>1. ~PhoneReset(ImageOf[sweep[s].row]) \/ ImageOf[q] # ImageOf[sweep[s].row]
    BY DEF PhoneReset, EmptySlot
  <2> QED
    BY <1>2, <2>1, SweepRows DEF PhoneReset, SameSlot
<1>3. ASSUME NEW s \in Sweeper, NEW p \in Row, SweepClaim(s, p)
      PROVE  row[q].held
  BY <1>1, <1>3, SweepClaimRow DEF OthersSame, SameSlot
<1>4. CASE WorldStep
  BY <1>4, WorldRows DEF SameSlot, OthersSame
<1> QED
  BY <1>2, <1>3, <1>4, RunRow, StepKinds

\* A status other than off goes with a report, or with a shutdown.
LEMMA StatusStays ==
  ASSUME PowerBase, ClaimsKept, NoSyncs, [Next]_vars, NEW q \in Row,
         row[q].status # "off", row'[q].status = "off"
  PROVE  \/ \E r \in Run : q = RowOf[r] /\ Record(r) /\ job[r].seen = "off"
         \/ \E s \in Sweeper : /\ SweepComplete(s) /\ Claims(s)
                               /\ ImageOf[sweep[s].row] = ImageOf[q]
<1>1. PowerTypeOK
  BY DEF PowerBase
<1>2. ASSUME NEW s \in Sweeper, SweepStep(s) \/ SweepCrash(s)
      PROVE  SweepComplete(s) /\ Claims(s) /\ ImageOf[sweep[s].row] = ImageOf[q]
  BY <1>2, SweepRows DEF PhoneReset
<1>3. ASSUME NEW s \in Sweeper, NEW p \in Row, SweepClaim(s, p)
      PROVE  FALSE
  BY <1>1, <1>3, SweepClaimRow DEF OthersSame
<1>4. CASE WorldStep
  BY <1>4, WorldRows
<1> QED
  BY <1>2, <1>3, <1>4, RunRow, StepKinds

\* Only a sweep that takes its claim has a claim it had not.
LEMMA NoNewClaims ==
  ASSUME PowerBase, ClaimsKept, NoSyncs, [Next]_vars, NEW s \in Sweeper,
         sweep'[s].row = sweep[s].row, sweep[s].row \in Row, sweep[s].pc # "idle", Claims(s)'
  PROVE  Claims(s)
<1> DEFINE p == sweep[s].row
<1>1. PowerTypeOK /\ row \in [Row -> SoundRow] /\ p \in Row
  BY SoundRows DEF PowerBase
<1>2. row'[p].off = s /\ row'[p].offLive
  BY DEF Claims
<1>3. SUFFICES SameClaim(row[p], row'[p])
  BY <1>2 DEF Claims, SameClaim
<1>4. ASSUME NEW r \in Run, RunStep(r)
      PROVE  SameClaim(row[p], row'[p])
  <2>1. CASE p # RowOf[r]
    BY <1>1, <1>4, <2>1, RunFrame DEF OthersSame, SameClaim
  <2>2. CASE p = RowOf[r]
    BY <1>1, <1>2, <1>4, <2>2, RunFrame DEF PowerBase, Exclusive, Mates
  <2> QED
    BY <2>1, <2>2
<1>5. ASSUME NEW t \in Sweeper, SweepStep(t) \/ SweepCrash(t)
      PROVE  SameClaim(row[p], row'[p])
  <2>1. PowerTypeOK /\ sweep[t].row \in Row
    BY <1>5, SweepFrame DEF PowerBase
  <2>2. CASE UNCHANGED row
    BY <2>2 DEF SameClaim
  <2>3. CASE SweepComplete(t)
    BY <1>1, <1>2, <2>1, <2>2, <2>3, SweepCompleteRow DEF PhoneReset, SameClaim
  <2>4. CASE SweepConsume(t) \/ SweepRelease(t)
    <3>1. \/ UNCHANGED row
          \/ row' = [row EXCEPT ![sweep[t].row] = Unowned(@)]
          \/ row' = [row EXCEPT ![sweep[t].row] = NoClaim(@)]
      BY <2>4 DEF SweepConsume, Consumed, SweepRelease
    <3>2. CASE row' = [row EXCEPT ![sweep[t].row] = Unowned(@)]
      BY <1>1, <2>1, <3>2, UnownedRow DEF OthersSame, SameClaim
    <3>3. CASE row' = [row EXCEPT ![sweep[t].row] = NoClaim(@)]
      BY <1>1, <1>2, <2>1, <3>3, NoClaimRow DEF OthersSame, SameClaim
    <3> QED
      BY <2>2, <3>1, <3>2, <3>3
  <2> QED
    BY <1>5, <2>2, <2>3, <2>4 DEF SweepStep, SweepInspect, SweepOff, SweepCrash
<1>6. ASSUME NEW t \in Sweeper, NEW q \in Row, SweepClaim(t, q)
      PROVE  SameClaim(row[p], row'[p])
  <2>1. t # s
    BY <1>6 DEF SweepClaim
  <2> QED
    BY <1>1, <1>2, <1>6, <2>1, SweepClaimRow DEF OthersSame, SameClaim
<1>7. CASE WorldStep
  <2>1. CASE QuietRows
    BY <1>1, <2>1 DEF QuietRows
  <2>2. ASSUME NEW q \in Row, LeaseEnds(q) \/ ClaimEnds(q) \/ ReservationEnds(q)
        PROVE  SameClaim(row[p], row'[p])
    BY <1>1, <1>2, <2>2, LeaseEndsRow, ClaimEndsRow, ReservationEndsRow
       DEF LeaseDropped, OthersSame, SameClaim
  <2>3. ASSUME UNCHANGED row PROVE QuietRows
    BY <1>1, <2>3, UnchangedRows
  <2>4. \A q \in Row : ~SyncWrite(q)
    BY DEF SyncWrite, ClaimsKept
  <2> QED
    BY <1>1, <1>7, <2>1, <2>2, <2>3, <2>4, GoesIdleRow, RefreshPublishRow
       DEF WorldStep, SyncRead, RefreshBegin, RefreshRead, Boots, TaskEnds, PowerButton, vars
<1> QED
  BY <1>4, <1>5, <1>6, <1>7, StepKinds
-----------------------------------------------------------------------------
(* The count of acquire_phone_lease.                                       *)

LEMMA MaxOfTwo ==
  ASSUME NEW a \in Nat, NEW b \in Nat
  PROVE  Max({a, b}) \in Nat /\ Max({a, b}) >= a /\ Max({a, b}) >= b
<1> DEFINE m == IF a >= b THEN a ELSE b
<1>1. m \in {a, b} /\ \A y \in {a, b} : m >= y
  OBVIOUS
<1>2. Max({a, b}) \in {a, b} /\ \A y \in {a, b} : Max({a, b}) >= y
  BY <1>1 DEF Max
<1> QED
  BY <1>2

\* Whoever gets capacity for a phone leaves no more than Limit phones that are
\* on, reserved or leased, that one included: each of them is counted once,
\* as visible to the provider or as additive.
LEMMA CapacityCounts ==
  ASSUME PowerTypeOK, NEW i \in Image, CapacityAllows(i), NEW counted \in SUBSET Image,
         \A j \in counted : ImageOn(j) \/ ImagePending(j)
  PROVE  Cardinality(counted \cup {i}) <= Limit
<1> DEFINE used == {j \in Image : ImageOn(j) \/ ImagePending(j)}
<1>1. IsFiniteSet(Image) /\ Limit \in Nat
  BY PowerAssumption DEF PowerAssumption
<1>2. /\ used = Visible \cup Additive /\ Visible \cap Additive = {}
      /\ Visible \subseteq Image /\ Additive \subseteq Image /\ used \subseteq Image
  BY DEF Visible, Additive
<1>3. IsFiniteSet(Visible) /\ IsFiniteSet(Additive) /\ IsFiniteSet(used) /\ IsFiniteSet(counted)
  BY <1>1, <1>2, FS_Subset
<1>4. /\ Cardinality(Visible) \in Nat /\ Cardinality(Additive) \in Nat
      /\ Cardinality(used) \in Nat /\ Cardinality(counted) \in Nat
  BY <1>3, FS_CardinalityType
<1>5. Cardinality(used) = Cardinality(Visible) + Cardinality(Additive)
  <2>1. Cardinality(Visible \cap Additive) = 0
    BY <1>2, FS_EmptySet
  <2> QED
    BY <1>2, <1>3, <1>4, <2>1, FS_Union
<1>6. pool.inUse \in Nat
  BY <1>1, FS_CardinalityType DEF PowerTypeOK, Pool
<1>7. ActiveWorkers \in Nat /\ Cardinality(used) <= ActiveWorkers
  <2>1. /\ Max({pool.inUse, Cardinality(Visible)}) \in Nat
        /\ Max({pool.inUse, Cardinality(Visible)}) >= Cardinality(Visible)
    BY <1>4, <1>6, MaxOfTwo
  <2> QED
    BY <1>4, <1>5, <2>1 DEF ActiveWorkers
<1> HIDE DEF used
<1>8. counted \cup {i} \subseteq used \cup {i} /\ IsFiniteSet(used \cup {i})
      /\ Cardinality(used \cup {i}) =
           IF i \in used THEN Cardinality(used) ELSE Cardinality(used) + 1
  BY <1>3, FS_AddElement DEF used
<1>9. Cardinality(used \cup {i}) <= Limit
  <2>1. CASE i \in used
    BY <1>1, <1>4, <1>7, <1>8, <2>1 DEF CapacityAllows
  <2>2. CASE i \notin used
    <3>1. ActiveWorkers < Limit
      BY <2>2 DEF CapacityAllows, used
    <3> QED
      BY <1>1, <1>4, <1>7, <1>8, <2>2, <3>1
  <2> QED
    BY <2>1, <2>2
<1>10. Cardinality(counted \cup {i}) <= Cardinality(used \cup {i})
  BY <1>8, FS_Subset
<1>11. Cardinality(counted \cup {i}) \in Nat /\ Cardinality(used \cup {i}) \in Nat
  BY <1>3, <1>8, FS_Subset, FS_CardinalityType
<1> QED
  BY <1>1, <1>9, <1>10, <1>11
-----------------------------------------------------------------------------
\* A phone that runs stays known: its marker or the status of one of its rows.
LEMMA KnownStays ==
  ASSUME PowerBase, ClaimsKept, NoSyncs, NoExpiry, WakesMarked, Counted, [Next]_vars,
         NEW i \in Image, Runs(i)
  PROVE  HasMark(i)' \/ \E p \in Mirrors(i) : row'[p].status # "off"
<1>1. PowerTypeOK
  BY DEF PowerBase
<1>2. ASSUME NEW q \in Row, ImageOf[q] = i, Marked(row[q]), ~Marked(row'[q])
      PROVE  row'[q].status # "off"
  <2>1. ~ReservationEnds(q)
    BY <1>2 DEF ReservationEnds, NoExpiry, Runs
  <2>2. PICK r \in Run : RowOf[r] = q /\ Record(r) /\ job[r].seen # "off"
    BY <1>2, <2>1, MarkStays
  <2> QED
    BY <1>2, <2>2, RecordRow DEF StatusWritten
<1>3. CASE HasMark(i)
  BY <1>2, <1>3 DEF HasMark, Mirrors
<1>4. CASE ~HasMark(i)
  <2>1. PICK q \in Row : ImageOf[q] = i /\ row[q].status # "off"
    BY <1>4 DEF Counted, Mirrors
  <2>2. ASSUME NEW r \in Run, q = RowOf[r], Record(r) PROVE job[r].seen # "off"
    BY <1>4, <2>1, <2>2 DEF Counted, SeesOff, At, Record, ImageOfRun
  <2>3. ASSUME NEW s \in Sweeper, SweepComplete(s), Claims(s) PROVE ImageOf[sweep[s].row] # i
    BY <2>3 DEF Counted, SweepAt, SweepComplete
  <2>4. row'[q].status # "off"
    BY <2>1, <2>2, <2>3, StatusStays
  <2> QED
    BY <2>1, <2>4 DEF Mirrors
<1> QED
  BY <1>3, <1>4

\* While a worker that saw the phone off is about to record it, a phone that
\* runs all the same was only just asked to start.
LEMMA SeenStays ==
  ASSUME PowerBase, ClaimsKept, NoSyncs, NoExpiry, NoPeople, WakesMarked, StartsMarked,
         Counted, [Next]_vars, NEW r \in Run, SeesOff(r)', Runs(ImageOfRun(r))'
  PROVE  HasMark(ImageOfRun(r))'
<1> DEFINE i == ImageOfRun(r)
<1>1. PowerTypeOK /\ i \in Image
  BY Places DEF PowerBase
<1>2. Runs(i)
  <2> SUFFICES ASSUME ~Runs(i) PROVE FALSE
    OBVIOUS
  <2>1. PICK t \in Run : Wake(t) /\ ImageOfRun(t) = i
    BY <1>1, RunsByWake
  <2>2. job'[t].pc \in {"mark", "fail"} /\ job[t].pc # "idle"
    BY <1>1, <2>1 DEF Wake, Go, PowerTypeOK, Job
  <2>3. t # r
    BY <2>2 DEF SeesOff, At
  <2>4. job'[r] = job[r] /\ job[r].pc = "idle"
    BY <2>1, <2>2, <2>3, OneWorker, RunFrame DEF RunStep, Dispatch
  <2> QED
    BY <2>4 DEF SeesOff, At
<1>3. CASE SeesOff(r)
  <2>1. PICK q \in Row : ImageOf[q] = i /\ Marked(row[q])
    BY <1>2, <1>3 DEF Counted, HasMark, Mirrors
  <2>2. ~ReservationEnds(q)
    BY <1>2, <2>1 DEF ReservationEnds, NoExpiry, Runs
  <2>3. ASSUME NEW t \in Run, RowOf[t] = q, Record(t)
        PROVE  job[t].seen = "off"
    <3>1. t = r
      BY <1>3, <2>1, <2>3, OneWorker DEF SeesOff, At, Record, ImageOfRun
    <3> QED
      BY <1>3, <3>1 DEF SeesOff
  <2> QED
    BY <2>1, <2>2, <2>3, MarkStays DEF HasMark, Mirrors
<1>4. CASE ~SeesOff(r)
  <2>1. RunStep(r)
    BY <1>4, JobMoves DEF SeesOff, At
  <2>2. Look(r)
    <3> USE DEF SeesOff, At
    <3>1. ~AcquireNew(r) /\ ~AcquireExisting(r) /\ ~Record(r) /\ ~Attempt(r) /\ ~Wake(r)
      BY <1>1 DEF AcquireNew, AcquireExisting, Record, Attempt, Wake, Go, PowerTypeOK, Job
    <3>2. ~Mark(r) /\ ~Wait(r) /\ ~Confirm(r) /\ ~Fence(r) /\ ~Add(r) /\ ~Check(r)
      BY <1>1 DEF Mark, Wait, Confirm, Fence, Add, Check, Go, PowerTypeOK, Job
    <3>3. ~Fail(r) /\ ~PreparationFails(r) /\ ~Release(r) /\ ~Crash(r)
      BY <1>1 DEF Fail, PreparationFails, Release, Crash, Go, PowerTypeOK, Job
    <3>4. ~Reap(r) /\ ~ComesDue(r) /\ ~Closes(r)
      BY <1>1 DEF Reap, ComesDue, Closes, PowerTypeOK, Job
    <3> QED
      BY <2>1, <3>1, <3>2, <3>3, <3>4 DEF RunStep, Dispatch
  <2>3. Reported(i) = "off" /\ UNCHANGED row
    BY <1>1, <2>2 DEF Look, SeesOff, PowerTypeOK, Job
  <2>4. Starting(i)
    BY <1>1, <1>2, <2>3 DEF Reported, Counted, Runs, Starting
  <2> QED
    BY <1>1, <2>3, <2>4 DEF StartsMarked, HasMark, Marked
<1> QED
  BY <1>3, <1>4

\* A sweep that has seen its phone off, or has switched it off, and still has
\* the claim, is right.
LEMMA SettledStays ==
  ASSUME PowerBase, ClaimsKept, NoSyncs, NoExpiry, NoPeople, StartsMarked, Counted,
         [Next]_vars, NEW s \in Sweeper, SweepAt(s, {"settle", "complete"})', Claims(s)'
  PROVE  ~Runs(ImageOf[sweep[s].row])'
<1>1. PowerTypeOK
  BY DEF PowerBase
<1>2. sweep'[s].row = sweep[s].row /\ sweep[s].pc # "idle" /\ sweep[s].row \in Row
  <2>1. CASE sweep'[s] = sweep[s]
    BY <2>1 DEF SweepAt, PowerBase, Bound
  <2>2. CASE sweep'[s] # sweep[s]
    <3>1. ~WorldStep /\ ~(\E r \in Run : RunStep(r))
      BY <2>2, WorldFrame, RunFrame
    <3>2. ASSUME NEW t \in Sweeper, NEW q \in Row PROVE ~SweepClaim(t, q)
      BY <1>1, <2>2, <3>2 DEF SweepClaim, SweepAt, PowerTypeOK
    <3>3. PICK t \in Sweeper : SweepStep(t) \/ SweepCrash(t)
      BY <3>1, <3>2, StepKinds
    <3>4. t = s
      BY <2>2, <3>3, SweepFrame
    <3>5. sweep'[s] # NoSweep
      BY DEF SweepAt, NoSweep
    <3>6. sweep[s].pc # "idle"
      BY <3>3, <3>4 DEF SweepStep, SweepInspect, SweepConsume, SweepOff, SweepComplete,
                       SweepRelease, SweepCrash
    <3> QED
      BY <3>3, <3>4, <3>5, <3>6, SweepFrame
  <2> QED
    BY <2>1, <2>2
<1> PICK p \in Row, i \in Image : p = sweep[s].row /\ i = ImageOf[p]
  BY <1>2, Places
<1>3. Claims(s)
  BY <1>2, NoNewClaims
<1>4. SUFFICES ASSUME Runs(i)' PROVE FALSE
  BY <1>2
<1>5. CASE ~Runs(i)
  <2>1. PICK r \in Run : Wake(r) /\ ImageOfRun(r) = i
    BY <1>2, <1>4, <1>5, RunsByWake
  <2>2. row[RowOf[r]].live /\ Mates(p, RowOf[r]) /\ RowOf[r] \in Row
    BY <2>1, Places DEF Wake, PowerBase, Bound, Mates, ImageOfRun
  <2> QED
    BY <1>2, <1>3, <2>2, ResetIdle
<1>6. CASE Runs(i)
  <2>1. ~SweepAt(s, {"settle", "complete"})
    BY <1>3, <1>6 DEF Counted
  <2>2. sweep'[s] # sweep[s]
    BY <2>1 DEF SweepAt
  <2>3. SweepInspect(s) \/ SweepOff(s)
    <3>1. ~WorldStep /\ ~(\E r \in Run : RunStep(r))
      BY <2>2, WorldFrame, RunFrame
    <3>2. ASSUME NEW t \in Sweeper, NEW q \in Row PROVE ~SweepClaim(t, q)
      BY <1>1, <2>2, <3>2 DEF SweepClaim, SweepAt, PowerTypeOK
    <3>3. PICK t \in Sweeper : SweepStep(t) \/ SweepCrash(t)
      BY <3>1, <3>2, StepKinds
    <3>4. SweepStep(s) \/ SweepCrash(s)
      BY <2>2, <3>3, SweepFrame
    <3>5. ~SweepConsume(s) /\ ~SweepComplete(s) /\ ~SweepRelease(s) /\ ~SweepCrash(s)
      BY <1>1, <2>1 DEF SweepConsume, SweepComplete, SweepRelease, SweepCrash, SweepGo,
                        SweepAt, NoSweep, PowerTypeOK, Sweep
    <3> QED
      BY <3>4, <3>5 DEF SweepStep
  <2>4. CASE SweepInspect(s)
    <3>1. Reported(i) = "off"
      BY <1>1, <2>4 DEF SweepInspect, SweepGo, SweepAt, PowerTypeOK, Sweep
    <3>2. Starting(i)
      BY <1>2, <1>6, <3>1 DEF Reported, Counted, Runs, Starting
    <3>3. PICK q \in Row : ImageOf[q] = i /\ row[q].held
      BY <1>2, <3>2 DEF StartsMarked, HasMark, Mirrors, Marked
    <3> QED
      BY <1>2, <1>3, <3>3, ResetIdle DEF Mates
  <2>5. CASE SweepOff(s)
    <3>1. image'[i].power = "off"
      BY <1>1, <1>2, <2>5 DEF SweepOff, SweepGo, SweepAt, PowerTypeOK, Sweep, Phone
    <3> QED
      BY <1>4, <3>1 DEF Runs
  <2> QED
    BY <2>3, <2>4, <2>5
<1> QED
  BY <1>5, <1>6

\* Phones come to run or to be reserved only within the limit.
LEMMA CountStays ==
  ASSUME PowerBase, ClaimsKept, NoSyncs, NoPeople, WakesMarked, Counted, [Next]_vars
  PROVE  Cardinality({i \in Image : Runs(i) \/ Reservation(i)})' <= Limit
<1> DEFINE now == {i \in Image : Runs(i) \/ Reservation(i)}
           then == {i \in Image : Runs(i)' \/ Reservation(i)'}
<1>1. PowerTypeOK /\ IsFiniteSet(Image) /\ Limit \in Nat
  BY PowerAssumption DEF PowerBase, PowerAssumption
<1>2. now \subseteq Image /\ then \subseteq Image /\ Cardinality(now) <= Limit
  BY DEF Counted
<1>3. ASSUME NEW i \in Image, Runs(i)', ~Runs(i) PROVE i \in now
  <2>1. PICK r \in Run : Wake(r) /\ ImageOfRun(r) = i
    BY <1>3, RunsByWake
  <2>2. RowOf[r] \in Row /\ ImageOf[RowOf[r]] = i /\ row[RowOf[r]].held
    BY <2>1, Places DEF Wake, WakesMarked, At, Marked, ImageOfRun
  <2> QED
    BY <2>2 DEF Reservation, Mirrors
<1>4. ASSUME NEW i \in Image, Reservation(i)', ~Reservation(i)
      PROVE  \E r \in Run : AcquireNew(r) /\ i = ImageOfRun(r)
  <2>1. PICK q \in Row : ImageOf[q] = i /\ row'[q].held
    BY <1>4 DEF Reservation, Mirrors
  <2>2. ~row[q].held
    BY <1>4, <2>1 DEF Reservation, Mirrors
  <2> QED
    BY <2>1, <2>2, HeldStays DEF ImageOfRun
<1>5. CASE \E r \in Run : AcquireNew(r)
  <2>1. PICK r \in Run : AcquireNew(r)
    BY <1>5
  <2> DEFINE i == ImageOfRun(r)
  <2>2. i \in Image /\ CapacityAllows(i)
    BY <2>1, Places DEF AcquireNew
  <2>3. \A t \in Run : AcquireNew(t) => t = r
    <3>1. job'[r].pc = "look" /\ job[r].pc = "idle"
      BY <1>1, <2>1 DEF AcquireNew, PowerTypeOK, Job
    <3> QED
      BY <2>1, <3>1, RunFrame DEF RunStep
  <2>4. ASSUME NEW j \in now PROVE ImageOn(j) \/ ImagePending(j)
    <3>1. j \in Image /\ (HasMark(j) \/ Reservation(j) \/ \E p \in Mirrors(j) : row[p].status # "off")
      BY <2>4 DEF Counted
    <3>2. \A p \in Mirrors(j) : row[p].status \in {"off", "booting", "on"}
      BY <1>1 DEF Mirrors, PowerTypeOK, PhoneRow, Power
    <3> QED
      BY <3>1, <3>2 DEF HasMark, Marked, Reservation, ImageOn, LocalOn, ImagePending, LocalPending
  <2>5. Cardinality(now \cup {i}) <= Limit
    BY <1>1, <1>2, <2>2, <2>4, CapacityCounts
  <2>6. then \subseteq now \cup {i}
    BY <1>3, <1>4, <2>3
  <2>7. IsFiniteSet(now) /\ IsFiniteSet(now \cup {i}) /\ IsFiniteSet(then)
    BY <1>1, <1>2, FS_Subset, FS_AddElement
  <2>8. Cardinality(then) <= Cardinality(now \cup {i})
    BY <2>6, <2>7, FS_Subset
  <2>9. Cardinality(then) \in Nat /\ Cardinality(now \cup {i}) \in Nat
    BY <2>7, FS_CardinalityType
  <2> HIDE DEF then, now
  <2>10. Cardinality(then) <= Limit
    BY <1>1, <2>5, <2>8, <2>9
  <2> QED
    BY <2>10 DEF then
<1>6. CASE ~(\E r \in Run : AcquireNew(r))
  <2>1. then \subseteq now
    BY <1>3, <1>4, <1>6
  <2>2. IsFiniteSet(now) /\ IsFiniteSet(then)
    BY <1>1, <1>2, FS_Subset
  <2>3. Cardinality(then) <= Cardinality(now)
    BY <2>1, <2>2, FS_Subset
  <2>4. Cardinality(then) \in Nat /\ Cardinality(now) \in Nat
    BY <2>2, FS_CardinalityType
  <2> HIDE DEF then, now
  <2>5. Cardinality(then) <= Limit
    BY <1>1, <1>2, <2>3, <2>4
  <2> QED
    BY <2>5 DEF then
<1> QED
  BY <1>5, <1>6

LEMMA StepCounted ==
  ASSUME PowerBase, ClaimsKept, NoSyncs, NoExpiry, NoPeople, WakesMarked, StartsMarked,
         Counted, [Next]_vars
  PROVE  Counted'
<1>1. PowerTypeOK
  BY DEF PowerBase
<1>2. ASSUME NEW i \in Image, Runs(i)'
      PROVE  /\ image'[i].by = "scheduler"
             /\ HasMark(i)' \/ \E p \in Mirrors(i) : row'[p].status # "off"
  <2>1. CASE Runs(i) /\ image'[i].by = image[i].by
    BY <2>1, KnownStays DEF Counted
  <2>2. CASE ~(Runs(i) /\ image'[i].by = image[i].by)
    <3>1. PICK r \in Run : Wake(r) /\ ImageOfRun(r) = i /\ image'[i].by = "scheduler"
      BY <1>2, <2>2, RunsByWake
    <3>2. HasMark(i)'
      BY <3>1, Places DEF Wake, WakesMarked, At, HasMark, Mirrors, ImageOfRun, Marked
    <3> QED
      BY <3>1, <3>2
  <2> QED
    BY <2>1, <2>2
<1>3. \A r \in Run : SeesOff(r)' /\ Runs(ImageOfRun(r))' => HasMark(ImageOfRun(r))'
  BY SeenStays
<1>4. \A s \in Sweeper : SweepAt(s, {"settle", "complete"})' /\ Claims(s)'
        => ~Runs(ImageOf[sweep[s].row])'
  BY SettledStays
<1>5. Cardinality({i \in Image : Runs(i) \/ Reservation(i)})' <= Limit
  BY CountStays
<1> QED
  BY <1>2, <1>3, <1>4, <1>5 DEF Counted
LEMMA InitCounted == Init => Counted
<1> SUFFICES ASSUME Init PROVE Counted
  OBVIOUS
<1>1. {i \in Image : Runs(i) \/ Reservation(i)} = {}
  BY DEF Init, Runs, Reservation, Mirrors, NewRow
<1>2. Cardinality({i \in Image : Runs(i) \/ Reservation(i)}) <= Limit
  BY <1>1, FS_EmptySet, PowerAssumption DEF PowerAssumption
<1> QED
  BY <1>2 DEF Init, Counted, Runs, SweepAt, NoSweep, SeesOff, At

\* Inventory syncs, the power button and reservations that run out during a
\* start apart, the scheduler never has more phones running than the startup
\* capacity: a phone that runs has its status or its marker on record, so it is
\* counted, and what is counted is counted once (acquire_phone_lease).  Calls may
\* be lost, workers and sweeps may die, capacity refreshes may be late.
THEOREM CeilingIsKept == NoSyncs /\ NoExpiry /\ NoPeople => (Spec => []StartupCeiling)
<1>1. ASSUME NoSyncs, NoExpiry, NoPeople PROVE Spec => []StartupCeiling
  <2> DEFINE Inv == PowerBase /\ ClaimsKept /\ WakesMarked /\ StartsMarked /\ Counted
  <2>1. Init => Inv
    <3>1. Init => ClaimsKept
      BY DEF Init, ClaimsKept, OffClaimed, SweepAt, NoSweep
    <3>2. Init => WakesMarked /\ StartsMarked
      BY DEF Init, WakesMarked, StartsMarked, At, SeesOff, Starting
    <3> QED
      BY <3>1, <3>2, InitBase, InitCounted
  <2>2. Inv /\ [Next]_vars => Inv'
    BY <1>1, StepBase, StepClaims, StepMarked, StepStarts, StepCounted
  <2>3. Inv => StartupCeiling
    <3> SUFFICES ASSUME Counted PROVE StartupCeiling
      OBVIOUS
    <3> DEFINE up == {i \in Image : image[i].power # "off"}
               counted == {i \in Image : Runs(i) \/ Reservation(i)}
    <3>1. up \subseteq counted /\ counted \subseteq Image /\ IsFiniteSet(Image) /\ Limit \in Nat
      BY PowerAssumption DEF PowerAssumption, Runs
    <3>2. IsFiniteSet(counted) /\ IsFiniteSet(up)
      BY <3>1, FS_Subset
    <3>3. /\ Cardinality(up) <= Cardinality(counted)
          /\ Cardinality(up) \in Nat /\ Cardinality(counted) \in Nat
      BY <3>1, <3>2, FS_Subset, FS_CardinalityType
    <3>4. Cardinality(counted) <= Limit
      BY DEF Counted
    <3> HIDE DEF up, counted
    <3>5. Cardinality(up) <= Limit
      BY <3>1, <3>3, <3>4
    <3> QED
      BY <3>5 DEF StartupCeiling, up
  <2> QED
    BY <2>1, <2>2, <2>3, PTL DEF Spec
<1> QED
  BY <1>1

-----------------------------------------------------------------------------
(* Sessions and their shutdowns.                                           *)

\* A report changes the session of a row only by ending it.
SessionSame(x, y) == SamePower(x, y) /\ y.recent = x.recent /\ (y.idle => x.idle)

LEMMA WithStatusSession ==
  ASSUME NEW x \in SoundRow, NEW status \in Power, NEW at \in Stamp,
         [WithStatus(x, status) EXCEPT !.seenAt = at].power # "none"
  PROVE  SessionSame(x, [WithStatus(x, status) EXCEPT !.seenAt = at])
<1> DEFINE z == [x EXCEPT !.status = status]
<1>1. z \in SoundRow /\ SamePower(x, z) /\ z.recent = x.recent /\ z.idle = x.idle
  BY DEF SoundRow, PhoneRow, Power, SamePower
<1> HIDE DEF z
<1>2. ASSUME NEW y \in SoundRow
      PROVE  LET w == [y EXCEPT !.seenAt = at]
             IN  w.power = y.power /\ w.starter = y.starter /\ w.recent = y.recent /\ w.idle = y.idle
  BY DEF SoundRow, PhoneRow
<1>3. CASE status = "on"
  <2>1. WithStatus(x, status) = NoSlot(z)
    BY <1>3 DEF WithStatus, z
  <2>2. NoSlot(z) \in SoundRow
    BY <1>1, NoSlotFacts
  <2>3. NoSlot(z).recent = z.recent /\ NoSlot(z).idle = z.idle /\ SamePower(z, NoSlot(z))
    BY <1>1 DEF NoSlot, SoundRow, PhoneRow, SamePower
  <2> QED
    BY <1>1, <1>2, <2>1, <2>2, <2>3 DEF SessionSame, SamePower
<1>4. CASE status = "off" /\ x.status # "off"
  <2>1. WithStatus(x, status).power = "none" /\ WithStatus(x, status) \in SoundRow
    BY <1>4, WithStatusFacts DEF StatusWritten
  <2> QED
    BY <1>2, <2>1
<1>5. CASE status # "on" /\ ~(status = "off" /\ x.status # "off")
  <2>1. WithStatus(x, status) = z
    BY <1>5 DEF WithStatus, z
  <2> QED
    BY <1>1, <1>2, <2>1 DEF SessionSame, SamePower
<1> QED
  BY <1>3, <1>4, <1>5

LEMMA ReportSession ==
  ASSUME PowerTypeOK, NEW p \in Row, NEW q \in Row, NEW status \in Power, NEW at \in Stamp,
         row' = [row EXCEPT ![p] = [WithStatus(@, status) EXCEPT !.seenAt = at]],
         row'[q].power # "none"
  PROVE  SessionSame(row[q], row'[q])
<1>1. CASE q # p
  BY <1>1 DEF PowerTypeOK, SessionSame, SamePower
<1>2. CASE q = p
  <2>1. row'[q] = [WithStatus(row[q], status) EXCEPT !.seenAt = at] /\ row[q] \in SoundRow
    BY <1>2, SoundRows
  <2> HIDE DEF SessionSame
  <2> QED
    BY <2>1, WithStatusSession
<1> QED
  BY <1>1, <1>2

\* A session begins when it is marked and is confirmed by its worker; it waits
\* on, and idles, until it ends.
LEMMA RunSession ==
  ASSUME PowerBase, NEW r \in Run, RunStep(r), NEW q \in Row, row'[q].power # "none"
  PROVE  \/ SessionSame(row[q], row'[q])
         \/ /\ q = RowOf[r] /\ Mark(r) /\ row[q].power = "none" /\ row'[q].starter = r
            /\ row'[q].power = "requested" /\ row'[q].recent /\ SameSlot(row[q], row'[q])
         \/ /\ q = RowOf[r] /\ Confirm(r) /\ row[q].power = "requested" /\ row[q].live
            /\ row'[q].power = "owned" /\ row'[q].starter = row[q].starter
            /\ ~row'[q].idle /\ SameClaim(row[q], row'[q])
<1> DEFINE x == row[q]
<1>1. PowerTypeOK /\ row \in [Row -> SoundRow] /\ x \in SoundRow /\ RowOf[r] \in Row
  BY SoundRows, Places DEF PowerBase
<1>2. CASE q # RowOf[r] \/ UNCHANGED row
  BY <1>2, RunFrame DEF OthersSame, SessionSame, SamePower
<1>3. CASE q = RowOf[r] /\ row' # row
  <2>1. CASE AcquireNew(r)
    <3> DEFINE z == Reserved(x, r)
    <3>1. row'[q] = [z EXCEPT !.lease = r, !.live = TRUE] /\ z \in SoundRow
      BY <1>1, <1>3, <2>1, ReservedFacts DEF AcquireNew
    <3>2. SamePower(x, z) /\ z.recent = x.recent /\ z.idle = x.idle
      BY <1>1 DEF Reserved, NoSlot, SoundRow, PhoneRow, SamePower
    <3> HIDE DEF z
    <3> QED
      BY <3>1, <3>2 DEF SoundRow, PhoneRow, SessionSame, SamePower
  <2>2. CASE AcquireExisting(r)
    <3>1. row'[q] = [x EXCEPT !.lease = r, !.live = TRUE]
      BY <1>1, <1>3, <2>2 DEF AcquireExisting
    <3> QED
      BY <1>1, <3>1 DEF SoundRow, PhoneRow, SessionSame, SamePower
  <2>3. CASE Record(r)
    <3>1. job[r].seen \in Power
      BY <1>1 DEF PowerTypeOK, Job
    <3> QED
      BY <1>1, <1>3, <2>3, <3>1, NowIsStamp, ReportSession DEF Record
  <2>4. CASE Attempt(r)
    <3>1. row'[q] = [x EXCEPT !.tried = TRUE, !.poweredAt = Now]
      BY <1>1, <1>3, <2>4 DEF Attempt
    <3> QED
      BY <1>1, <3>1 DEF SoundRow, PhoneRow, SessionSame, SamePower
  <2>5. CASE Mark(r)
    <3> DEFINE z == NoClaim(x)
    <3>1. /\ row'[q] = [z EXCEPT !.power = "requested", !.starter = r, !.recent = TRUE,
                                 !.idle = FALSE, !.poweredAt = Now]
          /\ x.power = "none" /\ z \in SoundRow
      BY <1>1, <1>3, <2>5, NoClaimFacts DEF Mark
    <3>2. row'[q].starter = r /\ row'[q].power = "requested" /\ row'[q].recent
      <4> HIDE DEF z
      <4> QED
        BY <3>1 DEF SoundRow, PhoneRow
    <3>3. SameSlot(x, row'[q])
      BY <1>1, <1>3, <2>5, MarkRow
    <3> QED
      BY <1>3, <2>5, <3>1, <3>2, <3>3
  <2>6. CASE Confirm(r)
    <3>1. /\ row'[q] = [x EXCEPT !.power = "owned", !.idle = FALSE, !.poweredAt = Now]
          /\ x.power = "requested"
      BY <1>1, <1>3, <2>6 DEF Confirm
    <3>2. /\ row'[q].power = "owned" /\ row'[q].starter = x.starter
          /\ ~row'[q].idle /\ SameClaim(x, row'[q])
      BY <1>1, <3>1 DEF SoundRow, PhoneRow, SameClaim
    <3>3. x.live
      BY <1>3, <2>6 DEF Confirm, PowerBase, Bound
    <3> QED
      BY <1>3, <2>6, <3>1, <3>2, <3>3
  <2>7. CASE Release(r) \/ Reap(r)
    <3> DEFINE z == Unleased(x)
    <3>1. row'[q] \in {z, NoSlot(z)} /\ z \in SoundRow
      BY <1>1, <1>3, <2>7, UnleasedFacts DEF Release, Reap
    <3>2. SamePower(x, z) /\ z.recent = x.recent /\ (z.idle => x.idle)
      BY <1>1 DEF Unleased, SoundRow, PhoneRow, SamePower
    <3> HIDE DEF z
    <3>3. SamePower(z, NoSlot(z)) /\ NoSlot(z).recent = z.recent /\ NoSlot(z).idle = z.idle
      BY <3>1 DEF NoSlot, SoundRow, PhoneRow, SamePower
    <3> QED
      BY <3>1, <3>2, <3>3 DEF SessionSame, SamePower
  <2> QED
    BY <1>3, <2>1, <2>2, <2>3, <2>4, <2>5, <2>6, <2>7
       DEF RunStep, Dispatch, Look, Wake, Wait, Fence, Add, Check, Fail, PreparationFails,
           Crash, ComesDue, Closes
<1> QED
  BY <1>2, <1>3

LEMMA SweepSession ==
  ASSUME PowerBase, NEW q \in Row, row'[q].power # "none",
         NEW s \in Sweeper, \/ SweepStep(s) \/ SweepCrash(s)
                            \/ \E p \in Row : SweepClaim(s, p)
  PROVE  SessionSame(row[q], row'[q])
<1> USE DEF SessionSame, SamePower
<1>1. PowerTypeOK /\ row \in [Row -> SoundRow] /\ row[q] \in SoundRow
  BY SoundRows DEF PowerBase
<1>2. CASE UNCHANGED row
  BY <1>2
<1>3. CASE SweepComplete(s)
  BY <1>1, <1>2, <1>3, SweepCompleteRow DEF PhoneReset
<1>4. CASE SweepConsume(s) \/ SweepRelease(s)
  <2>1. sweep[s].row \in Row
    BY <1>4 DEF SweepConsume, SweepRelease, PowerBase, Bound
  <2>2. \/ UNCHANGED row
        \/ row' = [row EXCEPT ![sweep[s].row] = Unowned(@)]
        \/ row' = [row EXCEPT ![sweep[s].row] = NoClaim(@)]
    BY <1>4 DEF SweepConsume, Consumed, SweepRelease
  <2>3. CASE row' = [row EXCEPT ![sweep[s].row] = Unowned(@)]
    BY <1>1, <2>1, <2>3, UnownedRow DEF OthersSame
  <2>4. CASE row' = [row EXCEPT ![sweep[s].row] = NoClaim(@)]
    <3>1. row'[q] \in {row[q], NoClaim(row[q])}
      BY <1>1, <2>1, <2>4
    <3> QED
      BY <1>1, <3>1 DEF NoClaim, SoundRow, PhoneRow
  <2> QED
    BY <1>2, <2>2, <2>3, <2>4
<1>5. ASSUME NEW p \in Row, SweepClaim(s, p)
      PROVE  SessionSame(row[q], row'[q])
  <2>1. row'[q] \in {row[q], [row[q] EXCEPT !.off = s, !.offLive = TRUE]}
    BY <1>1, <1>5 DEF SweepClaim
  <2> QED
    BY <1>1, <2>1 DEF SoundRow, PhoneRow
<1> QED
  BY <1>2, <1>3, <1>4, <1>5 DEF SweepStep, SweepInspect, SweepOff, SweepCrash

LEMMA WorldSession ==
  ASSUME PowerBase, WorldStep, NEW q \in Row, row'[q].power # "none"
  PROVE  /\ SamePower(row[q], row'[q])
         /\ row'[q].recent = row[q].recent \/ ReservationEnds(q)
         /\ row'[q].idle => row[q].idle \/ GoesIdle(q)
<1> USE DEF SessionSame, SamePower
<1> DEFINE x == row[q]
<1>1. PowerTypeOK /\ row \in [Row -> SoundRow] /\ x \in SoundRow
  BY SoundRows DEF PowerBase
<1>2. CASE UNCHANGED row
  BY <1>2
<1>3. ASSUME NEW p \in Row, SyncWrite(p)
      PROVE  SessionSame(x, row'[q])
  <2>1. sync[p].power \in Power /\ sync[p].at \in Stamp
    BY <1>1, <1>3 DEF SyncWrite, PowerTypeOK, Sync
  <2> QED
    BY <1>1, <1>3, <2>1, ReportSession DEF SyncWrite
<1>4. ASSUME NEW p \in Row, GoesIdle(p)
      PROVE  SamePower(x, row'[q]) /\ row'[q].recent = x.recent /\ (row'[q].idle => x.idle \/ p = q)
  <2>1. row'[q] = IF p = q THEN [x EXCEPT !.idle = TRUE] ELSE x
    BY <1>1, <1>4 DEF GoesIdle
  <2> QED
    BY <1>1, <2>1 DEF SoundRow, PhoneRow
<1>5. ASSUME NEW p \in Row, LeaseEnds(p)
      PROVE  SessionSame(x, row'[q])
  <2>1. row'[q] = IF p = q THEN [x EXCEPT !.live = FALSE] ELSE x
    BY <1>1, <1>5 DEF LeaseEnds
  <2> QED
    BY <1>1, <2>1 DEF SoundRow, PhoneRow
<1>6. ASSUME NEW p \in Row, ClaimEnds(p)
      PROVE  SessionSame(x, row'[q])
  <2>1. row'[q] = IF p = q THEN [x EXCEPT !.offLive = FALSE] ELSE x
    BY <1>1, <1>6 DEF ClaimEnds
  <2> QED
    BY <1>1, <2>1 DEF SoundRow, PhoneRow
<1>7. ASSUME NEW p \in Row, ReservationEnds(p)
      PROVE  SamePower(x, row'[q]) /\ (row'[q].recent = x.recent \/ p = q) /\ row'[q].idle = x.idle
  <2>1. row'[q] = IF p = q THEN [x EXCEPT !.held = FALSE, !.recent = FALSE] ELSE x
    BY <1>1, <1>7 DEF ReservationEnds
  <2> QED
    BY <1>1, <2>1 DEF SoundRow, PhoneRow
<1>8. CASE RefreshPublish
  <2>1. row'[q] = [x EXCEPT !.seenAt = Dated(x.seenAt), !.poweredAt = Dated(x.poweredAt)]
    BY <1>8 DEF RefreshPublish
  <2> QED
    BY <1>1, <2>1 DEF SoundRow, PhoneRow
<1> QED
  BY <1>2, <1>3, <1>4, <1>5, <1>6, <1>7, <1>8
     DEF WorldStep, SyncRead, RefreshBegin, RefreshRead, Boots, TaskEnds, PowerButton, vars

\* What the three kinds of steps do to the session of a row.
LEMMA SessionStays ==
  ASSUME PowerBase, [Next]_vars, NEW q \in Row, row'[q].power # "none"
  PROVE  \/ /\ SamePower(row[q], row'[q])
            /\ row'[q].recent = row[q].recent \/ ReservationEnds(q)
            /\ row'[q].idle => row[q].idle \/ GoesIdle(q)
         \/ \E r \in Run :
              /\ q = RowOf[r] /\ Mark(r) /\ row[q].power = "none" /\ row'[q].starter = r
              /\ row'[q].power = "requested" /\ row'[q].recent /\ SameSlot(row[q], row'[q])
         \/ \E r \in Run :
              /\ q = RowOf[r] /\ Confirm(r) /\ row[q].power = "requested" /\ row[q].live
              /\ row'[q].power = "owned" /\ row'[q].starter = row[q].starter
              /\ ~row'[q].idle /\ SameClaim(row[q], row'[q])
BY StepKinds, RunSession, SweepSession, WorldSession DEF SessionSame

\* Only markPhonePowerRequested begins a session.
LEMMA OwnedByMark ==
  ASSUME PowerBase, [Next]_vars, NEW q \in Row, row'[q].power # "none"
  PROVE  row[q].power # "none" \/ \E r \in Run : Mark(r) /\ q = RowOf[r]
BY SessionStays DEF SamePower

\* A reservation is dropped, renewed or kept, until it runs out.
LEMMA SlotStays ==
  ASSUME PowerBase, [Next]_vars, NEW q \in Row, row[q].slot = NoRun \/ row[q].held
  PROVE  row'[q].slot = NoRun \/ row'[q].held \/ ReservationEnds(q)
<1> USE DEF SameSlot, EmptySlot
<1>1. PowerTypeOK /\ row \in [Row -> SoundRow]
  BY SoundRows DEF PowerBase
<1>2. ASSUME NEW r \in Run, RunStep(r)
      PROVE  row'[q].slot = NoRun \/ row'[q].held
  <2>1. CASE q # RowOf[r] \/ UNCHANGED row
    BY <1>2, <2>1, RunFrame DEF OthersSame
  <2>2. CASE q = RowOf[r] /\ row' # row
    <3>1. CASE AcquireNew(r) \/ AcquireExisting(r)
      BY <1>1, <2>2, <3>1, AcquireNewRow, AcquireExistingRow DEF SlotReserved
    <3>2. CASE Record(r)
      BY <2>2, <3>2, RecordRow DEF StatusWritten
    <3>3. CASE Attempt(r)
      BY <1>1, <2>2, <3>3, AttemptRow
    <3>4. CASE Mark(r) \/ Confirm(r)
      BY <1>1, <2>2, <3>4, MarkRow, ConfirmRow
    <3>5. CASE Release(r) \/ Reap(r)
      BY <1>1, <2>2, <3>5, ReleaseRow, ReapRow DEF LeaseDropped
    <3> QED
      BY <1>2, <2>2, <3>1, <3>2, <3>3, <3>4, <3>5
         DEF RunStep, Dispatch, Look, Wake, Wait, Fence, Add, Check, Fail, PreparationFails,
             Crash, ComesDue, Closes
  <2> QED
    BY <2>1, <2>2
<1>3. ASSUME NEW s \in Sweeper, SweepStep(s) \/ SweepCrash(s)
      PROVE  row'[q].slot = NoRun \/ row'[q].held
  BY <1>1, <1>3, SweepRows DEF PhoneReset
<1>4. ASSUME NEW s \in Sweeper, NEW p \in Row, SweepClaim(s, p)
      PROVE  row'[q].slot = NoRun \/ row'[q].held
  BY <1>1, <1>4, SweepClaimRow DEF OthersSame
<1>5. CASE WorldStep
  <2>1. CASE QuietRows
    BY <1>1, <2>1 DEF QuietRows
  <2>2. ASSUME NEW p \in Row, LeaseEnds(p) \/ ClaimEnds(p) \/ (ReservationEnds(p) /\ p # q)
        PROVE  row'[q].slot = NoRun \/ row'[q].held
    <3>1. SameSlot(row[p], row'[p]) \/ EmptySlot(row'[p]) \/ p # q
      BY <1>1, <2>2, LeaseEndsRow, ClaimEndsRow DEF LeaseDropped
    <3>2. OthersSame(p)
      BY <1>1, <2>2, LeaseEndsRow, ClaimEndsRow, ReservationEndsRow
    <3> QED
      BY <3>1, <3>2 DEF OthersSame
  <2>3. ASSUME NEW p \in Row, SyncWrite(p)
        PROVE  row'[q].slot = NoRun \/ row'[q].held
    BY <1>1, <2>3, SyncWriteRow DEF OthersSame, StatusWritten
  <2>4. UNCHANGED row => QuietRows
    BY <1>1, UnchangedRows
  <2> QED
    BY <1>1, <1>5, <2>1, <2>2, <2>3, <2>4, GoesIdleRow, RefreshPublishRow
       DEF WorldStep, SyncRead, RefreshBegin, RefreshRead, Boots, TaskEnds, PowerButton, vars
<1> QED
  BY <1>2, <1>3, <1>4, <1>5, StepKinds

\* Claims are made by sweeps.
LEMMA ClaimsBySweep ==
  ASSUME PowerBase, [Next]_vars, NEW q \in Row, row'[q].offLive, ~row[q].offLive
  PROVE  \E s \in Sweeper : SweepClaim(s, q)
<1>1. PowerTypeOK /\ row \in [Row -> SoundRow] /\ row' # row
  BY SoundRows DEF PowerBase
<1>2. ASSUME NEW r \in Run, RunStep(r)
      PROVE  FALSE
  BY <1>1, <1>2, RunFrame, Places DEF OthersSame
<1>3. ASSUME NEW s \in Sweeper, SweepStep(s) \/ SweepCrash(s)
      PROVE  FALSE
  <2>1. CASE SweepComplete(s)
    BY <1>1, <1>3, <2>1, SweepCompleteRow DEF PhoneReset
  <2>2. CASE SweepConsume(s) \/ SweepRelease(s)
    <3>1. sweep[s].row \in Row
      BY <1>3, SweepFrame
    <3>2. \/ row' = [row EXCEPT ![sweep[s].row] = Unowned(@)]
          \/ row' = [row EXCEPT ![sweep[s].row] = NoClaim(@)]
      BY <1>1, <2>2 DEF SweepConsume, Consumed, SweepRelease
    <3> QED
      BY <1>1, <3>1, <3>2, UnownedRow, NoClaimRow DEF OthersSame, SameClaim
  <2> QED
    BY <1>1, <1>3, <2>1, <2>2 DEF SweepStep, SweepInspect, SweepOff, SweepCrash
<1>4. ASSUME NEW s \in Sweeper, NEW p \in Row, SweepClaim(s, p), p # q
      PROVE  FALSE
  BY <1>1, <1>4, SweepClaimRow DEF OthersSame
<1>5. CASE WorldStep
  <2>1. CASE QuietRows
    BY <1>1, <2>1 DEF QuietRows, SameClaim
  <2>2. ASSUME NEW p \in Row,
               LeaseEnds(p) \/ ClaimEnds(p) \/ ReservationEnds(p) \/ SyncWrite(p)
        PROVE  FALSE
    BY <1>1, <2>2, LeaseEndsRow, ClaimEndsRow, ReservationEndsRow, SyncWriteRow
       DEF LeaseDropped, StatusWritten, OthersSame, SameClaim
  <2> QED
    BY <1>1, <1>5, <2>1, <2>2, GoesIdleRow, RefreshPublishRow
       DEF WorldStep, SyncRead, RefreshBegin, RefreshRead, Boots, TaskEnds, PowerButton, vars
<1> QED
  BY <1>2, <1>3, <1>4, <1>5, StepKinds

\* What is read of a phone, and when it is forgotten.
LEMMA ReadingStays ==
  ASSUME PowerBase, [Next]_vars, NEW q \in Row
  PROVE  \/ sync'[q].power \in {sync[q].power, "none"}
         \/ SyncRead(q) /\ sync'[q].power = Reported(ImageOf[q])
<1>1. PowerTypeOK
  BY DEF PowerBase
<1>2. CASE UNCHANGED sync
  BY <1>2
<1>3. ASSUME NEW p \in Row, SyncRead(p)
      PROVE  \/ sync'[q].power = sync[q].power
             \/ p = q /\ sync'[q].power = Reported(ImageOf[q])
  <2>1. sync'[q] = IF p = q THEN [power |-> Reported(ImageOf[p]), at |-> Now] ELSE sync[q]
    BY <1>1, <1>3 DEF SyncRead, PowerTypeOK
  <2> QED
    BY <2>1
<1>4. ASSUME NEW p \in Row, SyncWrite(p)
      PROVE  sync'[q].power \in {sync[q].power, "none"}
  <2>1. sync'[q] = IF p = q THEN NoSync ELSE sync[q]
    BY <1>1, <1>4 DEF SyncWrite, PowerTypeOK
  <2> QED
    BY <2>1 DEF NoSync
<1>5. CASE RefreshPublish
  <2>1. sync'[q] = [sync[q] EXCEPT !.at = Dated(sync[q].at)]
    BY <1>5 DEF RefreshPublish
  <2>2. sync[q] \in [power : Power, at : Stamp] \cup {NoSync}
    BY <1>1 DEF PowerTypeOK, Sync
  <2> QED
    BY <2>1, <2>2 DEF NoSync
<1> QED
  BY <1>2, <1>3, <1>4, <1>5, StepKinds, RunFrame, SweepFrame
     DEF SweepClaim, WorldStep, GoesIdle, LeaseEnds, ClaimEnds, ReservationEnds,
         RefreshBegin, RefreshRead, Boots, TaskEnds, PowerButton, vars

\* Requests to switch off are the sweeps'; a start clears the count.
LEMMA Requests ==
  ASSUME PowerBase, [Next]_vars, NEW i \in Image
  PROVE  /\ asked[i] \in Nat
         /\ \/ asked'[i] \in {0, asked[i]}
            \/ /\ asked'[i] = asked[i] + 1
               /\ \E s \in Sweeper : SweepOff(s) /\ ImageOf[sweep[s].row] = i
<1>1. PowerTypeOK
  BY DEF PowerBase
<1>2. ASSUME NEW r \in Run, RunStep(r)
      PROVE  asked'[i] \in {0, asked[i]}
  <2>1. CASE UNCHANGED asked
    BY <2>1
  <2>2. CASE Wake(r)
    BY <1>1, <2>2, Places DEF Wake, PowerTypeOK
  <2> QED
    BY <1>2, <2>1, <2>2
       DEF RunStep, AcquireNew, AcquireExisting, Dispatch, Look, Record, Attempt, Mark, Wait,
           Confirm, Fence, Add, Check, Fail, PreparationFails, Release, Crash, Reap, ComesDue,
           Closes
<1>3. ASSUME NEW s \in Sweeper, SweepOff(s)
      PROVE  \/ asked'[i] = asked[i]
             \/ asked'[i] = asked[i] + 1 /\ ImageOf[sweep[s].row] = i
  <2>1. ImageOf[sweep[s].row] \in Image
    BY <1>3, Places DEF SweepOff, PowerBase, Bound
  <2> QED
    BY <1>1, <1>3, <2>1 DEF SweepOff, PowerTypeOK
<1>4. ASSUME NEW j \in Image, PowerButton(j)
      PROVE  asked'[i] \in {0, asked[i]}
  BY <1>1, <1>4 DEF PowerButton, PowerTypeOK
<1> QED
  BY <1>1, <1>2, <1>3, <1>4, StepKinds
     DEF SweepStep, SweepInspect, SweepConsume, SweepComplete, SweepRelease, SweepCrash,
         SweepClaim, WorldStep, SyncRead, SyncWrite, GoesIdle, LeaseEnds, ClaimEnds,
         ReservationEnds, RefreshBegin, RefreshRead, RefreshPublish, Boots, TaskEnds,
         PowerTypeOK, vars

\* People apart, phones are switched off by sweeps, and one that is on stays on.
LEMMA StopsBySweep ==
  ASSUME PowerBase, NoPeople, [Next]_vars, NEW i \in Image, Runs(i),
         \A s \in Sweeper : SweepOff(s) => ImageOf[sweep[s].row] # i
  PROVE  Runs(i)' /\ (image[i].power = "on" => image'[i].power = "on")
<1>1. PowerTypeOK
  BY DEF PowerBase
<1>2. ASSUME NEW r \in Run, RunStep(r)
      PROVE  image'[i].power = image[i].power
  <2>1. CASE UNCHANGED image
    BY <2>1
  <2>2. CASE Add(r) /\ image' # image
    <3>1. image' = [image EXCEPT ![ImageOfRun(r)].tasks = @ \cup {r}]
      BY <2>2 DEF Add
    <3> QED
      BY <1>1, <3>1, Places DEF PowerTypeOK, Phone
  <2>3. CASE Wake(r) /\ image' # image
    <3>1. /\ image[ImageOfRun(r)].power = "off"
          /\ image' = [image EXCEPT ![ImageOfRun(r)].power = "starting",
                                    ![ImageOfRun(r)].by = "scheduler"]
      BY <2>3 DEF Wake
    <3> QED
      BY <1>1, <3>1, Places DEF Runs, PowerTypeOK, Phone
  <2> QED
    BY <1>2, <2>1, <2>2, <2>3
       DEF RunStep, AcquireNew, AcquireExisting, Dispatch, Look, Record, Attempt, Mark, Wait,
           Confirm, Fence, Check, Fail, PreparationFails, Release, Crash, Reap, ComesDue, Closes
<1>3. ASSUME NEW s \in Sweeper, SweepOff(s)
      PROVE  image'[i].power = image[i].power
  <2>1. ImageOf[sweep[s].row] \in Image \ {i}
    BY <1>3, Places DEF SweepOff, PowerBase, Bound
  <2> QED
    BY <1>1, <1>3, <2>1 DEF SweepOff, PowerTypeOK, Phone
<1>4. ASSUME NEW j \in Image, Boots(j)
      PROVE  /\ image'[i].power # "off"
             /\ image[i].power = "on" => image'[i].power = "on"
  BY <1>1, <1>4 DEF Boots, Runs, PowerTypeOK, Phone
<1>5. ASSUME NEW j \in Image, TaskEnds(j)
      PROVE  image'[i].power = image[i].power
  <2>1. PICK r \in image[j].tasks :
          image' = [image EXCEPT ![j].tasks = @ \ {r}, ![j].done = @ \cup {r}]
    BY <1>5 DEF TaskEnds
  <2> QED
    BY <1>1, <2>1 DEF PowerTypeOK, Phone
<1>6. \A j \in Image : ~PowerButton(j)
  BY DEF PowerButton, Fault, NoPeople
<1>7. CASE UNCHANGED image
  BY <1>7 DEF Runs
<1> QED
  BY <1>2, <1>3, <1>4, <1>5, <1>6, <1>7, StepKinds
     DEF SweepStep, SweepInspect, SweepConsume, SweepComplete, SweepRelease, SweepCrash,
         SweepClaim, WorldStep, SyncRead, SyncWrite, GoesIdle, LeaseEnds, ClaimEnds,
         ReservationEnds, RefreshBegin, RefreshRead, RefreshPublish, vars, Runs

\* A sweep that is about to switch off a phone is alone with it.
LEMMA AloneAtOff ==
  ASSUME PowerBase, OffClaimed, NEW s \in Sweeper, SweepAt(s, {"off"})
  PROVE  /\ sweep[s].row \in Row /\ ImageOf[sweep[s].row] \in Image /\ Claims(s)
         /\ \A r \in Run : ImageOfRun(r) = ImageOf[sweep[s].row] => job[r].pc = "idle"
<1>1. sweep[s].row \in Row /\ Claims(s)
  BY DEF PowerBase, Bound, OffClaimed, SweepAt
<1> QED
  BY <1>1, ResetIdle, Places DEF PowerBase, Bound, Mates, ImageOfRun

\* Sweeps ask one at a time.
LEMMA OneAsks ==
  ASSUME PowerBase, OffClaimed, NEW s \in Sweeper, Claims(s), sweep[s].row \in Row,
         NEW t \in Sweeper, SweepOff(t), ImageOf[sweep[t].row] = ImageOf[sweep[s].row]
  PROVE  s = t
<1>1. SweepAt(t, {"off"})
  BY DEF SweepOff, SweepAt
<1> QED
  BY <1>1, AloneAtOff, OneClaimant DEF Mates

\* A phone without an owner stays so, but for its worker's mark.
LEMMA NoneStays ==
  ASSUME PowerBase, [Next]_vars, NEW i \in Image, NoneOwned(i)
  PROVE  NoneOwned(i)' \/ \E r \in Run : Mark(r) /\ ImageOfRun(r) = i
BY OwnedByMark, Places DEF NoneOwned, Mirrors, ImageOfRun

\* While a worker is at a phone, no sweep switches it off, and the other rows
\* of the phone begin no session.
LEMMA NotSweptAtWork ==
  ASSUME PowerBase, OffClaimed, NEW r \in Run, job[r].pc # "idle", NEW s \in Sweeper,
         SweepOff(s)
  PROVE  ImageOf[sweep[s].row] # ImageOfRun(r)
BY AloneAtOff DEF SweepOff, SweepAt

LEMMA OthersBeginNone ==
  ASSUME PowerBase, [Next]_vars, NEW r \in Run, job[r].pc # "idle",
         NEW q \in Row \ {RowOf[r]}, ImageOf[q] = ImageOfRun(r), row'[q].power # "none"
  PROVE  row[q].power # "none" /\ row'[q].power = row[q].power
<1>1. ASSUME NEW t \in Run, Mark(t) \/ Confirm(t), q = RowOf[t]
      PROVE  FALSE
  <2>1. job[t].pc # "idle" /\ ImageOfRun(t) = ImageOfRun(r)
    BY <1>1 DEF Mark, Confirm, ImageOfRun
  <2> QED
    BY <1>1, <2>1, OneWorker
<1> QED
  BY <1>1, SessionStays DEF SamePower

\* What a recorded session promises: the phone runs, and was not asked to go off.
LEMMA OwnedRuns ==
  ASSUME PowerBase, NoPeople, Sessions, WorkersKnow, [Next]_vars,
         NEW p \in Row, row'[p].power # "none"
  PROVE  Runs(ImageOf[p])' /\ asked'[ImageOf[p]] = 0 /\ RowOf[row'[p].starter] = p
<1> DEFINE i == ImageOf[p]
<1>1. i \in Image /\ PowerTypeOK
  BY Places DEF PowerBase
<1>2. CASE row[p].power # "none"
  <2>1. Runs(i) /\ asked[i] = 0 /\ ~NoneOwned(i) /\ RowOf[row[p].starter] = p
    BY <1>2 DEF Sessions, NoneOwned, Mirrors
  <2>2. ASSUME NEW s \in Sweeper, SweepOff(s), ImageOf[sweep[s].row] = i
        PROVE  FALSE
    BY <2>1, <2>2 DEF Sessions, SweepOff, SweepAt
  <2>3. row'[p].starter = row[p].starter
    BY <1>2, SessionStays DEF SamePower
  <2> QED
    BY <1>1, <2>1, <2>2, <2>3, StopsBySweep, Requests
<1>3. ASSUME NEW r \in Run, Mark(r), p = RowOf[r], row[p].power = "none"
      PROVE  Runs(i)' /\ asked'[i] = 0 /\ RowOf[row'[p].starter] = p
  <2>1. Runs(i) /\ asked[i] = 0
    BY <1>3 DEF WorkersKnow, At, Mark, ImageOfRun
  <2>2. RowOf[row'[p].starter] = p
    BY <1>3, SessionStays DEF SamePower
  <2> QED
    BY <1>3, <2>1, <2>2 DEF Mark, Runs
<1> QED
  BY <1>2, <1>3, OwnedByMark

\* A request that is recorded stays pending.
LEMMA RequestPends ==
  ASSUME PowerBase, NoExpiry, Sessions, WorkersKnow, [Next]_vars,
         NEW p \in Row, row'[p].power = "requested"
  PROVE  row'[p].recent /\ (row'[p].slot = NoRun \/ row'[p].held)
<1>1. CASE row[p].power = "requested"
  <2>1. row[p].recent /\ (row[p].slot = NoRun \/ row[p].held) /\ Runs(ImageOf[p])
    BY <1>1 DEF Sessions
  <2>2. ~ReservationEnds(p)
    BY <2>1 DEF ReservationEnds, NoExpiry, Runs
  <2> QED
    BY <1>1, <2>1, <2>2, SessionStays, SlotStays
<1>2. CASE row[p].power # "requested"
  <2>1. PICK r \in Run : /\ p = RowOf[r] /\ Mark(r) /\ row'[p].recent
                         /\ SameSlot(row[p], row'[p])
    BY <1>2, SessionStays DEF SamePower
  <2> QED
    BY <2>1 DEF WorkersKnow, At, Mark, SameSlot
<1> QED
  BY <1>1, <1>2

\* An owned phone is on, and what is read of it does not say that it is off.
LEMMA OwnedIsOn ==
  ASSUME PowerBase, NoPeople, Sessions, WorkersKnow, [Next]_vars,
         NEW p \in Row, row'[p].power = "owned"
  PROVE  /\ image'[ImageOf[p]].power = "on"
         /\ row'[p].idle \/ row'[p].offLive => sync'[p].power # "off"
<1> DEFINE i == ImageOf[p]
<1>1. i \in Image /\ PowerTypeOK
  BY Places DEF PowerBase
<1>2. ASSUME NEW r \in Run, p = RowOf[r], Confirm(r), row[p].live, ~row'[p].idle,
             SameClaim(row[p], row'[p])
      PROVE  image'[i].power = "on" /\ ~row'[p].idle /\ ~row'[p].offLive
  <2>1. image[i].power = "on"
    BY <1>2 DEF WorkersKnow, SeesOn, At, Confirm, ImageOfRun
  <2>2. ~row[p].offLive
    BY <1>2 DEF PowerBase, Exclusive, Mates
  <2> QED
    BY <1>2, <2>1, <2>2 DEF Confirm, SameClaim
<1>3. ASSUME row[p].power = "owned", row'[p].idle => row[p].idle \/ GoesIdle(p)
      PROVE  /\ image'[i].power = "on"
             /\ row'[p].idle \/ row'[p].offLive => sync'[p].power # "off"
  <2>1. image[i].power = "on" /\ Runs(i) /\ ~NoneOwned(i)
    BY <1>3 DEF Sessions, NoneOwned, Mirrors, Runs
  <2>2. ASSUME NEW s \in Sweeper, SweepOff(s), ImageOf[sweep[s].row] = i
        PROVE  FALSE
    BY <2>1, <2>2 DEF Sessions, SweepOff, SweepAt
  <2>3. image'[i].power = "on"
    BY <1>1, <2>1, <2>2, StopsBySweep
  <2>4. ASSUME row'[p].idle \/ row'[p].offLive
        PROVE  sync[p].power # "off"
    <3>1. CASE row[p].idle \/ row[p].offLive
      BY <1>3, <3>1 DEF Sessions
    <3>2. CASE GoesIdle(p)
      BY <3>2 DEF GoesIdle, Mirrors, NoSync
    <3>3. ASSUME NEW s \in Sweeper, SweepClaim(s, p)
          PROVE  row[p].idle
      BY <3>3 DEF SweepClaim
    <3> QED
      BY <1>3, <2>4, <3>1, <3>2, <3>3, ClaimsBySweep
  <2>5. Reported(i) # "off"
    BY <2>1 DEF Reported
  <2> QED
    BY <2>3, <2>4, <2>5, ReadingStays
<1> QED
  BY <1>2, <1>3, SessionStays DEF SamePower

\* The session of a phone that is to be switched off has been consumed.
LEMMA OffUnowned ==
  ASSUME PowerBase, OffClaimed, NoPeople, Sessions, [Next]_vars,
         NEW s \in Sweeper, SweepAt(s, {"off"})'
  PROVE  /\ NoneOwned(ImageOf[sweep[s].row])'
         /\ image'[ImageOf[sweep'[s].row]].power = "on" /\ sync'[sweep'[s].row].power # "off"
<1>1. CASE sweep'[s] = sweep[s] /\ ~SweepOff(s)
  <2>1. SweepAt(s, {"off"})
    BY <1>1 DEF SweepAt
  <2>2. PICK p \in Row : p = sweep[s].row
    BY <2>1, AloneAtOff
  <2>3. /\ NoneOwned(ImageOf[p]) /\ image[ImageOf[p]].power = "on" /\ sync[p].power # "off"
        /\ ImageOf[p] \in Image /\ Claims(s)
    BY <2>1, <2>2, AloneAtOff DEF Sessions
  <2>4. ASSUME NEW r \in Run, Mark(r)
        PROVE  ImageOfRun(r) # ImageOf[p]
    BY <2>1, <2>2, <2>4, AloneAtOff DEF Mark
  <2>5. NoneOwned(ImageOf[p])'
    BY <2>3, <2>4, NoneStays
  <2>6. ASSUME NEW t \in Sweeper, SweepOff(t)
        PROVE  ImageOf[sweep[t].row] # ImageOf[p]
    BY <1>1, <2>2, <2>3, <2>6, OneAsks
  <2>7. image'[ImageOf[p]].power = "on"
    BY <2>3, <2>6, StopsBySweep DEF Runs
  <2>8. sync'[p].power # "off"
    <3>1. Reported(ImageOf[p]) # "off"
      BY <2>3 DEF Reported
    <3> QED
      BY <2>3, <3>1, ReadingStays
  <2> QED
    BY <1>1, <2>2, <2>5, <2>7, <2>8
<1>2. CASE /\ SweepConsume(s) /\ Consumable(s)
           /\ row' = [row EXCEPT ![sweep[s].row] = Unowned(@)]
           /\ sweep'[s].row = sweep[s].row /\ sweep[s].row \in Row
  <2>1. PICK p \in Row : p = sweep[s].row /\ sweep'[s].row = p
    BY <1>2
  <2>2. OthersSame(p) /\ row'[p].power = "none"
    BY <1>2, <2>1, UnownedRow DEF PowerBase
  <2>3. row[p].power = "owned" /\ row[p].offLive
    BY <1>2, <2>1 DEF Consumable, Claims
  <2>4. image[ImageOf[p]].power = "on" /\ sync[p].power # "off"
    BY <2>3 DEF Sessions
  <2>5. ASSUME NEW q \in Row, ImageOf[q] = ImageOf[p]
        PROVE  row'[q].power = "none"
    BY <2>2, <2>3, <2>5 DEF Sessions, Mates, OthersSame
  <2>6. NoneOwned(ImageOf[p])'
    BY <2>5 DEF NoneOwned, Mirrors
  <2> QED
    BY <1>2, <2>1, <2>4, <2>6 DEF SweepConsume
<1> QED
  BY <1>1, <1>2, NowOff

LEMMA StepSessions ==
  ASSUME PowerBase, OffClaimed, NoPeople, NoExpiry, Sessions, WorkersKnow, [Next]_vars
  PROVE  Sessions'
<1>1. ASSUME NEW p \in Row, NEW q \in Row, Mates(p, q),
             row'[p].power # "none", row'[q].power # "none"
      PROVE  p = q
  <2>1. ASSUME NEW r \in Run, Mark(r)
        PROVE  OthersUnowned(r) /\ job[r].pc # "idle"
    BY <2>1 DEF WorkersKnow, Mark, At
  <2>2. CASE row[p].power # "none" /\ row[q].power # "none"
    BY <1>1, <2>2 DEF Sessions
  <2>3. ASSUME NEW r \in Run, Mark(r), p = RowOf[r]
        PROVE  p = q
    <3>1. q # p => row[q].power = "none"
      BY <1>1, <2>1, <2>3 DEF OthersUnowned, ImageOfRun, Mates
    <3> QED
      BY <1>1, <2>1, <2>3, <3>1, OthersBeginNone DEF ImageOfRun, Mates
  <2>4. ASSUME NEW r \in Run, Mark(r), q = RowOf[r]
        PROVE  p = q
    <3>1. q # p => row[p].power = "none"
      BY <1>1, <2>1, <2>4 DEF OthersUnowned, ImageOfRun, Mates
    <3> QED
      BY <1>1, <2>1, <2>4, <3>1, OthersBeginNone DEF ImageOfRun, Mates
  <2> QED
    BY <1>1, <2>2, <2>3, <2>4, OwnedByMark
<1>2. \A p \in Row : row'[p].power # "none" =>
        Runs(ImageOf[p])' /\ asked'[ImageOf[p]] = 0 /\ RowOf[row'[p].starter] = p
  BY OwnedRuns
<1>3. \A p \in Row : row'[p].power = "requested" =>
        row'[p].recent /\ (row'[p].slot = NoRun \/ row'[p].held)
  BY RequestPends
<1>4. \A p \in Row : row'[p].power = "owned" =>
        /\ image'[ImageOf[p]].power = "on"
        /\ row'[p].idle \/ row'[p].offLive => sync'[p].power # "off"
  BY OwnedIsOn
<1>5. \A s \in Sweeper : SweepAt(s, {"off"})' =>
        /\ NoneOwned(ImageOf[sweep[s].row])'
        /\ image'[ImageOf[sweep'[s].row]].power = "on" /\ sync'[sweep'[s].row].power # "off"
  BY OffUnowned
<1> QED
  BY <1>1, <1>2, <1>3, <1>4, <1>5, Zenon DEF Sessions, Mates

\* A worker that takes a phone finds no request pending on its other rows.
LEMMA NoRequestBeside ==
  ASSUME PowerBase, Sessions, WorkersKnow, [Next]_vars, NEW r \in Run, ~At(r, {"idle"})',
         NEW q \in Row \ {RowOf[r]}, ImageOf[q] = ImageOfRun(r)
  PROVE  row'[q].power # "requested"
<1>1. CASE ~At(r, {"idle"})
  <2>1. row[q].power # "requested" /\ job[r].pc # "idle"
    BY <1>1 DEF WorkersKnow, At
  <2> QED
    BY <2>1, OthersBeginNone
<1>2. CASE At(r, {"idle"})
  <2>1. job[r].pc = "idle" /\ job'[r].pc # "idle" /\ PowerTypeOK
    BY <1>2 DEF At, PowerBase
  <2>2. RunStep(r)
    BY <2>1, JobMoves
  <2>3. AcquireNew(r) \/ AcquireExisting(r)
    BY <2>1, <2>2
       DEF RunStep, Dispatch, Look, Record, Attempt, Wake, Mark, Wait, Confirm, Fence, Add,
           Check, Fail, PreparationFails, Release, Crash, Reap, ComesDue, Closes, PowerTypeOK,
           Job
  <2>4. ~(Pending(row[q]) /\ row[q].starter # r)
    BY <2>3 DEF AcquireNew, AcquireExisting, PhoneFree, Mirrors
  <2>5. row[q].power # "requested"
    BY <2>4 DEF Sessions, Pending
  <2>6. row'[q] = row[q]
    BY <2>2, RunFrame DEF OthersSame
  <2> QED
    BY <2>5, <2>6
<1> QED
  BY <1>1, <1>2

\* The reservation outlives the preparation.
LEMMA SlotAtWork ==
  ASSUME PowerBase, WorkersKnow, [Next]_vars, NEW r \in Run,
         At(r, {"look", "record", "attempt", "wake", "mark", "wait"})'
  PROVE  row'[RowOf[r]].slot = NoRun \/ row'[RowOf[r]].held
<1>1. PowerTypeOK /\ RowOf[r] \in Row
  BY Places DEF PowerBase
<1>2. CASE At(r, {"look", "record", "attempt", "wake", "mark", "wait"})
  <2>1. row[RowOf[r]].slot = NoRun \/ row[RowOf[r]].held
    BY <1>2 DEF WorkersKnow
  <2>2. ~ReservationEnds(RowOf[r])
    BY <1>2 DEF ReservationEnds, At, PowerBase, Bound
  <2> QED
    BY <1>1, <2>1, <2>2, SlotStays
<1>3. CASE ~At(r, {"look", "record", "attempt", "wake", "mark", "wait"})
  <2>1. job'[r].pc \in {"look", "record", "attempt", "wake", "mark", "wait"} /\ RunStep(r)
    BY <1>3, JobMoves DEF At
  <2>2. AcquireNew(r)
    BY <1>1, <1>3, <2>1
       DEF RunStep, AcquireExisting, Dispatch, Look, Record, Attempt, Wake, Mark, Wait,
           Confirm, Fence, Add, Check, Fail, PreparationFails, Release, Crash, Reap, ComesDue,
           Closes, Go, PowerTypeOK, Job, At
  <2> QED
    BY <1>1, <2>2, AcquireNewRow DEF SlotReserved, SameSlot, EmptySlot
<1> QED
  BY <1>2, <1>3

\* A worker that has seen its phone off knows that no other row has a session.
LEMMA SeenOffUnowned ==
  ASSUME PowerBase, Sessions, WorkersKnow, [Next]_vars, NEW r \in Run,
         At(r, {"attempt", "wake", "mark"})' \/ SeesOff(r)'
  PROVE  OthersUnowned(r)'
<1>1. PowerTypeOK
  BY DEF PowerBase
<1>2. job'[r].pc \in {"attempt", "wake", "mark"} \/ (job'[r].pc = "record" /\ job'[r].seen = "off")
  BY DEF At, SeesOff
<1>3. CASE Look(r)
  <2>1. /\ job'[r].seen = Reported(ImageOfRun(r)) /\ job'[r].pc = "record" /\ UNCHANGED row
        /\ ~At(r, {"idle"})
    BY <1>1, <1>3 DEF Look, PowerTypeOK, Job, At
  <2>2. image[ImageOfRun(r)].power # "on"
    BY <1>2, <2>1 DEF Reported
  <2>3. ASSUME NEW q \in Row \ {RowOf[r]}, ImageOf[q] = ImageOfRun(r)
        PROVE  row[q].power = "none"
    <3>1. row[q].power # "requested"
      BY <2>1, <2>3 DEF WorkersKnow
    <3>2. row[q].power # "owned"
      BY <2>2, <2>3 DEF Sessions
    <3> QED
      BY <1>1, <3>1, <3>2 DEF PowerTypeOK, PhoneRow
  <2> QED
    BY <2>1, <2>3 DEF OthersUnowned
<1>4. CASE ~Look(r)
  <2>1. At(r, {"attempt", "wake", "mark"}) \/ SeesOff(r)
    <3>1. CASE job'[r] = job[r]
      BY <1>2, <3>1 DEF At, SeesOff
    <3>2. CASE RunStep(r)
      BY <1>1, <1>2, <1>4, <3>2
         DEF RunStep, AcquireNew, AcquireExisting, Dispatch, Record, Attempt, Wake, Mark, Wait,
             Confirm, Fence, Add, Check, Fail, PreparationFails, Release, Crash, Reap,
             ComesDue, Closes, Go, PowerTypeOK, Job, At, SeesOff
    <3> QED
      BY <3>1, <3>2, JobMoves
  <2>2. OthersUnowned(r) /\ job[r].pc # "idle"
    BY <2>1 DEF WorkersKnow, At, SeesOff
  <2> QED
    BY <2>2, OthersBeginNone DEF OthersUnowned
<1> QED
  BY <1>3, <1>4

\* A worker that has seen its phone on works on a phone that is on.
LEMMA SeenOnIsOn ==
  ASSUME PowerBase, OffClaimed, NoPeople, WorkersKnow, [Next]_vars, NEW r \in Run, SeesOn(r)'
  PROVE  image'[ImageOfRun(r)].power = "on"
<1> DEFINE i == ImageOfRun(r)
<1>1. PowerTypeOK /\ i \in Image
  BY Places DEF PowerBase
<1>2. job'[r].pc = "confirm" \/ (job'[r].pc = "record" /\ job'[r].seen = "on")
  BY DEF At, SeesOn
<1>3. CASE Look(r)
  <2>1. job'[r].seen = Reported(i) /\ job'[r].pc = "record" /\ UNCHANGED image
    BY <1>1, <1>3 DEF Look, PowerTypeOK, Job
  <2> QED
    BY <1>2, <2>1 DEF Reported
<1>4. CASE Wait(r)
  <2>1. image[i].power = "on" /\ UNCHANGED image
    BY <1>1, <1>2, <1>4 DEF Wait, PowerTypeOK, Job
  <2> QED
    BY <2>1
<1>5. CASE ~Look(r) /\ ~Wait(r)
  <2>1. SeesOn(r)
    <3>1. CASE job'[r] = job[r]
      BY <1>2, <3>1 DEF At, SeesOn
    <3>2. CASE RunStep(r)
      BY <1>1, <1>2, <1>5, <3>2
         DEF RunStep, AcquireNew, AcquireExisting, Dispatch, Record, Attempt, Wake, Mark,
             Confirm, Fence, Add, Check, Fail, PreparationFails, Release, Crash, Reap,
             ComesDue, Closes, Go, PowerTypeOK, Job, At, SeesOn
    <3> QED
      BY <3>1, <3>2, JobMoves
  <2>2. image[i].power = "on" /\ job[r].pc # "idle"
    BY <2>1 DEF WorkersKnow, SeesOn, At
  <2> QED
    BY <1>1, <2>2, NotSweptAtWork, StopsBySweep DEF Runs
<1> QED
  BY <1>3, <1>4, <1>5

\* Between its powerOn and its mark, a worker's phone runs.
LEMMA MarkRuns ==
  ASSUME PowerBase, OffClaimed, NoPeople, WorkersKnow, [Next]_vars,
         NEW r \in Run, At(r, {"mark"})'
  PROVE  Runs(ImageOfRun(r))' /\ asked'[ImageOfRun(r)] = 0
<1> DEFINE i == ImageOfRun(r)
<1>1. i \in Image /\ PowerTypeOK
  BY Places DEF PowerBase
<1>2. CASE At(r, {"mark"})
  <2>1. Runs(i) /\ asked[i] = 0 /\ job[r].pc # "idle"
    BY <1>2 DEF WorkersKnow, At
  <2> QED
    BY <1>1, <2>1, StopsBySweep, Requests, NotSweptAtWork
<1>3. CASE ~At(r, {"mark"})
  <2>1. job'[r].pc = "mark" /\ RunStep(r)
    BY <1>3, JobMoves DEF At
  <2>2. Wake(r)
    BY <1>1, <1>3, <2>1
       DEF RunStep, AcquireNew, AcquireExisting, Dispatch, Look, Record, Attempt, Mark, Wait,
           Confirm, Fence, Add, Check, Fail, PreparationFails, Release, Crash, Reap, ComesDue,
           Closes, Go, PowerTypeOK, Job, At
  <2>3. image[i].power = "off" =>
          image' = [image EXCEPT ![i].power = "starting", ![i].by = "scheduler"]
    BY <1>1, <2>1, <2>2 DEF Wake, Go, PowerTypeOK, Job
  <2>4. image[i].power # "off" => image' = image
    BY <2>2 DEF Wake
  <2> QED
    BY <1>1, <2>2, <2>3, <2>4 DEF Wake, Runs, PowerTypeOK, Phone
<1> QED
  BY <1>2, <1>3

LEMMA StepWorkers ==
  ASSUME PowerBase, OffClaimed, NoPeople, Sessions, WorkersKnow, [Next]_vars
  PROVE  WorkersKnow'
<1>1. \A r \in Run : ~At(r, {"idle"})' => \A q \in Row \ {RowOf[r]} :
        ImageOf[q] = ImageOfRun(r) => row'[q].power # "requested"
  BY NoRequestBeside
<1>2. \A r \in Run : At(r, {"look", "record", "attempt", "wake", "mark", "wait"})' =>
        row'[RowOf[r]].slot = NoRun \/ row'[RowOf[r]].held
  BY SlotAtWork
<1>3. \A r \in Run : At(r, {"attempt", "wake", "mark"})' \/ SeesOff(r)' => OthersUnowned(r)'
  BY SeenOffUnowned
<1>4. \A r \in Run : SeesOn(r)' => image'[ImageOfRun(r)].power = "on"
  BY SeenOnIsOn
<1>5. \A r \in Run : At(r, {"mark"})' => Runs(ImageOfRun(r))' /\ asked'[ImageOfRun(r)] = 0
  BY MarkRuns
<1> QED
  BY <1>1, <1>2, <1>3, <1>4, <1>5, Zenon DEF WorkersKnow, ImageOfRun

\* The invariant of a world without people and without expiry.
Attended == PowerBase /\ OffClaimed /\ Sessions /\ WorkersKnow

LEMMA InitAttended == Init => Attended
<1> SUFFICES ASSUME Init PROVE OffClaimed /\ Sessions /\ WorkersKnow
  BY InitBase DEF Attended
<1>1. \A p \in Row : row[p].power = "none"
  BY DEF Init, NewRow
<1>2. \A r \in Run : job[r].pc = "idle"
  BY DEF Init
<1>3. \A s \in Sweeper : ~SweepAt(s, {"off"})
  BY DEF Init, SweepAt, NoSweep
<1> QED
  BY <1>1, <1>2, <1>3 DEF OffClaimed, Sessions, WorkersKnow, At, SeesOff, SeesOn

LEMMA StepAttended ==
  ASSUME NoPeople, NoExpiry, Attended, [Next]_vars
  PROVE  Attended'
<1>1. OffClaimed'
  BY StepOffClaimed DEF Attended, Sessions
<1> QED
  BY <1>1, StepBase, StepSessions, StepWorkers DEF Attended

\* Switching an idle phone off never takes a task with it: the claim is only
\* consumed when no run of any workspace is at work on the phone, it outlives
\* the sweep that consumed it, and while it lives no run is given the phone
\* (device-power.ts, acquire_phone_lease).  Calls may be lost, workers and
\* sweeps may die.  What endangers the claim is a report, read earlier, that the
\* phone is off.  So either there are no inventory syncs, and people may use the
\* power button; or people leave the phones alone and reservations outlive the
\* starts they were made for, and what a sync still has to write of an idle phone
\* that the scheduler owns is that it is on.
THEOREM TasksAreSpared == NoSyncs \/ (NoExpiry /\ NoPeople) => (Spec => SparesWork)
<1>1. PowerBase /\ OffClaimed /\ [Next]_vars => [SparesWorkStep]_vars
  BY NoTasksAtOff DEF SparesWorkStep, SwitchesOff, SweepAt
<1>2. ASSUME NoSyncs PROVE Spec => SparesWork
  <2>1. Init => ClaimsKept
    BY DEF Init, ClaimsKept, OffClaimed, SweepAt, NoSweep
  <2>2. PowerBase /\ ClaimsKept /\ [Next]_vars => ClaimsKept'
    BY <1>2, StepClaims
  <2>3. ClaimsKept => OffClaimed
    BY DEF ClaimsKept
  <2> QED
    BY <1>1, <2>1, <2>2, <2>3, InitBase, StepBase, PTL DEF Spec, SparesWork
<1>3. ASSUME NoExpiry, NoPeople PROVE Spec => SparesWork
  <2>1. Attended /\ [Next]_vars => Attended'
    BY <1>3, StepAttended
  <2>2. Attended => PowerBase /\ OffClaimed
    BY DEF Attended
  <2> QED
    BY <1>1, <2>1, <2>2, InitAttended, PTL DEF Spec, SparesWork
<1> QED
  BY <1>2, <1>3

-----------------------------------------------------------------------------
(* The same without lost calls: a phone that was asked to go off is off.   *)

LEMMA StartsClear ==
  ASSUME PowerBase, [Next]_vars, NEW i \in Image, ~Runs(i), Runs(i)'
  PROVE  asked'[i] = 0
<1>1. PowerTypeOK /\ image' # image
  BY DEF PowerBase, Runs
<1>2. ASSUME NEW r \in Run, RunStep(r)
      PROVE  asked'[i] = 0
  <2>1. Wake(r) \/ Add(r)
    BY <1>1, <1>2
       DEF RunStep, AcquireNew, AcquireExisting, Dispatch, Look, Record, Attempt, Mark, Wait,
           Confirm, Fence, Check, Fail, PreparationFails, Release, Crash, Reap, ComesDue, Closes
  <2>2. ~Add(r)
    <3>1. Add(r) => image' = [image EXCEPT ![ImageOfRun(r)].tasks = @ \cup {r}]
      BY <1>1 DEF Add
    <3> QED
      BY <1>1, <3>1, Places DEF Runs, PowerTypeOK, Phone
  <2>3. CASE Wake(r)
    <3>1. image' = [image EXCEPT ![ImageOfRun(r)].power = "starting",
                                 ![ImageOfRun(r)].by = "scheduler"]
      BY <1>1, <2>3 DEF Wake
    <3>2. ImageOfRun(r) = i
      BY <1>1, <3>1, Places DEF Runs, PowerTypeOK, Phone
    <3> QED
      BY <1>1, <2>3, <3>2 DEF Wake, PowerTypeOK
  <2> QED
    BY <2>1, <2>2, <2>3
<1>3. ASSUME NEW s \in Sweeper, SweepOff(s)
      PROVE  FALSE
  <2>1. ImageOf[sweep[s].row] \in Image
    BY <1>3, Places DEF SweepOff, PowerBase, Bound
  <2> QED
    BY <1>1, <1>3, <2>1 DEF SweepOff, Runs, PowerTypeOK, Phone
<1>4. ASSUME NEW j \in Image, Boots(j)
      PROVE  FALSE
  BY <1>1, <1>4 DEF Boots, Runs, PowerTypeOK, Phone
<1>5. ASSUME NEW j \in Image, TaskEnds(j)
      PROVE  FALSE
  <2>1. PICK r \in image[j].tasks :
          image' = [image EXCEPT ![j].tasks = @ \ {r}, ![j].done = @ \cup {r}]
    BY <1>5 DEF TaskEnds
  <2> QED
    BY <1>1, <2>1 DEF Runs, PowerTypeOK, Phone
<1>6. ASSUME NEW j \in Image, PowerButton(j)
      PROVE  asked'[i] = 0
  <2>1. j = i
    BY <1>1, <1>6 DEF PowerButton, Runs, PowerTypeOK, Phone
  <2> QED
    BY <1>1, <1>6, <2>1 DEF PowerButton, Runs, PowerTypeOK
<1> QED
  BY <1>1, <1>2, <1>3, <1>4, <1>5, <1>6, StepKinds
     DEF SweepStep, SweepInspect, SweepConsume, SweepComplete, SweepRelease, SweepCrash,
         SweepClaim, WorldStep, SyncRead, SyncWrite, GoesIdle, LeaseEnds, ClaimEnds,
         ReservationEnds, RefreshBegin, RefreshRead, RefreshPublish, vars

\* Without lost calls, a phone a sweep asks to go off is off.
LEMMA OffIsOff ==
  ASSUME PowerBase, NoLostCalls, NEW s \in Sweeper, SweepOff(s)
  PROVE  ~Runs(ImageOf[sweep[s].row])'
<1> DEFINE i == ImageOf[sweep[s].row]
<1>1. i \in Image /\ PowerTypeOK
  BY Places DEF SweepOff, PowerBase, Bound
<1>2. image' = [image EXCEPT ![i].power = "off", ![i].tasks = {},
                             ![i].done = @ \cup image[i].tasks]
  BY DEF SweepOff, Fault, NoLostCalls
<1>3. image'[i].power = "off"
  BY <1>1, <1>2 DEF PowerTypeOK, Phone
<1>4. sweep'[s].row = sweep[s].row
  BY <1>1 DEF SweepOff, SweepGo, PowerTypeOK, Sweep
<1> QED
  BY <1>3, <1>4 DEF Runs

LEMMA StepAnswered ==
  ASSUME PowerBase, ClaimsKept, NoSyncs, NoLostCalls, Answered, [Next]_vars
  PROVE  Answered'
<1>1. PowerTypeOK
  BY DEF PowerBase
<1>2. ASSUME NEW i \in Image, asked'[i] # 0
      PROVE  ~Runs(i)'
  <2>1. CASE asked'[i] = asked[i]
    BY <1>2, <2>1, StartsClear DEF Answered
  <2>2. ASSUME NEW s \in Sweeper, SweepOff(s), ImageOf[sweep[s].row] = i
        PROVE  ~Runs(i)'
    <3>1. sweep'[s].row = sweep[s].row
      BY <1>1, <2>2 DEF SweepOff, SweepGo, PowerTypeOK, Sweep
    <3> QED
      BY <2>2, <3>1, OffIsOff
  <2> QED
    BY <1>2, <2>1, <2>2, Requests
<1>3. ASSUME NEW s \in Sweeper, SweepAt(s, {"consume"})', Claims(s)'
      PROVE  asked'[ImageOf[sweep'[s].row]] = 0
  <2>1. sweep'[s].pc = "consume"
    BY <1>3 DEF SweepAt
  <2>2. CASE SweepInspect(s)
    <3>1. /\ Reported(ImageOf[sweep[s].row]) = "on" /\ UNCHANGED asked
          /\ sweep[s].row \in Row /\ sweep'[s].row = sweep[s].row
      BY <1>1, <2>1, <2>2
         DEF SweepInspect, SweepGo, PowerTypeOK, Sweep, PowerBase, Bound
    <3>2. Runs(ImageOf[sweep[s].row]) /\ ImageOf[sweep[s].row] \in Image
      BY <3>1, Places DEF Reported, Runs
    <3> QED
      BY <3>1, <3>2 DEF Answered
  <2>3. CASE sweep'[s] = sweep[s]
    <3>1. sweep[s].row \in Row /\ ImageOf[sweep[s].row] \in Image
      BY <2>1, <2>3, Places DEF PowerBase, Bound
    <3>2. Claims(s)
      BY <1>3, <2>1, <2>3, <3>1, NoNewClaims
    <3>3. asked[ImageOf[sweep[s].row]] = 0
      BY <2>1, <2>3, <3>2 DEF Answered, SweepAt
    <3>4. ASSUME NEW t \in Sweeper, SweepOff(t), ImageOf[sweep[t].row] = ImageOf[sweep[s].row]
          PROVE  FALSE
      BY <2>1, <2>3, <3>1, <3>2, <3>4, OneAsks DEF SweepOff, ClaimsKept
    <3> QED
      BY <2>3, <3>1, <3>3, <3>4, Requests
  <2>4. CASE SweepStep(s) /\ ~SweepInspect(s)
    BY <1>1, <2>1, <2>4
       DEF SweepStep, SweepConsume, SweepOff, SweepComplete, SweepRelease, SweepGo, NoSweep,
           PowerTypeOK, Sweep
  <2>5. CASE SweepCrash(s)
    BY <1>1, <2>1, <2>5 DEF SweepCrash, NoSweep, PowerTypeOK, Sweep
  <2>6. ASSUME NEW p \in Row, SweepClaim(s, p)
        PROVE  FALSE
    <3>1. sweep' = [sweep EXCEPT ![s] = [pc |-> "inspect", row |-> p]]
      BY <2>6 DEF SweepClaim
    <3> QED
      BY <1>1, <2>1, <3>1 DEF PowerTypeOK
  <2> QED
    BY <1>1, <2>2, <2>3, <2>4, <2>5, <2>6, StepKinds, RunFrame, SweepFrame, WorldFrame
       DEF SweepClaim, PowerTypeOK
<1> QED
  BY <1>2, <1>3, Zenon DEF Answered

\* Requests to switch off, when consuming an ownership shows that there was none.
LEMMA StepAsked ==
  ASSUME PowerBase, OffClaimed, AskedOnce, [Next]_vars,
         \A s \in Sweeper : SweepConsume(s) /\ Consumable(s) /\ sweep[s].row \in Row
                              => asked[ImageOf[sweep[s].row]] = 0
  PROVE  AskedOnce'
<1>1. ASSUME NEW s \in Sweeper, SweepOff(s)
      PROVE  asked[ImageOf[sweep[s].row]] = 0
  BY <1>1 DEF SweepOff, SweepAt, AskedOnce
<1>2. ASSUME NEW i \in Image PROVE asked'[i] <= 1
  BY <1>1, Requests DEF AskedOnce, OneShutdownPerStart
<1>3. ASSUME NEW s \in Sweeper, SweepAt(s, {"off"})'
      PROVE  asked'[ImageOf[sweep'[s].row]] = 0
  <2>1. CASE sweep'[s] = sweep[s] /\ ~SweepOff(s)
    <3>1. SweepAt(s, {"off"})
      BY <1>3, <2>1 DEF SweepAt
    <3>2. /\ sweep[s].row \in Row /\ ImageOf[sweep[s].row] \in Image /\ Claims(s)
          /\ asked[ImageOf[sweep[s].row]] = 0
      BY <3>1, AloneAtOff DEF AskedOnce
    <3>3. ASSUME NEW t \in Sweeper, SweepOff(t), ImageOf[sweep[t].row] = ImageOf[sweep[s].row]
          PROVE  FALSE
      BY <2>1, <3>2, <3>3, OneAsks
    <3> QED
      BY <2>1, <3>2, <3>3, Requests
  <2>2. CASE SweepConsume(s) /\ Consumable(s) /\ sweep'[s].row = sweep[s].row
               /\ sweep[s].row \in Row
    BY <2>2 DEF SweepConsume
  <2> QED
    BY <1>3, <2>1, <2>2, NowOff
<1> QED
  BY <1>2, <1>3, Zenon DEF AskedOnce, OneShutdownPerStart

\* One start of a phone answers for at most one request to switch it off: the
\* ownership of a session is consumed before powerOff, and only a start makes
\* another (device-power.ts).  Either people leave the phones alone and
\* reservations outlive the starts they were made for - then calls may be lost
\* and inventory syncs overwrite what is known, as a session has one owner.  Or
\* no call is lost and there are no inventory syncs - then a phone that was asked
\* to go off is off, whoever starts and stops it.
THEOREM PhonesAreShutOnce ==
  (NoExpiry /\ NoPeople) \/ (NoSyncs /\ NoLostCalls) => (Spec => []OneShutdownPerStart)
<1>1. Init => AskedOnce
  BY DEF Init, AskedOnce, OneShutdownPerStart, SweepAt, NoSweep
<1>2. AskedOnce => OneShutdownPerStart
  BY DEF AskedOnce
<1>3. ASSUME NoExpiry, NoPeople PROVE Spec => []OneShutdownPerStart
  <2>1. Attended /\ AskedOnce /\ [Next]_vars => Attended' /\ AskedOnce'
    <3> SUFFICES ASSUME Attended, AskedOnce, [Next]_vars PROVE Attended' /\ AskedOnce'
      OBVIOUS
    <3>1. \A s \in Sweeper : SweepConsume(s) /\ Consumable(s) /\ sweep[s].row \in Row
                               => asked[ImageOf[sweep[s].row]] = 0
      BY DEF Attended, Sessions, Consumable
    <3> QED
      BY <1>3, <3>1, StepAttended, StepAsked DEF Attended
  <2> QED
    BY <1>1, <1>2, <2>1, InitAttended, PTL DEF Spec
<1>4. ASSUME NoSyncs, NoLostCalls PROVE Spec => []OneShutdownPerStart
  <2> DEFINE Inv == PowerBase /\ ClaimsKept /\ Answered /\ AskedOnce
  <2>1. Init => Inv
    <3>1. Init => Answered
      BY DEF Init, Answered, SweepAt, NoSweep
    <3>2. Init => ClaimsKept
      BY DEF Init, ClaimsKept, OffClaimed, SweepAt, NoSweep
    <3> QED
      BY <1>1, <3>1, <3>2, InitBase
  <2>2. Inv /\ [Next]_vars => Inv'
    <3> SUFFICES ASSUME Inv, [Next]_vars PROVE Inv'
      OBVIOUS
    <3>1. \A s \in Sweeper : SweepConsume(s) /\ Consumable(s) /\ sweep[s].row \in Row
                               => asked[ImageOf[sweep[s].row]] = 0
      BY DEF Answered, SweepConsume, SweepAt, Consumable
    <3>2. OffClaimed
      BY DEF ClaimsKept
    <3> QED
      BY <1>4, <3>1, <3>2, StepBase, StepClaims, StepAnswered, StepAsked
  <2> QED
    BY <1>2, <2>1, <2>2, PTL DEF Spec
<1> QED
  BY <1>3, <1>4
=============================================================================
