----------------------------- MODULE PhonePower -----------------------------
(***************************************************************************)
(* Waking phones, counting them against the startup capacity, and          *)
(* switching idle ones off again.                                          *)
(*                                                                         *)
(* Several rows of duo_phones, one per workspace, may stand for one        *)
(* physical phone (duoplus_image_id within a capacity pool).  A run uses   *)
(* one row.  Its worker looks at the phone, wakes it under a startup       *)
(* reservation, records the ownership of the session, and submits; the     *)
(* sweep (device-power.ts) claims an idle owned phone, consumes that       *)
(* ownership and switches the phone off.  Inventory syncs and capacity     *)
(* refreshes write what they read from DuoPlus some time before, and       *)
(* people use the power button of the phone.                               *)
(*                                                                         *)
(* Run leases are RunDispatch's subject: here a run has one worker, which  *)
(* may crash.  Clock time is abstracted to what has run out.               *)
(***************************************************************************)
EXTENDS Integers, FiniteSets, FiniteSetsExt

CONSTANTS Row, Image, ImageOf,   \* duo_phones rows, and the phone each mirrors
          Run, RowOf,            \* runs, and the row each is assigned to
          Sweeper,               \* ticks inside runSchedulerPowerOffSweep
          NoRun, NoRow, NoSweeper,
          Limit,                 \* min of worker limit and provider capacity
          FaultKinds, MaxFaults  \* what the environment may do, how often

\* net: a call fails or its answer is lost.  crash: a process dies.
\* person: somebody uses the power button.  inventory: a sync is started.
\* late: a sweep nears its deadline, or its claim runs out.  expire (not counted): the startup
\* reservation or power request of a phone runs out though it was started.
AllFaults == {"net", "crash", "person", "inventory", "late", "expire"}

ASSUME PowerAssumption ==
  /\ ImageOf \in [Row -> Image] /\ RowOf \in [Run -> Row]
  /\ NoRun \notin Run /\ NoRow \notin Row /\ NoSweeper \notin Sweeper
  /\ IsFiniteSet(Image)
  /\ Limit \in Nat /\ MaxFaults \in Nat /\ FaultKinds \subseteq AllFaults

VARIABLES row,     \* row[p]: lease, startup and power columns of duo_phones
          pool,    \* the provider snapshot of duo_capacity_pools
          job,     \* job[r]: the run and the worker handling it
          sweep,   \* sweep[s]: one power-off sweep and its candidate
          sync,    \* sync[p]: the status an inventory sync has read for p
          image,   \* image[i]: the phone as DuoPlus has it
          asked,   \* asked[i]: powerOff requests since the last start
          faults

vars == <<row, pool, job, sweep, sync, image, asked, faults>>

Power == {"off", "booting", "on"}   \* statuses 2; 10 and 11; 1
Actual == Power \cup {"starting"}     \* asked to start and still reported off

\* How new a time is: older than the published provider snapshot, newer, or
\* newer than the refresh in flight as well.
Stamp == {"old", "mid", "new"}

PhoneRow == [status : Power,
             lease : Run \cup {NoRun}, live : BOOLEAN,  \* lease_*, busy_until
             slot : Run \cup {NoRun}, held : BOOLEAN,   \* startup_slot_*
             tried : BOOLEAN,                \* startup_power_attempted_at
             power : {"none", "requested", "owned"},    \* scheduler_power*_at
             starter : Run \cup {NoRun},     \* scheduler_powered_on_run_id
             recent : BOOLEAN,               \* power requested < 15 min ago
             idle : BOOLEAN,                 \* last activity > 15 min ago
             off : Sweeper \cup {NoSweeper}, offLive : BOOLEAN,
             seenAt : Stamp, poweredAt : Stamp]  \* last_seen_at; the latest of
                         \* the attempted, requested and powered-on times

NewRow == [status |-> "off", lease |-> NoRun, live |-> FALSE, slot |-> NoRun,
           held |-> FALSE, tried |-> FALSE, power |-> "none", starter |-> NoRun,
           recent |-> FALSE, idle |-> FALSE, off |-> NoSweeper, offLive |-> FALSE,
           seenAt |-> "old", poweredAt |-> "old"]

\* A run as the power-off check sees it: not due within the idle interval,
\* due, preparing, perhaps submitted, monitored, or of no further interest.
Life == {"later", "soon", "preparing", "submitting", "running", "closed"}

JobPc == {"idle", "look", "record", "attempt", "wake", "mark", "wait", "confirm",
          "fence", "add", "check", "fail", "release"}
Job == [life : Life, pc : JobPc, seen : Power]

SweepPc == {"idle", "inspect", "settle", "consume", "off", "complete", "abandon",
            "drop"}
Sweep == [pc : SweepPc, row : Row \cup {NoRow}]
NoSweep == [pc |-> "idle", row |-> NoRow]

NoSync == [power |-> "none", at |-> "old"]
Sync == [power : Power, at : Stamp] \cup {NoSync}

Phone == [power : Actual, by : {"scheduler", "person"},
          tasks : SUBSET Run, done : SUBSET Run]

Pool == [inUse : 0 .. Cardinality(Image),   \* provider_subscription_in_use
         pc : {"idle", "begun", "read"},    \* a refresh in flight
         seen : 0 .. Cardinality(Image)]

PowerTypeOK ==
  /\ row \in [Row -> PhoneRow]
  /\ pool \in Pool
  /\ job \in [Run -> Job]
  /\ sweep \in [Sweeper -> Sweep]
  /\ sync \in [Row -> Sync]
  /\ image \in [Image -> Phone]
  /\ asked \in [Image -> Nat]
  /\ faults \in 0 .. MaxFaults
  /\ \A p \in Row : /\ row[p].live => row[p].lease \in Run
                    /\ row[p].held \/ row[p].tried => row[p].slot \in Run
                    /\ row[p].power = "none" <=> row[p].starter = NoRun
                    /\ row[p].offLive => row[p].off \in Sweeper

Init ==
  /\ row = [p \in Row |-> NewRow]
  /\ pool = [inUse |-> 0, pc |-> "idle", seen |-> 0]
  /\ job \in [Run -> {[life |-> l, pc |-> "idle", seen |-> "off"] :
                        l \in {"later", "soon"}}]
  /\ sweep = [s \in Sweeper |-> NoSweep]
  /\ sync = [p \in Row |-> NoSync]
  /\ image = [i \in Image |-> [power |-> "off", by |-> "person",
                               tasks |-> {}, done |-> {}]]
  /\ asked = [i \in Image |-> 0]
  /\ faults = 0

-----------------------------------------------------------------------------
(* Building blocks *)

Mirrors(i) == {p \in Row : ImageOf[p] = i}
ImageOfRun(r) == ImageOf[RowOf[r]]

Fault(kind) == kind \in FaultKinds /\ faults < MaxFaults /\ faults' = faults + 1
NoFault == UNCHANGED faults

Go(r, pc) == job' = [job EXCEPT ![r].pc = pc]
SweepGo(s, pc) == sweep' = [sweep EXCEPT ![s].pc = pc]

Now == IF pool.pc = "idle" THEN "mid" ELSE "new"

\* What DuoPlus says of a phone.
Reported(i) == IF image[i].power = "starting" THEN "off" ELSE image[i].power

Unleased(x) == [x EXCEPT !.lease = NoRun, !.live = FALSE, !.idle = FALSE]

NoSlot(x)   == [x EXCEPT !.slot = NoRun, !.held = FALSE, !.tried = FALSE,
                         !.poweredAt = IF x.power = "none" THEN "old" ELSE @]
Unowned(x)  == [x EXCEPT !.power = "none", !.starter = NoRun, !.recent = FALSE,
                         !.poweredAt = IF x.tried THEN @ ELSE "old"]
NoClaim(x)  == [x EXCEPT !.off = NoSweeper, !.offLive = FALSE]

\* The trigger clear_scheduler_power_ownership_on_shutdown on a status write.
WithStatus(x, status) ==
  LET y == [x EXCEPT !.status = status] IN
  CASE status = "on" -> NoSlot(y)
    [] status = "off" /\ x.status # "off" -> NoClaim(Unowned(NoSlot(y)))
    [] OTHER -> y

\* A power request that is neither confirmed nor forgotten.
Pending(x) == x.power = "requested" /\ IF x.slot = NoRun THEN x.recent ELSE x.held

-----------------------------------------------------------------------------
(* Startup capacity: the occupancy query of acquire_phone_lease *)

LocalOn(x) == x.status \in {"on", "booting"} \/ x.power = "owned"

LocalPending(x) == x.live \/ Pending(x) \/ x.held

ImageOn(i)      == \E p \in Mirrors(i) : LocalOn(row[p])
ImagePending(i) == \E p \in Mirrors(i) : LocalPending(row[p])
ImageOnSince(i) == \E p \in Mirrors(i) :
  LocalOn(row[p]) /\ (row[p].seenAt # "old" \/ row[p].poweredAt # "old")

Visible  == {i \in Image : ImageOn(i) /\ ~ImageOnSince(i)}
Additive == {i \in Image : (ImageOn(i) /\ ImageOnSince(i))
                             \/ (~ImageOn(i) /\ ImagePending(i))}

\* Mutation of ActiveWorkers: the provider's count already has the new ones.
ActiveReported == Max({pool.inUse, Cardinality(Visible)})

ActiveWorkers ==
  Max({pool.inUse, Cardinality(Visible)}) + Cardinality(Additive)

CapacityAllows(i) ==
  /\ ActiveWorkers <= Limit
  /\ ActiveWorkers < Limit \/ ImageOn(i) \/ ImagePending(i)

-----------------------------------------------------------------------------
(* acquire_phone_lease *)

Occupies(r) == job[r].life \in {"preparing", "submitting", "running"}

\* Mutation of PhoneFree: a live shutdown claim does not matter.
PhoneFreeOfWork(r) ==
  \A p \in Mirrors(ImageOfRun(r)) :
    LET x == row[p] IN
    /\ ~x.live
    /\ x.slot # r => ~x.held
    /\ ~(Pending(x) /\ x.starter # r)
    /\ \A s \in Run \ {r} : RowOf[s] = p => ~Occupies(s)

\* No lease, reservation, power request, shutdown or other run's work on any
\* mirror of the phone.
PhoneFree(r) ==
  \A p \in Mirrors(ImageOfRun(r)) :
    LET x == row[p] IN
    /\ ~x.live
    /\ x.slot # r => ~x.held
    /\ ~(Pending(x) /\ x.starter # r)
    /\ ~x.offLive
    /\ \A s \in Run \ {r} : RowOf[s] = p => ~Occupies(s)

\* A phone that is off gets a startup reservation; a live one is kept.
Reserved(x, r) ==
  IF x.status # "off" THEN NoSlot(x)
  ELSE IF x.slot = r /\ x.held THEN x
  ELSE [x EXCEPT !.slot = r, !.held = TRUE, !.tried = FALSE]

AcquireNew(r) ==
  LET p == RowOf[r] IN
  /\ job[r].pc = "idle" /\ job[r].life \in {"later", "soon", "preparing"}
  /\ PhoneFree(r)
  /\ CapacityAllows(ImageOfRun(r))
  /\ row' = [row EXCEPT ![p] = [Reserved(@, r) EXCEPT !.lease = r, !.live = TRUE]]
  /\ job' = [job EXCEPT ![r].life = "preparing", ![r].pc = "look"]
  /\ NoFault /\ UNCHANGED <<pool, sweep, sync, image, asked>>

\* A run that may have a task takes the lease without counting capacity.
AcquireExisting(r) ==
  /\ job[r].pc = "idle" /\ job[r].life \in {"submitting", "running"}
  /\ PhoneFree(r)
  /\ row' = [row EXCEPT ![RowOf[r]].lease = r, ![RowOf[r]].live = TRUE]
  /\ Go(r, "check")
  /\ NoFault /\ UNCHANGED <<pool, sweep, sync, image, asked>>

-----------------------------------------------------------------------------
(* A worker preparing its phone *)

\* client.getPhone
Look(r) ==
  /\ job[r].pc = "look"
  /\ job' = [job EXCEPT ![r].seen = Reported(ImageOfRun(r)), ![r].pc = "record"]
  /\ NoFault /\ UNCHANGED <<row, pool, sweep, sync, image, asked>>

\* updatePhoneSnapshot, whose failure is ignored.
Record(r) ==
  LET seen == job[r].seen IN
  /\ job[r].pc = "record"
  /\ \/ /\ row' = [row EXCEPT ![RowOf[r]] =
                     [WithStatus(@, seen) EXCEPT !.seenAt = Now]]
        /\ NoFault
     \/ UNCHANGED row /\ Fault("net")
  /\ Go(r, CASE seen = "on" -> "confirm" [] seen = "off" -> "attempt"
             [] OTHER -> "wait")
  /\ UNCHANGED <<pool, sweep, sync, image, asked>>

\* Mutation of MayWake: the attempt marker is not consulted.
MayWakeAgain(x, r) == x.lease = r /\ x.live /\ x.slot = r /\ x.held

MayWake(x, r) == x.lease = r /\ x.live /\ x.slot = r /\ x.held /\ ~x.tried

\* claimPhonePowerOnAttempt
Attempt(r) ==
  LET p == RowOf[r] IN
  /\ job[r].pc = "attempt"
  /\ IF MayWake(row[p], r)
       THEN /\ row' = [row EXCEPT ![p].tried = TRUE, ![p].poweredAt = Now]
            /\ Go(r, "wake")
       ELSE Go(r, "wait") /\ UNCHANGED row
  /\ NoFault /\ UNCHANGED <<pool, sweep, sync, image, asked>>

\* client.powerOn starts a phone that is off.
Wake(r) ==
  LET i == ImageOfRun(r)
      started == IF image[i].power = "off"
                   THEN [image EXCEPT ![i].power = "starting", ![i].by = "scheduler"]
                   ELSE image
  IN /\ job[r].pc = "wake"
     /\ \/ image' = started /\ Go(r, "mark") /\ NoFault
        \/ image' \in {image, started} /\ Go(r, "fail") /\ Fault("net")
     /\ asked' = [asked EXCEPT ![i] = 0]
     /\ UNCHANGED <<row, pool, sweep, sync>>

\* markPhonePowerRequested; a failure leaves the session unowned.
Mark(r) ==
  LET p == RowOf[r] IN
  /\ job[r].pc = "mark"
  /\ \/ /\ NoFault
        /\ row' = IF row[p].lease = r /\ row[p].power = "none"
                    THEN [row EXCEPT ![p] =
                            [NoClaim(@) EXCEPT !.power = "requested", !.starter = r,
                               !.recent = TRUE, !.idle = FALSE, !.poweredAt = Now]]
                    ELSE row
     \/ Fault("net") /\ UNCHANGED row
  /\ Go(r, "wait")
  /\ UNCHANGED <<pool, sweep, sync, image, asked>>

\* Horizon ticks poll until the phone is on; minute ticks leave the run
\* preparing.  A timed-out preparation is retried or ends the run.
Wait(r) ==
  /\ job[r].pc = "wait"
  /\ \/ /\ image[ImageOfRun(r)].power = "on"
        /\ job' = [job EXCEPT ![r].seen = "on", ![r].pc = "record"]
     \/ \E l \in {"preparing", "soon", "closed"} :
          job' = [job EXCEPT ![r] = [life |-> l, pc |-> "release", seen |-> "off"]]
  /\ NoFault /\ UNCHANGED <<row, pool, sweep, sync, image, asked>>

\* confirmPhoneSchedulerPoweredOn; its failure is ignored.
Confirm(r) ==
  LET p == RowOf[r] IN
  /\ job[r].pc = "confirm"
  /\ \/ /\ NoFault
        /\ row' = IF row[p].power = "requested" /\ row[p].starter = r
                    THEN [row EXCEPT ![p].power = "owned", ![p].idle = FALSE,
                                     ![p].poweredAt = Now]
                    ELSE row
     \/ Fault("net") /\ UNCHANGED row
  /\ job' = [job EXCEPT ![r].pc = "fence", ![r].seen = "off"]
  /\ UNCHANGED <<pool, sweep, sync, image, asked>>

\* The submission fence, then addTask; the task executes while the phone is on.
Fence(r) ==
  /\ job[r].pc = "fence"
  /\ row[RowOf[r]].lease = r /\ row[RowOf[r]].live
  /\ job' = [job EXCEPT ![r].life = "submitting", ![r].pc = "add"]
  /\ NoFault /\ UNCHANGED <<row, pool, sweep, sync, image, asked>>

Add(r) ==
  LET i == ImageOfRun(r)
      added == [image EXCEPT ![i].tasks = @ \cup {r}]
  IN /\ job[r].pc = "add"
     /\ \/ /\ image' = added /\ NoFault
           /\ job' = [job EXCEPT ![r].life = "running", ![r].pc = "release"]
        \/ /\ image' \in {image, added} /\ Fault("net")   \* an ambiguous answer
           /\ Go(r, "release")
        \/ /\ image' = image /\ Fault("net")              \* a definite refusal
           /\ \E l \in {"soon", "closed"} :
                job' = [job EXCEPT ![r].life = l, ![r].pc = "release"]
     /\ UNCHANGED <<row, pool, sweep, sync, asked>>

\* A later tick's lookup; a submission that never shows stays unresolved.
Check(r) ==
  LET i == ImageOfRun(r)
      life == IF r \in image[i].tasks THEN "running"
              ELSE IF r \in image[i].done THEN "closed" ELSE job[r].life
  IN /\ job[r].pc = "check"
     /\ job' = [job EXCEPT ![r].life = life, ![r].pc = "release"]
     /\ NoFault /\ UNCHANGED <<row, pool, sweep, sync, image, asked>>

\* The handler of a failed preparation: another attempt, or the end.
Fail(r) ==
  /\ job[r].pc = "fail"
  /\ \E l \in {"soon", "closed"} :
       job' = [job EXCEPT ![r] = [life |-> l, pc |-> "release", seen |-> "off"]]
  /\ NoFault /\ UNCHANGED <<row, pool, sweep, sync, image, asked>>

\* Any other call of the preparation may fail as well.
PreparationFails(r) ==
  /\ job[r].pc \in {"look", "attempt", "wait", "fence"}
  /\ Go(r, "fail")
  /\ Fault("net") /\ UNCHANGED <<row, pool, sweep, sync, image, asked>>

\* release_phone_lease keeps a reservation whose power-on was attempted.
Release(r) ==
  LET p == RowOf[r]
      freed(x) == IF x.slot = r /\ ~x.tried THEN NoSlot(Unleased(x)) ELSE Unleased(x)
  IN /\ job[r].pc = "release"
     /\ row' = IF row[p].lease = r THEN [row EXCEPT ![p] = freed(@)] ELSE row
     /\ Go(r, "idle")
     /\ NoFault /\ UNCHANGED <<pool, sweep, sync, image, asked>>

\* Reaping a dead worker's lease; the run is taken up again or given up.
Crash(r) ==
  /\ job[r].pc # "idle"
  /\ job' = [job EXCEPT ![r].pc = "idle", ![r].seen = "off"]
  /\ Fault("crash") /\ UNCHANGED <<row, pool, sweep, sync, image, asked>>

Reap(r) ==
  LET p == RowOf[r] IN
  /\ job[r].pc = "idle" /\ row[p].lease = r
  /\ row' = [row EXCEPT ![p] = Unleased(@)]
  /\ job' \in IF job[r].life = "preparing"
                THEN {[job EXCEPT ![r].life = l] : l \in {"soon", "closed"}}
                ELSE {job}
  /\ NoFault /\ UNCHANGED <<pool, sweep, sync, image, asked>>

-----------------------------------------------------------------------------
(* runSchedulerPowerOffSweep *)

\* The runs stakeout_physical_phone_has_protected_work protects.
Protects(r) == job[r].life \in {"soon", "preparing", "submitting", "running"}

\* Mutation of ProtectedWork: only the swept row is inspected.
ProtectedOnRow(p, ignored) ==
  \/ row[p].live \/ row[p].held \/ Pending(row[p])
  \/ \E r \in Run : RowOf[r] = p /\ Protects(r)

ProtectedWork(p, ignored) ==
  \E q \in Mirrors(ImageOf[p]) :
    \/ row[q].live \/ row[q].held \/ Pending(row[q])
    \/ q # ignored /\ row[q].offLive
    \/ \E r \in Run : RowOf[r] = q /\ Protects(r)

\* claim_idle_scheduler_powered_phones, for one row.
SweepClaim(s, p) ==
  /\ sweep[s].pc = "idle"
  /\ row[p].status = "on" /\ row[p].power = "owned" /\ row[p].idle
  /\ ~row[p].live /\ ~row[p].offLive
  /\ ~ProtectedWork(p, NoRow)
  /\ row' = [row EXCEPT ![p].off = s, ![p].offLive = TRUE]
  /\ sweep' = [sweep EXCEPT ![s] = [pc |-> "inspect", row |-> p]]
  /\ NoFault /\ UNCHANGED <<pool, job, sync, image, asked>>

\* client.getPhone: on, settled off, or still changing (or unknown); near its
\* deadline the tick gives the claim back.
SweepInspect(s) ==
  LET power == Reported(ImageOf[sweep[s].row]) IN
  /\ sweep[s].pc = "inspect"
  /\ \/ /\ SweepGo(s, CASE power = "on" -> "consume" [] power = "off" -> "settle"
                        [] OTHER -> "drop")
        /\ NoFault
     \/ SweepGo(s, "drop") /\ (Fault("net") \/ Fault("late"))
  /\ UNCHANGED <<row, pool, job, sync, image, asked>>

Claims(s) == LET x == row[sweep[s].row] IN x.off = s /\ x.offLive

\* Mutation of Consumable: the sweep's own claim counts as protected work.
ConsumableUnclaimed(s) ==
  LET p == sweep[s].row IN
  /\ Claims(s)
  /\ row[p].status = "on" /\ row[p].power = "owned" /\ ~row[p].live
  /\ ~ProtectedWork(p, NoRow)

Consumable(s) ==
  LET p == sweep[s].row IN
  /\ Claims(s)
  /\ row[p].status = "on" /\ row[p].power = "owned" /\ ~row[p].live
  /\ ~ProtectedWork(p, p)

\* Mutation of Consumed: the ownership is kept for a retry.
Kept(x) == x

Consumed(x) == Unowned(x)

\* consume_scheduler_phone_poweroff_ownership
SweepConsume(s) ==
  LET p == sweep[s].row IN
  /\ sweep[s].pc = "consume"
  /\ \/ /\ Consumable(s)
        /\ row' = [row EXCEPT ![p] = Consumed(@)]
        /\ \/ SweepGo(s, "off") /\ NoFault
           \/ SweepGo(s, "drop") /\ Fault("net")
     \/ ~Consumable(s) /\ SweepGo(s, "drop") /\ NoFault /\ UNCHANGED row
  /\ UNCHANGED <<pool, job, sync, image, asked>>

\* client.powerOff; tasks on a phone that goes off are lost.
SweepOff(s) ==
  LET i == ImageOf[sweep[s].row]
      stopped == [image EXCEPT ![i].power = "off", ![i].tasks = {},
                               ![i].done = @ \cup image[i].tasks]
  IN /\ sweep[s].pc = "off"
     /\ \/ image' = stopped /\ SweepGo(s, "complete") /\ NoFault
        \/ image' \in {image, stopped} /\ SweepGo(s, "abandon") /\ Fault("net")
     /\ asked' = [asked EXCEPT ![i] = @ + 1]
     /\ UNCHANGED <<row, pool, job, sync>>

\* complete_scheduler_phone_power_off resets every mirror of the phone.
SweepComplete(s) ==
  LET done(x) == [NoClaim(Unowned(NoSlot([Unleased(x) EXCEPT !.status = "off"])))
                    EXCEPT !.seenAt = Now]
      i == ImageOf[sweep[s].row]
  IN /\ sweep[s].pc \in {"settle", "complete"}
     /\ \/ /\ NoFault
           /\ IF Claims(s)
                THEN row' = [q \in Row |-> IF q \in Mirrors(i) THEN done(row[q])
                                           ELSE row[q]]
                ELSE UNCHANGED row
           /\ sweep' = [sweep EXCEPT ![s] = NoSweep]
        \/ /\ Fault("net") /\ UNCHANGED row
           /\ SweepGo(s, IF sweep[s].pc = "complete" THEN "abandon" ELSE "drop")
     /\ UNCHANGED <<pool, job, sync, image, asked>>

\* release_scheduler_phone_poweroff_claim, with and without abandonOwnership;
\* abandoning keeps the claim alive as a quarantine.
SweepRelease(s) ==
  LET p == sweep[s].row IN
  /\ sweep[s].pc \in {"abandon", "drop"}
  /\ \/ /\ NoFault
        /\ row' = IF ~Claims(s) THEN row
                  ELSE [row EXCEPT ![p] = IF sweep[s].pc = "abandon"
                                            THEN Unowned(@) ELSE NoClaim(@)]
     \/ Fault("net") /\ UNCHANGED row
  /\ sweep' = [sweep EXCEPT ![s] = NoSweep]
  /\ UNCHANGED <<pool, job, sync, image, asked>>

SweepCrash(s) ==
  /\ sweep[s].pc # "idle"
  /\ sweep' = [sweep EXCEPT ![s] = NoSweep]
  /\ Fault("crash") /\ UNCHANGED <<row, pool, job, sync, image, asked>>

-----------------------------------------------------------------------------
(* Inventory syncs and capacity refreshes, which read first and write later *)

SyncRead(p) ==
  /\ sync[p] = NoSync
  /\ sync' = [sync EXCEPT ![p] = [power |-> Reported(ImageOf[p]), at |-> Now]]
  /\ Fault("inventory") /\ UNCHANGED <<row, pool, job, sweep, image, asked>>

\* replace_duoplus_phone_inventory: the status as read, dated when it was read.
SyncWrite(p) ==
  /\ sync[p] # NoSync
  /\ row' = [row EXCEPT ![p] =
               [WithStatus(@, sync[p].power) EXCEPT !.seenAt = sync[p].at]]
  /\ sync' = [sync EXCEPT ![p] = NoSync]
  /\ NoFault /\ UNCHANGED <<pool, job, sweep, image, asked>>

\* refreshStaleSubscriptionCapacities: dated when it began, counted later,
\* published by the trigger stakeout_publish_duoplus_provider_snapshot.
RefreshBegin ==
  /\ pool.pc = "idle"
  /\ pool' = [pool EXCEPT !.pc = "begun"]
  /\ NoFault /\ UNCHANGED <<row, job, sweep, sync, image, asked>>

RefreshRead ==
  /\ pool.pc = "begun"
  /\ pool' = [pool EXCEPT !.pc = "read",
                !.seen = Cardinality({i \in Image : image[i].power # "off"})]
  /\ NoFault /\ UNCHANGED <<row, job, sweep, sync, image, asked>>

Dated(stamp) == IF stamp = "new" THEN "mid" ELSE "old"

RefreshPublish ==
  /\ pool.pc = "read"
  /\ pool' = [inUse |-> pool.seen, pc |-> "idle", seen |-> 0]
  /\ row' = [p \in Row |-> [row[p] EXCEPT !.seenAt = Dated(@), !.poweredAt = Dated(@)]]
  /\ sync' = [p \in Row |-> [sync[p] EXCEPT !.at = Dated(@)]]
  /\ NoFault /\ UNCHANGED <<job, sweep, image, asked>>

-----------------------------------------------------------------------------
(* Time, users and DuoPlus *)

\* A retry or a planned time comes near.
ComesDue(r) ==
  /\ job[r].life = "later" /\ job[r].pc = "idle"
  /\ job' = [job EXCEPT ![r].life = "soon"]
  /\ NoFault /\ UNCHANGED <<row, pool, sweep, sync, image, asked>>

\* A cancellation, or a window that closed, ends a run no worker holds.
Closes(r) ==
  /\ job[r].pc = "idle" /\ job[r].life \in {"later", "soon", "preparing"}
  /\ job' = [job EXCEPT ![r].life = "closed"]
  /\ NoFault /\ UNCHANGED <<row, pool, sweep, sync, image, asked>>

\* Fifteen minutes without activity outlast any sync (five minutes) that had
\* read the phone before.
GoesIdle(p) ==
  /\ ~row[p].idle /\ ~row[p].live /\ row[p].power = "owned"
  /\ \A q \in Mirrors(ImageOf[p]) : sync[q] = NoSync
  /\ row' = [row EXCEPT ![p].idle = TRUE]
  /\ NoFault /\ UNCHANGED <<pool, job, sweep, sync, image, asked>>

\* A lease of fifteen minutes outlives its worker (a tick of 270 s).
LeaseEnds(p) ==
  /\ row[p].live /\ job[row[p].lease].pc = "idle"
  /\ row' = [row EXCEPT ![p].live = FALSE]
  /\ NoFault /\ UNCHANGED <<pool, job, sweep, sync, image, asked>>

\* A claim of two minutes may run out while the sweep is at other phones; the
\* ten minutes from the consumption on outlive the sweep.
ClaimEnds(p) ==
  /\ row[p].offLive
  /\ \A s \in Sweeper : row[p].off = s /\ sweep[s].row = p
                         => sweep[s].pc \in {"inspect", "settle", "consume", "drop"}
  /\ row' = [row EXCEPT ![p].offLive = FALSE]
  /\ IF \E s \in Sweeper : sweep[s].row = p THEN Fault("late") ELSE NoFault
  /\ UNCHANGED <<pool, job, sweep, sync, image, asked>>

\* A reservation or an unconfirmed request runs out: harmlessly when the
\* phone is off, with an effect on the count when it is not.
ReservationEnds(p) ==
  /\ row[p].held \/ row[p].recent
  /\ ~row[p].live
  /\ row' = [row EXCEPT ![p].held = FALSE, ![p].recent = FALSE]
  /\ image[ImageOf[p]].power # "off" => "expire" \in FaultKinds
  /\ NoFault /\ UNCHANGED <<pool, job, sweep, sync, image, asked>>

Boots(i) ==
  /\ image[i].power \in {"starting", "booting"}
  /\ image' = [image EXCEPT ![i].power = IF @ = "starting" THEN "booting" ELSE "on"]
  /\ NoFault /\ UNCHANGED <<row, pool, job, sweep, sync, asked>>

TaskEnds(i) ==
  /\ \E r \in image[i].tasks :
       image' = [image EXCEPT ![i].tasks = @ \ {r}, ![i].done = @ \cup {r}]
  /\ NoFault /\ UNCHANGED <<row, pool, job, sweep, sync, asked>>

PowerButton(i) ==
  /\ image' = [image EXCEPT ![i] =
       IF @.power = "off" THEN [@ EXCEPT !.power = "starting", !.by = "person"]
       ELSE [@ EXCEPT !.power = "off", !.tasks = {},
                      !.done = image[i].done \cup image[i].tasks]]
  /\ asked' = IF image[i].power = "off" THEN [asked EXCEPT ![i] = 0] ELSE asked
  /\ Fault("person") /\ UNCHANGED <<row, pool, job, sweep, sync>>

-----------------------------------------------------------------------------
Dispatch(r) ==
  \/ Look(r) \/ Record(r) \/ Attempt(r) \/ Wake(r) \/ Mark(r) \/ Wait(r)
  \/ Confirm(r) \/ Fence(r) \/ Add(r) \/ Check(r) \/ Fail(r)
  \/ PreparationFails(r) \/ Release(r)

SweepStep(s) ==
  \/ SweepInspect(s) \/ SweepConsume(s) \/ SweepOff(s) \/ SweepComplete(s)
  \/ SweepRelease(s)

Next ==
  \/ \E r \in Run : \/ AcquireNew(r) \/ AcquireExisting(r) \/ Dispatch(r)
                    \/ Crash(r) \/ Reap(r) \/ ComesDue(r) \/ Closes(r)
  \/ \E s \in Sweeper : \/ SweepStep(s) \/ SweepCrash(s)
                        \/ \E p \in Row : SweepClaim(s, p)
  \/ \E p \in Row : \/ SyncRead(p) \/ SyncWrite(p) \/ GoesIdle(p)
                    \/ LeaseEnds(p) \/ ClaimEnds(p) \/ ReservationEnds(p)
  \/ RefreshBegin \/ RefreshRead \/ RefreshPublish
  \/ \E i \in Image : Boots(i) \/ TaskEnds(i) \/ PowerButton(i)

Spec == Init /\ [][Next]_vars

\* The minute loop keeps ticking: claimed phones are dealt with, reservations
\* and idle times run out, DuoPlus starts phones and finishes tasks.
Fairness ==
  /\ \A r \in Run : WF_vars(Dispatch(r)) /\ WF_vars(AcquireExisting(r))
  /\ \A s \in Sweeper : WF_vars(SweepStep(s))
  /\ \A p \in Row : /\ WF_vars(\E s \in Sweeper : SweepClaim(s, p))
                    /\ WF_vars(GoesIdle(p)) /\ WF_vars(ClaimEnds(p))
                    /\ WF_vars(ReservationEnds(p))
  /\ \A i \in Image : WF_vars(Boots(i)) /\ WF_vars(TaskEnds(i))

FairSpec == Spec /\ Fairness

-----------------------------------------------------------------------------
(* Properties *)

SwitchesOff(s) == sweep[s].pc = "off" /\ sweep'[s].pc # "off"
SwitchesOn(r)  == job[r].pc = "wake" /\ job'[r].pc # "wake"

\* Switching an idle phone off never takes a task with it, whichever workspace
\* submitted the task and however the sweep and the workers interleave, with
\* lost answers, dead workers, dead sweeps and claims that ran out.
SparesWorkStep ==
  \A s \in Sweeper : SwitchesOff(s) => image[ImageOf[sweep[s].row]].tasks = {}
SparesWork == [][SparesWorkStep]_vars

\* One start of a phone, by the scheduler or by a person, answers for at most
\* one request to switch off: ownership is consumed before powerOff, so an
\* uncertain answer is never tried again (device-power.ts).
OneShutdownPerStart == \A i \in Image : asked[i] <= 1

\* A phone that was asked to start and is still reported off is not asked
\* again: the attempt marker outlives leases, retries and dead workers.
WakesOnceStep ==
  \A r \in Run : SwitchesOn(r) => LET phone == image[ImageOfRun(r)]
                                  IN phone.power = "starting" => phone.by = "person"
WakesOnce == [][WakesOnceStep]_vars

\* The scheduler never has more phones running than the startup capacity.
StartupCeiling == Cardinality({i \in Image : image[i].power # "off"}) <= Limit

\* Once no run needs it, a phone the scheduler started and owns goes off.
OwnedPhoneGoesOff == \A p \in Row :
  (row[p].power = "owned" /\ \A r \in Run : job[r].life = "closed")
    ~> image[ImageOf[p]].power = "off"
=============================================================================
