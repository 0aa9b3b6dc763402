----------------------------- MODULE Connections -----------------------------
(***************************************************************************)
(* The DuoPlus connection of a workspace: saving, replacing and removing   *)
(* its API key, the capacity pool that connections with the same account   *)
(* share, and what the callers that talk to DuoPlus write back.            *)
(*                                                                         *)
(* Every HTTP route and every cron refresh reads the connection row,       *)
(* spends seconds at DuoPlus, and then writes.  In between the key may     *)
(* have been replaced, removed or refused.  credential_generation is the   *)
(* fence: a trigger advances it with every change of the key columns, and  *)
(* a late writer names the generation it read.                             *)
(*                                                                         *)
(* A request is one such caller.  It may die at any point (a serverless    *)
(* function that reaches its limit), which leaves what it wrote so far.    *)
(***************************************************************************)
EXTENDS Naturals, FiniteSets, FiniteSetsExt

CONSTANTS Conn,        \* one default connection per workspace
          Key,         \* API keys; a pool is named by the key that founded it
          Request,     \* HTTP requests, cron refreshes and worker calls
          None,
          MaxClock, MaxChanges,      \* bounds: time, and changes of keys
          FreshFor                   \* how long a provider snapshot is current

ASSUME ConnectionAssumption ==
  /\ None \notin Key /\ IsFiniteSet(Conn) /\ IsFiniteSet(Key)
  /\ MaxClock \in Nat \ {0} /\ MaxChanges \in Nat /\ FreshFor \in Nat

VARIABLES conn,      \* duo_connections
          alias,     \* duo_capacity_pool_fingerprints: the pool of a key
          snapshot,  \* provider columns of duo_capacity_pools
          needed,    \* connections with an enabled schedule or an open run
          phones,    \* the read that the saved phone inventory comes from
          request, clock,
          refused    \* keys that DuoPlus has revoked

connVars == <<conn, alias, snapshot, needed, phones, request, clock, refused>>

Status == {"absent", "pending", "active", "invalid", "error", "disconnected"}
Kind == {"connect", "sync", "refresh", "lazy", "run"}
Step == {"idle", "insert", "link", "probe", "read", "phones", "save"}

NoSnapshot == [at |-> 0, key |-> None]
Snapshot == [at : 0..MaxClock, key : Key \cup {None}]

ConnectionRow ==
  [status : Status, key : Key \cup {None}, generation : 0..MaxChanges,
   pool : Key \cup {None}, seen : Snapshot]     \* seen: subscription_*

Absent == [status |-> "absent", key |-> None, generation |-> 0,
           pool |-> None, seen |-> NoSnapshot]

\* kind and pc, the row as the request read it, when its provider read began,
\* and whether it inserted the row.
RequestRow ==
  [kind : Kind, pc : Step, conn : Conn \cup {None}, key : Key \cup {None},
   generation : 0..MaxChanges, at : 0..MaxClock, created : BOOLEAN]

Idle == [kind |-> "run", pc |-> "idle", conn |-> None, key |-> None,
         generation |-> 0, at |-> 0, created |-> FALSE]

ConnTypeOK ==
  /\ conn \in [Conn -> ConnectionRow]
  /\ alias \in [Key -> Key \cup {None}]
  /\ snapshot \in [Key -> Snapshot]
  /\ needed \in SUBSET Conn
  /\ phones \in [Conn -> Snapshot]
  /\ request \in [Request -> RequestRow]
  /\ clock \in 1..MaxClock /\ refused \in SUBSET Key

\* A connection whose key was saved before there were pools.
Unpooled(k) ==
  {[Absent EXCEPT !.status = "active", !.key = k, !.seen = seen] :
     seen \in {NoSnapshot, [at |-> 1, key |-> k]}}

ConnInit ==
  /\ conn \in [Conn -> {Absent} \cup UNION {Unpooled(k) : k \in Key}]
  /\ alias = [k \in Key |-> None]
  /\ snapshot = [k \in Key |-> NoSnapshot]
  /\ needed = {}
  /\ phones = [c \in Conn |-> NoSnapshot]
  /\ request = [r \in Request |-> Idle]
  /\ clock = 1 /\ refused = {}

----------------------------------------------------------------------------
(* The database functions.                                                 *)

Current(at) == at # 0 /\ at + FreshFor >= clock

\* Half as old as that: the cron refreshes it.
Aging(at) == at = 0 \/ at + FreshFor \div 2 < clock

\* link_duoplus_capacity_pool: a linked connection never moves, the key joins
\* its pool; an unlinked one joins the pool of its key, or founds it.
PoolFor(row, k) ==
  CASE row.pool # None -> row.pool
    [] row.pool = None /\ alias[k] # None -> alias[k]
    [] OTHER -> k

\* Mutation of LinkRefused: the key's pool is not looked up.
LinkAlways(row, k) == FALSE

\* P4112: the key already belongs to another pool.
LinkRefused(row, k) == row.pool # None /\ alias[k] \notin {None, row.pool}

\* Mutation of Publish: the read that ends last wins.
PublishLast(p, seen) ==
  snapshot' = [snapshot EXCEPT ![p] = IF Current(seen.at) THEN seen ELSE @]

\* The trigger that publishes a row's snapshot to its pool: current, and newer
\* than what is there.  Of two reads begun at once the lower capacity, higher
\* use or lower id wins, so either may.
Publish(p, seen) ==
  LET old == snapshot[p] IN
  \E s \in {old, seen} :
    /\ ~Current(seen.at) \/ seen.at < old.at => s = old
    /\ Current(seen.at) /\ seen.at > old.at => s = seen
    /\ snapshot' = [snapshot EXCEPT ![p] = s]

\* The link as a transaction of its own.
Link(c, k) ==
  LET p == PoolFor(conn[c], k) IN
  /\ conn[c].status = "active" /\ ~LinkRefused(conn[c], k)
  /\ alias' = [alias EXCEPT ![k] = p]
  /\ conn' = [conn EXCEPT ![c].pool = p]
  /\ IF conn[c].pool = None THEN Publish(p, conn[c].seen)
                            ELSE UNCHANGED snapshot

\* A write guarded by the generation the request read.
Guarded(r) == conn[request[r].conn].generation = request[r].generation

Goto(r, pc) == request' = [request EXCEPT ![r].pc = pc]
Finish(r) == request' = [request EXCEPT ![r] = Idle]
Load(r, kind, c, pc, k, created) ==
  request' = [request EXCEPT ![r] = [@ EXCEPT
    !.kind = kind, !.pc = pc, !.conn = c, !.key = k, !.at = clock,
    !.generation = conn[c].generation, !.created = created]]

MayChange == MapThenSumSet(LAMBDA c : conn[c].generation, Conn) < MaxChanges

\* Mutation of MarkIfGuarded: whoever holds the row by now.
MarkAnyway(r, status) == conn' = [conn EXCEPT ![request[r].conn].status = status]

\* status: what a refused key, or an unavailable DuoPlus, makes of the row.
MarkIfGuarded(r, status) ==
  conn' = IF Guarded(r)
          THEN [conn EXCEPT ![request[r].conn].status = status] ELSE conn

Others == <<needed, phones, clock, refused>>
Row(r) == conn[request[r].conn]
AtStep(r, kind, pc) == request[r].kind = kind /\ request[r].pc = pc

\* What DuoPlus answers to a call with key k.
Answers(k) == IF k \in refused THEN {"refused", "failed"} ELSE {"ok", "failed"}

----------------------------------------------------------------------------
(* POST /api/integrations/duoplus: verify a key and save it.               *)

ConnectLoad(r, c, k) ==
  /\ request[r].pc = "idle"
  /\ Load(r, "connect", c,
          IF conn[c].status = "absent" THEN "insert" ELSE "probe",
          k, conn[c].status = "absent")
  /\ UNCHANGED <<conn, alias, snapshot, Others>>

\* The unique index on the default connection refuses the second insert.
ConnectInsert(r) ==
  /\ AtStep(r, "connect", "insert")
  /\ \/ /\ Row(r).status = "absent"
        /\ conn' = [conn EXCEPT ![request[r].conn].status = "pending"]
        /\ Goto(r, "probe")
     \/ /\ Row(r).status # "absent"
        /\ Finish(r) /\ UNCHANGED conn
  /\ UNCHANGED <<alias, snapshot, Others>>

\* One phone list, then the startup capacity, whose read begins now.
ConnectProbe(r) ==
  /\ AtStep(r, "connect", "probe")
  /\ "ok" \in Answers(request[r].key)
  /\ request' = [request EXCEPT ![r].pc = "read", ![r].at = clock]
  /\ UNCHANGED <<conn, alias, snapshot, Others>>

ConnectRead(r) ==
  /\ AtStep(r, "connect", "read")
  /\ "ok" \in Answers(request[r].key)
  /\ Goto(r, "save")
  /\ UNCHANGED <<conn, alias, snapshot, Others>>

\* Only the request that inserted the pending row writes its failure there.
ConnectFail(r) ==
  /\ request[r].kind = "connect" /\ request[r].pc \in {"probe", "read"}
  /\ \E answer \in Answers(request[r].key) \ {"ok"} :
       IF request[r].created
       THEN MarkIfGuarded(r, IF answer = "refused" THEN "invalid" ELSE "error")
       ELSE UNCHANGED conn
  /\ Finish(r)
  /\ UNCHANGED <<alias, snapshot, Others>>

\* save_verified_duoplus_connection: key, snapshot and pool in one transaction.
SaveVerified(r) ==
  LET c == request[r].conn
      k == request[r].key
      seen == [at |-> request[r].at, key |-> k]
      p == PoolFor(conn[c], k) IN
  /\ Current(request[r].at) /\ Guarded(r) /\ ~LinkRefused(conn[c], k)
  /\ conn' = [conn EXCEPT ![c] = [status |-> "active", key |-> k,
                generation |-> @.generation + 1, pool |-> p, seen |-> seen]]
  /\ alias' = [alias EXCEPT ![k] = p]
  /\ Publish(p, seen)

ConnectSave(r) ==
  /\ AtStep(r, "connect", "save")
  /\ \/ MayChange /\ SaveVerified(r)
     \/ /\ \/ ~Current(request[r].at) \/ ~Guarded(r)
           \/ LinkRefused(Row(r), request[r].key)
        /\ UNCHANGED <<conn, alias, snapshot>>
  /\ Finish(r) /\ UNCHANGED Others

----------------------------------------------------------------------------
(* DELETE /api/integrations/duoplus: refused while work depends on the key. *)

\* Mutation of Disconnect: nobody asks what depends on the key.
DisconnectAnyway(c) ==
  /\ conn[c].status # "absent" /\ MayChange
  /\ conn' = [conn EXCEPT ![c].status = "disconnected", ![c].key = None,
                          ![c].generation = @ + 1]
  /\ UNCHANGED <<alias, snapshot, request, Others>>

Disconnect(c) ==
  /\ conn[c].status # "absent" /\ MayChange
  /\ c \notin needed
  /\ conn' = [conn EXCEPT ![c].status = "disconnected", ![c].key = None,
                          ![c].generation = @ + 1]
  /\ UNCHANGED <<alias, snapshot, request, Others>>

\* Enabling a schedule: its trigger asks for an active connection with a key.
\* Runs come from enabled schedules.
Need(c) ==
  /\ conn[c].status = "active" /\ conn[c].key # None /\ c \notin needed
  /\ needed' = needed \cup {c}
  /\ UNCHANGED <<conn, alias, snapshot, phones, request, clock, refused>>

\* All schedules paused, and all runs closed.
Release(c) ==
  /\ c \in needed
  /\ needed' = needed \ {c}
  /\ UNCHANGED <<conn, alias, snapshot, phones, request, clock, refused>>

----------------------------------------------------------------------------
(* Callers that use the saved key.                                         *)

\* getDefaultDuoConnection with requireKey; GET and PATCH of the integration
\* ("lazy") link a connection that has no pool yet, and stop there.
UseLoad(r, c, kind) ==
  /\ request[r].pc = "idle"
  /\ conn[c].status = "active" /\ conn[c].key # None
  /\ kind = "refresh" => (conn[c].pool = None \/ Aging(conn[c].seen.at))
  /\ Load(r, kind, c, IF kind = "run" THEN "read" ELSE "link",
          conn[c].key, FALSE)
  /\ UNCHANGED <<conn, alias, snapshot, Others>>

\* createOrganizationDuoClient, ensureDuoPlusCapacityPool: the link is asked
\* for with the key that was read before.
UseLink(r) ==
  /\ request[r].pc = "link"
  /\ \/ /\ Link(request[r].conn, request[r].key)
        /\ IF request[r].kind = "lazy" THEN Finish(r)
           ELSE request' = [request EXCEPT ![r].pc = "read",
                  ![r].at = IF request[r].kind = "refresh" THEN @ ELSE clock]
     \/ /\ Row(r).status # "active" \/ LinkRefused(Row(r), request[r].key)
        /\ Finish(r) /\ UNCHANGED <<conn, alias, snapshot>>
  /\ UNCHANGED Others

\* All reads of an inventory, the capacity of a refresh, or a call of a run.
UseRead(r) ==
  /\ request[r].pc = "read" /\ request[r].kind \in {"sync", "refresh", "run"}
  /\ \E answer \in Answers(request[r].key) :
       /\ IF answer # "ok" \/ request[r].kind = "run" THEN Finish(r)
          ELSE Goto(r, IF request[r].kind = "sync" THEN "phones" ELSE "save")
       /\ IF answer = "refused" THEN MarkIfGuarded(r, "invalid")
                                ELSE UNCHANGED conn
  /\ UNCHANGED <<alias, snapshot, Others>>

\* runtime.ts: only the refresh that began last may replace the snapshot.
SaveSnapshot(r, status) ==
  LET c == request[r].conn
      seen == [at |-> request[r].at, key |-> request[r].key] IN
  IF Guarded(r) /\ conn[c].seen.at <= request[r].at
  THEN /\ conn' = [conn EXCEPT ![c].seen = seen, ![c].status = status]
       /\ IF conn[c].pool = None THEN UNCHANGED snapshot
                                 ELSE Publish(conn[c].pool, seen)
  ELSE UNCHANGED <<conn, snapshot>>

RefreshSave(r) ==
  /\ AtStep(r, "refresh", "save")
  /\ SaveSnapshot(r, Row(r).status)
  /\ Finish(r)
  /\ UNCHANGED <<alias, Others>>

----------------------------------------------------------------------------
(* POST /api/inventory/sync, after its reads.                              *)

\* replace_duoplus_phone_inventory: an older snapshot raises P4107, and ends
\* the request.  (The templates, saved in parallel, are left out.)
SyncPhones(r) ==
  LET c == request[r].conn IN
  /\ AtStep(r, "sync", "phones")
  /\ \/ /\ phones[c].at <= request[r].at
        /\ phones' = [phones EXCEPT ![c] =
                        [at |-> request[r].at, key |-> request[r].key]]
        /\ Goto(r, "save")
     \/ /\ phones[c].at > request[r].at
        /\ Finish(r) /\ UNCHANGED phones
  /\ UNCHANGED <<conn, alias, snapshot, needed, clock, refused>>

\* Neither the phone inventory nor the capacity may be newer by now.
SyncSave(r) ==
  /\ AtStep(r, "sync", "save")
  /\ IF phones[request[r].conn].at <= request[r].at
     THEN SaveSnapshot(r, "active") ELSE UNCHANGED <<conn, snapshot>>
  /\ Finish(r)
  /\ UNCHANGED <<alias, Others>>

----------------------------------------------------------------------------
Die(r) ==
  /\ request[r].pc # "idle"
  /\ Finish(r)
  /\ UNCHANGED <<conn, alias, snapshot, Others>>

Revoke(k) ==
  /\ k \notin refused
  /\ refused' = refused \cup {k}
  /\ UNCHANGED <<conn, alias, snapshot, needed, phones, request, clock>>

ConnTick ==
  /\ clock < MaxClock
  /\ clock' = clock + 1
  /\ UNCHANGED <<conn, alias, snapshot, needed, phones, request, refused>>

ConnNext ==
  \/ \E r \in Request, c \in Conn, k \in Key : ConnectLoad(r, c, k)
  \/ \E r \in Request, c \in Conn, kind \in Kind \ {"connect"} :
       UseLoad(r, c, kind)
  \/ \E r \in Request :
       \/ ConnectInsert(r) \/ ConnectProbe(r) \/ ConnectRead(r)
       \/ ConnectFail(r) \/ ConnectSave(r)
       \/ UseLink(r) \/ UseRead(r) \/ RefreshSave(r)
       \/ SyncPhones(r) \/ SyncSave(r) \/ Die(r)
  \/ \E c \in Conn : Disconnect(c) \/ Need(c) \/ Release(c)
  \/ \E k \in Key : Revoke(k)
  \/ ConnTick

----------------------------------------------------------------------------
(* Properties.                                                             *)

\* An active connection has a key: no write that comes after a disconnect
\* (an inventory sync sets status active) brings an empty row back to life.
ActiveHasKey ==
  \A c \in Conn : conn[c].status = "active" => conn[c].key # None

\* A connection is marked invalid only for its own key: the refusal of a key
\* that has been replaced meanwhile does not shut out the new one.
InvalidWasRefused ==
  \A c \in Conn : conn[c].status = "invalid" /\ conn[c].key # None
                   => conn[c].key \in refused

\* Two workspaces with one DuoPlus key count against one pool, in whatever
\* order they were connected, linked lazily, rotated and reconnected.
SameKeySamePool ==
  \A c, d \in Conn :
    /\ conn[c].key # None /\ conn[c].key = conn[d].key
    /\ conn[c].pool # None /\ conn[d].pool # None
    => conn[c].pool = conn[d].pool

\* The capacity a pool admits by was read with a key of that pool.
SnapshotOfPool ==
  \A p \in Key : snapshot[p].key # None => alias[snapshot[p].key] = p

\* What a pool, and under one credential what a connection, knows of its
\* capacity never goes back to an earlier read, however late that read ends.
SnapshotNeverRegresses ==
  [][/\ \A p \in Key : snapshot'[p].at >= snapshot[p].at
     /\ \A c \in Conn : conn'[c].generation = conn[c].generation
          => conn'[c].seen.at >= conn[c].seen.at]_connVars

\* No schedule is enabled and no run is open on an account without a key.
NoWorkWithoutKey ==
  \A c \in needed : conn[c].key # None

\* "This prevents provider responses issued with an older key from mutating
\* the state of a newer key after they finish": the phones that are saved for
\* a connection were read with its key.
OldKeyNeverMovesNewState ==
  [][\A c \in Conn : phones'[c] # phones[c]
                        => phones'[c].key = conn[c].key]_phones

ConnSpec == ConnInit /\ [][ConnNext]_connVars

\* The status of a connection is what its own key earned.
StatusIsEarned == ActiveHasKey /\ InvalidWasRefused

\* Pools follow keys: who shares a key shares the pool and what is known of it.
PoolsAgree == SameKeySamePool /\ SnapshotOfPool
=============================================================================
