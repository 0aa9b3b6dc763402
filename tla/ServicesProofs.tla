--------------------------- MODULE ServicesProofs ---------------------------
(***************************************************************************)
(* Connections and Provisioning, which share no state, for every size, and *)
(* the instance in which they run beside RateSlots and PagedFetch.         *)
(*                                                                         *)
(* What the generation fence guarantees, for any workspaces, keys,         *)
(* requests and bounds: statuses, pools and snapshots follow the key that  *)
(* a connection has now, however late a request comes that used another.   *)
(* The heart is RequestKnows: a request whose generation is still the      *)
(* row's holds the row's key, and one that inserted the row finds it       *)
(* without a key.  A change of the key advances the generation, so the     *)
(* fact is kept by leaving it behind.                                      *)
(*                                                                         *)
(* What a cycle is recorded to use is what was bought and set for it, for  *)
(* any cycles, ISPs, attempts and failures.  Good says what an attempt has *)
(* achieved when it stands at a step: the list before it is saved, the     *)
(* proxy before the phone is updated, the phone before it is bound.  An    *)
(* attempt that fails forgets the step, but what it bought is of the ISP   *)
(* that stays reserved.                                                    *)
(*                                                                         *)
(* The bounds in the types need more than the rows: that no generation     *)
(* passes the changes that may be made, though MayChange bounds their sum, *)
(* comes from counting the changes of all connections in one set           *)
(* (ChangesSummed), by a least counterexample.                             *)
(***************************************************************************)
EXTENDS MCServices, ClientProofs, WellFoundedInduction

-----------------------------------------------------------------------------
(* Connections.                                                            *)

Seen == [at : Nat, key : Key \cup {None}]
ConnRow == [status : Status, key : Key \cup {None}, generation : Nat,
            pool : Key \cup {None}, seen : Seen]
Req == [kind : Kind, pc : Step, conn : Conn \cup {None}, key : Key \cup {None},
        generation : Nat, at : Nat, created : BOOLEAN]

\* ConnTypeOK without the bounds of an instance.
Typed ==
  /\ conn \in [Conn -> ConnRow]
  /\ alias \in [Key -> Key \cup {None}]
  /\ snapshot \in [Key -> Seen]
  /\ needed \in SUBSET Conn
  /\ phones \in [Conn -> Seen]
  /\ request \in [Request -> Req]
  /\ clock \in Nat /\ refused \in SUBSET Key

RequestKnows(q) ==
  q.pc # "idle" =>
    /\ q.conn \in Conn /\ q.key \in Key
    /\ q.pc = "link" => q.kind # "connect"
    /\ q.generation <= conn[q.conn].generation
    /\ q.generation = conn[q.conn].generation =>
         /\ q.kind # "connect" => conn[q.conn].key = q.key
         /\ q.created => conn[q.conn].key = None

RequestsKnow == \A r \in Request : RequestKnows(request[r])

\* A key belongs to the pool of its connection; a connection without one still
\* has the key it was migrated with, and what was read with that.
KeysPooled ==
  \A c \in Conn :
    /\ conn[c].status = "absent" => conn[c].key = None
    /\ conn[c].key # None /\ conn[c].pool # None
         => alias[conn[c].key] = conn[c].pool
    /\ conn[c].key # None /\ conn[c].pool = None
         => conn[c].generation = 0 /\ conn[c].seen.key \in {None, conn[c].key}

ConnInv ==
  /\ Typed /\ RequestsKnow /\ KeysPooled
  /\ StatusIsEarned /\ SnapshotOfPool /\ NoWorkWithoutKey

\* The body of SnapshotNeverRegresses.
Advances ==
  /\ \A p \in Key : snapshot'[p].at >= snapshot[p].at
  /\ \A c \in Conn : conn'[c].generation = conn[c].generation
                       => conn'[c].seen.at >= conn[c].seen.at

-----------------------------------------------------------------------------
(* Parts of steps.                                                         *)

\* A change of key advances the generation; a request goes on, ends, or has
\* just read the row.
RowsMoveOn ==
  \A c \in Conn :
    \/ conn'[c].generation > conn[c].generation
    \/ conn'[c].generation = conn[c].generation /\ conn'[c].key = conn[c].key

SameRequest(q, p) ==
  /\ p.pc # "idle" /\ q.pc # "link" /\ q.kind = p.kind /\ q.conn = p.conn /\ q.key = p.key
  /\ q.generation = p.generation /\ q.created = p.created

LEMMA RequestsStay ==
  ASSUME Typed, Typed', RequestsKnow, RowsMoveOn,
         \A r \in Request : \/ request'[r].pc = "idle"
                            \/ SameRequest(request'[r], request[r])
                            \/ request'[r] = request[r]
  PROVE  RequestsKnow'
<1> SUFFICES ASSUME NEW r \in Request, request'[r].pc # "idle"
             PROVE  RequestKnows(request[r])'
  BY DEF RequestsKnow, RequestKnows
<1> DEFINE q == request[r]
<1>1. /\ q.pc # "idle" /\ q.conn \in Conn /\ q.key \in Key
      /\ request'[r].pc = "link" => request'[r].kind # "connect"
      /\ request'[r].kind = q.kind /\ request'[r].conn = q.conn
      /\ request'[r].key = q.key /\ request'[r].generation = q.generation
      /\ request'[r].created = q.created
      /\ q.generation <= conn[q.conn].generation
      /\ q.generation = conn[q.conn].generation =>
           /\ q.kind # "connect" => conn[q.conn].key = q.key
           /\ q.created => conn[q.conn].key = None
  BY DEF SameRequest, RequestsKnow, RequestKnows
<1>2. q.generation \in Nat /\ conn[q.conn].generation \in Nat
      /\ conn'[q.conn].generation \in Nat
  BY <1>1 DEF Typed, Req, ConnRow
<1>3. \/ conn'[q.conn].generation > conn[q.conn].generation
      \/ /\ conn'[q.conn].generation = conn[q.conn].generation
         /\ conn'[q.conn].key = conn[q.conn].key
  BY <1>1 DEF RowsMoveOn
<1> QED
  BY <1>1, <1>2, <1>3 DEF RequestKnows

\* A published snapshot is the old one or the new one, and not an earlier read.
LEMMA PublishStep ==
  ASSUME Typed, NEW p \in Key, NEW seen \in Seen, Publish(p, seen)
  PROVE  /\ snapshot' \in [Key -> Seen]
         /\ \A k \in Key : snapshot'[k].at >= snapshot[k].at
         /\ \A k \in Key : \/ snapshot'[k] = snapshot[k]
                           \/ k = p /\ snapshot'[k] = seen
<1> DEFINE old == snapshot[p]
<1>1. old \in Seen /\ old.at \in Nat /\ seen.at \in Nat
  BY DEF Typed, Seen
<1>2. PICK s \in {old, seen} :
        /\ ~Current(seen.at) \/ seen.at < old.at => s = old
        /\ Current(seen.at) /\ seen.at > old.at => s = seen
        /\ snapshot' = [snapshot EXCEPT ![p] = s]
  BY DEF Publish
<1>3. s = old \/ (s = seen /\ seen.at >= old.at)
  BY <1>1, <1>2
<1> QED
  BY <1>1, <1>2, <1>3 DEF Typed, Seen

\* A key that joins a pool belonged to no other one.
LEMMA PoolForKey ==
  ASSUME Typed, NEW c \in Conn, NEW k \in Key, ~LinkRefused(conn[c], k)
  PROVE  /\ PoolFor(conn[c], k) \in Key
         /\ alias[k] \in {None, PoolFor(conn[c], k)}
         /\ conn[c].pool \in {None, PoolFor(conn[c], k)}
BY ConnectionAssumption DEF LinkRefused, PoolFor, Typed, ConnRow

\* Steps that leave keys, pools and snapshots alone.
LEMMA QuietStep ==
  ASSUME ConnInv, Typed', RequestsKnow',
         alias' = alias, snapshot' = snapshot, refused \subseteq refused',
         \A c \in needed' : c \in needed \/ conn[c].key # None,
         \A c \in Conn :
           /\ conn'[c].key = conn[c].key /\ conn'[c].pool = conn[c].pool
           /\ conn'[c].seen = conn[c].seen
           /\ conn'[c].generation = conn[c].generation
           /\ \/ conn'[c].status = conn[c].status
              \/ /\ conn'[c].status \notin {"absent", "active"}
                 /\ conn'[c].status = "invalid" /\ conn[c].key # None
                      => conn[c].key \in refused
  PROVE  ConnInv' /\ Advances
<1>1. KeysPooled' /\ SnapshotOfPool'
  BY DEF ConnInv, KeysPooled, SnapshotOfPool
<1>2. StatusIsEarned'
  BY DEF ConnInv, StatusIsEarned, ActiveHasKey, InvalidWasRefused
<1>3. NoWorkWithoutKey'
  BY DEF ConnInv, NoWorkWithoutKey, Typed
<1>4. Advances
  BY DEF ConnInv, Typed, Seen, ConnRow, Advances
<1> QED
  BY <1>1, <1>2, <1>3, <1>4 DEF ConnInv

\* Steps of a request that change no row.
RequestStep(r) ==
  \/ ConnectProbe(r) \/ ConnectRead(r) \/ SyncPhones(r) \/ Die(r)

LEMMA RequestSteps ==
  ASSUME ConnInv, NEW r \in Request, RequestStep(r)
  PROVE  ConnInv' /\ Advances
<1>1. /\ UNCHANGED <<conn, alias, snapshot, needed, clock, refused>>
      /\ request[r].pc # "idle"
      /\ \/ request' = [request EXCEPT ![r].pc = "read", ![r].at = clock]
         \/ request' = [request EXCEPT ![r].pc = "save"]
         \/ request' = [request EXCEPT ![r] = Idle]
  BY DEF RequestStep, ConnectProbe, ConnectRead, SyncPhones, Die, Goto, Finish,
         AtStep, Others
<1>2. request' \in [Request -> Req]
  <2>1. request[r] \in Req /\ clock \in Nat /\ request \in [Request -> Req]
    BY DEF ConnInv, Typed
  <2>2. Idle \in Req
    BY DEF Idle, Req, Kind, Step
  <2>3. "read" \in Step /\ "save" \in Step /\ request[r].at \in Nat
    BY <2>1 DEF Step, Req
  <2>4. CASE request' = [request EXCEPT ![r].pc = "read", ![r].at = clock]
    BY <2>1, <2>3, <2>4 DEF Req
  <2>5. CASE request' = [request EXCEPT ![r].pc = "save"]
    BY <2>1, <2>3, <2>5 DEF Req
  <2> QED
    BY <1>1, <2>1, <2>2, <2>4, <2>5
<1>3. phones' \in [Conn -> Seen]
  <2>1. CASE SyncPhones(r)
    BY <2>1 DEF SyncPhones, ConnInv, Typed, Req, Seen
  <2>2. CASE ~SyncPhones(r)
    BY <2>2 DEF RequestStep, ConnectProbe, ConnectRead, Die, Others, ConnInv, Typed
  <2> QED
    BY <2>1, <2>2
<1>4. Typed'
  BY <1>1, <1>2, <1>3 DEF ConnInv, Typed
<1>5. RequestsKnow'
  <2>1. \A q \in Request : \/ request'[q].pc = "idle"
                           \/ SameRequest(request'[q], request[q])
                           \/ request'[q] = request[q]
    BY <1>1 DEF SameRequest, ConnInv, Typed, Req, Idle
  <2> QED
    BY <1>1, <1>4, <2>1, RequestsStay DEF RowsMoveOn, ConnInv
<1> QED
  BY <1>1, <1>4, <1>5, QuietStep DEF ConnInv

\* A request reads its row.
LEMMA LoadSteps ==
  ASSUME ConnInv, NEW r \in Request, NEW c \in Conn, NEW k \in Key,
         \/ ConnectLoad(r, c, k)
         \/ \E kind \in Kind \ {"connect"} : UseLoad(r, c, kind)
  PROVE  ConnInv' /\ Advances
<1>1. UNCHANGED <<conn, alias, snapshot, needed, phones, clock, refused>>
  BY DEF ConnectLoad, UseLoad, Others
<1>2. PICK kind \in Kind, pc \in Step, key \in Key, new \in BOOLEAN :
        /\ Load(r, kind, c, pc, key, new)
        /\ kind # "connect" => conn[c].key = key
        /\ pc = "link" => kind # "connect"
        /\ new => conn[c].status = "absent"
  <2>1. CASE ConnectLoad(r, c, k)
    <3>1. /\ "connect" \in Kind
          /\ (IF conn[c].status = "absent" THEN "insert" ELSE "probe") \in Step
          /\ (conn[c].status = "absent") \in BOOLEAN
      BY DEF Kind, Step
    <3> QED
      BY <2>1, <3>1 DEF ConnectLoad
  <2>2. ASSUME NEW kind \in Kind \ {"connect"}, UseLoad(r, c, kind)
        PROVE  \E pc \in Step, key \in Key, new \in BOOLEAN :
                 /\ Load(r, kind, c, pc, key, new)
                 /\ kind # "connect" => conn[c].key = key
                 /\ pc = "link" => kind # "connect"
                 /\ new => conn[c].status = "absent"
    <3>1. /\ (IF kind = "run" THEN "read" ELSE "link") \in Step
          /\ conn[c].key \in Key /\ FALSE \in BOOLEAN
      BY <2>2 DEF UseLoad, Step, ConnInv, Typed, ConnRow
    <3> QED
      BY <2>2, <3>1 DEF UseLoad
  <2> QED
    BY <2>1, <2>2
<1>3. /\ request' \in [Request -> Req]
      /\ \A q \in Request \ {r} : request'[q] = request[q]
      /\ request'[r].kind = kind /\ request'[r].conn = c /\ request'[r].key = key
      /\ request'[r].generation = conn[c].generation /\ request'[r].created = new
      /\ request'[r].pc = pc
  BY <1>2 DEF Load, ConnInv, Typed, Req, ConnRow
<1>4. Typed'
  BY <1>1, <1>3 DEF ConnInv, Typed
<1>5. RequestsKnow'
  <2> SUFFICES ASSUME NEW q \in Request PROVE RequestKnows(request[q])'
    BY DEF RequestsKnow
  <2>1. CASE q = r
    BY <1>1, <1>2, <1>3, <2>1 DEF RequestKnows, ConnInv, KeysPooled, Typed, ConnRow
  <2>2. CASE q # r
    BY <1>1, <1>3, <2>2 DEF RequestKnows, ConnInv, RequestsKnow
  <2> QED
    BY <2>1, <2>2
<1> QED
  BY <1>1, <1>4, <1>5, QuietStep DEF ConnInv

\* What a request that ends, or goes on at pc, leaves in the table of requests.
LEMMA GoesOn ==
  ASSUME Typed, NEW r \in Request, request[r].pc # "idle",
         \/ Finish(r)
         \/ \E pc \in Step \ {"link"} : Goto(r, pc)
         \/ \E pc \in Step \ {"link"} :
              request' = [request EXCEPT ![r].pc = pc, ![r].at = clock]
  PROVE  /\ request' \in [Request -> Req]
         /\ \A q \in Request : \/ request'[q].pc = "idle"
                               \/ SameRequest(request'[q], request[q])
                               \/ request'[q] = request[q]
<1>1. request[r] \in Req /\ clock \in Nat /\ request \in [Request -> Req]
  BY DEF Typed
<1>2. CASE Finish(r)
  <2>1. Idle \in Req /\ Idle.pc = "idle"
    BY DEF Idle, Req, Kind, Step
  <2> QED
    BY <1>1, <1>2, <2>1 DEF Finish
<1>3. ASSUME NEW row \in Req, request' = [request EXCEPT ![r] = row],
             SameRequest(row, request[r])
      PROVE  /\ request' \in [Request -> Req]
             /\ \A q \in Request : \/ request'[q].pc = "idle"
                                   \/ SameRequest(request'[q], request[q])
                                   \/ request'[q] = request[q]
  BY <1>1, <1>3
<1>4. ASSUME NEW pc \in Step \ {"link"}, Goto(r, pc)
      PROVE  \E row \in Req : /\ request' = [request EXCEPT ![r] = row]
                              /\ SameRequest(row, request[r])
  <2> DEFINE row == [request[r] EXCEPT !.pc = pc]
  <2>1. row \in Req /\ SameRequest(row, request[r])
    BY <1>1 DEF Req, SameRequest
  <2>2. request' = [request EXCEPT ![r] = row]
    BY <1>4 DEF Goto
  <2> QED
    BY <2>1, <2>2
<1>5. ASSUME NEW pc \in Step \ {"link"},
             request' = [request EXCEPT ![r].pc = pc, ![r].at = clock]
      PROVE  \E row \in Req : /\ request' = [request EXCEPT ![r] = row]
                              /\ SameRequest(row, request[r])
  <2> DEFINE row == [request[r] EXCEPT !.pc = pc, !.at = clock]
  <2>1. row \in Req /\ SameRequest(row, request[r])
    BY <1>1 DEF Req, SameRequest
  <2>2. request' = [request EXCEPT ![r] = row]
    BY <1>1, <1>5
  <2> QED
    BY <2>1, <2>2
<1> QED
  BY <1>2, <1>3, <1>4, <1>5

\* A status that a refused key, or an unavailable DuoPlus, leaves.
MarkedBy(r, status) ==
  /\ status \in {"invalid", "error"}
  /\ MarkIfGuarded(r, status)
  /\ status = "invalid" => request[r].key \in refused
  /\ request[r].kind = "connect" => request[r].created

LEMMA MarkStep ==
  ASSUME ConnInv, NEW r \in Request, request[r].pc # "idle",
         \/ UNCHANGED conn
         \/ \E status \in {"invalid", "error"} : MarkedBy(r, status)
  PROVE  /\ conn' \in [Conn -> ConnRow]
         /\ \A c \in Conn :
              /\ conn'[c].key = conn[c].key /\ conn'[c].pool = conn[c].pool
              /\ conn'[c].seen = conn[c].seen
              /\ conn'[c].generation = conn[c].generation
              /\ \/ conn'[c].status = conn[c].status
                 \/ /\ conn'[c].status \notin {"absent", "active"}
                    /\ conn'[c].status = "invalid" /\ conn[c].key # None
                         => conn[c].key \in refused
<1>1. CASE UNCHANGED conn
  BY <1>1 DEF ConnInv, Typed
<1>2. ASSUME NEW status \in {"invalid", "error"}, MarkedBy(r, status)
      PROVE  /\ conn' \in [Conn -> ConnRow]
             /\ \A c \in Conn :
                  /\ conn'[c].key = conn[c].key /\ conn'[c].pool = conn[c].pool
                  /\ conn'[c].seen = conn[c].seen
                  /\ conn'[c].generation = conn[c].generation
                  /\ \/ conn'[c].status = conn[c].status
                     \/ /\ conn'[c].status \notin {"absent", "active"}
                        /\ conn'[c].status = "invalid" /\ conn[c].key # None
                             => conn[c].key \in refused
  <2> DEFINE d == request[r].conn
  <2>1. /\ d \in Conn /\ conn[d] \in ConnRow /\ conn \in [Conn -> ConnRow]
        /\ status \in Status
    BY DEF ConnInv, RequestsKnow, RequestKnows, Typed, Status
  <2>2. CASE ~Guarded(r)
    BY <1>2, <2>1, <2>2 DEF MarkedBy, MarkIfGuarded
  <2>3. CASE Guarded(r)
    <3>1. conn[d].key # None => conn[d].key = request[r].key
      BY <1>2, <2>3 DEF Guarded, MarkedBy, ConnInv, RequestsKnow, RequestKnows
    <3>2. conn' = [conn EXCEPT ![d].status = status]
      BY <1>2, <2>3 DEF MarkedBy, MarkIfGuarded
    <3>3. conn' \in [Conn -> ConnRow]
      BY <2>1, <3>2 DEF ConnRow
    <3> QED
      BY <1>2, <2>1, <3>1, <3>2, <3>3 DEF MarkedBy, ConnRow
  <2> QED
    BY <2>2, <2>3
<1> QED
  BY <1>1, <1>2

\* Calls that are answered, and those that fail.
LEMMA AnswerSteps ==
  ASSUME ConnInv, NEW r \in Request, ConnectFail(r) \/ UseRead(r)
  PROVE  ConnInv' /\ Advances
<1>1. UNCHANGED <<alias, snapshot, needed, phones, clock, refused>>
  BY DEF ConnectFail, UseRead, Others
<1>2. request[r].pc # "idle" /\ (Finish(r) \/ \E pc \in Step \ {"link"} : Goto(r, pc))
  <2>1. "phones" \in Step /\ "save" \in Step
    BY DEF Step
  <2> QED
    BY <2>1 DEF ConnectFail, UseRead
<1>3. \/ UNCHANGED conn
      \/ \E status \in {"invalid", "error"} : MarkedBy(r, status)
  <2>1. \A answer \in Answers(request[r].key) :
          answer = "refused" => request[r].key \in refused
    BY DEF Answers
  <2>2. CASE ConnectFail(r)
    BY <2>1, <2>2 DEF ConnectFail, MarkedBy
  <2>3. CASE UseRead(r)
    BY <2>1, <2>3 DEF UseRead, MarkedBy
  <2> QED
    BY <2>2, <2>3
<1>4. Typed'
  BY <1>1, <1>2, <1>3, GoesOn, MarkStep DEF ConnInv, Typed
<1>5. RowsMoveOn
  BY <1>2, <1>3, MarkStep DEF RowsMoveOn
<1>6. RequestsKnow'
  BY <1>2, <1>4, <1>5, GoesOn, RequestsStay DEF ConnInv
<1> QED
  BY <1>1, <1>2, <1>3, <1>4, <1>6, MarkStep, QuietStep DEF ConnInv

\* The row is inserted without a key.
LEMMA InsertStep ==
  ASSUME ConnInv, NEW r \in Request, ConnectInsert(r)
  PROVE  ConnInv' /\ Advances
<1> DEFINE d == request[r].conn
<1>1. UNCHANGED <<alias, snapshot, needed, phones, clock, refused>>
  BY DEF ConnectInsert, Others
<1>2. /\ request[r].pc # "idle"
      /\ Finish(r) \/ \E pc \in Step \ {"link"} : Goto(r, pc)
  <2>1. "probe" \in Step \ {"link"}
    BY DEF Step
  <2> QED
    BY <2>1 DEF ConnectInsert, AtStep
<1>3. d \in Conn /\ conn \in [Conn -> ConnRow] /\ "pending" \in Status
  BY <1>2 DEF ConnInv, RequestsKnow, RequestKnows, Typed, Status
<1>4. conn' = conn \/ conn' = [conn EXCEPT ![d].status = "pending"]
  BY DEF ConnectInsert
<1>5. conn' \in [Conn -> ConnRow]
  BY <1>3, <1>4 DEF ConnRow
<1>6. \A c \in Conn :
        /\ conn'[c].key = conn[c].key /\ conn'[c].pool = conn[c].pool
        /\ conn'[c].seen = conn[c].seen
        /\ conn'[c].generation = conn[c].generation
        /\ conn'[c].status \in {conn[c].status, "pending"}
  BY <1>3, <1>4 DEF ConnRow
<1>7. Typed'
  BY <1>1, <1>2, <1>5, GoesOn DEF ConnInv, Typed
<1>8. RequestsKnow'
  BY <1>2, <1>6, <1>7, GoesOn, RequestsStay DEF ConnInv, RowsMoveOn
<1> QED
  BY <1>1, <1>6, <1>7, <1>8, QuietStep DEF ConnInv

\* Schedules are enabled and paused, keys are refused, time passes.
LEMMA OtherSteps ==
  ASSUME ConnInv,
         \/ \E c \in Conn : Need(c) \/ Release(c)
         \/ \E k \in Key : Revoke(k)
         \/ ConnTick
         \/ UNCHANGED connVars
  PROVE  ConnInv' /\ Advances
<1>1. /\ UNCHANGED <<conn, alias, snapshot, phones, request>>
      /\ refused \subseteq refused'
      /\ \A c \in needed' : c \in needed \/ conn[c].key # None
  BY DEF Need, Release, Revoke, ConnTick, connVars
<1>2. Typed'
  BY <1>1 DEF ConnInv, Typed, Need, Release, Revoke, ConnTick, connVars
<1>3. RequestsKnow'
  BY <1>1 DEF ConnInv, RequestsKnow, RequestKnows
<1> QED
  BY <1>1, <1>2, <1>3, QuietStep DEF ConnInv

-----------------------------------------------------------------------------
(* Changes of keys, pools and snapshots.                                   *)

LEMMA DisconnectStep ==
  ASSUME ConnInv, NEW c \in Conn, Disconnect(c)
  PROVE  ConnInv' /\ Advances
<1>1. /\ UNCHANGED <<alias, snapshot, request, needed, phones, clock, refused>>
      /\ c \notin needed
  BY DEF Disconnect, Others
<1>2. /\ conn' \in [Conn -> ConnRow]
      /\ \A d \in Conn \ {c} : conn'[d] = conn[d]
      /\ conn'[c].status = "disconnected" /\ conn'[c].key = None
      /\ conn'[c].generation > conn[c].generation
  <2>1. conn \in [Conn -> ConnRow] /\ "disconnected" \in Status
        /\ conn[c].generation \in Nat
    BY DEF ConnInv, Typed, Status, ConnRow
  <2> QED
    BY <2>1 DEF Disconnect, ConnRow
<1>3. Typed'
  BY <1>1, <1>2 DEF ConnInv, Typed
<1>4. RequestsKnow'
  BY <1>1, <1>2, <1>3, RequestsStay DEF ConnInv, RowsMoveOn
<1>5. KeysPooled' /\ SnapshotOfPool'
  BY <1>1, <1>2 DEF ConnInv, KeysPooled, SnapshotOfPool
<1>6. StatusIsEarned' /\ NoWorkWithoutKey'
  BY <1>1, <1>2 DEF ConnInv, StatusIsEarned, ActiveHasKey, InvalidWasRefused,
                    NoWorkWithoutKey, Typed
<1>7. Advances
  BY <1>1, <1>2 DEF ConnInv, Typed, Seen, ConnRow, Advances
<1> QED
  BY <1>3, <1>4, <1>5, <1>6, <1>7 DEF ConnInv

\* A key that joins a pool leaves none.
LEMMA AliasStep ==
  ASSUME ConnInv, NEW c \in Conn, NEW k \in Key, ~LinkRefused(conn[c], k),
         alias' = [alias EXCEPT ![k] = PoolFor(conn[c], k)]
  PROVE  /\ alias' \in [Key -> Key \cup {None}]
         /\ alias'[k] = PoolFor(conn[c], k)
         /\ \A j \in Key : alias[j] # None => alias'[j] = alias[j]
<1>1. /\ PoolFor(conn[c], k) \in Key
      /\ alias[k] \in {None, PoolFor(conn[c], k)}
  BY PoolForKey DEF ConnInv
<1> QED
  BY <1>1 DEF ConnInv, Typed

LEMMA PublishInPool ==
  ASSUME ConnInv, NEW p \in Key, NEW seen \in Seen,
         alias' \in [Key -> Key \cup {None}],
         \A j \in Key : alias[j] # None => alias'[j] = alias[j],
         seen.key # None => alias'[seen.key] = p,
         UNCHANGED snapshot \/ Publish(p, seen)
  PROVE  /\ snapshot' \in [Key -> Seen]
         /\ \A j \in Key : snapshot'[j].at >= snapshot[j].at
         /\ SnapshotOfPool'
<1>1. /\ snapshot' \in [Key -> Seen]
      /\ \A j \in Key : snapshot'[j].at >= snapshot[j].at
      /\ \A j \in Key : \/ snapshot'[j] = snapshot[j]
                        \/ j = p /\ snapshot'[j] = seen
  <2>1. CASE UNCHANGED snapshot
    BY <2>1 DEF ConnInv, Typed, Seen
  <2>2. CASE Publish(p, seen)
    BY <2>2, PublishStep DEF ConnInv
  <2> QED
    BY <2>1, <2>2
<1>2. \A j \in Key : snapshot[j].key # None
                       => snapshot[j].key \in Key /\ alias[snapshot[j].key] = j
  BY DEF ConnInv, SnapshotOfPool, Typed, Seen
<1>3. None \notin Key
  BY ConnectionAssumption
<1>4. SnapshotOfPool'
  BY <1>1, <1>2, <1>3 DEF SnapshotOfPool
<1> QED
  BY <1>1, <1>4

LEMMA SaveStep ==
  ASSUME ConnInv, NEW r \in Request, ConnectSave(r)
  PROVE  ConnInv' /\ Advances
<1> DEFINE c == request[r].conn
           k == request[r].key
           seen == [at |-> request[r].at, key |-> k]
           p == PoolFor(conn[c], k)
<1>1. /\ UNCHANGED <<needed, phones, clock, refused>>
      /\ request[r].pc # "idle" /\ Finish(r)
  BY DEF ConnectSave, AtStep, Others
<1>2. c \in Conn /\ k \in Key /\ seen \in Seen
  BY <1>1 DEF ConnInv, RequestsKnow, RequestKnows, Typed, Req, Seen
<1>3. /\ request' \in [Request -> Req]
      /\ \A q \in Request : \/ request'[q].pc = "idle"
                            \/ SameRequest(request'[q], request[q])
                            \/ request'[q] = request[q]
  BY <1>1, GoesOn DEF ConnInv
<1>4. CASE UNCHANGED <<conn, alias, snapshot>>
  <2>1. Typed'
    BY <1>1, <1>3, <1>4 DEF ConnInv, Typed
  <2>2. RequestsKnow'
    BY <1>3, <1>4, <2>1, RequestsStay DEF ConnInv, RowsMoveOn
  <2> QED
    BY <1>1, <1>4, <2>1, <2>2, QuietStep DEF ConnInv
<1>5. CASE SaveVerified(r)
  <2>1. /\ ~LinkRefused(conn[c], k)
        /\ conn' = [conn EXCEPT ![c] = [status |-> "active", key |-> k,
                generation |-> conn[c].generation + 1, pool |-> p, seen |-> seen]]
        /\ alias' = [alias EXCEPT ![k] = p]
        /\ Publish(p, seen)
    BY <1>5 DEF SaveVerified
  <2>2. p \in Key
    BY <1>2, <2>1, PoolForKey DEF ConnInv
  <2>3. /\ alias' \in [Key -> Key \cup {None}] /\ alias'[k] = p
        /\ \A j \in Key : alias[j] # None => alias'[j] = alias[j]
    BY <1>2, <2>1, AliasStep
  <2>4. /\ snapshot' \in [Key -> Seen] /\ SnapshotOfPool'
        /\ \A j \in Key : snapshot'[j].at >= snapshot[j].at
    BY <1>2, <2>1, <2>2, <2>3, PublishInPool
  <2>5. /\ conn' \in [Conn -> ConnRow]
        /\ \A d \in Conn \ {c} : conn'[d] = conn[d]
        /\ conn'[c].status = "active" /\ conn'[c].key = k
        /\ conn'[c].generation > conn[c].generation /\ conn'[c].pool = p
    <3>1. conn \in [Conn -> ConnRow] /\ conn[c].generation \in Nat
          /\ "active" \in Status
      BY <1>2 DEF ConnInv, Typed, ConnRow, Status
    <3> QED
      BY <1>2, <2>1, <2>2, <3>1 DEF ConnRow
  <2>6. Typed'
    BY <1>1, <1>3, <2>3, <2>4, <2>5 DEF ConnInv, Typed
  <2>7. RequestsKnow'
    BY <1>3, <2>5, <2>6, RequestsStay DEF ConnInv, RowsMoveOn
  <2>8. KeysPooled'
    <3> SUFFICES ASSUME NEW d \in Conn
                 PROVE  /\ conn'[d].status = "absent" => conn'[d].key = None
                        /\ conn'[d].key # None /\ conn'[d].pool # None
                             => alias'[conn'[d].key] = conn'[d].pool
                        /\ conn'[d].key # None /\ conn'[d].pool = None
                             => /\ conn'[d].generation = 0
                                /\ conn'[d].seen.key \in {None, conn'[d].key}
      BY DEF KeysPooled
    <3>1. CASE d = c
      BY <2>2, <2>3, <2>5, <3>1, ConnectionAssumption
    <3>2. CASE d # c
      BY <2>3, <2>5, <3>2 DEF ConnInv, KeysPooled, Typed, ConnRow
    <3> QED
      BY <3>1, <3>2
  <2>9. StatusIsEarned' /\ NoWorkWithoutKey'
    BY <1>1, <1>2, <2>5, ConnectionAssumption
       DEF ConnInv, StatusIsEarned, ActiveHasKey, InvalidWasRefused,
           NoWorkWithoutKey, Typed
  <2>10. Advances
    BY <2>4, <2>5 DEF ConnInv, Typed, Seen, ConnRow, Advances
  <2> QED
    BY <2>4, <2>6, <2>7, <2>8, <2>9, <2>10 DEF ConnInv
<1> QED
  BY <1>4, <1>5 DEF ConnectSave

LEMMA LinkStep ==
  ASSUME ConnInv, NEW r \in Request, UseLink(r)
  PROVE  ConnInv' /\ Advances
<1> DEFINE c == request[r].conn
           k == request[r].key
           seen == conn[c].seen
           p == PoolFor(conn[c], k)
<1>1. /\ UNCHANGED <<needed, phones, clock, refused>>
      /\ request[r].pc = "link"
  BY DEF UseLink, Others
<1>2. /\ c \in Conn /\ k \in Key /\ seen \in Seen
      /\ conn \in [Conn -> ConnRow] /\ conn[c] \in ConnRow
  BY <1>1 DEF ConnInv, RequestsKnow, RequestKnows, Typed, ConnRow
<1>3. /\ request' \in [Request -> Req]
      /\ \A q \in Request : \/ request'[q].pc = "idle"
                            \/ SameRequest(request'[q], request[q])
                            \/ request'[q] = request[q]
  <2>1. \/ Finish(r)
        \/ request' = [request EXCEPT ![r].pc = "read",
                         ![r].at = IF request[r].kind = "refresh" THEN @ ELSE clock]
    BY DEF UseLink
  <2>2. request[r] \in Req /\ clock \in Nat /\ "read" \in Step \ {"link"}
        /\ request \in [Request -> Req]
    BY DEF ConnInv, Typed, Step
  <2>3. CASE Finish(r)
    BY <1>1, <2>3, GoesOn DEF ConnInv
  <2>4. CASE request[r].kind = "refresh" /\ ~Finish(r)
    <3>1. request' = [request EXCEPT ![r].pc = "read"]
      <4>1. request' = [request EXCEPT ![r].pc = "read", ![r].at = request[r].at]
        BY <2>1, <2>2, <2>4
      <4> QED
        BY <2>2, <4>1 DEF Req
    <3> QED
      BY <1>1, <2>2, <3>1, GoesOn DEF Goto, ConnInv
  <2>5. CASE request[r].kind # "refresh" /\ ~Finish(r)
    <3>1. request' = [request EXCEPT ![r].pc = "read", ![r].at = clock]
      BY <2>1, <2>2, <2>5
    <3> QED
      BY <1>1, <2>2, <3>1, GoesOn DEF ConnInv
  <2> QED
    BY <2>3, <2>4, <2>5
<1>4. CASE UNCHANGED <<conn, alias, snapshot>>
  <2>1. Typed'
    BY <1>1, <1>3, <1>4 DEF ConnInv, Typed
  <2>2. RequestsKnow'
    BY <1>3, <1>4, <2>1, RequestsStay DEF ConnInv, RowsMoveOn
  <2> QED
    BY <1>1, <1>4, <2>1, <2>2, QuietStep DEF ConnInv
<1>5. CASE Link(c, k)
  <2>1. /\ conn[c].status = "active" /\ ~LinkRefused(conn[c], k)
        /\ alias' = [alias EXCEPT ![k] = p]
        /\ conn' = [conn EXCEPT ![c].pool = p]
        /\ conn[c].pool # None => UNCHANGED snapshot
        /\ UNCHANGED snapshot \/ Publish(p, seen)
    BY <1>5 DEF Link
  <2>2. p \in Key /\ conn[c].pool \in {None, p}
    BY <1>2, <2>1, PoolForKey DEF ConnInv
  <2>3. /\ alias' \in [Key -> Key \cup {None}] /\ alias'[k] = p
        /\ \A j \in Key : alias[j] # None => alias'[j] = alias[j]
    BY <1>2, <2>1, AliasStep
  \* An active connection without a pool has the key the request read.
  <2>4. conn[c].key \in Key
    BY <1>2, <2>1 DEF ConnInv, StatusIsEarned, ActiveHasKey, ConnRow
  <2>5. conn[c].pool = None => conn[c].key = k /\ seen.key \in {None, k}
    <3> SUFFICES ASSUME conn[c].pool = None
                 PROVE  conn[c].key = k /\ seen.key \in {None, k}
      OBVIOUS
    <3>1. conn[c].generation = 0 /\ seen.key \in {None, conn[c].key}
      BY <1>2, <2>4, ConnectionAssumption DEF ConnInv, KeysPooled
    <3>2. request[r].generation <= conn[c].generation
          /\ request[r].generation \in Nat /\ request[r].kind # "connect"
      BY <1>1 DEF ConnInv, RequestsKnow, RequestKnows, Typed, Req
    <3>3. request[r].generation = conn[c].generation
      BY <3>1, <3>2
    <3>4. conn[c].key = k
      BY <1>1, <3>2, <3>3 DEF ConnInv, RequestsKnow, RequestKnows
    <3> QED
      BY <3>1, <3>4
  <2>6. alias'[conn[c].key] = p
    <3>1. CASE conn[c].pool = None
      BY <2>3, <2>5, <3>1
    <3>2. CASE conn[c].pool # None
      BY <1>2, <2>2, <2>3, <2>4, <3>2, ConnectionAssumption DEF ConnInv, KeysPooled
    <3> QED
      BY <3>1, <3>2
  <2>7. /\ snapshot' \in [Key -> Seen] /\ SnapshotOfPool'
        /\ \A j \in Key : snapshot'[j].at >= snapshot[j].at
    <3>1. CASE conn[c].pool = None
      BY <1>2, <2>1, <2>2, <2>3, <2>5, <3>1, PublishInPool
    <3>2. CASE conn[c].pool # None
      <4>1. NoSnapshot \in Seen /\ NoSnapshot.key = None
        BY DEF NoSnapshot, Seen
      <4> QED
        BY <2>1, <2>2, <2>3, <3>2, <4>1, PublishInPool
    <3> QED
      BY <3>1, <3>2
  <2>8. /\ conn' \in [Conn -> ConnRow]
        /\ \A d \in Conn \ {c} : conn'[d] = conn[d]
        /\ conn'[c].status = conn[c].status /\ conn'[c].key = conn[c].key
        /\ conn'[c].generation = conn[c].generation /\ conn'[c].pool = p
        /\ conn'[c].seen = conn[c].seen
    BY <1>2, <2>1, <2>2 DEF ConnRow
  <2>9. Typed'
    BY <1>1, <1>3, <2>3, <2>7, <2>8 DEF ConnInv, Typed
  <2>10. RequestsKnow'
    BY <1>3, <2>8, <2>9, RequestsStay DEF ConnInv, RowsMoveOn
  <2>11. KeysPooled'
    <3> SUFFICES ASSUME NEW d \in Conn
                 PROVE  /\ conn'[d].status = "absent" => conn'[d].key = None
                        /\ conn'[d].key # None /\ conn'[d].pool # None
                             => alias'[conn'[d].key] = conn'[d].pool
                        /\ conn'[d].key # None /\ conn'[d].pool = None
                             => /\ conn'[d].generation = 0
                                /\ conn'[d].seen.key \in {None, conn'[d].key}
      BY DEF KeysPooled
    <3>1. CASE d = c
      BY <2>1, <2>2, <2>6, <2>8, <3>1, ConnectionAssumption
    <3>2. CASE d # c
      BY <2>3, <2>8, <3>2 DEF ConnInv, KeysPooled, Typed, ConnRow
    <3> QED
      BY <3>1, <3>2
  <2>12. StatusIsEarned' /\ NoWorkWithoutKey'
    BY <1>1, <2>8
       DEF ConnInv, StatusIsEarned, ActiveHasKey, InvalidWasRefused,
           NoWorkWithoutKey, Typed
  <2>13. Advances
    BY <2>7, <2>8 DEF ConnInv, Typed, Seen, ConnRow, Advances
  <2> QED
    BY <2>7, <2>9, <2>10, <2>11, <2>12, <2>13 DEF ConnInv
<1> QED
  BY <1>4, <1>5 DEF UseLink

\* A read that is saved while its key is still the connection's.
LEMMA SnapshotStep ==
  ASSUME ConnInv, NEW r \in Request, RefreshSave(r) \/ SyncSave(r)
  PROVE  ConnInv' /\ Advances
<1> DEFINE c == request[r].conn
           k == request[r].key
           seen == [at |-> request[r].at, key |-> k]
<1>1. /\ UNCHANGED <<alias, needed, phones, clock, refused>>
      /\ request[r].pc # "idle" /\ request[r].kind # "connect" /\ Finish(r)
  BY DEF RefreshSave, SyncSave, AtStep, Others
<1>2. /\ c \in Conn /\ k \in Key /\ seen \in Seen
      /\ conn \in [Conn -> ConnRow] /\ conn[c] \in ConnRow
  BY <1>1 DEF ConnInv, RequestsKnow, RequestKnows, Typed, Req, Seen
<1>3. /\ request' \in [Request -> Req]
      /\ \A q \in Request : \/ request'[q].pc = "idle"
                            \/ SameRequest(request'[q], request[q])
                            \/ request'[q] = request[q]
  BY <1>1, GoesOn DEF ConnInv
<1>4. CASE UNCHANGED <<conn, snapshot>>
  <2>1. Typed'
    BY <1>1, <1>3, <1>4 DEF ConnInv, Typed
  <2>2. RequestsKnow'
    BY <1>3, <1>4, <2>1, RequestsStay DEF ConnInv, RowsMoveOn
  <2> QED
    BY <1>1, <1>4, <2>1, <2>2, QuietStep DEF ConnInv
<1>5. ASSUME NEW status \in {conn[c].status, "active"},
             Guarded(r), conn[c].seen.at <= request[r].at,
             conn' = [conn EXCEPT ![c].seen = seen, ![c].status = status],
             IF conn[c].pool = None THEN UNCHANGED snapshot
                                    ELSE Publish(conn[c].pool, seen)
      PROVE  ConnInv' /\ Advances
  <2>1. conn[c].key = k
    BY <1>1, <1>5 DEF Guarded, ConnInv, RequestsKnow, RequestKnows
  <2>2. conn[c].status # "absent"
    BY <1>2, <2>1, ConnectionAssumption DEF ConnInv, KeysPooled
  <2>3. /\ conn' \in [Conn -> ConnRow]
        /\ \A d \in Conn \ {c} : conn'[d] = conn[d]
        /\ conn'[c].status = status /\ conn'[c].key = k
        /\ conn'[c].generation = conn[c].generation
        /\ conn'[c].pool = conn[c].pool /\ conn'[c].seen = seen
    <3>1. status \in Status
      BY <1>2 DEF ConnRow, Status
    <3> DEFINE row == [conn[c] EXCEPT !.seen = seen, !.status = status]
    <3>2. conn' = [conn EXCEPT ![c] = row]
      BY <1>2, <1>5
    <3>3. row \in ConnRow
      BY <1>2, <3>1 DEF ConnRow
    <3> QED
      BY <1>2, <2>1, <3>2, <3>3 DEF ConnRow
  <2>4. /\ snapshot' \in [Key -> Seen] /\ SnapshotOfPool'
        /\ \A j \in Key : snapshot'[j].at >= snapshot[j].at
    <3>1. CASE conn[c].pool = None
      <4>1. UNCHANGED snapshot
        BY <1>5, <3>1
      <4> QED
        BY <1>1, <4>1 DEF ConnInv, Typed, Seen, SnapshotOfPool
    <3>2. CASE conn[c].pool # None
      <4>1. Publish(conn[c].pool, seen) /\ conn[c].pool \in Key
        BY <1>2, <1>5, <3>2 DEF ConnRow
      <4>2. /\ alias' \in [Key -> Key \cup {None}]
            /\ \A j \in Key : alias[j] # None => alias'[j] = alias[j]
        BY <1>1 DEF ConnInv, Typed
      <4>3. seen.key # None => alias'[seen.key] = conn[c].pool
        BY <1>1, <1>2, <2>1, <3>2, ConnectionAssumption DEF ConnInv, KeysPooled
      <4> HIDE DEF c, seen
      <4> QED
        BY <1>2, <4>1, <4>2, <4>3, PublishInPool
    <3> QED
      BY <3>1, <3>2
  <2>5. Typed'
    BY <1>1, <1>3, <2>3, <2>4 DEF ConnInv, Typed
  <2>6. RequestsKnow'
    BY <1>3, <2>1, <2>3, <2>5, RequestsStay DEF ConnInv, RowsMoveOn
  <2>7. KeysPooled'
    BY <1>1, <2>1, <2>2, <2>3 DEF ConnInv, KeysPooled
  <2>8. StatusIsEarned' /\ NoWorkWithoutKey'
    BY <1>1, <1>2, <2>1, <2>3, ConnectionAssumption
       DEF ConnInv, StatusIsEarned, ActiveHasKey, InvalidWasRefused,
           NoWorkWithoutKey, Typed
  <2>9. Advances
    BY <1>5, <2>3, <2>4 DEF ConnInv, Typed, Seen, ConnRow, Advances
  <2> QED
    BY <2>4, <2>5, <2>6, <2>7, <2>8, <2>9 DEF ConnInv
<1> QED
  <2>1. PICK status \in {conn[c].status, "active"} :
          \/ UNCHANGED <<conn, snapshot>>
          \/ SaveSnapshot(r, status)
    BY DEF RefreshSave, SyncSave, Row
  <2> QED
    BY <1>4, <1>5, <2>1 DEF SaveSnapshot

-----------------------------------------------------------------------------
(* The theorems.                                                           *)

LEMMA InitInv == ConnInit => ConnInv
<1> SUFFICES ASSUME ConnInit PROVE ConnInv
  OBVIOUS
<1>1. \A c \in Conn : conn[c] = Absent \/ \E k \in Key : conn[c] \in Unpooled(k)
  BY DEF ConnInit
<1>2. NoSnapshot \in Seen /\ NoSnapshot.key = None
  BY DEF NoSnapshot, Seen
<1>3. /\ Absent \in ConnRow /\ Absent.key = None /\ Absent.status = "absent"
  BY <1>2 DEF Absent, ConnRow, Status
<1>4. ASSUME NEW k \in Key, NEW row \in Unpooled(k)
      PROVE  /\ row \in ConnRow /\ row.status = "active" /\ row.key = k
             /\ row.pool = None /\ row.generation = 0 /\ row.seen.key \in {None, k}
  <2>1. PICK seen \in {NoSnapshot, [at |-> 1, key |-> k]} :
          row = [Absent EXCEPT !.status = "active", !.key = k, !.seen = seen]
    BY DEF Unpooled
  <2>2. seen \in Seen /\ seen.key \in {None, k}
    BY <1>2, <2>1 DEF Seen
  <2> QED
    BY <2>1, <2>2 DEF Absent, ConnRow, Status
<1>5. \A c \in Conn :
        /\ conn[c] \in ConnRow
        /\ \/ conn[c].status = "absent" /\ conn[c].key = None
           \/ /\ conn[c].status = "active" /\ conn[c].key \in Key
              /\ conn[c].pool = None /\ conn[c].generation = 0
              /\ conn[c].seen.key \in {None, conn[c].key}
  BY <1>1, <1>3, <1>4
<1>6. Idle \in Req /\ Idle.pc = "idle"
  BY DEF Idle, Req, Kind, Step
<1>7. Typed
  BY <1>2, <1>5, <1>6 DEF ConnInit, Typed
<1>8. RequestsKnow
  BY <1>6 DEF ConnInit, RequestsKnow, RequestKnows
<1>9. KeysPooled /\ StatusIsEarned
  BY <1>5, ConnectionAssumption
     DEF KeysPooled, StatusIsEarned, ActiveHasKey, InvalidWasRefused
<1>10. SnapshotOfPool /\ NoWorkWithoutKey
  BY <1>2 DEF ConnInit, SnapshotOfPool, NoWorkWithoutKey
<1> QED
  BY <1>7, <1>8, <1>9, <1>10 DEF ConnInv

LEMMA StepInv == ConnInv /\ [ConnNext]_connVars => ConnInv' /\ Advances
<1> SUFFICES ASSUME ConnInv, [ConnNext]_connVars PROVE ConnInv' /\ Advances
  OBVIOUS
<1>1. CASE UNCHANGED connVars
  BY <1>1, OtherSteps
<1>2. ASSUME NEW r \in Request, NEW c \in Conn, NEW k \in Key, ConnectLoad(r, c, k)
      PROVE  ConnInv' /\ Advances
  BY <1>2, LoadSteps
<1>3. ASSUME NEW r \in Request, NEW c \in Conn,
             NEW kind \in Kind \ {"connect"}, UseLoad(r, c, kind)
      PROVE  ConnInv' /\ Advances
  <2>1. conn[c].key \in Key
    BY <1>3 DEF UseLoad, ConnInv, Typed, ConnRow
  <2> QED
    BY <1>3, <2>1, LoadSteps
<1>4. ASSUME NEW r \in Request,
             \/ ConnectInsert(r) \/ ConnectProbe(r) \/ ConnectRead(r)
             \/ ConnectFail(r) \/ ConnectSave(r)
             \/ UseLink(r) \/ UseRead(r) \/ RefreshSave(r)
             \/ SyncPhones(r) \/ SyncSave(r) \/ Die(r)
      PROVE  ConnInv' /\ Advances
  BY <1>4, InsertStep, RequestSteps, AnswerSteps, SaveStep, LinkStep,
     SnapshotStep DEF RequestStep
<1>5. ASSUME NEW c \in Conn, Disconnect(c) \/ Need(c) \/ Release(c)
      PROVE  ConnInv' /\ Advances
  BY <1>5, DisconnectStep, OtherSteps
<1>6. ASSUME NEW k \in Key, Revoke(k) PROVE ConnInv' /\ Advances
  BY <1>6, OtherSteps
<1>7. CASE ConnTick
  BY <1>7, OtherSteps
<1> QED
  BY <1>1, <1>2, <1>3, <1>4, <1>5, <1>6, <1>7 DEF ConnNext

\* What a step needs of the state before it holds in every reachable one.
LEMMA AlwaysInv == ConnSpec => []ConnInv
<1> QED
  BY InitInv, StepInv, PTL DEF ConnSpec

\* No late write revives a connection without a key, and no refusal of a
\* replaced key shuts out the new one: MarkIfGuarded and SaveSnapshot compare
\* the generation they read.
THEOREM StatusesAreEarned == ConnSpec => []StatusIsEarned
<1>1. ConnInv => StatusIsEarned
  BY DEF ConnInv
<1> QED
  BY <1>1, AlwaysInv, PTL

\* Workspaces with one key count against one pool, and a pool admits by what
\* was read with one of its keys, in whatever order keys were saved, replaced,
\* removed and linked late.
THEOREM PoolsStayTogether == ConnSpec => []PoolsAgree
<1>1. ConnInv => PoolsAgree
  BY DEF ConnInv, KeysPooled, PoolsAgree, SameKeySamePool
<1> QED
  BY <1>1, AlwaysInv, PTL

\* The check of DELETE holds: what depends on a key finds one.
THEOREM WorkHasAKey == ConnSpec => []NoWorkWithoutKey
<1>1. ConnInv => NoWorkWithoutKey
  BY DEF ConnInv
<1> QED
  BY <1>1, AlwaysInv, PTL

\* However late a read of DuoPlus ends, neither the pool nor, under one key,
\* the connection goes back to it.
THEOREM SnapshotsAdvance == ConnSpec => SnapshotNeverRegresses
<1>1. ConnInv /\ [ConnNext]_connVars
        => [/\ \A p \in Key : snapshot'[p].at >= snapshot[p].at
            /\ \A c \in Conn : conn'[c].generation = conn[c].generation
                 => conn'[c].seen.at >= conn[c].seen.at]_connVars
  BY StepInv DEF Advances
<1> QED
  BY <1>1, AlwaysInv, PTL DEF ConnSpec, SnapshotNeverRegresses

-----------------------------------------------------------------------------
(* Connections: the bounds of an instance.                                 *)

LEMMA LeastNumber ==
  ASSUME NEW T \in SUBSET Nat, T # {}
  PROVE  \E n \in T : \A m \in T : n <= m
<1> DEFINE R == OpToRel(<, Nat)
<1>1. \E n \in T : \A m \in T : ~ (<<m, n>> \in R)
  <2> HIDE DEF R
  <2>1. IsWellFoundedOn(R, Nat)
    BY NatLessThanWellFounded DEF R
  <2> QED
    BY <2>1, WFMin
<1>2. \A m, n \in Nat : <<m, n>> \in R <=> m < n
  BY DEF OpToRel
<1> HIDE DEF R
<1>3. PICK n \in T : \A m \in T : ~ (<<m, n>> \in R)
  BY <1>1
<1>4. \A m \in T : ~(m < n) /\ m \in Nat /\ n \in Nat
  BY <1>2, <1>3
<1> QED
  BY <1>4

\* The changes of the keys of some connections, as pairs.
ChangesOf(s) == UNION {{c} \X (1 .. conn[c].generation) : c \in s}

LEMMA ChangesFinite ==
  ASSUME conn \in [Conn -> ConnRow], NEW s \in SUBSET Conn
  PROVE  IsFiniteSet(ChangesOf(s))
<1> DEFINE g == [c \in s |-> {c} \X (1 .. conn[c].generation)]
           T == {{c} \X (1 .. conn[c].generation) : c \in s}
<1>1. IsFiniteSet(s)
  BY ConnectionAssumption, FS_Subset
<1>2. g \in [s -> T] /\ \A t \in T : \E c \in s : g[c] = t
  OBVIOUS
<1>3. IsFiniteSet(T)
  <2>1. g \in Surjection(s, T)
    BY <1>2 DEF Surjection
  <2> HIDE DEF g, T
  <2> QED
    BY <1>1, <2>1, FS_Surjection
<1>4. ASSUME NEW c \in s PROVE IsFiniteSet({c} \X (1 .. conn[c].generation))
  <2>1. conn[c].generation \in Nat
    BY DEF ConnRow
  <2>2. IsFiniteSet({c})
    BY FS_Singleton
  <2>3. IsFiniteSet(1 .. conn[c].generation)
    BY <2>1, FS_Interval
  <2> QED
    BY <2>2, <2>3, FS_Product
<1> QED
  BY <1>3, <1>4, FS_UNION DEF ChangesOf

\* A connection adds its changes to those of others.
LEMMA ChangesAdd ==
  ASSUME conn \in [Conn -> ConnRow], NEW s \in SUBSET Conn, NEW c \in s
  PROVE  Cardinality(ChangesOf(s)) = conn[c].generation + Cardinality(ChangesOf(s \ {c}))
<1> DEFINE own == {c} \X (1 .. conn[c].generation)
           rest == ChangesOf(s \ {c})
<1>1. conn[c].generation \in Nat
  BY DEF ConnRow
<1>2. IsFiniteSet({c}) /\ Cardinality({c}) = 1
  BY FS_Singleton
<1>3. /\ IsFiniteSet(1 .. conn[c].generation)
      /\ Cardinality(1 .. conn[c].generation) = conn[c].generation
  BY <1>1, FS_Interval
<1>4. IsFiniteSet(own) /\ Cardinality(own) = 1 * conn[c].generation
  BY <1>2, <1>3, FS_Product
<1>5. IsFiniteSet(rest) /\ Cardinality(rest) \in Nat
  BY ChangesFinite, FS_CardinalityType
<1>6. ChangesOf(s) = own \cup rest /\ own \cap rest = {}
  BY DEF ChangesOf
<1> HIDE DEF own, rest
<1>7. Cardinality(own \cup rest) = Cardinality(own) + Cardinality(rest) - Cardinality({})
  BY <1>4, <1>5, <1>6, FS_Union
<1> QED
  BY <1>1, <1>4, <1>5, <1>6, <1>7, FS_EmptySet DEF rest

\* MayChange sums up the changes of all connections.
LEMMA ChangesSummed ==
  ASSUME conn \in [Conn -> ConnRow]
  PROVE  MapThenSumSet(LAMBDA c : conn[c].generation, Conn) = Cardinality(ChangesOf(Conn))
<1> DEFINE Rec(g) == [s \in SUBSET Conn |->
                 IF s = {} THEN 0
                 ELSE LET x == CHOOSE x \in s : TRUE IN conn[x].generation + g[s \ {x}]]
           it == CHOOSE g : g = Rec(g)
           G == [s \in SUBSET Conn |-> Cardinality(ChangesOf(s))]
<1>1. MapThenSumSet(LAMBDA c : conn[c].generation, Conn) = it[Conn]
  BY DEF MapThenSumSet, MapThenFoldSet
<1>2. Cardinality(ChangesOf({})) = 0
  <2>1. ChangesOf({}) = {}
    BY DEF ChangesOf
  <2> QED
    BY <2>1, FS_EmptySet
<1>3. G = Rec(G)
  <2>1. ASSUME NEW s \in SUBSET Conn
        PROVE  G[s] = IF s = {} THEN 0
                      ELSE LET x == CHOOSE x \in s : TRUE IN conn[x].generation + G[s \ {x}]
    <3>1. CASE s = {}
      BY <1>2, <3>1
    <3>2. CASE s # {}
      <4> DEFINE y == CHOOSE x \in s : TRUE
      <4>1. y \in s
        BY <3>2
      <4> HIDE DEF y
      <4>2. G[s] = conn[y].generation + G[s \ {y}]
        BY <4>1, ChangesAdd
      <4> QED
        BY <3>2, <4>2 DEF y
    <3> QED
      BY <3>1, <3>2
  <2> HIDE DEF G
  <2>2. G = [s \in SUBSET Conn |-> G[s]]
    BY DEF G
  <2> QED
    BY <2>1, <2>2
<1> HIDE DEF G
<1>4. it = Rec(it)
  <2> HIDE DEF Rec
  <2> QED
    BY <1>3
<1> HIDE DEF it
<1>5. ASSUME NEW s \in SUBSET Conn
      PROVE  it[s] = IF s = {} THEN 0
                     ELSE LET x == CHOOSE x \in s : TRUE IN conn[x].generation + it[s \ {x}]
  <2> DEFINE Body(h, t) == IF t = {} THEN 0
                     ELSE LET x == CHOOSE x \in t : TRUE IN conn[x].generation + h[t \ {x}]
  <2>1. it = [t \in SUBSET Conn |-> Body(it, t)]
    BY <1>4, Zenon
  <2> HIDE DEF Body
  <2>2. it[s] = Body(it, s)
    BY <2>1
  <2> QED
    BY <2>2 DEF Body
<1> HIDE DEF Rec
<1> DEFINE Bad == {n \in Nat : \E s \in SUBSET Conn :
                     Cardinality(s) = n /\ it[s] # Cardinality(ChangesOf(s))}
<1>6. Bad = {}
  <2>1. SUFFICES ASSUME Bad # {} PROVE FALSE
    OBVIOUS
  <2>2. PICK n \in Bad : \A m \in Bad : n <= m
    BY <2>1, LeastNumber
  <2>3. PICK s \in SUBSET Conn : Cardinality(s) = n /\ it[s] # Cardinality(ChangesOf(s))
    OBVIOUS
  <2>4. s # {}
    BY <1>2, <1>5, <2>3
  <2> DEFINE y == CHOOSE x \in s : TRUE
  <2>5. y \in s /\ it[s] = conn[y].generation + it[s \ {y}]
    BY <1>5, <2>4
  <2> HIDE DEF y
  <2>6. IsFiniteSet(s)
    BY ConnectionAssumption, FS_Subset
  <2>7. Cardinality(s \ {y}) = n - 1 /\ n - 1 \in Nat /\ s \ {y} \in SUBSET Conn
    <3>1. IsFiniteSet(s \ {y}) /\ Cardinality(s \ {y}) = Cardinality(s) - 1
      BY <2>5, <2>6, FS_RemoveElement
    <3>2. Cardinality(s \ {y}) \in Nat
      BY <3>1, FS_CardinalityType
    <3> QED
      BY <2>3, <3>1, <3>2
  <2>8. n - 1 \notin Bad
    BY <2>2, <2>7
  <2>9. it[s \ {y}] = Cardinality(ChangesOf(s \ {y}))
    BY <2>7, <2>8
  <2> QED
    BY <2>3, <2>5, <2>9, ChangesAdd
<1>7. Cardinality(Conn) \in Nat
  BY ConnectionAssumption, FS_CardinalityType
<1> QED
  BY <1>1, <1>6, <1>7

\* While changes may be made, no connection has made them all.
LEMMA ChangesLeft ==
  ASSUME conn \in [Conn -> ConnRow], MayChange, NEW c \in Conn
  PROVE  conn[c].generation + 1 <= MaxChanges
<1>1. Cardinality(ChangesOf(Conn)) < MaxChanges
  BY ChangesSummed DEF MayChange
<1>2. Cardinality(ChangesOf(Conn)) = conn[c].generation + Cardinality(ChangesOf(Conn \ {c}))
  BY ChangesAdd
<1>3. Cardinality(ChangesOf(Conn \ {c})) \in Nat
  BY ChangesFinite, FS_CardinalityType
<1>4. conn[c].generation \in Nat
  BY DEF ConnRow
<1> QED
  BY <1>1, <1>2, <1>3, <1>4, ConnectionAssumption

\* Times and generations stay within the bounds of an instance.
InTime(seen) == seen.at <= MaxClock
Bounds ==
  /\ clock \in 1 .. MaxClock
  /\ \A c \in Conn : conn[c].generation <= MaxChanges /\ InTime(conn[c].seen) /\ InTime(phones[c])
  /\ \A k \in Key : InTime(snapshot[k])
  /\ \A r \in Request : request[r].generation <= MaxChanges /\ InTime(request[r])

\* Every time that a step writes was known before, and every generation; a key
\* changes only while changes may be made.
Times == {0, clock} \cup {request[r].at : r \in Request} \cup {conn[c].seen.at : c \in Conn}
Generations == {0} \cup {conn[c].generation : c \in Conn} \cup {request[r].generation : r \in Request}

RowsInBounds ==
  \A c \in Conn :
    /\ conn'[c].generation # conn[c].generation
         => MayChange /\ conn'[c].generation = conn[c].generation + 1
    /\ conn'[c].seen # conn[c].seen => conn'[c].seen.at \in Times
SnapshotsInBounds == \A k \in Key : snapshot'[k] # snapshot[k] => snapshot'[k].at \in Times
PhonesInBounds == \A c \in Conn : phones'[c] # phones[c] => phones'[c].at \in Times
RequestsInBounds ==
  \A r \in Request : request'[r] # request[r] =>
    request'[r].at \in Times /\ request'[r].generation \in Generations

InBounds ==
  /\ clock' \in 1 .. MaxClock
  /\ RowsInBounds /\ SnapshotsInBounds /\ PhonesInBounds /\ RequestsInBounds

LEMMA BoundsKept == ConnInv /\ Bounds /\ InBounds => Bounds'
<1> SUFFICES ASSUME ConnInv, Bounds, InBounds PROVE Bounds'
  OBVIOUS
<1>1. \A at \in Times : at <= MaxClock
  BY ConnectionAssumption DEF Times, Bounds, InTime
<1>2. \A g \in Generations : g <= MaxChanges
  BY ConnectionAssumption DEF Generations, Bounds
<1>3. ASSUME NEW c \in Conn
      PROVE  conn'[c].generation <= MaxChanges /\ InTime(conn'[c].seen) /\ InTime(phones'[c])
  <2>1. conn'[c].generation <= MaxChanges
    BY ChangesLeft DEF ConnInv, Typed, InBounds, RowsInBounds, Bounds
  <2>2. InTime(conn'[c].seen) /\ InTime(phones'[c])
    BY <1>1 DEF InBounds, RowsInBounds, PhonesInBounds, Bounds, InTime
  <2> QED
    BY <2>1, <2>2
<1>4. ASSUME NEW k \in Key PROVE InTime(snapshot'[k])
  BY <1>1 DEF InBounds, SnapshotsInBounds, Bounds, InTime
<1>5. ASSUME NEW r \in Request
      PROVE  request'[r].generation <= MaxChanges /\ InTime(request'[r])
  BY <1>1, <1>2 DEF InBounds, RequestsInBounds, Bounds, InTime
<1> QED
  BY <1>3, <1>4, <1>5 DEF Bounds, InBounds, InTime

\* What a request does to its own entry.
OwnEntry(r) ==
  \/ UNCHANGED request
  \/ \E pc \in Step : Goto(r, pc)
  \/ Finish(r)
  \/ request' = [request EXCEPT ![r].pc = "read", ![r].at = clock]
  \/ request' = [request EXCEPT ![r].pc = "read"]
  \/ \E kind \in Kind, c \in Conn, pc \in Step, k \in Key, new \in BOOLEAN :
       Load(r, kind, c, pc, k, new)

LEMMA EntryInBounds ==
  ASSUME ConnInv, NEW r \in Request, OwnEntry(r)
  PROVE  RequestsInBounds
<1>1. request \in [Request -> Req]
  BY DEF ConnInv, Typed
<1>2. /\ request[r].at \in Times /\ request[r].generation \in Generations
      /\ clock \in Times /\ 0 \in Times /\ 0 \in Generations
  BY DEF Times, Generations
<1>3. ASSUME NEW e, request' = [request EXCEPT ![r] = e], e.at \in Times, e.generation \in Generations
      PROVE  RequestsInBounds
  BY <1>1, <1>3 DEF RequestsInBounds
<1>4. ASSUME NEW pc, Goto(r, pc) PROVE RequestsInBounds
  BY <1>1, <1>2, <1>4 DEF Goto, Req, RequestsInBounds
<1>5. CASE Finish(r)
  <2>1. Idle.at = 0 /\ Idle.generation = 0
    BY DEF Idle
  <2> QED
    BY <1>2, <1>3, <1>5, <2>1 DEF Finish
<1>6. CASE request' = [request EXCEPT ![r].pc = "read", ![r].at = clock]
  BY <1>1, <1>2, <1>6 DEF Req, RequestsInBounds
<1>7. CASE request' = [request EXCEPT ![r].pc = "read"]
  BY <1>1, <1>2, <1>7 DEF Req, RequestsInBounds
<1>8. ASSUME NEW kind \in Kind, NEW c \in Conn, NEW pc \in Step, NEW k \in Key, NEW new \in BOOLEAN,
             Load(r, kind, c, pc, k, new)
      PROVE  RequestsInBounds
  <2> DEFINE e == [request[r] EXCEPT !.kind = kind, !.pc = pc, !.conn = c, !.key = k, !.at = clock,
                     !.generation = conn[c].generation, !.created = new]
  <2>1. conn[c].generation \in Generations
    BY DEF Generations
  <2>2. request' = [request EXCEPT ![r] = e]
    BY <1>8 DEF Load
  <2>3. e.at = clock /\ e.generation = conn[c].generation
    BY <1>1 DEF Req
  <2> HIDE DEF e
  <2> QED
    BY <1>2, <1>3, <2>1, <2>2, <2>3
<1>9. CASE UNCHANGED request
  BY <1>9 DEF RequestsInBounds
<1> QED
  BY <1>4, <1>5, <1>6, <1>7, <1>8, <1>9 DEF OwnEntry

LEMMA PublishInBounds ==
  ASSUME ConnInv, NEW p, NEW seen, seen.at \in Times, Publish(p, seen)
  PROVE  SnapshotsInBounds
BY DEF ConnInv, Typed, Publish, SnapshotsInBounds

\* Steps of a request that change at most the status of its row.
LEMMA StatusesInBounds ==
  ASSUME ConnInv, NEW r \in Request, Bounds,
         \/ ConnectInsert(r) \/ ConnectProbe(r) \/ ConnectRead(r) \/ ConnectFail(r)
         \/ UseRead(r) \/ SyncPhones(r) \/ Die(r)
  PROVE  InBounds
<1>1. conn \in [Conn -> ConnRow] /\ phones \in [Conn -> Seen]
  BY DEF ConnInv, Typed
<1>2. /\ clock' = clock /\ snapshot' = snapshot
      /\ \/ conn' = conn
         \/ \E status : \E c \in Conn : conn' = [conn EXCEPT ![c].status = status]
  <2>1. request[r].pc # "idle" => request[r].conn \in Conn
    BY DEF ConnInv, RequestsKnow, RequestKnows
  <2> QED
    BY <2>1 DEF ConnectInsert, ConnectProbe, ConnectRead, ConnectFail, UseRead, SyncPhones, Die,
           Others, MarkIfGuarded, AtStep
<1>3. RowsInBounds
  BY <1>1, <1>2 DEF RowsInBounds, ConnRow
<1>4. PhonesInBounds
  <2>1. request[r].at \in Times
    BY DEF Times
  <2> QED
    BY <1>1, <2>1 DEF ConnectInsert, ConnectProbe, ConnectRead, ConnectFail, UseRead, SyncPhones, Die,
           Others, PhonesInBounds
<1>5. RequestsInBounds
  <2>1. {"probe", "read", "save", "phones"} \subseteq Step
    BY DEF Step
  <2>2. \/ \E pc \in Step : Goto(r, pc)
        \/ Finish(r)
        \/ request' = [request EXCEPT ![r].pc = "read", ![r].at = clock]
    BY <2>1 DEF ConnectInsert, ConnectProbe, ConnectRead, ConnectFail, UseRead, SyncPhones, Die
  <2> QED
    BY <2>2, EntryInBounds DEF OwnEntry
<1> QED
  BY <1>2, <1>3, <1>4, <1>5 DEF InBounds, SnapshotsInBounds, Bounds

\* Steps of a request that change keys, pools and snapshots.
LEMMA SavesInBounds ==
  ASSUME ConnInv, NEW r \in Request, Bounds,
         ConnectSave(r) \/ UseLink(r) \/ RefreshSave(r) \/ SyncSave(r)
  PROVE  InBounds
<1>1. /\ conn \in [Conn -> ConnRow] /\ UNCHANGED <<phones, clock>>
      /\ request[r].conn \in Conn /\ request[r].at \in Times
      /\ \A c \in Conn : conn[c].seen.at \in Times
  BY DEF ConnInv, Typed, RequestsKnow, RequestKnows, ConnectSave, UseLink, RefreshSave, SyncSave,
         AtStep, Others, Times
<1>2. RequestsInBounds
  <2>1. "read" \in Step /\ request \in [Request -> Req] /\ request[r] \in Req
    BY DEF Step, ConnInv, Typed
  <2>2. request' = [request EXCEPT ![r].pc = "read", ![r].at = @] =>
          request' = [request EXCEPT ![r].pc = "read"]
    BY <2>1 DEF Req
  <2>3. \/ Finish(r)
        \/ request' = [request EXCEPT ![r].pc = "read", ![r].at = clock]
        \/ request' = [request EXCEPT ![r].pc = "read", ![r].at = @]
    BY DEF ConnectSave, UseLink, RefreshSave, SyncSave
  <2> QED
    BY <2>2, <2>3, EntryInBounds DEF OwnEntry
<1> DEFINE c == request[r].conn
           seen == [at |-> request[r].at, key |-> request[r].key]
<1>3. CASE UNCHANGED <<conn, snapshot>>
  BY <1>1, <1>2, <1>3 DEF InBounds, RowsInBounds, SnapshotsInBounds, PhonesInBounds, Bounds
<1>4. CASE ConnectSave(r) /\ MayChange /\ SaveVerified(r)
  <2>1. /\ conn' = [conn EXCEPT ![c] = [status |-> "active", key |-> request[r].key,
                generation |-> @.generation + 1, pool |-> PoolFor(conn[c], request[r].key),
                seen |-> seen]]
        /\ Publish(PoolFor(conn[c], request[r].key), seen)
    BY <1>4 DEF SaveVerified
  <2>2. RowsInBounds
    BY <1>1, <1>4, <2>1 DEF RowsInBounds
  <2>3. SnapshotsInBounds
    BY <1>1, <2>1, PublishInBounds
  <2> QED
    BY <1>1, <1>2, <2>2, <2>3 DEF InBounds, PhonesInBounds, Bounds
<1>5. CASE UseLink(r) /\ Link(c, request[r].key)
  <2>1. RowsInBounds
    BY <1>1, <1>5 DEF Link, RowsInBounds, ConnRow
  <2>2. UNCHANGED snapshot \/ Publish(PoolFor(conn[c], request[r].key), conn[c].seen)
    BY <1>5 DEF Link
  <2>3. SnapshotsInBounds
    BY <1>1, <2>2, PublishInBounds DEF SnapshotsInBounds
  <2> QED
    BY <1>1, <1>2, <2>1, <2>3 DEF InBounds, PhonesInBounds, Bounds
<1>6. ASSUME NEW status, SaveSnapshot(r, status), ~UNCHANGED <<conn, snapshot>> PROVE InBounds
  <2>1. /\ conn' = [conn EXCEPT ![c].seen = seen, ![c].status = status]
        /\ UNCHANGED snapshot \/ Publish(conn[c].pool, seen)
    BY <1>6 DEF SaveSnapshot
  <2>2. RowsInBounds
    BY <1>1, <2>1 DEF RowsInBounds, ConnRow
  <2>3. SnapshotsInBounds
    BY <1>1, <2>1, PublishInBounds DEF SnapshotsInBounds
  <2> QED
    BY <1>1, <1>2, <2>2, <2>3 DEF InBounds, PhonesInBounds, Bounds
<1>7. \/ UNCHANGED <<conn, snapshot>>
      \/ ConnectSave(r) /\ MayChange /\ SaveVerified(r)
      \/ UseLink(r) /\ Link(c, request[r].key)
      \/ \E status : SaveSnapshot(r, status)
  BY DEF ConnectSave, UseLink, RefreshSave, SyncSave
<1> QED
  BY <1>3, <1>4, <1>5, <1>6, <1>7

LEMMA BoundsStep == ConnInv /\ Bounds /\ [ConnNext]_connVars => Bounds'
<1> SUFFICES ASSUME ConnInv, Bounds, [ConnNext]_connVars PROVE InBounds
  BY BoundsKept
<1>1. conn \in [Conn -> ConnRow] /\ clock \in 1 .. MaxClock
  BY DEF ConnInv, Typed, Bounds
<1>2. CASE UNCHANGED connVars \/ ConnTick \/ (\E k \in Key : Revoke(k))
           \/ \E c \in Conn : Need(c) \/ Release(c)
  <2>1. UNCHANGED <<conn, snapshot, phones, request>> /\ clock' \in 1 .. MaxClock
    BY <1>1, <1>2, ConnectionAssumption DEF connVars, ConnTick, Revoke, Need, Release
  <2> QED
    BY <2>1 DEF InBounds, RowsInBounds, SnapshotsInBounds, PhonesInBounds, RequestsInBounds
<1>3. ASSUME NEW c \in Conn, Disconnect(c) PROVE InBounds
  <2>1. UNCHANGED <<snapshot, phones, request, clock>>
    BY <1>3 DEF Disconnect, Others
  <2>2. RowsInBounds
    BY <1>1, <1>3 DEF Disconnect, RowsInBounds, ConnRow
  <2> QED
    BY <1>1, <2>1, <2>2 DEF InBounds, SnapshotsInBounds, PhonesInBounds, RequestsInBounds
<1>4. ASSUME NEW r \in Request, NEW c \in Conn, NEW k \in Key,
             ConnectLoad(r, c, k) \/ \E kind \in Kind \ {"connect"} : UseLoad(r, c, kind)
      PROVE  InBounds
  <2>1. UNCHANGED <<conn, snapshot, phones, clock>>
    BY <1>4 DEF ConnectLoad, UseLoad, Others
  <2>2. \E kind \in Kind, pc \in Step, key \in Key, new \in BOOLEAN : Load(r, kind, c, pc, key, new)
    <3>1. {"insert", "probe", "read", "link"} \subseteq Step /\ "connect" \in Kind
          /\ (conn[c].status = "absent") \in BOOLEAN /\ FALSE \in BOOLEAN
      BY DEF Step, Kind
    <3>2. CASE ConnectLoad(r, c, k)
      BY <3>1, <3>2 DEF ConnectLoad
    <3>3. ASSUME NEW kind \in Kind \ {"connect"}, UseLoad(r, c, kind)
          PROVE  \E pc \in Step, key \in Key, new \in BOOLEAN : Load(r, kind, c, pc, key, new)
      <4>1. conn[c].key \in Key
        BY <1>1, <3>3 DEF UseLoad, ConnRow
      <4> QED
        BY <3>1, <3>3, <4>1 DEF UseLoad
    <3> QED
      BY <1>4, <3>2, <3>3
  <2>3. RequestsInBounds
    BY <2>2, EntryInBounds DEF OwnEntry
  <2> QED
    BY <1>1, <2>1, <2>3 DEF InBounds, RowsInBounds, SnapshotsInBounds, PhonesInBounds
<1>5. ASSUME NEW r \in Request, NEW c \in Conn, NEW kind \in Kind \ {"connect"}, UseLoad(r, c, kind)
      PROVE  InBounds
  <2>1. conn[c].key \in Key
    BY <1>1, <1>5 DEF UseLoad, ConnRow
  <2> QED
    BY <1>4, <1>5, <2>1
<1> QED
  BY <1>2, <1>3, <1>4, <1>5, StatusesInBounds, SavesInBounds DEF ConnNext

LEMMA BoundsStart == ConnInit => Bounds
<1> SUFFICES ASSUME ConnInit PROVE Bounds
  OBVIOUS
<1>1. \A c \in Conn : conn[c] = Absent \/ \E k \in Key : conn[c] \in Unpooled(k)
  BY DEF ConnInit
<1>2. Absent.generation = 0 /\ Absent.seen.at = 0
  BY DEF Absent, NoSnapshot
<1>3. ASSUME NEW k \in Key, NEW new \in Unpooled(k) PROVE new.generation = 0 /\ new.seen.at \in {0, 1}
  <2>1. PICK seen \in {NoSnapshot, [at |-> 1, key |-> k]} :
          new = [Absent EXCEPT !.status = "active", !.key = k, !.seen = seen]
    BY DEF Unpooled
  <2> QED
    BY <2>1 DEF Absent, NoSnapshot
<1>4. \A c \in Conn : conn[c].generation = 0 /\ conn[c].seen.at \in {0, 1}
  BY <1>1, <1>2, <1>3
<1> QED
  BY <1>4, ConnectionAssumption DEF ConnInit, Bounds, InTime, NoSnapshot, Idle

\* Rows, snapshots and requests keep their shape, and no key is changed more
\* often than may be: generations add up over the connections.
THEOREM ConnTypeCorrect == ConnSpec => []ConnTypeOK
<1>1. ConnInv /\ Bounds => ConnTypeOK
  <2> SUFFICES ASSUME ConnInv, Bounds PROVE ConnTypeOK
    OBVIOUS
  <2>1. \A seen \in Seen : InTime(seen) => seen \in Snapshot
    BY ConnectionAssumption DEF Seen, InTime, Snapshot
  <2>2. conn \in [Conn -> ConnectionRow]
    <3>1. conn \in [Conn -> ConnRow]
      BY DEF ConnInv, Typed
    <3>2. ASSUME NEW c \in Conn PROVE conn[c] \in ConnectionRow
      <4>1. conn[c] \in ConnRow /\ conn[c].generation <= MaxChanges /\ InTime(conn[c].seen)
        BY <3>1 DEF Bounds
      <4>2. conn[c].seen \in Snapshot /\ conn[c].generation \in 0 .. MaxChanges
        BY <2>1, <4>1, ConnectionAssumption DEF ConnRow
      <4> QED
        BY <4>1, <4>2 DEF ConnRow, ConnectionRow
    <3> QED
      BY <3>1, <3>2
  <2>3. snapshot \in [Key -> Snapshot] /\ phones \in [Conn -> Snapshot]
    BY <2>1 DEF ConnInv, Typed, Bounds
  <2>4. request \in [Request -> RequestRow]
    <3>1. request \in [Request -> Req]
      BY DEF ConnInv, Typed
    <3>2. ASSUME NEW r \in Request PROVE request[r] \in RequestRow
      <4>1. /\ request[r] \in Req /\ request[r].generation <= MaxChanges
            /\ request[r].at <= MaxClock
        BY <3>1 DEF Bounds, InTime
      <4>2. request[r].generation \in 0 .. MaxChanges /\ request[r].at \in 0 .. MaxClock
        BY <4>1, ConnectionAssumption DEF Req
      <4> QED
        BY <4>1, <4>2 DEF Req, RequestRow
    <3> QED
      BY <3>1, <3>2
  <2> QED
    BY <2>2, <2>3, <2>4 DEF ConnInv, Typed, Bounds, ConnTypeOK
<1>2. ConnInv /\ Bounds /\ [ConnNext]_connVars => ConnInv' /\ Bounds'
  BY StepInv, BoundsStep
<1> QED
  BY <1>1, <1>2, InitInv, BoundsStart, PTL DEF ConnSpec
-----------------------------------------------------------------------------
(* Provisioning.                                                           *)

AttemptRow == [pc : AttemptPc, isps : SUBSET Isp]
UnitRow == [status : {"provisioning", "blocked", "over"},
            isp : Isp \cup {NoIsp}, diversity : {"none", "unique", "reused"}]

\* An attempt a, its cycle c, lists b and proxies d bought for it, the ISP p of
\* its phone and n of its binding.
GoodRows(a, c, b, d, p, n) ==
  /\ a \in AttemptRow /\ c \in UnitRow
  /\ b \in [Isp -> Nat] /\ d \in [Isp -> Nat]
  /\ p \in Isp \cup {NoIsp} /\ n \in Isp \cup {NoIsp}

GoodSteps(a, c, b, d, p, n) ==
  /\ \A i \in Isp : b[i] > 0 \/ d[i] > 0 => c.isp = i
  /\ \A i \in Isp : b[i] <= 1 /\ d[i] <= 1
  /\ a.pc = "buyList" => \A i \in Isp : b[i] = 0
  /\ a.pc = "addProxy" => \A i \in Isp : d[i] = 0
  /\ a.pc \notin {"idle", "reserve"} => c.isp \in Isp
  /\ a.pc \in {"saveList", "findProxy", "addProxy", "findProxyAgain",
               "updatePhone", "bind", "done"} => b[c.isp] > 0
  /\ a.pc \in {"updatePhone", "bind", "done"} => d[c.isp] > 0
  /\ a.pc \in {"bind", "done"} => p = c.isp
  /\ n # NoIsp => a.pc = "done" /\ n = c.isp
  /\ c.status = "over" => a.pc = "done"

Good(a, c, b, d, p, n) == GoodRows(a, c, b, d, p, n) /\ GoodSteps(a, c, b, d, p, n)

Tables ==
  /\ attempt = [u \in Unit |-> attempt[u]] /\ unit = [u \in Unit |-> unit[u]]
  /\ bought = [u \in Unit |-> bought[u]] /\ added = [u \in Unit |-> added[u]]
  /\ phone = [u \in Unit |-> phone[u]] /\ bound = [u \in Unit |-> bound[u]]
  /\ catalog \subseteq Isp

GoodUnit(u) == Good(attempt[u], unit[u], bought[u], added[u], phone[u], bound[u])

ProvInv == Tables /\ (\A u \in Unit : GoodUnit(u)) /\ UniqueIsUnique

-----------------------------------------------------------------------------
\* The rest of the cycles.
LEMMA OthersStay ==
  ASSUME ProvInv, Tables', NEW u \in Unit, GoodUnit(u)',
         \A v \in Unit \ {u} :
           /\ attempt'[v] = attempt[v] /\ unit'[v] = unit[v]
           /\ bought'[v] = bought[v] /\ added'[v] = added[v]
           /\ phone'[v] = phone[v] /\ bound'[v] = bound[v],
         unit'[u].isp = unit[u].isp, unit'[u].diversity = unit[u].diversity,
         unit[u].status = "over" => unit'[u].status = "over"
  PROVE  ProvInv'
<1>1. \A v \in Unit : GoodUnit(v)'
  BY DEF ProvInv, GoodUnit
<1>2. UniqueIsUnique'
  BY DEF ProvInv, UniqueIsUnique
<1> QED
  BY <1>1, <1>2 DEF ProvInv

\* The two ways in which an attempt leaves a step.
LEMMA StepToRow ==
  ASSUME ProvInv, NEW u \in Unit, NEW pc \in AttemptPc, StepTo(u, pc)
  PROVE  /\ attempt' = [v \in Unit |-> attempt'[v]]
         /\ \A v \in Unit \ {u} : attempt'[v] = attempt[v]
         /\ attempt'[u] \in AttemptRow /\ attempt'[u].pc = pc
<1>1. attempt[u] \in AttemptRow /\ attempt = [v \in Unit |-> attempt[v]]
  BY DEF ProvInv, Tables, GoodUnit, Good, GoodRows
<1> DEFINE row == [attempt[u] EXCEPT !.pc = pc]
<1>2. row \in AttemptRow /\ row.pc = pc
  BY <1>1 DEF AttemptRow
<1>3. attempt' = [attempt EXCEPT ![u] = row]
  BY DEF StepTo
<1> HIDE DEF row
<1> QED
  BY <1>1, <1>2, <1>3

LEMMA FailRow ==
  ASSUME ProvInv, NEW u \in Unit, Fail(u)
  PROVE  /\ attempt' = [v \in Unit |-> attempt'[v]]
         /\ unit' = [v \in Unit |-> unit'[v]]
         /\ \A v \in Unit \ {u} : attempt'[v] = attempt[v] /\ unit'[v] = unit[v]
         /\ attempt'[u] \in AttemptRow /\ attempt'[u].pc = "idle"
         /\ unit'[u] \in UnitRow /\ unit'[u].status = "blocked"
         /\ unit'[u].isp = unit[u].isp /\ unit'[u].diversity = unit[u].diversity
<1>1. /\ attempt = [v \in Unit |-> attempt[v]] /\ unit = [v \in Unit |-> unit[v]]
      /\ unit[u] \in UnitRow
  BY DEF ProvInv, Tables, GoodUnit, Good, GoodRows
<1>2. NoAttempt \in AttemptRow /\ NoAttempt.pc = "idle"
  BY DEF NoAttempt, AttemptRow, AttemptPc
<1> DEFINE row == [unit[u] EXCEPT !.status = "blocked"]
<1>3. /\ row \in UnitRow /\ row.status = "blocked"
      /\ row.isp = unit[u].isp /\ row.diversity = unit[u].diversity
  BY <1>1 DEF UnitRow
<1>4. unit' = [unit EXCEPT ![u] = row] /\ attempt' = [attempt EXCEPT ![u] = NoAttempt]
  BY DEF Fail
<1> HIDE DEF row
<1> QED
  BY <1>1, <1>2, <1>3, <1>4

\* An attempt that fails changes nothing outside, and is not at its end.
LEMMA FailKeeps ==
  ASSUME ProvInv, NEW u \in Unit, Fail(u), attempt[u].pc # "done",
         UNCHANGED <<catalog, bought, added, bound>>,
         phone' = [phone EXCEPT ![u] = phone'[u]], phone'[u] \in Isp \cup {NoIsp}
  PROVE  ProvInv'
<1>1. Tables'
  BY FailRow DEF ProvInv, Tables
<1>2. GoodRows(attempt[u], unit[u], bought[u], added[u], phone[u], bound[u])'
  BY FailRow DEF ProvInv, GoodUnit, Good, GoodRows
<1>3. GoodSteps(attempt[u], unit[u], bought[u], added[u], phone[u], bound[u])'
  BY FailRow DEF ProvInv, GoodUnit, Good, GoodSteps
<1>4. GoodUnit(u)'
  BY <1>2, <1>3 DEF GoodUnit, Good
<1>5. unit[u].status # "over"
  BY DEF ProvInv, GoodUnit, Good, GoodSteps
<1>6. \A v \in Unit \ {u} : phone'[v] = phone[v]
  BY DEF ProvInv, Tables
<1> QED
  BY <1>1, <1>4, <1>5, <1>6, FailRow, OthersStay

\* An attempt that goes on to pc, where what that step takes for granted is so.
LEMMA MoveKeeps ==
  ASSUME ProvInv, NEW u \in Unit, NEW pc \in AttemptPc, StepTo(u, pc),
         UNCHANGED <<catalog, unit>>,
         /\ bought' = [v \in Unit |-> bought'[v]] /\ added' = [v \in Unit |-> added'[v]]
         /\ phone' = [v \in Unit |-> phone'[v]] /\ bound' = [v \in Unit |-> bound'[v]],
         \A v \in Unit \ {u} : /\ bought'[v] = bought[v] /\ added'[v] = added[v]
                               /\ phone'[v] = phone[v] /\ bound'[v] = bound[v],
         bought'[u] \in [Isp -> Nat], added'[u] \in [Isp -> Nat],
         phone'[u] \in Isp \cup {NoIsp}, bound'[u] \in Isp \cup {NoIsp},
         \A a \in AttemptRow : a.pc = pc =>
           GoodSteps(a, unit[u], bought'[u], added'[u], phone'[u], bound'[u])
  PROVE  ProvInv'
<1>1. Tables'
  BY StepToRow DEF ProvInv, Tables
<1>2. GoodUnit(u)'
  BY StepToRow DEF ProvInv, GoodUnit, Good, GoodRows
<1> QED
  BY <1>1, <1>2, StepToRow, OthersStay

\* The same, where nothing outside changes.
LEMMA GoOnKeeps ==
  ASSUME ProvInv, NEW u \in Unit, NEW pc \in AttemptPc, StepTo(u, pc),
         UNCHANGED <<catalog, unit, bought, added, phone, bound>>,
         \A a \in AttemptRow : a.pc = pc =>
           GoodSteps(a, unit[u], bought[u], added[u], phone[u], bound[u])
  PROVE  ProvInv'
<1>1. /\ bought' = [v \in Unit |-> bought'[v]] /\ added' = [v \in Unit |-> added'[v]]
      /\ phone' = [v \in Unit |-> phone'[v]] /\ bound' = [v \in Unit |-> bound'[v]]
  BY DEF ProvInv, Tables
<1>2. /\ bought'[u] \in [Isp -> Nat] /\ added'[u] \in [Isp -> Nat]
      /\ phone'[u] \in Isp \cup {NoIsp} /\ bound'[u] \in Isp \cup {NoIsp}
  BY DEF ProvInv, GoodUnit, Good, GoodRows
<1> QED
  BY <1>1, <1>2, MoveKeeps

-----------------------------------------------------------------------------
(* The actions.                                                            *)

LEMMA StillFails ==
  ASSUME ProvInv, NEW u \in Unit, Fail(u), attempt[u].pc # "done",
         UNCHANGED <<catalog, bought, added, phone, bound>>
  PROVE  ProvInv'
<1>1. phone' = [phone EXCEPT ![u] = phone'[u]] /\ phone'[u] \in Isp \cup {NoIsp}
  BY DEF ProvInv, Tables, GoodUnit, Good, GoodRows
<1> QED
  BY <1>1, FailKeeps

\* Looking for what has a name and going on to buy or to use it.
LEMMA LookKeeps ==
  ASSUME ProvInv, NEW u \in Unit,
         \/ FindList(u) \/ FindListAgain(u) \/ FindProxy(u) \/ FindProxyAgain(u)
  PROVE  ProvInv'
<1>1. UNCHANGED <<catalog, bought, added, phone, bound>> /\ attempt[u].pc # "done"
  BY DEF FindList, FindListAgain, FindProxy, FindProxyAgain, At
<1>2. CASE Fail(u)
  BY <1>1, <1>2, StillFails
<1>3. ASSUME attempt[u].pc \in {"findList", "findListAgain"},
             UNCHANGED unit, NEW i \in Named(bought, u), i = unit[u].isp,
             StepTo(u, "saveList")
      PROVE  ProvInv'
  <2>1. \A a \in AttemptRow : a.pc = "saveList" =>
          GoodSteps(a, unit[u], bought[u], added[u], phone[u], bound[u])
    BY <1>3 DEF Named, ProvInv, GoodUnit, Good, GoodSteps
  <2>2. "saveList" \in AttemptPc
    BY DEF AttemptPc
  <2> QED
    BY <1>1, <1>3, <2>1, <2>2, GoOnKeeps
<1>4. ASSUME attempt[u].pc \in {"findProxy", "findProxyAgain"},
             UNCHANGED unit, NEW i \in Named(added, u), i = unit[u].isp,
             StepTo(u, "updatePhone")
      PROVE  ProvInv'
  <2>1. \A a \in AttemptRow : a.pc = "updatePhone" =>
          GoodSteps(a, unit[u], bought[u], added[u], phone[u], bound[u])
    BY <1>4 DEF Named, ProvInv, GoodUnit, Good, GoodSteps
  <2>2. "updatePhone" \in AttemptPc
    BY DEF AttemptPc
  <2> QED
    BY <1>1, <1>4, <2>1, <2>2, GoOnKeeps
<1>5. CASE attempt[u].pc = "findList" /\ UNCHANGED unit /\ StepTo(u, "buyList")
           /\ Named(bought, u) = {}
  <2>1. \A a \in AttemptRow : a.pc = "buyList" =>
          GoodSteps(a, unit[u], bought[u], added[u], phone[u], bound[u])
    BY <1>5 DEF Named, ProvInv, GoodUnit, Good, GoodRows, GoodSteps
  <2>2. "buyList" \in AttemptPc
    BY DEF AttemptPc
  <2> QED
    BY <1>1, <1>5, <2>1, <2>2, GoOnKeeps
<1>6. CASE attempt[u].pc = "findProxy" /\ UNCHANGED unit /\ StepTo(u, "addProxy")
           /\ Named(added, u) = {}
  <2>1. \A a \in AttemptRow : a.pc = "addProxy" =>
          GoodSteps(a, unit[u], bought[u], added[u], phone[u], bound[u])
    BY <1>6 DEF Named, ProvInv, GoodUnit, Good, GoodRows, GoodSteps
  <2>2. "addProxy" \in AttemptPc
    BY DEF AttemptPc
  <2> QED
    BY <1>1, <1>6, <2>1, <2>2, GoOnKeeps
<1> QED
  BY <1>2, <1>3, <1>4, <1>5, <1>6
     DEF FindList, FindListAgain, FindProxy, FindProxyAgain, Found, At

\* Buying, and registering: what is new is of the reserved ISP.
LEMMA BuyKeeps ==
  ASSUME ProvInv, NEW u \in Unit, BuyList(u)
  PROVE  ProvInv'
<1> DEFINE i == unit[u].isp
<1>1. /\ UNCHANGED <<catalog, unit, added, phone, bound>>
      /\ attempt[u].pc = "buyList" /\ i \in Isp
      /\ bought[u] \in [Isp -> Nat] /\ added'[u] \in [Isp -> Nat]
      /\ phone'[u] \in Isp \cup {NoIsp} /\ bound'[u] \in Isp \cup {NoIsp}
  BY DEF BuyList, At, ProvInv, GoodUnit, Good, GoodRows, GoodSteps
<1>2. /\ bought = [v \in Unit |-> bought[v]]
      /\ added' = [v \in Unit |-> added'[v]]
      /\ phone' = [v \in Unit |-> phone'[v]] /\ bound' = [v \in Unit |-> bound'[v]]
  BY <1>1 DEF ProvInv, Tables
<1>3. PICK pc \in AttemptPc, row \in [Isp -> Nat] :
        /\ StepTo(u, pc) /\ bought' = [bought EXCEPT ![u] = row]
        /\ \A j \in Isp \ {i} : row[j] = bought[u][j]
        /\ row[i] \in {bought[u][i], bought[u][i] + 1}
        /\ \/ pc = "saveList" /\ row[i] > 0
           \/ pc = "findListAgain"
  <2> DEFINE more == [bought[u] EXCEPT ![i] = bought[u][i] + 1]
  <2>1. /\ more \in [Isp -> Nat] /\ more[i] > 0 /\ more[i] = bought[u][i] + 1
        /\ \A j \in Isp \ {i} : more[j] = bought[u][j]
    BY <1>1
  <2>2. "saveList" \in AttemptPc /\ "findListAgain" \in AttemptPc
    BY DEF AttemptPc
  <2>3. CASE UNCHANGED bought /\ StepTo(u, "findListAgain")
    <3>1. bought' = [bought EXCEPT ![u] = bought[u]]
      BY <1>1, <1>2, <2>3
    <3> USE <1>1, <2>2
    <3> WITNESS "findListAgain" \in AttemptPc, bought[u] \in [Isp -> Nat]
    <3> QED
      BY <2>3, <3>1
  <2>4. CASE bought' = [bought EXCEPT ![u] = more]
             /\ (StepTo(u, "saveList") \/ StepTo(u, "findListAgain"))
    <3> HIDE DEF more
    <3> QED
      BY <2>1, <2>2, <2>4
  <2> QED
    BY <1>2, <2>3, <2>4 DEF BuyList
<1>4. /\ bought' = [v \in Unit |-> bought'[v]] /\ bought'[u] = row
      /\ \A v \in Unit \ {u} : bought'[v] = bought[v]
  BY <1>2, <1>3
<1>5. \A a \in AttemptRow : a.pc = pc =>
        GoodSteps(a, unit[u], bought'[u], added'[u], phone'[u], bound'[u])
  <2>1. GoodSteps(attempt[u], unit[u], bought[u], added[u], phone[u], bound[u])
    BY DEF ProvInv, GoodUnit, Good
  <2> QED
    BY <1>1, <1>3, <1>4, <2>1 DEF GoodSteps
<1> QED
  BY <1>1, <1>2, <1>3, <1>4, <1>5, MoveKeeps

LEMMA AddKeeps ==
  ASSUME ProvInv, NEW u \in Unit, AddProxy(u)
  PROVE  ProvInv'
<1> DEFINE i == unit[u].isp
<1>1. /\ UNCHANGED <<catalog, unit, bought, phone, bound>>
      /\ attempt[u].pc = "addProxy" /\ i \in Isp
      /\ added[u] \in [Isp -> Nat] /\ bought'[u] \in [Isp -> Nat]
      /\ phone'[u] \in Isp \cup {NoIsp} /\ bound'[u] \in Isp \cup {NoIsp}
  BY DEF AddProxy, At, ProvInv, GoodUnit, Good, GoodRows, GoodSteps
<1>2. /\ added = [v \in Unit |-> added[v]]
      /\ bought' = [v \in Unit |-> bought'[v]]
      /\ phone' = [v \in Unit |-> phone'[v]] /\ bound' = [v \in Unit |-> bound'[v]]
  BY <1>1 DEF ProvInv, Tables
<1>3. PICK pc \in AttemptPc, row \in [Isp -> Nat] :
        /\ StepTo(u, pc) /\ added' = [added EXCEPT ![u] = row]
        /\ \A j \in Isp \ {i} : row[j] = added[u][j]
        /\ row[i] \in {added[u][i], added[u][i] + 1}
        /\ \/ pc = "updatePhone" /\ row[i] > 0
           \/ pc = "findProxyAgain"
  <2> DEFINE more == [added[u] EXCEPT ![i] = added[u][i] + 1]
  <2>1. /\ more \in [Isp -> Nat] /\ more[i] > 0 /\ more[i] = added[u][i] + 1
        /\ \A j \in Isp \ {i} : more[j] = added[u][j]
    BY <1>1
  <2>2. "updatePhone" \in AttemptPc /\ "findProxyAgain" \in AttemptPc
    BY DEF AttemptPc
  <2>3. CASE UNCHANGED added /\ StepTo(u, "findProxyAgain")
    <3>1. added' = [added EXCEPT ![u] = added[u]]
      BY <1>1, <1>2, <2>3
    <3> USE <1>1, <2>2
    <3> WITNESS "findProxyAgain" \in AttemptPc, added[u] \in [Isp -> Nat]
    <3> QED
      BY <2>3, <3>1
  <2>4. CASE added' = [added EXCEPT ![u] = more]
             /\ (StepTo(u, "updatePhone") \/ StepTo(u, "findProxyAgain"))
    <3> HIDE DEF more
    <3> QED
      BY <2>1, <2>2, <2>4
  <2> QED
    BY <1>2, <2>3, <2>4 DEF AddProxy, Lost
<1>4. /\ added' = [v \in Unit |-> added'[v]] /\ added'[u] = row
      /\ \A v \in Unit \ {u} : added'[v] = added[v]
  BY <1>2, <1>3
<1>5. \A a \in AttemptRow : a.pc = pc =>
        GoodSteps(a, unit[u], bought'[u], added'[u], phone'[u], bound'[u])
  <2>1. GoodSteps(attempt[u], unit[u], bought[u], added[u], phone[u], bound[u])
    BY DEF ProvInv, GoodUnit, Good
  <2> QED
    BY <1>1, <1>3, <1>4, <2>1 DEF GoodSteps
<1> QED
  BY <1>1, <1>2, <1>3, <1>4, <1>5, MoveKeeps

\* Steps of an attempt that buy nothing.
LEMMA SaveKeeps ==
  ASSUME ProvInv, NEW u \in Unit, SaveList(u)
  PROVE  ProvInv'
<1>1. \A a \in AttemptRow : a.pc = "findProxy" =>
        GoodSteps(a, unit[u], bought[u], added[u], phone[u], bound[u])
  BY DEF SaveList, At, ProvInv, GoodUnit, Good, GoodSteps
<1>2. "findProxy" \in AttemptPc
  BY DEF AttemptPc
<1> QED
  BY <1>1, <1>2, GoOnKeeps DEF SaveList

LEMMA BrokenKeeps ==
  ASSUME ProvInv, NEW u \in Unit, Broken(u)
  PROVE  ProvInv'
BY StillFails DEF Broken

LEMMA UpdateKeeps ==
  ASSUME ProvInv, NEW u \in Unit, UpdatePhone(u)
  PROVE  ProvInv'
<1>1. /\ UNCHANGED <<catalog, bought, added, bound>>
      /\ attempt[u].pc = "updatePhone" /\ unit[u].isp \in Isp
      /\ added[u][unit[u].isp] > 0
  BY DEF UpdatePhone, At, ProvInv, GoodUnit, Good, GoodSteps
<1>2. phone' = [phone EXCEPT ![u] = unit[u].isp]
  BY <1>1 DEF UpdatePhone, Named
<1>3. /\ phone' = [v \in Unit |-> phone'[v]] /\ phone'[u] = unit[u].isp
      /\ \A v \in Unit \ {u} : phone'[v] = phone[v]
      /\ bought' = [v \in Unit |-> bought'[v]] /\ added' = [v \in Unit |-> added'[v]]
      /\ bound' = [v \in Unit |-> bound'[v]]
  BY <1>1, <1>2 DEF ProvInv, Tables
<1>4. CASE StepTo(u, "bind") /\ UNCHANGED unit
  <2>1. /\ bought'[u] \in [Isp -> Nat] /\ added'[u] \in [Isp -> Nat]
        /\ bound'[u] \in Isp \cup {NoIsp}
    BY <1>1 DEF ProvInv, GoodUnit, Good, GoodRows
  <2>2. \A a \in AttemptRow : a.pc = "bind" =>
          GoodSteps(a, unit[u], bought'[u], added'[u], phone'[u], bound'[u])
    BY <1>1, <1>3 DEF ProvInv, GoodUnit, Good, GoodSteps
  <2>3. "bind" \in AttemptPc
    BY DEF AttemptPc
  <2> QED
    BY <1>1, <1>3, <1>4, <2>1, <2>2, <2>3, MoveKeeps
<1>5. CASE Fail(u)
  <2>1. phone' = [phone EXCEPT ![u] = phone'[u]] /\ phone'[u] \in Isp \cup {NoIsp}
    BY <1>1, <1>2, <1>3
  <2> QED
    BY <1>1, <1>5, <2>1, FailKeeps
<1> QED
  BY <1>4, <1>5 DEF UpdatePhone

LEMMA BindKeeps ==
  ASSUME ProvInv, NEW u \in Unit, Bind(u)
  PROVE  ProvInv'
<1>1. /\ UNCHANGED <<catalog, unit, bought, added, phone>>
      /\ attempt[u].pc = "bind" /\ unit[u].isp \in Isp /\ StepTo(u, "done")
      /\ bound' = [bound EXCEPT ![u] = unit[u].isp]
  BY DEF Bind, At, ProvInv, GoodUnit, Good, GoodSteps
<1>2. /\ bound' = [v \in Unit |-> bound'[v]] /\ bound'[u] = unit[u].isp
      /\ \A v \in Unit \ {u} : bound'[v] = bound[v]
      /\ bought' = [v \in Unit |-> bought'[v]] /\ added' = [v \in Unit |-> added'[v]]
      /\ phone' = [v \in Unit |-> phone'[v]]
  BY <1>1 DEF ProvInv, Tables
<1>3. /\ bought'[u] \in [Isp -> Nat] /\ added'[u] \in [Isp -> Nat]
      /\ phone'[u] \in Isp \cup {NoIsp}
  BY <1>1 DEF ProvInv, GoodUnit, Good, GoodRows
<1>4. \A a \in AttemptRow : a.pc = "done" =>
        GoodSteps(a, unit[u], bought'[u], added'[u], phone'[u], bound'[u])
  BY <1>1, <1>2 DEF ProvInv, GoodUnit, Good, GoodSteps
<1>5. "done" \in AttemptPc
  BY DEF AttemptPc
<1> QED
  BY <1>1, <1>2, <1>3, <1>4, <1>5, MoveKeeps

LEMMA ReadKeeps ==
  ASSUME ProvInv, NEW u \in Unit, ReadSeller(u)
  PROVE  ProvInv'
<1>1. /\ UNCHANGED <<catalog, unit, bought, added, phone, bound>>
      /\ attempt' = [attempt EXCEPT ![u] = [pc |-> "reserve", isps |-> catalog]]
      /\ attempt[u].pc = "idle"
  BY DEF ReadSeller, At
<1>2. [pc |-> "reserve", isps |-> catalog] \in AttemptRow
  BY DEF AttemptRow, AttemptPc, ProvInv, Tables
<1>3. /\ attempt' = [v \in Unit |-> attempt'[v]]
      /\ \A v \in Unit \ {u} : attempt'[v] = attempt[v]
      /\ attempt'[u] \in AttemptRow /\ attempt'[u].pc = "reserve"
  BY <1>1, <1>2 DEF ProvInv, Tables
<1>4. Tables'
  BY <1>1, <1>3 DEF ProvInv, Tables
<1>5. GoodUnit(u)'
  BY <1>1, <1>3 DEF ProvInv, GoodUnit, Good, GoodRows, GoodSteps
<1> QED
  BY <1>1, <1>3, <1>4, <1>5, OthersStay

LEMMA EndKeeps ==
  ASSUME ProvInv, NEW u \in Unit, EndCycle(u)
  PROVE  ProvInv'
<1>1. /\ UNCHANGED <<catalog, attempt, bought, added, phone, bound>>
      /\ attempt[u].pc = "done"
      /\ unit' = [unit EXCEPT ![u].status = "over"]
      /\ unit[u] \in UnitRow /\ unit = [v \in Unit |-> unit[v]]
  BY DEF EndCycle, At, ProvInv, Tables, GoodUnit, Good, GoodRows
<1> DEFINE row == [unit[u] EXCEPT !.status = "over"]
<1>2. /\ row \in UnitRow /\ row.status = "over"
      /\ row.isp = unit[u].isp /\ row.diversity = unit[u].diversity
  BY <1>1 DEF UnitRow
<1>3. unit' = [unit EXCEPT ![u] = row]
  BY <1>1
<1> HIDE DEF row
<1>4. /\ unit' = [v \in Unit |-> unit'[v]] /\ unit'[u] = row
      /\ \A v \in Unit \ {u} : unit'[v] = unit[v]
  BY <1>1, <1>3
<1>5. Tables'
  BY <1>1, <1>4 DEF ProvInv, Tables
<1>6. GoodUnit(u)'
  BY <1>1, <1>2, <1>4 DEF ProvInv, GoodUnit, Good, GoodRows, GoodSteps
<1> QED
  BY <1>1, <1>2, <1>4, <1>5, <1>6, OthersStay

-----------------------------------------------------------------------------
(* The reservation.                                                        *)

LEMMA UsedByNone ==
  ASSUME NEW u \in Unit, NEW isp, Uses(u, isp) = 0
  PROVE  \A v \in Unit \ {u} : unit[v].status # "over" => unit[v].isp # isp
<1> DEFINE S == {v \in Siblings(u) : unit[v].isp = isp}
<1>1. S \in SUBSET Unit
  BY DEF Siblings
<1>2. IsFiniteSet(S)
  BY <1>1, FS_Subset, ProvisioningAssumption
<1>3. S = {}
  BY <1>2, FS_EmptySet DEF Uses
<1> QED
  BY <1>3 DEF Siblings

LEMMA ReserveKeeps ==
  ASSUME ProvInv, NEW u \in Unit, ReserveIsp(u)
  PROVE  ProvInv'
<1>1. UNCHANGED <<catalog, bought, added, phone, bound>> /\ attempt[u].pc = "reserve"
  BY DEF ReserveIsp, At
<1>2. "findList" \in AttemptPc
  BY DEF AttemptPc
<1>3. unit[u] \in UnitRow /\ unit = [v \in Unit |-> unit[v]]
  BY DEF ProvInv, Tables, GoodUnit, Good, GoodRows
<1>4. CASE Fail(u)
  BY <1>1, <1>4, StillFails
<1>5. CASE Reserved(u) /\ StepTo(u, "findList") /\ UNCHANGED unit
  <2>1. unit[u].isp \in Isp
    BY <1>3, <1>5 DEF Reserved, UnitRow
  <2>2. \A a \in AttemptRow : a.pc = "findList" =>
          GoodSteps(a, unit[u], bought[u], added[u], phone[u], bound[u])
    BY <1>1, <2>1 DEF ProvInv, GoodUnit, Good, GoodSteps
  <2> QED
    BY <1>1, <1>2, <1>5, <2>2, GoOnKeeps
<1>6. ASSUME ~Reserved(u), StepTo(u, "findList"),
             NEW isp \in Preferred(u, attempt[u].isps),
             unit' = [unit EXCEPT ![u].isp = isp,
                        ![u].diversity = IF Uses(u, isp) = 0 THEN "unique" ELSE "reused"]
      PROVE  ProvInv'
  <2>1. isp \in Isp
    BY DEF Preferred, ProvInv, GoodUnit, Good, GoodRows, AttemptRow
  <2> DEFINE row == [unit[u] EXCEPT !.isp = isp,
                       !.diversity = IF Uses(u, isp) = 0 THEN "unique" ELSE "reused"]
  <2>2. /\ row \in UnitRow /\ row.isp = isp /\ row.status = unit[u].status
        /\ row.diversity = "unique" => Uses(u, isp) = 0
    BY <1>3, <2>1 DEF UnitRow
  <2>3. unit' = [unit EXCEPT ![u] = row]
    BY <1>3, <1>6
  <2> HIDE DEF row
  <2>4. /\ unit' = [v \in Unit |-> unit'[v]] /\ unit'[u] = row
        /\ \A v \in Unit \ {u} : unit'[v] = unit[v]
    BY <1>3, <2>3
  <2>5. /\ attempt' = [v \in Unit |-> attempt'[v]]
        /\ \A v \in Unit \ {u} : attempt'[v] = attempt[v]
        /\ attempt'[u] \in AttemptRow /\ attempt'[u].pc = "findList"
    BY <1>2, <1>6, StepToRow
  <2>6. Tables'
    BY <1>1, <2>4, <2>5 DEF ProvInv, Tables
  <2>7. GoodRows(attempt[u], unit[u], bought[u], added[u], phone[u], bound[u])'
    BY <1>1, <2>2, <2>4, <2>5 DEF ProvInv, GoodUnit, Good, GoodRows
  \* Nothing has been bought without a reservation.
  <2>8. GoodSteps(attempt[u], unit[u], bought[u], added[u], phone[u], bound[u])'
    <3>1. \A i \in Isp : /\ ~(bought[u][i] > 0) /\ ~(added[u][i] > 0)
                         /\ bought[u][i] <= 1 /\ added[u][i] <= 1
      BY <1>6, ProvisioningAssumption DEF Reserved, ProvInv, GoodUnit, Good, GoodSteps
    <3>2. bound[u] = NoIsp /\ unit[u].status # "over"
      BY <1>1 DEF ProvInv, GoodUnit, Good, GoodSteps
    <3> QED
      BY <1>1, <2>1, <2>2, <2>4, <2>5, <3>1, <3>2 DEF GoodSteps
  <2>9. \A v \in Unit : GoodUnit(v)'
    <3>1. GoodUnit(u)'
      BY <2>7, <2>8 DEF GoodUnit, Good
    <3> QED
      BY <1>1, <2>4, <2>5, <3>1 DEF ProvInv, Tables, GoodUnit
  <2>10. UniqueIsUnique'
    <3>1. Uses(u, isp) = 0 => \A v \in Unit \ {u} :
            unit[v].status # "over" => unit[v].isp # isp
      BY UsedByNone
    <3> QED
      BY <2>2, <2>4, <3>1 DEF ProvInv, UniqueIsUnique
  <2> QED
    BY <2>6, <2>9, <2>10 DEF ProvInv
<1> QED
  BY <1>4, <1>5, <1>6 DEF ReserveIsp

-----------------------------------------------------------------------------
LEMMA InitProv == ProvInit => ProvInv
<1> SUFFICES ASSUME ProvInit PROVE ProvInv
  OBVIOUS
<1>1. Tables
  BY DEF ProvInit, Tables
<1>2. NoAttempt \in AttemptRow /\ NoAttempt.pc = "idle"
  BY DEF NoAttempt, AttemptRow, AttemptPc
<1>3. ASSUME NEW u \in Unit PROVE GoodUnit(u)
  <2>1. GoodRows(attempt[u], unit[u], bought[u], added[u], phone[u], bound[u])
    BY <1>2 DEF ProvInit, GoodRows, UnitRow
  <2>2. GoodSteps(attempt[u], unit[u], bought[u], added[u], phone[u], bound[u])
    BY <1>2 DEF ProvInit, GoodSteps
  <2> QED
    BY <2>1, <2>2 DEF GoodUnit, Good
<1>4. UniqueIsUnique
  BY DEF ProvInit, UniqueIsUnique
<1> QED
  BY <1>1, <1>3, <1>4 DEF ProvInv

LEMMA StepProv == ProvInv /\ [ProvNext]_provVars => ProvInv'
<1> SUFFICES ASSUME ProvInv, [ProvNext]_provVars PROVE ProvInv'
  OBVIOUS
<1>1. CASE UNCHANGED provVars \/ \E isps \in SUBSET Isp : Relist(isps)
  <2>1. UNCHANGED <<unit, attempt, bought, added, phone, bound>> /\ catalog' \subseteq Isp
    BY <1>1 DEF Relist, provVars, ProvInv, Tables
  <2> QED
    BY <2>1 DEF ProvInv, Tables, GoodUnit, UniqueIsUnique
<1>2. ASSUME NEW u \in Unit,
             \/ ReadSeller(u) \/ ReserveIsp(u) \/ Broken(u) \/ FindList(u) \/ BuyList(u)
             \/ FindListAgain(u) \/ SaveList(u) \/ FindProxy(u) \/ AddProxy(u)
             \/ FindProxyAgain(u) \/ UpdatePhone(u) \/ Bind(u) \/ EndCycle(u)
      PROVE  ProvInv'
  BY <1>2, ReadKeeps, ReserveKeeps, BrokenKeeps, LookKeeps, BuyKeeps, SaveKeeps,
     AddKeeps, UpdateKeeps, BindKeeps, EndKeeps
<1> QED
  BY <1>1, <1>2 DEF ProvNext

LEMMA InvBought == ProvInv => BoughtOnce
BY DEF ProvInv, GoodUnit, Good, GoodRows, GoodSteps, BoughtOnce, OnlyOne

LEMMA InvBindings == ProvInv => BindingsHold
<1> SUFFICES ASSUME ProvInv PROVE BindingsHold
  OBVIOUS
<1>1. BindingIsTrue
  BY DEF ProvInv, GoodUnit, Good, GoodSteps, BindingIsTrue
<1>2. PurchaseStaysUsable
  BY DEF ProvInv, GoodUnit, Good, GoodRows, GoodSteps, PurchaseStaysUsable
<1> QED
  BY <1>1, <1>2 DEF ProvInv, BindingsHold

\* One list is bought and one proxy registered for a cycle, however answers are
\* lost and attempts repeated: both are looked for by name first, and again
\* after a failure.
THEOREM NothingBoughtTwice == ProvSpec => []BoughtOnce
BY InitProv, StepProv, InvBought, PTL DEF ProvSpec

\* Whatever fails, is lost and is repeated: a binding names the ISP that is
\* reserved, bought, registered and set; what was bought stays usable; and
\* cycles that count as unique share no ISP.
THEOREM BindingsAreTrue == ProvSpec => []BindingsHold
BY InitProv, StepProv, InvBindings, PTL DEF ProvSpec

\* What there is was made by an attempt, so nothing is bought where none may be made.
AttemptsCounted ==
  /\ attempts \in 0 .. MaxAttempts
  /\ attempts = 0 => \A u \in Unit : /\ attempt[u].pc = "idle"
                                     /\ \A i \in Isp : bought[u][i] = 0 /\ added[u][i] = 0

LEMMA AttemptsCountedStep == ProvInv /\ AttemptsCounted /\ [ProvNext]_provVars => AttemptsCounted'
<1> SUFFICES ASSUME ProvInv, AttemptsCounted, [ProvNext]_provVars PROVE AttemptsCounted'
  OBVIOUS
<1>1. CASE UNCHANGED provVars \/ \E isps \in SUBSET Isp : Relist(isps)
  <2>1. UNCHANGED <<attempt, bought, added, attempts>>
    BY <1>1 DEF Relist, provVars
  <2> QED
    BY <2>1 DEF AttemptsCounted
<1>2. ASSUME NEW u \in Unit, ReadSeller(u) PROVE AttemptsCounted'
  <2>1. attempts' \in 0 .. MaxAttempts /\ attempts' # 0
    BY <1>2, ProvisioningAssumption DEF ReadSeller, AttemptsCounted
  <2> QED
    BY <2>1 DEF AttemptsCounted
<1>3. ASSUME NEW u \in Unit,
             \/ ReserveIsp(u) \/ Broken(u) \/ FindList(u) \/ BuyList(u)
             \/ FindListAgain(u) \/ SaveList(u) \/ FindProxy(u) \/ AddProxy(u)
             \/ FindProxyAgain(u) \/ UpdatePhone(u) \/ Bind(u) \/ EndCycle(u)
      PROVE  AttemptsCounted'
  <2>1. attempts' = attempts /\ attempt[u].pc # "idle"
    BY <1>3 DEF ReserveIsp, Broken, FindList, BuyList, FindListAgain, SaveList, FindProxy, AddProxy,
       FindProxyAgain, UpdatePhone, Bind, EndCycle, At
  <2> QED
    BY <2>1 DEF AttemptsCounted
<1> QED
  BY <1>1, <1>2, <1>3 DEF ProvNext

\* Lists and proxies are never more than the attempts that could have made them.
THEOREM ProvTypeCorrect == ProvSpec => []ProvTypeOK
<1>1. ProvInv /\ AttemptsCounted => ProvTypeOK
  <2> SUFFICES ASSUME ProvInv, AttemptsCounted PROVE ProvTypeOK
    OBVIOUS
  <2>1. ASSUME NEW u \in Unit, NEW i \in Isp
        PROVE  bought[u][i] \in 0 .. MaxAttempts /\ added[u][i] \in 0 .. MaxAttempts
    <3>1. /\ bought[u][i] \in Nat /\ added[u][i] \in Nat
          /\ bought[u][i] <= 1 /\ added[u][i] <= 1
      BY DEF ProvInv, GoodUnit, Good, GoodRows, GoodSteps
    <3> QED
      BY <3>1, ProvisioningAssumption DEF AttemptsCounted
  <2>2. \A u \in Unit : /\ bought[u] \in [Isp -> 0 .. MaxAttempts]
                        /\ added[u] \in [Isp -> 0 .. MaxAttempts]
    BY <2>1 DEF ProvInv, GoodUnit, Good, GoodRows
  <2>3. \A u \in Unit : /\ attempt[u] \in AttemptRow /\ unit[u] \in UnitRow
                        /\ phone[u] \in Isp \cup {NoIsp} /\ bound[u] \in Isp \cup {NoIsp}
    BY DEF ProvInv, GoodUnit, Good, GoodRows
  <2> QED
    BY <2>2, <2>3 DEF ProvInv, Tables, ProvTypeOK, AttemptRow, UnitRow
<1>2. ProvInit => AttemptsCounted
  BY ProvisioningAssumption DEF ProvInit, AttemptsCounted, NoAttempt
<1> QED
  BY <1>1, <1>2, InitProv, StepProv, AttemptsCountedStep, PTL DEF ProvSpec

-----------------------------------------------------------------------------
(* The parts side by side.                                                 *)

\* What the services do beside each other, each of them does alone: what is
\* proved of one of them holds in the instance that joins them.
THEOREM EachRunsItsOwn == ServicesSpec => ConnSpec /\ RateSpec /\ FetchSpec /\ ProvSpec
<1>1. ServicesInit => ConnInit /\ RateInit /\ FetchInit /\ ProvInit
  BY DEF ServicesInit
<1>2. [ServicesNext]_ServicesVars
        => [ConnNext]_connVars /\ [RateNext]_rateVars /\ [FetchNext]_fetchVars /\ [ProvNext]_provVars
  BY DEF ServicesNext, ServicesVars
<1> QED
  BY <1>1, <1>2, PTL DEF ServicesSpec, ConnSpec, RateSpec, FetchSpec, ProvSpec

\* The types of the parts, each with its bounds.
THEOREM ServicesTypesCorrect == ServicesSpec => []ServicesTypeOK
<1>1. ConnTypeOK /\ RateTypeOK /\ ProvTypeOK <=> ServicesTypeOK
  BY DEF ServicesTypeOK
<1> QED
  BY <1>1, EachRunsItsOwn, ConnTypeCorrect, RateTypeCorrect, ProvTypeCorrect, PTL
=============================================================================
