------------------------------ MODULE Console ------------------------------
(***************************************************************************)
(* The operations dashboard of one operator: what it shows of the server,  *)
(* the refreshes that replace it and the calls that change both.           *)
(*                                                                         *)
(* A refresh reads the schedules, then the other sections, each at a       *)
(* moment of its own, and applies the answers at once.  It may overlap     *)
(* other refreshes and any call, and nothing orders their answers.  Other  *)
(* operators and the workers change the server meanwhile.                  *)
(*                                                                         *)
(* The lists are limited: the schedules with the nearest due times, the    *)
(* runs with the latest issue times and the newest cycles of the whole     *)
(* organization.  Which entries lie within is a choice of the model.       *)
(*                                                                         *)
(* A schedule is shown with its latest run, if that was listed; a cycle by *)
(* its status; the sections that a call replaces or extends by its answer  *)
(* (phones, templates, clients, programs, the connection) by a version.    *)
(***************************************************************************)
EXTENDS Naturals, FiniteSets

CONSTANTS Item,         \* schedules
          Unit,         \* device cycles
          Part,         \* sections saved by a call
          Slot,         \* refreshes that can be under way at once
          Call,         \* calls that can be under way at once
          MaxEdits, MaxLosses

ASSUME ConsoleAssumption == {MaxEdits, MaxLosses} \subseteq Nat

VARIABLES server, view,
          reach,        \* the entries within the limits of their lists
          refresh, call,
          seen,         \* history: what each entry has been on the server
          edits, losses

consoleVars == <<server, view, reach, refresh, call, seen, edits, losses>>

\* Of a schedule on the server, and as shown: "off" is shown as paused.
RowStatus == {"absent", "on", "off", "gone"}
UnitStatus == {"none", "active", "paused", "cancelled"}
\* The last run of a schedule: how many there have been, and whether it is
\* going on, held by the provider, or over (ended, or removed with a plan).
NoRun == [count |-> 0, life |-> "over"]
RunShown == [count : 0..MaxEdits, life : {"going", "held", "over"}]

State == [on : [Item -> RowStatus], run : [Item -> RunShown],
          unit : [Unit -> UnitStatus], part : [Part -> 0..(MaxEdits + 1)]]

Section == {"run", "unit", "part"}
Reach == [on : SUBSET Item, run : SUBSET Item, unit : SUBSET Unit]

\* The answers of a refresh, and those it still waits for or has lost.
NothingYet == [on |-> [i \in Item |-> "absent"], run |-> [i \in Item |-> NoRun],
               unit |-> [u \in Unit |-> "none"], part |-> [p \in Part |-> 0]]
IdleRefresh == [pc |-> "idle", got |-> NothingYet, unread |-> {}, lost |-> {}]
IdleCall == [pc |-> "idle", kind |-> "none", id |-> "none", want |-> "none",
             ok |-> FALSE, reply |-> NoRun]

ConsoleTypeOK ==
  /\ server \in State /\ view \in State /\ reach \in Reach
  /\ \A i \in Item : view.on[i] # "gone"
  /\ \A k \in Slot : refresh[k].pc \in {"idle", "list", "rest"}
                     /\ refresh[k].got \in State
                     /\ refresh[k].unread \cup refresh[k].lost \subseteq Section
  /\ \A c \in Call : call[c].pc \in {"idle", "sent", "answered", "reread"}
  /\ edits \in 0..MaxEdits /\ losses \in 0..MaxLosses

ConsoleInit ==
  /\ server = [on |-> [i \in Item |-> "on"], run |-> [i \in Item |-> NoRun],
               unit |-> [u \in Unit |-> "active"], part |-> [p \in Part |-> 1]]
  /\ view = NothingYet
  /\ reach = [on |-> Item, run |-> Item, unit |-> Unit]
  /\ refresh = [k \in Slot |-> IdleRefresh]
  /\ call = [c \in Call |-> IdleCall]
  /\ seen = [on |-> [i \in Item |-> {"absent", "on"}],
             unit |-> [u \in Unit |-> {"none", "active"}]]
  /\ edits = 0 /\ losses = 0

\* Bounds.
Edit == edits < MaxEdits /\ edits' = edits + 1
Loss == losses < MaxLosses /\ losses' = losses + 1

Listed(on) == on \in {"on", "off"}

\* What the limited lists hold.
Listing ==
  [on |-> [i \in Item |-> IF i \in reach.on THEN server.on[i] ELSE "absent"],
   run |-> [i \in Item |-> IF i \in reach.run THEN server.run[i] ELSE NoRun],
   unit |-> [u \in Unit |-> IF u \in reach.unit THEN server.unit[u] ELSE "none"],
   part |-> server.part]

\* A schedule is shown paused also when its latest run is.
StatusFromRun(run, on) == IF run.life = "held" /\ on = "on" THEN "off" ELSE on

----------------------------------------------------------------------------
(* The server's side of the calls.                                         *)

\* A schedule whose run is held counts as one that has been paused.
Becomes(next) ==
  /\ server' = next
  /\ seen' = [on |-> [i \in Item |-> seen.on[i] \cup {next.on[i]} \cup
                         (IF next.run[i].life = "held" THEN {"off"} ELSE {})],
              unit |-> [u \in Unit |-> seen.unit[u] \cup {next.unit[u]}]]

\* PATCH and DELETE of /api/schedules/[id].
CanSet(i) == Listed(server.on[i])
SetRow(i, status) == [server EXCEPT !.on[i] = status]

\* POST .../run-now: refused for a paused schedule and while a run is open.
CanRun(i) == server.on[i] = "on" /\ server.run[i].life = "over"
Started(i) == [count |-> server.run[i].count + 1, life |-> "going"]
Queue(i) == Becomes([server EXCEPT !.run[i] = Started(i)])

\* The new run takes its place among all others: within the limit or, where
\* cycles have enough runs with later issue times, not.
TakesPlace(i) == \E runs \in SUBSET (reach.run \cup {i}) : reach' = [reach EXCEPT !.run = runs]

\* PATCH /api/device-cycles/[id].
CanSteer(u, status) == server.unit[u] # "cancelled" /\ server.unit[u] # status

\* What other operators and the workers do; a materialized run need not wait
\* for the one before.
Elsewhere ==
  /\ \/ \E i \in Item :
          \/ /\ CanSet(i) /\ Edit /\ UNCHANGED reach
             /\ \E status \in {"on", "off", "gone"} \ {server.on[i]} :
                  Becomes(SetRow(i, status))
          \/ server.on[i] = "on" /\ Edit /\ Queue(i) /\ TakesPlace(i)
     \/ \E u \in Unit, status \in {"active", "paused", "cancelled"} :
          /\ CanSteer(u, status) /\ Edit /\ UNCHANGED reach
          /\ Becomes([server EXCEPT !.unit[u] = status])
  /\ UNCHANGED <<view, refresh, call, losses>>

\* syncTask and the end of a run.
RunMoves(i) ==
  /\ \/ server.run[i].life \in {"going", "held"} /\ UNCHANGED edits
        /\ Becomes([server EXCEPT !.run[i].life = "over"])
     \/ server.run[i].life = "going" /\ Edit
        /\ Becomes([server EXCEPT !.run[i].life = "held"])
  /\ UNCHANGED <<view, reach, refresh, call, losses>>

\* Schedules, runs and cycles of others come, go and are due at other times.
OthersMove ==
  /\ Edit /\ reach' \in Reach \ {reach}
  /\ UNCHANGED <<server, view, refresh, call, seen, losses>>

----------------------------------------------------------------------------
(* refreshDashboard, from the load, the interval, a button or a call.      *)

BeginRefresh(k) ==
  /\ refresh[k].pc = "idle"
  /\ refresh' = [refresh EXCEPT ![k].pc = "list"]
  /\ UNCHANGED <<server, view, reach, call, seen, edits, losses>>

\* Schedules and clients, without which the refresh ends.
ReadList(k) ==
  /\ refresh[k].pc = "list"
  /\ refresh' = [refresh EXCEPT ![k].pc = "rest", ![k].got.on = Listing.on,
                       ![k].unread = Section]
  /\ UNCHANGED <<server, view, reach, call, seen, edits, losses>>

ReadListFails(k) ==
  /\ refresh[k].pc = "list" /\ Loss
  /\ refresh' = [refresh EXCEPT ![k] = IdleRefresh]
  /\ UNCHANGED <<server, view, reach, call, seen, edits>>

\* One of the requests made together.
ReadSection(k, s) ==
  /\ refresh[k].pc = "rest" /\ s \in refresh[k].unread
  /\ \/ /\ refresh' = [refresh EXCEPT ![k].got[s] = Listing[s], ![k].unread = @ \ {s}]
        /\ UNCHANGED losses
     \/ /\ Loss
        /\ refresh' = [refresh EXCEPT ![k].unread = @ \ {s}, ![k].lost = @ \cup {s}]
  /\ UNCHANGED <<server, view, reach, call, seen, edits>>

\* A schedule that is not listed keeps no run; one that is gets the answered
\* run, or keeps its own when the runs could not be read.
ShownRun(i, r) ==
  IF ~Listed(r.got.on[i]) THEN NoRun
  ELSE IF "run" \in r.lost THEN view.run[i] ELSE r.got.run[i]


\* The list replaces what is shown.
ShownRow(i, r) ==
  IF Listed(r.got.on[i]) THEN StatusFromRun(ShownRun(i, r), r.got.on[i]) ELSE "absent"

Apply(k) ==
  LET r == refresh[k] IN
  /\ r.pc = "rest" /\ r.unread = {}
  /\ view' = [on |-> [i \in Item |-> ShownRow(i, r)],
              run |-> [i \in Item |-> ShownRun(i, r)],
              unit |-> IF "unit" \in r.lost THEN view.unit ELSE r.got.unit,
              part |-> IF "part" \in r.lost THEN view.part ELSE r.got.part]
  /\ refresh' = [refresh EXCEPT ![k] = IdleRefresh]
  /\ UNCHANGED <<server, reach, call, seen, edits, losses>>

----------------------------------------------------------------------------
(* The operator's calls.                                                   *)

Pending(kind, id) == \E c \in Call : call[c].pc # "idle" /\ call[c].kind = kind /\ call[c].id = id

\* Mutation of WhenSent: the change is shown before it is answered.
WhenSentShown(kind, id, want) ==
  IF kind = "row" THEN [view EXCEPT !.on[id] = IF want = "gone" THEN "absent" ELSE want]
  ELSE IF kind = "part" THEN [view EXCEPT !.part[id] = @ + 1] ELSE view

\* Sending changes nothing that is shown.
WhenSent(kind, id, want) == view

Send(c, kind, id, want) ==
  /\ call[c].pc = "idle" /\ Edit
  /\ call' = [call EXCEPT ![c] = [IdleCall EXCEPT !.pc = "sent", !.kind = kind, !.id = id,
                                                  !.want = want]]
  /\ view' = WhenSent(kind, id, want)
  /\ UNCHANGED <<server, reach, refresh, seen, losses>>

\* togglePause goes by what is shown; submitSchedule for an edit leaves the
\* switch alone; confirmRemove.
TogglePause(c, i) == Listed(view.on[i])
                     /\ Send(c, "row", i, IF view.on[i] = "on" THEN "off" ELSE "on")
SubmitSchedule(c, i) == Listed(view.on[i]) /\ Send(c, "edit", i, "none")
ConfirmRemove(c, i) == Listed(view.on[i]) /\ Send(c, "row", i, "gone")

\* runNow: pendingRunIdsRef keeps a second click back.
RunNowClick(c, i) == /\ Listed(view.on[i]) /\ view.run[i].life = "over" /\ ~Pending("run", i)
                     /\ Send(c, "run", i, "open")

\* setCycleStatus: one at a time.
SetDeviceCycleStatus(c, u, status) ==
  /\ view.unit[u] \in {"active", "paused"} /\ status # view.unit[u]
  /\ \A v \in Unit : ~Pending("unit", v)
  /\ Send(c, "unit", u, status)

\* assignPhoneClient, savePhoneLocation, saveWorkerCapacity, addClient,
\* createCycleProgram, importTemplateSchemas, connectDuoPlus and the like.
Save(c, p) == view.part[p] > 0 /\ Send(c, "part", p, "saved")

\* What the server makes of a request it accepts.
Accept(q) ==
  \/ q.kind = "row" /\ CanSet(q.id) /\ Becomes(SetRow(q.id, q.want)) /\ UNCHANGED reach
  \/ q.kind = "edit" /\ CanSet(q.id) /\ UNCHANGED <<server, seen, reach>>
  \/ q.kind = "run" /\ CanRun(q.id) /\ Queue(q.id) /\ TakesPlace(q.id)
  \/ q.kind = "unit" /\ CanSteer(q.id, q.want) /\ UNCHANGED reach
     /\ Becomes([server EXCEPT !.unit[q.id] = q.want])
  \/ q.kind = "part" /\ Becomes([server EXCEPT !.part[q.id] = @ + 1]) /\ UNCHANGED reach

\* It answers with the row as it is then, the run it queued, or the section.
Reply(q) ==
  IF q.kind = "run" THEN Started(q.id)
  ELSE IF q.kind = "part" THEN [NoRun EXCEPT !.count = server.part[q.id] + 1] ELSE NoRun
AnsweredRow(q) == IF q.kind = "edit" THEN server.on[q.id] ELSE q.want

\* An older run that is open, and other work on the phone, are reasons too.
Refuses(q) ==
  \/ q.kind \in {"row", "edit"} /\ ~CanSet(q.id)
  \/ q.kind = "run"
  \/ q.kind = "unit" /\ ~CanSteer(q.id, q.want)

\* The request arrives.  Its answer may be lost, or it never arrives.
Serve(c) ==
  LET q == call[c] IN
  /\ q.pc = "sent"
  /\ \/ /\ Accept(q)
        /\ \/ /\ call' = [call EXCEPT ![c].pc = "answered", ![c].ok = TRUE,
                                       ![c].want = AnsweredRow(q), ![c].reply = Reply(q)]
              /\ UNCHANGED losses
           \/ call' = [call EXCEPT ![c].pc = "answered"] /\ Loss
     \/ /\ (Refuses(q) /\ UNCHANGED losses) \/ Loss
        /\ call' = [call EXCEPT ![c].pc = "answered"]
        /\ UNCHANGED <<server, reach, seen>>
  /\ UNCHANGED <<view, refresh, edits>>

\* An entry that is no longer listed stays away.
StillListed(i, on) == IF Listed(view.on[i]) THEN on ELSE "absent"

\* The answer is shown: the status asked for; after an edit, the answered row
\* with the run already shown; after run-now, that of an enabled schedule.
Answer(c) ==
  LET q == call[c] IN
  /\ q.pc = "answered"
  /\ \/ (q.ok => q.kind = "unit") /\ UNCHANGED view
     \/ /\ q.ok /\ q.kind = "row" /\ q.want # "gone"
        /\ view' = [view EXCEPT !.on[q.id] = StillListed(q.id, q.want)]
     \/ /\ q.ok /\ q.kind = "row" /\ q.want = "gone"
        /\ view' = [view EXCEPT !.on[q.id] = "absent", !.run[q.id] = NoRun]
     \/ /\ q.ok /\ q.kind = "edit"
        /\ view' = [view EXCEPT
                      !.on[q.id] = StillListed(q.id, StatusFromRun(view.run[q.id], q.want))]
     \/ /\ q.ok /\ q.kind = "run"
        /\ view' = [view EXCEPT
                      !.on[q.id] = StillListed(q.id, StatusFromRun(q.reply, "on")),
                      !.run[q.id] = IF Listed(view.on[q.id]) THEN q.reply ELSE @]
     \/ q.ok /\ q.kind = "part" /\ view' = [view EXCEPT !.part[q.id] = q.reply.count]
  /\ call' = [call EXCEPT ![c] = IF q.kind = "unit" /\ q.ok
                                 THEN [q EXCEPT !.pc = "reread"] ELSE IdleCall]
  /\ UNCHANGED <<server, reach, refresh, seen, edits, losses>>

\* The cycles are read again before success is claimed; a failed read shows
\* the status that was accepted.  The claim is the toast of this step.
Reread(c) ==
  LET q == call[c] IN
  /\ q.pc = "reread"
  /\ \/ view' = [view EXCEPT !.unit = Listing.unit] /\ UNCHANGED losses
     \/ Loss /\ view' = [view EXCEPT !.unit[q.id] = IF @ = "none" THEN @ ELSE q.want]
  /\ call' = [call EXCEPT ![c] = IdleCall]
  /\ UNCHANGED <<server, reach, refresh, seen, edits>>

----------------------------------------------------------------------------
ConsoleNext ==
  \/ Elsewhere \/ OthersMove \/ \E i \in Item : RunMoves(i)
  \/ \E k \in Slot : \/ BeginRefresh(k) \/ ReadList(k) \/ ReadListFails(k) \/ Apply(k)
                     \/ \E s \in Section : ReadSection(k, s)
  \/ \E c \in Call :
       \/ \E i \in Item : \/ TogglePause(c, i) \/ SubmitSchedule(c, i)
                         \/ ConfirmRemove(c, i) \/ RunNowClick(c, i)
       \/ \E u \in Unit, status \in {"active", "paused", "cancelled"} :
            SetDeviceCycleStatus(c, u, status)
       \/ \E p \in Part : Save(c, p)
       \/ Serve(c) \/ Answer(c) \/ Reread(c)

ConsoleSpec == ConsoleInit /\ [][ConsoleNext]_consoleVars

\* The page stays visible, so the interval fires; requests end.
ConsoleFairness ==
  /\ \A k \in Slot :
       /\ WF_consoleVars(BeginRefresh(k)) /\ WF_consoleVars(ReadList(k))
       /\ WF_consoleVars(Apply(k))
       /\ \A s \in Section : WF_consoleVars(ReadSection(k, s))
  /\ \A c \in Call : WF_consoleVars(Serve(c)) /\ WF_consoleVars(Answer(c))
                     /\ WF_consoleVars(Reread(c))

ConsoleFairSpec == ConsoleSpec /\ ConsoleFairness

----------------------------------------------------------------------------
\* What is shown has been so: nothing is shown that the server never had,
\* whatever is refused, lost or overtaken (nothing is shown ahead of its
\* answer, and a partly failed refresh invents nothing).
ShownWasTrue ==
  /\ \A i \in Item : /\ view.on[i] \in seen.on[i]
                     /\ view.run[i].count <= server.run[i].count
  /\ \A u \in Unit : view.unit[u] \in seen.unit[u]
  /\ \A p \in Part : view.part[p] <= server.part[p]

\* Once nothing changes any more, what is shown becomes and stays what the
\* limited lists hold of the server, although answers may have been applied in
\* any order before.  A schedule whose last run lies beyond the limit is shown
\* without one.
Shown ==
  /\ \A i \in Item :
       /\ view.on[i] = IF Listed(Listing.on[i])
                       THEN StatusFromRun(Listing.run[i], Listing.on[i]) ELSE "absent"
       /\ Listed(Listing.on[i]) => view.run[i] = Listing.run[i]
  /\ view.unit = Listing.unit /\ view.part = server.part

ViewSettles == <>[]Shown
=============================================================================
