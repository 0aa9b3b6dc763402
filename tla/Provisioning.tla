---------------------------- MODULE Provisioning ----------------------------
(***************************************************************************)
(* Provisioning the managed proxy of a device cycle: reserve an ISP in the *)
(* database, buy a list at Proxy-Seller, register it as a proxy at         *)
(* DuoPlus, point the phone at it and record the binding.                  *)
(*                                                                         *)
(* Nothing makes the five one step.  Every call may fail before or after   *)
(* its effect, after which the attempt ends and may be made again.  Both   *)
(* purchases find what an earlier attempt made by its name.  The cycles    *)
(* are of one client in one city; one attempt is under way for a cycle.    *)
(***************************************************************************)
EXTENDS Naturals, FiniteSets

CONSTANTS Unit,         \* cycles, each with a phone and a name of its own
          Isp,
          NoIsp,
          MaxAttempts, MaxTrouble

ASSUME ProvisioningAssumption ==
  /\ NoIsp \notin Isp /\ IsFiniteSet(Unit)
  /\ {MaxAttempts, MaxTrouble} \subseteq Nat

VARIABLES catalog,      \* ISPs that Proxy-Seller lists for the city
          unit,         \* status and reserved ISP of a device cycle
          attempt,      \* where an attempt is, and the catalog it read
          bought,       \* Proxy-Seller: lists per name and ISP
          added,        \* DuoPlus: proxies per name
          phone,        \* DuoPlus: the ISP a phone's traffic leaves by
          bound,        \* phone_proxy_bindings.configured_isp
          attempts, mishaps

provVars == <<catalog, unit, attempt, bought, added, phone, bound, attempts, mishaps>>

AttemptPc == {"idle", "reserve", "findList", "buyList", "findListAgain", "saveList",
         "findProxy", "addProxy", "findProxyAgain", "updatePhone", "bind", "done"}

ProvTypeOK ==
  /\ catalog \subseteq Isp
  /\ unit \in [Unit -> [status : {"provisioning", "blocked", "over"},
                        isp : Isp \cup {NoIsp}, diversity : {"none", "unique", "reused"}]]
  /\ attempt \in [Unit -> [pc : AttemptPc, isps : SUBSET Isp]]
  /\ bought \in [Unit -> [Isp -> 0..MaxAttempts]]
  /\ added \in [Unit -> [Isp -> 0..MaxAttempts]]
  /\ phone \in [Unit -> Isp \cup {NoIsp}]
  /\ bound \in [Unit -> Isp \cup {NoIsp}]

NoAttempt == [pc |-> "idle", isps |-> {}]

ProvInit ==
  /\ catalog = Isp
  /\ unit = [u \in Unit |-> [status |-> "provisioning", isp |-> NoIsp, diversity |-> "none"]]
  /\ attempt = [u \in Unit |-> NoAttempt]
  /\ bought = [u \in Unit |-> [i \in Isp |-> 0]]
  /\ added = [u \in Unit |-> [i \in Isp |-> 0]]
  /\ phone = [u \in Unit |-> NoIsp]
  /\ bound = [u \in Unit |-> NoIsp]
  /\ attempts = 0 /\ mishaps = 0

Mishap == mishaps < MaxTrouble /\ mishaps' = mishaps + 1

At(u, pc) == attempt[u].pc = pc
StepTo(u, pc) == attempt' = [attempt EXCEPT ![u].pc = pc]

\* Mutation of Fail: a status of the runs is written to the cycle.
FailAsRun(u) ==
  /\ attempt' = [attempt EXCEPT ![u] = NoAttempt]
  /\ unit' = [unit EXCEPT ![u].status = "failed"]

\* An error ends the attempt; the cycle is marked blocked and may be retried.
Fail(u) ==
  /\ attempt' = [attempt EXCEPT ![u] = NoAttempt]
  /\ unit' = [unit EXCEPT ![u].status = "blocked"]

----------------------------------------------------------------------------
\* Proxy-Seller changes its catalog.
Relist(isps) ==
  /\ isps # catalog /\ isps # {} /\ Mishap
  /\ catalog' = isps
  /\ UNCHANGED <<unit, attempt, bought, added, phone, bound, attempts>>

\* The cycle ends, which releases its ISP.
EndCycle(u) ==
  /\ At(u, "done") /\ unit[u].status # "over"
  /\ unit' = [unit EXCEPT ![u].status = "over"]
  /\ UNCHANGED <<catalog, attempt, bought, added, phone, bound, attempts, mishaps>>

\* getPackage and getGeo, with the checks of the package.
ReadSeller(u) ==
  /\ At(u, "idle") /\ attempts < MaxAttempts
  /\ attempts' = attempts + 1
  /\ attempt' = [attempt EXCEPT ![u] = [pc |-> "reserve", isps |-> catalog]]
  /\ UNCHANGED <<catalog, unit, bought, added, phone, bound, mishaps>>

\* Mutation of Siblings: only cycles whose provisioning has been completed.
SiblingsDone(u) == {v \in Unit \ {u} : At(v, "done") /\ unit[v].status # "over"}

\* The other open cycles of the client in the city.
Siblings(u) == {v \in Unit \ {u} : unit[v].status # "over"}

Uses(u, isp) == Cardinality({v \in Siblings(u) : unit[v].isp = isp})
Preferred(u, isps) == {i \in isps : \A j \in isps : Uses(u, i) <= Uses(u, j)}

\* The reservation of an earlier attempt holds.
Reserved(u) == unit[u].isp # NoIsp

\* reserve_cycle_proxy_isp, under the row lock of the client.
ReserveIsp(u) ==
  /\ At(u, "reserve")
  /\ \/ /\ Reserved(u)
        /\ IF unit[u].isp \in attempt[u].isps
           THEN StepTo(u, "findList") /\ UNCHANGED unit
           ELSE Fail(u)
     \/ /\ ~Reserved(u)
        /\ \E isp \in Preferred(u, attempt[u].isps) :
             unit' = [unit EXCEPT ![u].isp = isp,
                        ![u].diversity = IF Uses(u, isp) = 0 THEN "unique" ELSE "reused"]
        /\ StepTo(u, "findList")
  /\ UNCHANGED <<catalog, bought, added, phone, bound, attempts, mishaps>>

\* A call that fails without effect.
Broken(u) ==
  /\ attempt[u].pc \in {"reserve", "findList", "findListAgain", "saveList", "findProxy",
                        "findProxyAgain", "updatePhone", "bind"}
  /\ Mishap /\ Fail(u)
  /\ UNCHANGED <<catalog, bought, added, phone, bound, attempts>>

\* Mutation of Named: the database is asked instead of the provider.
NamedWhenBound(stock, u) == {i \in Isp : stock[u][i] > 0 /\ bound[u] = i}

\* Lists (or proxies) that the provider has under the cycle's name.
Named(stock, u) == {i \in Isp : stock[u][i] > 0}
\* find() takes one of them; one with other settings is refused
\* (validateAndAlign, validateExisting).
Found(u, stock, next) ==
  \E i \in Named(stock, u) : IF i = unit[u].isp THEN StepTo(u, next) /\ UNCHANGED unit
                             ELSE Fail(u)

\* ensureProxyList: look for it, create it, and look again if that failed.
FindList(u) ==
  /\ At(u, "findList")
  /\ \/ Found(u, bought, "saveList")
     \/ Named(bought, u) = {} /\ StepTo(u, "buyList") /\ UNCHANGED unit
  /\ UNCHANGED <<catalog, bought, added, phone, bound, attempts, mishaps>>

BuyList(u) ==
  /\ At(u, "buyList")
  /\ \/ /\ bought' = [bought EXCEPT ![u][unit[u].isp] = @ + 1]
        /\ \/ StepTo(u, "saveList") /\ UNCHANGED mishaps
           \/ StepTo(u, "findListAgain") /\ Mishap
     \/ StepTo(u, "findListAgain") /\ Mishap /\ UNCHANGED bought
  /\ UNCHANGED <<catalog, unit, added, phone, bound, attempts>>

FindListAgain(u) ==
  /\ At(u, "findListAgain")
  /\ \/ Found(u, bought, "saveList")
     \/ Named(bought, u) = {} /\ Fail(u)
  /\ UNCHANGED <<catalog, bought, added, phone, bound, attempts, mishaps>>

\* saveProxyList is an upsert by the id of the list.
SaveList(u) ==
  /\ At(u, "saveList") /\ StepTo(u, "findProxy")
  /\ UNCHANGED <<catalog, unit, bought, added, phone, bound, attempts, mishaps>>

\* ensureDuoPlusProxy, in the same way.
FindProxy(u) ==
  /\ At(u, "findProxy")
  /\ \/ Found(u, added, "updatePhone")
     \/ Named(added, u) = {} /\ StepTo(u, "addProxy") /\ UNCHANGED unit
  /\ UNCHANGED <<catalog, bought, added, phone, bound, attempts, mishaps>>

\* A lost answer: look for the proxy by its name.
Lost(u) == StepTo(u, "findProxyAgain")

AddProxy(u) ==
  /\ At(u, "addProxy")
  /\ \/ /\ added' = [added EXCEPT ![u][unit[u].isp] = @ + 1]
        /\ \/ StepTo(u, "updatePhone") /\ UNCHANGED mishaps
           \/ Lost(u) /\ Mishap
     \/ Lost(u) /\ Mishap /\ UNCHANGED added
  /\ UNCHANGED <<catalog, unit, bought, phone, bound, attempts>>

FindProxyAgain(u) ==
  /\ At(u, "findProxyAgain")
  /\ \/ Found(u, added, "updatePhone")
     \/ Named(added, u) = {} /\ Fail(u)
  /\ UNCHANGED <<catalog, bought, added, phone, bound, attempts, mishaps>>

\* The phone is set to the proxy that was found or added, if there is one.
UpdatePhone(u) ==
  /\ At(u, "updatePhone")
  /\ phone' = [phone EXCEPT ![u] = IF Named(added, u) = {} THEN @ ELSE unit[u].isp]
  /\ \/ StepTo(u, "bind") /\ UNCHANGED <<unit, mishaps>>
     \/ Fail(u) /\ Mishap
  /\ UNCHANGED <<catalog, bought, added, bound, attempts>>

\* The binding of the cycle is updated, or inserted.
Bind(u) ==
  /\ At(u, "bind")
  /\ bound' = [bound EXCEPT ![u] = unit[u].isp]
  /\ StepTo(u, "done")
  /\ UNCHANGED <<catalog, unit, bought, added, phone, attempts, mishaps>>

ProvNext ==
  \/ \E isps \in SUBSET Isp : Relist(isps)
  \/ \E u \in Unit :
       ReadSeller(u) \/ ReserveIsp(u) \/ Broken(u) \/ FindList(u) \/ BuyList(u)
         \/ FindListAgain(u) \/ SaveList(u) \/ FindProxy(u) \/ AddProxy(u)
         \/ FindProxyAgain(u) \/ UpdatePhone(u) \/ Bind(u) \/ EndCycle(u)

ProvSpec == ProvInit /\ [][ProvNext]_provVars

----------------------------------------------------------------------------
\* At most one of a kind, of one ISP.
OnlyOne(stock) ==
  \A i \in Isp : stock[i] <= 1 /\ \A j \in Isp : stock[i] > 0 /\ stock[j] > 0 => i = j

\* "Reconcile by deterministic title before allowing an operator to retry":
\* whatever is lost and repeated, one list and one proxy exist for a cycle.
BoughtOnce == \A u \in Unit : OnlyOne(bought[u]) /\ OnlyOne(added[u])

\* A binding says what is so: the phone leaves by a list that was bought for
\* its cycle, registered at DuoPlus, of the ISP the cycle has reserved.
BindingIsTrue ==
  \A u \in Unit : bound[u] # NoIsp =>
    /\ bound[u] = unit[u].isp /\ phone[u] = bound[u]
    /\ bought[u][bound[u]] > 0 /\ added[u][bound[u]] > 0

\* A list that has been paid for is of the ISP reserved for its cycle, so a
\* repeated attempt never refuses what an earlier one bought.
PurchaseStaysUsable ==
  \A u \in Unit, i \in Isp : bought[u][i] + added[u][i] > 0 => unit[u].isp = i

\* Cycles of one client in one city that count as unique share no ISP, however
\* their reservations interleave.
UniqueIsUnique ==
  \A u, v \in Unit :
    u # v /\ unit[u].diversity = "unique" /\ unit[v].diversity = "unique"
      /\ unit[u].status # "over" /\ unit[v].status # "over" => unit[u].isp # unit[v].isp

\* What is reserved, bought, set and bound for a cycle agrees, and with the
\* cycles beside it.
BindingsHold == BindingIsTrue /\ PurchaseStaysUsable /\ UniqueIsUnique
=============================================================================
