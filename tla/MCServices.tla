----------------------------- MODULE MCServices -----------------------------
(***************************************************************************)
(* Small instances of the modules about the services behind the scheduler: *)
(* Connections, RateSlots, PagedFetch and Provisioning.  They share no     *)
(* state: a behaviour picks one of them at its start, and for Connections  *)
(* whether keys were saved before there were pools.                        *)
(***************************************************************************)
EXTENDS Connections, RateSlots, PagedFetch, Provisioning, TLC

CONSTANTS a1, a2, a3, b1, b2, d1, d2, r1, r2, p1

VARIABLE part

ServicesVars == <<part, connVars, rateVars, fetchVars, provVars>>

ServicesInit ==
  /\ part \in {"connections", "unpooled", "rates", "fetch", "proxies"}
  /\ ConnInit /\ RateInit /\ FetchInit /\ ProvInit
  /\ (part = "unpooled") <=> \E c \in Conn : conn[c] # Absent

ServicesNext ==
  /\ UNCHANGED part
  /\ \/ /\ part \in {"connections", "unpooled"} /\ ConnNext
        /\ UNCHANGED <<rateVars, fetchVars, provVars>>
     \/ part = "rates" /\ RateNext /\ UNCHANGED <<connVars, fetchVars, provVars>>
     \/ part = "fetch" /\ FetchNext /\ UNCHANGED <<connVars, rateVars, provVars>>
     \/ part = "proxies" /\ ProvNext /\ UNCHANGED <<connVars, rateVars, fetchVars>>

ServicesSpec == ServicesInit /\ [][ServicesNext]_ServicesVars

TwoGaps == [c \in RateConn |-> IF c = r1 THEN 1 ELSE 2]

\* Two workspaces while no time passes and no key is revoked, one for the rest.
MaxHistory == IF part = "unpooled" THEN 2 ELSE 4
Changes == MapThenSumSet(LAMBDA c : conn[c].generation, Conn)
Bounded ==
  /\ time <= 3
  /\ clock > 1 \/ refused # {} => \E c \in Conn : conn[c] = Absent
  /\ clock + Changes <= MaxHistory

\* The parts share model values (callers, cycles and providers are named like
\* connections and requests), which keeps the group small.
Symmetry == Permutations(Conn) \cup Permutations(Key) \cup Permutations(Request)

\* The types of the parts, each of them constrained beyond its sets.
ServicesTypeOK == ConnTypeOK /\ RateTypeOK /\ ProvTypeOK
=============================================================================
