--------------------------- MODULE MCRunDispatch ---------------------------
(* Small instances of RunDispatch for TLC. *)
EXTENDS RunDispatch, TLC

CONSTANTS r1, r2, p1, w1, w2

\* Both runs compete for one phone.
OnePhone == [r \in Run |-> p1]

\* Both runs move as long as at most one fault has happened and the user has
\* interfered with at most one of them; after that only one goes on.
Moved(r)   == run[r] # NewRow \/ ~enabled[r]
Stopped(r) == run[r].cancel \/ ~enabled[r]
Scope ==
  \/ faults <= 1 /\ Cardinality({r \in Run : Stopped(r)}) <= 1
  \/ Cardinality({r \in Run : Moved(r)}) <= 1

Symmetry == Permutations(Run) \cup Permutations(Worker)
=============================================================================
