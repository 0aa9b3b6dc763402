---------------------------- MODULE MCPhonePower ----------------------------
(* Small instances of PhonePower for TLC. *)
EXTENDS PhonePower

CONSTANTS a, b, i1, i2, ra, rb, s1, s2

\* Every row stands for one phone: mirrors of two workspaces, or a single row.
OnePhone == [p \in Row |-> i1]

\* Two phones share a pool.
TwoPhones == [p \in Row |-> IF p = a THEN i1 ELSE i2]

OwnRow == [r \in Run |-> IF r = ra THEN a ELSE b]
=============================================================================
