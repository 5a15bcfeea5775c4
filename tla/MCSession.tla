------------------------------ MODULE MCSession ------------------------------
(* Three tokens let a session be replaced twice; three requests let a late *)
(* answer of the first session meet the login of the second.               *)
EXTENDS Session, TLC

CONSTANTS t1, t2, t3, s1, s2, s3

MCToken == {t1, t2, t3}
MCSlot == {s1, s2, s3}
Symmetry == Permutations(MCToken) \cup Permutations(MCSlot)
=============================================================================
