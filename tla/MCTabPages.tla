----------------------------- MODULE MCTabPages -----------------------------
(* Five accounts: unknown (an answer without a state), authentication      *)
(* begun, approved, repaying, overdue.                                     *)
EXTENDS TabPages, TLC

CONSTANTS h1, h2, r1, r2

Account(state, credit, over) ==
    [userState |-> state, creditAppstate |-> credit, overFlag |-> over]

MCFact ==
    {Account(0, 0, 0), Account(2, 0, 0), Account(4, 1, 0), Account(6, 1, 1), Account(6, 1, 0)}

Symmetry == Permutations({h1, h2}) \cup Permutations({r1, r2})
=============================================================================
