----------------------------- MODULE MCLoanApply -----------------------------
(* The empty field, an amount within the limit and one beyond it; three    *)
(* requests let two plans, or a plan and an application, overlap.          *)
EXTENDS LoanApply, TLC

CONSTANTS k1, k2, r1, r2, r3

MCAmount == {0, 1, 3}
MCCard == {k1, k2}
MCSlot == {r1, r2, r3}
Symmetry == Permutations(MCCard) \cup Permutations(MCSlot)
=============================================================================
