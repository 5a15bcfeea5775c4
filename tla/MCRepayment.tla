----------------------------- MODULE MCRepayment -----------------------------
(* Three bills give a selection to grow and shrink, two cards a choice;    *)
(* two repayments may be under way together.  The amounts are one that     *)
(* puts a sum as far off as three bills below the limit do (0.33 cents),   *)
(* one that goes wrong beyond it, and some of different sizes.             *)
EXTENDS Repayment, TLC

CONSTANTS b1, b2, b3, k1, k2, r1, r2

MCBill == {b1, b2, b3}
MCCard == {k1, k2}
MCSlot == {r1, r2}
Cents(x, y, z) == b1 :> x @@ b2 :> y @@ b3 :> z
MCDue == {Cents(1488819, 898273, 864219), Cents(124833, 837185, 2530895),
          Cents(100010, 99999, 51237), Cents(1638399, 819201, 819199),
          Cents(333333, 333333, 333334)}
Symmetry == Permutations(MCCard) \cup Permutations(MCSlot)
=============================================================================
