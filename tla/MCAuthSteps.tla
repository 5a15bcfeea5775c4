---------------------------- MODULE MCAuthSteps -----------------------------
(* Two requests let a second submission of a page, or one of a page that   *)
(* was left, be answered later than the first.                             *)
EXTENDS AuthSteps, TLC

CONSTANTS s1, s2

Symmetry == Permutations({s1, s2})
=============================================================================
