------------------------------ MODULE MCForms -------------------------------
(* Two cells for three rows: either may come back in any row, and serve    *)
(* both addresses in turn. Five photographs, of which two show the same:   *)
(* three, at which the page changes its behaviour, one more, and a twin.   *)
(* Of the applicant's entries one of a contact's alert and one typed are   *)
(* followed: both may be emptied again. (One picked never is.)             *)
EXTENDS Forms, TLC

CONSTANTS c1, c2, a1, a2, a3, a4, a5, p1, p2, p3, p4

MCContent == a1 :> p1 @@ a2 :> p1 @@ a3 :> p2 @@ a4 :> p3 @@ a5 :> p4

MCWatched == {"relation1Mobile", "custJob"}

Symmetry == Permutations({c1, c2}) \cup Permutations({a1, a2})
=============================================================================
