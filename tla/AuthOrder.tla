----------------------------- MODULE AuthOrder ------------------------------
(***************************************************************************)
(* What the authentication promises: the steps are accepted in their order *)
(* (again as often as one likes), and the end is reached by those who have *)
(* all of them. AuthSteps implements it.                                   *)
(***************************************************************************)
EXTENDS Naturals, Sequences

CONSTANT order   \* the steps, in their order

VARIABLES
    done,      \* the steps accepted
    finished   \* the last page has been reached, and not left

orderVars == <<done, finished>>

Steps == {order[i] : i \in DOMAIN order}

OrderInit ==
    /\ done = {}
    /\ finished = FALSE

Accept(i) ==
    /\ {order[j] : j \in 1..(i - 1)} \subseteq done
    /\ done' = done \cup {order[i]}
    /\ UNCHANGED finished

Finish ==
    /\ done = Steps
    /\ finished' = TRUE
    /\ UNCHANGED done

Leave ==
    /\ finished
    /\ finished' = FALSE
    /\ UNCHANGED done

OrderNext ==
    \/ \E i \in DOMAIN order : Accept(i)
    \/ Finish
    \/ Leave

OrderSpec == OrderInit /\ [][OrderNext]_orderVars
=============================================================================
