---------------------------- MODULE MCButtonTouch ----------------------------
(* A loan screen's buttons: the submit button with its five seconds, a     *)
(* plain button with the default, and a bar button of another class.       *)
EXTENDS ButtonTouch

CONSTANTS nextBut, sureBut, barBut

MCButton == {nextBut, sureBut, barBut}
MCThrottled == {nextBut, sureBut}
MCInterval == [b \in MCButton |-> IF b = nextBut THEN 3 ELSE 0]
=============================================================================
