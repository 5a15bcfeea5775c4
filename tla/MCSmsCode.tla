------------------------------ MODULE MCSmsCode ------------------------------
(* Two countdowns of three seconds overlap in every way; three requests    *)
(* let one be answered after both have begun.                              *)
EXTENDS SmsCode

CONSTANTS c1, c2

MCTimer == {c1, c2}
=============================================================================
