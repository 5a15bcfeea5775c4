---------------------------- MODULE MCFaceCapture ----------------------------
(* Two captures: a face is replaced by another, and a frame of the first   *)
(* meets the second.                                                      *)
EXTENDS FaceCapture

CONSTANTS c1, c2

MCCapture == {c1, c2}
=============================================================================
