----------------------------- MODULE SignInLife -----------------------------
(***************************************************************************)
(* What the session layer promises, without requests, headers or the       *)
(* defaults database: who is signed in, which window is up, and whom a     *)
(* relaunch would bring back.  A relaunch may revive a session that was    *)
(* just dropped (its removal is not yet on disk), but never one that a     *)
(* later sign-in had replaced.                                             *)
(***************************************************************************)
CONSTANTS
    Token,    \* the session tokens the server hands out
    NoToken   \* nobody is signed in

VARIABLES
    who,      \* the session of the running process
    kept,     \* the session a relaunch starts with
    window    \* the root of the window: "login" or "tabs"

lifeVars == <<who, kept, window>>

WindowFor(t) == IF t = NoToken THEN "login" ELSE "tabs"

Init ==
    /\ kept \in Token \cup {NoToken}
    /\ who = kept
    /\ window = WindowFor(kept)

SignIn(t) == who' = t /\ kept' = t /\ window' = "tabs"

(* The server turned the session down: the window returns to the login     *)
(* screen, or (an upload was turned down) stays where it is.               *)
Expel ==
    /\ who' = NoToken
    /\ kept' = kept
    /\ window' \in {"login", window}

(* The removal of a dropped session reaches the disk.                      *)
Forget ==
    /\ who = NoToken
    /\ kept' = NoToken
    /\ UNCHANGED <<who, window>>

(* The window is rebuilt for whoever is signed in.                         *)
Rebuild == window' = WindowFor(who) /\ UNCHANGED <<who, kept>>

Relaunch == who' = kept /\ window' = WindowFor(kept) /\ UNCHANGED kept

Next ==
    \/ \E t \in Token : SignIn(t)
    \/ Expel
    \/ Forget
    \/ Rebuild
    \/ Relaunch

Spec == Init /\ [][Next]_lifeVars
=============================================================================
