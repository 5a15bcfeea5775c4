------------------------------- MODULE SmsCode -------------------------------
(***************************************************************************)
(* The verification-code button of LoginViewController (BankAuthen- and    *)
(* OperatorViewController hold a copy): a successful request starts a      *)
(* dispatch timer on a global queue, whose events post blocks to the main  *)
(* queue; the blocks count down on the button and give it back at the end. *)
(* Replies, edits and blocks all run on the main queue, the timers beside  *)
(* it.  Several countdowns may run at once.                                *)
(***************************************************************************)
EXTENDS Naturals, Sequences, FiniteSets

CONSTANTS
    Timer,        \* bound: the countdowns at one time
    Seconds,      \* a countdown's length
    MaxRequests,  \* bound: code requests under way (the throttle lets one
                  \* through every three seconds)
    MaxBlocks     \* bound: a timer's blocks on the main queue, which is late
                  \* when there is more than one

ASSUME CountdownAssumption ==
    /\ Seconds \in Nat \ {0}
    /\ MaxRequests \in Nat /\ MaxBlocks \in Nat

VARIABLES
    phone,             \* phoneText: "short", "full" (11 characters) or
                       \* "mobile" (11 characters that isPhoneNumber accepts)
    code,              \* codeText: "short" or "full"
    codeBut,           \* codeBut.enabled
    loginBut,          \* loginBut.enabled
    isGetCodeSuccess,
    waiting,           \* number of code requests under way
    running,           \* the timers that are not cancelled
    timeout,           \* each timer's captured counter
    mainQueue          \* the blocks posted to the main queue, oldest first

fields == <<phone, code, loginBut>>
codeVars == <<fields, codeBut, isGetCodeSuccess, waiting, running, timeout, mainQueue>>

Block == [timer : Timer, kind : {"tick", "end"}]

CodeTypeOK ==
    /\ phone \in {"short", "full", "mobile"} /\ code \in {"short", "full"}
    /\ codeBut \in BOOLEAN /\ loginBut \in BOOLEAN /\ isGetCodeSuccess \in BOOLEAN
    /\ waiting \in 0..MaxRequests
    /\ running \subseteq Timer
    /\ timeout \in [Timer -> 0..Seconds]
    /\ mainQueue \in Seq(Block)

CodeInit ==
    /\ phone = "short" /\ code = "short"
    /\ codeBut = FALSE /\ loginBut = FALSE /\ isGetCodeSuccess = FALSE
    /\ waiting = 0
    /\ running = {}
    /\ timeout = [t \in Timer |-> 0]
    /\ mainQueue = <<>>

-----------------------------------------------------------------------------
(* Mutated form of textFieldDidChange: it returns while a code was sent.   *)
textFieldDidChangeReturns(p, c, tag) ==
    /\ phone' = p /\ code' = c
    /\ IF isGetCodeSuccess THEN UNCHANGED <<codeBut, loginBut>>
       ELSE /\ codeBut' = IF tag = 1 THEN p # "short" ELSE codeBut
            /\ loginBut' = (p # "short" /\ c = "full")

(* The fields hold p and c after an edit of the field with this tag.       *)
textFieldDidChange(p, c, tag) ==
    /\ phone' = p /\ code' = c
    /\ codeBut' = IF tag = 1 /\ ~isGetCodeSuccess THEN p # "short" ELSE codeBut
    /\ loginBut' = (p # "short" /\ c = "full")

textDidChange ==
    /\ \E p \in {"short", "full", "mobile"} : textFieldDidChange(p, code, 1)
    /\ UNCHANGED <<isGetCodeSuccess, waiting, running, timeout, mainQueue>>

codeTextClick ==
    /\ \E c \in {"short", "full"} : textFieldDidChange(phone, c, 2)
    /\ UNCHANGED <<isGetCodeSuccess, waiting, running, timeout, mainQueue>>

(* The code button asks for a code; a number that is none is not asked for.*)
codeButtonClick ==
    /\ codeBut
    /\ phone = "mobile"
    /\ waiting < MaxRequests
    /\ waiting' = waiting + 1
    /\ UNCHANGED <<fields, codeBut, isGetCodeSuccess, running, timeout, mainQueue>>

BlocksOf(t) == {i \in DOMAIN mainQueue : mainQueue[i].timer = t}

(* The reply of getSysCode: the code was sent.                             *)
getSysCodeSuccess(t) ==
    /\ waiting > 0
    /\ t \notin running /\ BlocksOf(t) = {}
    /\ waiting' = waiting - 1
    /\ isGetCodeSuccess' = TRUE
    /\ running' = running \cup {t}
    /\ timeout' = [timeout EXCEPT ![t] = Seconds]
    /\ UNCHANGED <<fields, codeBut, mainQueue>>

(* Mutated form of getSysCodeFailure: the flag is raised before the result *)
(* is looked at.                                                           *)
getSysCodeFailureRaises ==
    /\ waiting > 0
    /\ waiting' = waiting - 1
    /\ isGetCodeSuccess' = TRUE
    /\ UNCHANGED <<fields, codeBut, running, timeout, mainQueue>>

getSysCodeFailure ==
    /\ waiting > 0
    /\ waiting' = waiting - 1
    /\ UNCHANGED <<fields, codeBut, isGetCodeSuccess, running, timeout, mainQueue>>

-----------------------------------------------------------------------------
(* Mutated form of timerEvent: the last event cancels and posts nothing.   *)
timerEventSilent(t) ==
    /\ t \in running
    /\ Cardinality(BlocksOf(t)) < MaxBlocks
    /\ IF timeout[t] = 0
       THEN /\ running' = running \ {t}
            /\ UNCHANGED <<timeout, mainQueue>>
       ELSE /\ timeout' = [timeout EXCEPT ![t] = @ - 1]
            /\ mainQueue' = Append(mainQueue, [timer |-> t, kind |-> "tick"])
            /\ UNCHANGED running
    /\ UNCHANGED <<fields, codeBut, isGetCodeSuccess, waiting>>

(* The timer's event handler, once a second, on a global queue.            *)
timerEvent(t) ==
    /\ t \in running
    /\ Cardinality(BlocksOf(t)) < MaxBlocks
    /\ IF timeout[t] = 0
       THEN /\ running' = running \ {t}
            /\ mainQueue' = Append(mainQueue, [timer |-> t, kind |-> "end"])
            /\ UNCHANGED timeout
       ELSE /\ timeout' = [timeout EXCEPT ![t] = @ - 1]
            /\ mainQueue' = Append(mainQueue, [timer |-> t, kind |-> "tick"])
            /\ UNCHANGED running
    /\ UNCHANGED <<fields, codeBut, isGetCodeSuccess, waiting>>

(* Mutated form of mainBlock: the end only restores the title.             *)
mainBlockTitleOnly ==
    /\ mainQueue # <<>>
    /\ mainQueue' = Tail(mainQueue)
    /\ IF Head(mainQueue).kind = "tick"
       THEN codeBut' = FALSE /\ isGetCodeSuccess' = FALSE
       ELSE UNCHANGED <<codeBut, isGetCodeSuccess>>
    /\ UNCHANGED <<fields, waiting, running, timeout>>

(* The oldest block of the main queue: a tick disables the button and      *)
(* takes the flag down, the end enables the button.                        *)
mainBlock ==
    /\ mainQueue # <<>>
    /\ mainQueue' = Tail(mainQueue)
    /\ IF Head(mainQueue).kind = "tick"
       THEN codeBut' = FALSE /\ isGetCodeSuccess' = FALSE
       ELSE codeBut' = TRUE /\ UNCHANGED isGetCodeSuccess
    /\ UNCHANGED <<fields, waiting, running, timeout>>

CodeNext ==
    \/ textDidChange \/ codeTextClick \/ codeButtonClick
    \/ getSysCodeFailure
    \/ \E t \in Timer : getSysCodeSuccess(t) \/ timerEvent(t)
    \/ mainBlock

CodeSpec == CodeInit /\ [][CodeNext]_codeVars

(* Neither the user nor the server owes anything; the timers fire and the  *)
(* main queue is served.                                                   *)
CodeFairSpec == CodeSpec /\ WF_codeVars(mainBlock) /\ \A t \in Timer : WF_codeVars(timerEvent(t))

-----------------------------------------------------------------------------
(* The flag that keeps edits from touching the button is never left up     *)
(* for good: while it is up, a tick that takes it down is still to come.   *)
FlagHasTick ==
    isGetCodeSuccess =>
        \/ \E t \in running : timeout[t] = Seconds
        \/ \E i \in DOMAIN mainQueue : mainQueue[i].kind = "tick"

(* With no countdown left - no timer, no block - a complete number can     *)
(* always ask for a code, however countdowns, edits and failures overlapped.*)
RestEnables ==
    (running = {} /\ mainQueue = <<>> /\ phone # "short") => codeBut

(* The login button follows both fields, also while a code is on its way.  *)
LoginButMatchesFields == loginBut <=> (phone # "short" /\ code = "full")

(* A countdown ends with the button given back.                            *)
CountdownEnds == (running # {}) ~> codeBut
=============================================================================
