----------------------------- MODULE ButtonTouch -----------------------------
(***************************************************************************)
(* The tap throttle the application installs on every UIButton by          *)
(* exchanging sendAction:to:forEvent: with mySendAction:to:forEvent:       *)
(* (category/UIButton+Touch.m).  An accepted tap raises isIgnoreEvent and  *)
(* schedules resetState with performSelector:afterDelay:; taps that arrive *)
(* while the flag is up are dropped.  The run loop delivers resetState no  *)
(* earlier than the delay, and possibly later: a delayed selector waits    *)
(* while the run loop is busy or tracks a scroll.                          *)
(***************************************************************************)
EXTENDS Naturals, Sequences

CONSTANTS
    Button,        \* the buttons on the screen
    Throttled,     \* those whose class is exactly UIButton or FSCustomButton
    timeInterval,  \* the seconds set on each button, 0 when it was never set
    MaxNow         \* bound: the last second of a behaviour

ASSUME ThrottleAssumption ==
    /\ Throttled \subseteq Button
    /\ timeInterval \in [Button -> Nat]
    /\ MaxNow \in Nat

VARIABLES
    now,            \* the clock, in seconds
    isIgnoreEvent,  \* per button: taps are being dropped
    resetDue,       \* per button: earliest second resetState may be delivered
    sent            \* per throttled button: when its action was sent, oldest first

touchVars == <<now, isIgnoreEvent, resetDue, sent>>

-----------------------------------------------------------------------------
(* A button nobody configured waits one second.                            *)
Interval(b) == IF timeInterval[b] = 0 THEN 1 ELSE timeInterval[b]

TouchTypeOK ==
    /\ now \in Nat
    /\ isIgnoreEvent \in [Button -> BOOLEAN]
    /\ resetDue \in [Button -> Nat]
    /\ sent \in [Button -> Seq(Nat)]

TouchInit ==
    /\ now = 0
    /\ isIgnoreEvent = [b \in Button |-> FALSE]
    /\ resetDue = [b \in Button |-> 0]
    /\ sent = [b \in Button |-> <<>>]

-----------------------------------------------------------------------------
(* Mutated form of mySendAction: the selector is scheduled a second short. *)
mySendActionShort(b) ==
    /\ isIgnoreEvent' = [isIgnoreEvent EXCEPT ![b] = TRUE]
    /\ IF b \in Throttled
       THEN /\ ~isIgnoreEvent[b]
            /\ now + Interval(b) <= MaxNow
            /\ resetDue' = [resetDue EXCEPT ![b] = now + Interval(b) - 1]
            /\ sent' = [sent EXCEPT ![b] = Append(@, now)]
       ELSE UNCHANGED <<resetDue, sent>>
    /\ UNCHANGED now

(* A tap whose action is sent (a dropped tap changes nothing).  A button   *)
(* of another class - a bar button, a picker's own button - raises the     *)
(* flag too but never looks at it, so its sends are not recorded.  The     *)
(* last seconds of the bound accept no tap whose reset would lie past it.  *)
mySendAction(b) ==
    /\ isIgnoreEvent' = [isIgnoreEvent EXCEPT ![b] = TRUE]
    /\ IF b \in Throttled
       THEN /\ ~isIgnoreEvent[b]
            /\ now + Interval(b) <= MaxNow
            /\ resetDue' = [resetDue EXCEPT ![b] = now + Interval(b)]
            /\ sent' = [sent EXCEPT ![b] = Append(@, now)]
       ELSE UNCHANGED <<resetDue, sent>>
    /\ UNCHANGED now

(* A mutated form of resetState: the selector is never performed.          *)
resetStateLost(b) == FALSE /\ UNCHANGED touchVars

(* The delayed selector; only a throttled button ever schedules it.        *)
resetState(b) ==
    /\ b \in Throttled
    /\ isIgnoreEvent[b]
    /\ now >= resetDue[b]
    /\ isIgnoreEvent' = [isIgnoreEvent EXCEPT ![b] = FALSE]
    /\ UNCHANGED <<now, resetDue, sent>>

(* One second passes.                                                      *)
Second ==
    /\ now < MaxNow
    /\ now' = now + 1
    /\ UNCHANGED <<isIgnoreEvent, resetDue, sent>>

TouchNext ==
    \/ \E b \in Button : mySendAction(b) \/ resetState(b)
    \/ Second

TouchSpec == TouchInit /\ [][TouchNext]_touchVars

(* The user owes no tap; the clock runs and the run loop delivers every    *)
(* delayed selector that is due.                                           *)
TouchFairSpec == TouchSpec /\ WF_touchVars(Second) /\ \A b \in Button : WF_touchVars(resetState(b))

-----------------------------------------------------------------------------
(* Two sends of the same throttled button are never closer than its        *)
(* interval, however late resetState is delivered: the promise of          *)
(* UIButton+Touch.m that the screens rely on instead of disabling a button *)
(* while its request is under way.                                         *)
Spacing ==
    \A b \in Throttled : \A i, j \in DOMAIN sent[b] :
        i < j => sent[b][j] >= sent[b][i] + Interval(b)

(* A dropped tap never costs the user the button: a raised flag always     *)
(* comes down again.                                                       *)
Recovers == \A b \in Throttled : isIgnoreEvent[b] ~> ~isIgnoreEvent[b]

(* What Spacing needs of every state: a send lies a full interval before   *)
(* the moment the flag may go down, or before now once it is down.         *)
FlagCoversInterval ==
    \A b \in Throttled : \A i \in DOMAIN sent[b] :
        IF isIgnoreEvent[b] THEN sent[b][i] + Interval(b) <= resetDue[b]
                            ELSE sent[b][i] + Interval(b) <= now
=============================================================================
