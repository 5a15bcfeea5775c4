------------------------------ MODULE LoginProofs ------------------------------
(* Signing in, from the touch to the session: the throttle of every button *)
(* (ButtonTouch), the button that asks for a code (SmsCode), and the       *)
(* session that follows (Session), each for every value of its constants.  *)
EXTENDS Session, SmsCode, ButtonTouch, TLAPS

-----------------------------------------------------------------------------
(* The throttle keeps its promise for every set of buttons, every choice   *)
(* of intervals and every delay of the run loop.                           *)

(* A button's interval is a positive number of seconds, also when nobody   *)
(* set timeInterval: the default of mySendAction replaces the zero.        *)
LEMMA IntervalPositive ==
    ASSUME NEW b \in Throttled
    PROVE  Interval(b) \in Nat \ {0}
BY ThrottleAssumption DEF Interval

(* The variables keep their types: the flag is a Boolean per button, the   *)
(* due time and the record of sends are seconds.                           *)
THEOREM TouchTypeCorrect == TouchSpec => []TouchTypeOK
<1>1. TouchInit => TouchTypeOK
  BY DEF TouchInit, TouchTypeOK
<1>2. TouchTypeOK /\ [TouchNext]_touchVars => TouchTypeOK'
  <2> SUFFICES ASSUME TouchTypeOK, [TouchNext]_touchVars PROVE TouchTypeOK'
    OBVIOUS
  <2>1. ASSUME NEW b \in Button, mySendAction(b) PROVE TouchTypeOK'
    <3>1. CASE b \in Throttled
      <4>1. now + Interval(b) \in Nat
        BY <3>1, IntervalPositive DEF TouchTypeOK
      <4>2. Append(sent[b], now) \in Seq(Nat)
        BY DEF TouchTypeOK
      <4>3. QED
        BY <2>1, <3>1, <4>1, <4>2 DEF mySendAction, TouchTypeOK
    <3>2. CASE b \notin Throttled
      BY <2>1, <3>2 DEF mySendAction, TouchTypeOK
    <3>3. QED
      BY <3>1, <3>2
  <2>2. ASSUME NEW b \in Button, resetState(b) PROVE TouchTypeOK'
    BY <2>2 DEF resetState, TouchTypeOK
  <2>3. CASE Second
    BY <2>3 DEF Second, TouchTypeOK
  <2>4. CASE UNCHANGED touchVars
    BY <2>4 DEF touchVars, TouchTypeOK
  <2>5. QED
    BY <2>1, <2>2, <2>3, <2>4 DEF TouchNext
<1>3. QED
  BY <1>1, <1>2, PTL DEF TouchSpec

(* Spacing is not inductive: a send is safe only because the flag covers   *)
(* the interval of every earlier one, which is what FlagCoversInterval     *)
(* adds.                                                                   *)
TouchInv == Spacing /\ FlagCoversInterval

(* Two sends of a throttled button are never closer than its interval, the *)
(* promise of mySendAction and resetState in UIButton+Touch.m.             *)
THEOREM SpacingHolds == TouchSpec => []Spacing
<1>1. TouchInit => TouchInv
  BY ThrottleAssumption DEF TouchInit, TouchInv, Spacing, FlagCoversInterval
<1>2. TouchTypeOK /\ TouchInv /\ [TouchNext]_touchVars => TouchInv'
  <2> SUFFICES ASSUME TouchTypeOK, TouchInv, [TouchNext]_touchVars PROVE TouchInv'
    OBVIOUS
  <2>1. ASSUME NEW c \in Button, mySendAction(c) PROVE TouchInv'
    <3>1. CASE c \notin Throttled
      BY <2>1, <3>1 DEF mySendAction, TouchInv, Spacing, FlagCoversInterval, TouchTypeOK
    <3>2. CASE c \in Throttled
      <4>1. Interval(c) \in Nat \ {0}
        BY <3>2, IntervalPositive
      <4>2. /\ sent[c] \in Seq(Nat)
            /\ sent'[c] = Append(sent[c], now)
            /\ resetDue'[c] = now + Interval(c)
            /\ isIgnoreEvent'[c] = TRUE
            /\ now' = now
            /\ ~isIgnoreEvent[c]
        BY <2>1, <3>2 DEF mySendAction, TouchTypeOK
      <4>3. \A b \in Throttled : b # c => /\ sent'[b] = sent[b]
                                          /\ resetDue'[b] = resetDue[b]
                                          /\ isIgnoreEvent'[b] = isIgnoreEvent[b]
        BY <2>1, <3>2, ThrottleAssumption DEF mySendAction, TouchTypeOK
      <4>4. \A i \in DOMAIN sent[c] : sent[c][i] + Interval(c) <= now
        BY <3>2, <4>2 DEF TouchInv, FlagCoversInterval
      <4>5. \A i \in DOMAIN sent'[c] :
               \/ i \in DOMAIN sent[c] /\ sent'[c][i] = sent[c][i]
               \/ i = Len(sent[c]) + 1 /\ sent'[c][i] = now
        BY <4>2
      <4>6. \A i \in DOMAIN sent[c] : i \in 1..Len(sent[c]) /\ sent[c][i] \in Nat
        BY <4>2
      <4>7. ASSUME NEW i \in DOMAIN sent'[c], NEW j \in DOMAIN sent'[c], i < j
            PROVE  sent'[c][j] >= sent'[c][i] + Interval(c)
        <5>1. i \in DOMAIN sent[c] /\ sent'[c][i] = sent[c][i]
          BY <4>2, <4>5, <4>6, <4>7
        <5>2. CASE j = Len(sent[c]) + 1 /\ sent'[c][j] = now
          BY <5>1, <5>2, <4>1, <4>4, <4>6 DEF TouchTypeOK
        <5>3. CASE j \in DOMAIN sent[c] /\ sent'[c][j] = sent[c][j]
          BY <5>1, <5>3, <4>7, <3>2 DEF TouchInv, Spacing
        <5>4. QED
          BY <4>5, <5>2, <5>3
      <4>8. \A i \in DOMAIN sent'[c] : sent'[c][i] + Interval(c) <= resetDue'[c]
        BY <4>1, <4>2, <4>4, <4>5, <4>6 DEF TouchTypeOK
      <4>9. Spacing'
        BY <4>3, <4>7 DEF TouchInv, Spacing
      <4>10. FlagCoversInterval'
        BY <4>2, <4>3, <4>8 DEF TouchInv, FlagCoversInterval
      <4>11. QED
        BY <4>9, <4>10 DEF TouchInv
    <3>3. QED
      BY <3>1, <3>2
  <2>2. ASSUME NEW c \in Button, resetState(c) PROVE TouchInv'
    <3>1. Spacing'
      BY <2>2 DEF resetState, TouchInv, Spacing
    <3>2. ASSUME NEW b \in Throttled, NEW i \in DOMAIN sent'[b]
          PROVE  IF isIgnoreEvent'[b] THEN sent'[b][i] + Interval(b) <= resetDue'[b]
                                      ELSE sent'[b][i] + Interval(b) <= now'
      <4>1. sent[b][i] \in Nat /\ Interval(b) \in Nat /\ resetDue[b] \in Nat /\ b \in Button
        BY <2>2, <3>2, IntervalPositive, ThrottleAssumption DEF resetState, TouchTypeOK
      <4>2. sent' = sent /\ resetDue' = resetDue /\ now' = now /\ now >= resetDue[c]
        BY <2>2 DEF resetState
      <4>3. isIgnoreEvent'[b] = IF b = c THEN FALSE ELSE isIgnoreEvent[b]
        BY <2>2, <4>1 DEF resetState, TouchTypeOK
      <4>4. IF isIgnoreEvent[b] THEN sent[b][i] + Interval(b) <= resetDue[b]
                                ELSE sent[b][i] + Interval(b) <= now
        BY <4>2 DEF TouchInv, FlagCoversInterval
      <4>5. QED
        BY <2>2, <4>1, <4>2, <4>3, <4>4 DEF resetState, TouchTypeOK
    <3>3. FlagCoversInterval'
      BY <3>2 DEF FlagCoversInterval
    <3>4. QED
      BY <3>1, <3>3 DEF TouchInv
  <2>3. CASE Second
    <3>1. Spacing'
      BY <2>3 DEF Second, TouchInv, Spacing
    <3>2. ASSUME NEW b \in Throttled, NEW i \in DOMAIN sent[b]
          PROVE  sent[b][i] \in Nat /\ Interval(b) \in Nat
      BY IntervalPositive, ThrottleAssumption DEF TouchTypeOK
    <3>3. FlagCoversInterval'
      BY <2>3, <3>2 DEF Second, TouchInv, FlagCoversInterval, TouchTypeOK
    <3>4. QED
      BY <3>1, <3>3 DEF TouchInv
  <2>4. CASE UNCHANGED touchVars
    BY <2>4 DEF touchVars, TouchInv, Spacing, FlagCoversInterval
  <2>5. QED
    BY <2>1, <2>2, <2>3, <2>4 DEF TouchNext
<1>3. TouchInv => Spacing
  BY DEF TouchInv
<1>4. QED
  BY <1>1, <1>2, <1>3, TouchTypeCorrect, PTL DEF TouchSpec

-----------------------------------------------------------------------------
(* The code button, for every length of a countdown and every number of    *)
(* overlapping countdowns: the flag is never left up, and the button is    *)
(* given back.                                                             *)

(* The variables keep their types.                                         *)
THEOREM CodeTypeCorrect == CodeSpec => []CodeTypeOK
<1>1. CodeInit => CodeTypeOK
  <2> SUFFICES ASSUME CodeInit PROVE CodeTypeOK
    OBVIOUS
  <2>1. 0 \in 0..Seconds /\ 0 \in 0..MaxRequests
    BY CountdownAssumption
  <2>2. timeout \in [Timer -> 0..Seconds] /\ waiting \in 0..MaxRequests
    BY <2>1 DEF CodeInit
  <2>3. mainQueue \in Seq(Block)
    BY DEF CodeInit
  <2>4. QED
    BY <2>2, <2>3 DEF CodeInit, CodeTypeOK
<1>2. CodeTypeOK /\ [CodeNext]_codeVars => CodeTypeOK'
  <2> SUFFICES ASSUME CodeTypeOK, [CodeNext]_codeVars PROVE CodeTypeOK'
    OBVIOUS
  <2> USE CountdownAssumption DEF CodeTypeOK
  <2>1. CASE textDidChange
    BY <2>1 DEF textDidChange, textFieldDidChange
  <2>2. CASE codeTextClick
    BY <2>2 DEF codeTextClick, textFieldDidChange
  <2>3. CASE codeButtonClick
    BY <2>3 DEF codeButtonClick, fields
  <2>4. CASE getSysCodeFailure
    BY <2>4 DEF getSysCodeFailure, fields
  <2>5. ASSUME NEW t \in Timer, getSysCodeSuccess(t) PROVE CodeTypeOK'
    BY <2>5 DEF getSysCodeSuccess, fields
  <2>6. ASSUME NEW t \in Timer, timerEvent(t) PROVE CodeTypeOK'
    <3>1. \A k \in {"tick", "end"} : Append(mainQueue, [timer |-> t, kind |-> k]) \in Seq(Block)
      BY DEF Block
    <3>2. CASE timeout[t] = 0
      BY <2>6, <3>1, <3>2 DEF timerEvent, fields
    <3>3. CASE timeout[t] # 0
      <4>1. timeout[t] - 1 \in 0..Seconds
        BY <3>3
      <4>2. timeout' \in [Timer -> 0..Seconds]
        BY <2>6, <3>3, <4>1 DEF timerEvent
      <4>3. QED
        BY <2>6, <3>1, <3>3, <4>2 DEF timerEvent, fields
    <3>4. QED
      BY <3>2, <3>3
  <2>7. CASE mainBlock
    <3>1. mainQueue' \in Seq(Block)
      BY <2>7 DEF mainBlock
    <3>2. QED
      BY <2>7, <3>1 DEF mainBlock, fields
  <2>8. CASE UNCHANGED codeVars
    BY <2>8 DEF codeVars, fields
  <2>9. QED
    BY <2>1, <2>2, <2>3, <2>4, <2>5, <2>6, <2>7, <2>8 DEF CodeNext
<1>3. QED
  BY <1>1, <1>2, PTL DEF CodeSpec

-----------------------------------------------------------------------------
(* RestEnables needs to know how the last countdown leaves the queue: when *)
(* no timer runs, the youngest block waiting is an end.                    *)
LastBlockEnds ==
    (running = {} /\ mainQueue # <<>>) => mainQueue[Len(mainQueue)].kind = "end"

CodeInv == FlagHasTick /\ RestEnables /\ LastBlockEnds

(* Posting a block keeps the ticks that wait, and adds one if it is one.   *)
LEMMA PostKeepsTicks ==
    ASSUME CodeTypeOK, NEW b \in Block, mainQueue' = Append(mainQueue, b)
    PROVE  /\ (\E i \in DOMAIN mainQueue : mainQueue[i].kind = "tick")
                 => \E i \in DOMAIN mainQueue' : mainQueue'[i].kind = "tick"
           /\ b.kind = "tick" => \E i \in DOMAIN mainQueue' : mainQueue'[i].kind = "tick"
           /\ mainQueue' # <<>> /\ mainQueue'[Len(mainQueue')] = b
<1> USE DEF CodeTypeOK
<1>1. /\ Len(mainQueue') = Len(mainQueue) + 1
      /\ mainQueue'[Len(mainQueue) + 1] = b
      /\ \A i \in DOMAIN mainQueue : i \in DOMAIN mainQueue' /\ mainQueue'[i] = mainQueue[i]
      /\ Len(mainQueue) + 1 \in DOMAIN mainQueue'
  OBVIOUS
<1>2. QED
  BY <1>1

(* A state in which nothing that the invariant speaks of changed, except   *)
(* that codeBut may have followed the phone while the flag was down.       *)
LEMMA EditKeeps ==
    ASSUME CodeInv, UNCHANGED <<isGetCodeSuccess, running, timeout, mainQueue>>,
           \/ ~isGetCodeSuccess /\ codeBut' = (phone' # "short")
           \/ isGetCodeSuccess
           \/ UNCHANGED <<phone, codeBut>>
    PROVE  CodeInv'
<1>1. FlagHasTick' /\ LastBlockEnds'
  BY DEF CodeInv, FlagHasTick, LastBlockEnds
<1>2. RestEnables'
  <2> SUFFICES ASSUME running = {}, mainQueue = <<>>, phone' # "short" PROVE codeBut'
    BY DEF RestEnables
  <2>1. ~isGetCodeSuccess
    BY DEF CodeInv, FlagHasTick
  <2>2. CASE codeBut' = (phone' # "short")
    BY <2>2
  <2>3. CASE UNCHANGED <<phone, codeBut>>
    BY <2>3 DEF CodeInv, RestEnables
  <2>4. QED
    BY <2>1, <2>2, <2>3
<1>3. QED
  BY <1>1, <1>2 DEF CodeInv

(* The flag always has a tick to come, a countdown always hands back.      *)
THEOREM CodeInvHolds == CodeSpec => []CodeInv
<1>1. CodeInit => CodeInv
  BY DEF CodeInit, CodeInv, FlagHasTick, RestEnables, LastBlockEnds
<1>2. CodeTypeOK /\ CodeInv /\ [CodeNext]_codeVars => CodeInv'
  <2> SUFFICES ASSUME CodeTypeOK, CodeInv, [CodeNext]_codeVars PROVE CodeInv'
    OBVIOUS
  <2>1. CASE textDidChange
    BY <2>1, EditKeeps DEF textDidChange, textFieldDidChange
  <2>2. CASE codeTextClick
    <3>1. UNCHANGED <<phone, codeBut>>
      BY <2>2 DEF codeTextClick, textFieldDidChange
    <3>2. QED
      BY <2>2, <3>1, EditKeeps DEF codeTextClick
  <2>3. CASE codeButtonClick
    BY <2>3, EditKeeps DEF codeButtonClick, fields
  <2>4. CASE getSysCodeFailure
    BY <2>4, EditKeeps DEF getSysCodeFailure, fields
  <2>5. ASSUME NEW t \in Timer, getSysCodeSuccess(t) PROVE CodeInv'
    <3>1. t \in running' /\ timeout'[t] = Seconds
      BY <2>5 DEF getSysCodeSuccess, CodeTypeOK
    <3>2. QED
      BY <3>1 DEF CodeInv, FlagHasTick, RestEnables, LastBlockEnds
  <2>6. ASSUME NEW t \in Timer, timerEvent(t) PROVE CodeInv'
    <3>1. isGetCodeSuccess' = isGetCodeSuccess
      BY <2>6 DEF timerEvent
    <3>2. CASE timeout[t] = 0
      <4> DEFINE b == [timer |-> t, kind |-> "end"]
      <4>1. /\ b \in Block /\ b.kind = "end"
            /\ mainQueue' = Append(mainQueue, b)
            /\ running' = running \ {t} /\ timeout' = timeout
        BY <2>6, <3>2 DEF timerEvent, Block
      <4>2. mainQueue' # <<>> /\ mainQueue'[Len(mainQueue')] = b
        BY <4>1, PostKeepsTicks
      <4>3. FlagHasTick'
        <5>1. \A u \in running : timeout[u] = Seconds => u \in running'
          BY <3>2, <4>1, CountdownAssumption
        <5>2. QED
          BY <3>1, <4>1, <5>1, PostKeepsTicks DEF CodeInv, FlagHasTick
      <4>4. QED
        BY <4>1, <4>2, <4>3 DEF CodeInv, RestEnables, LastBlockEnds
    <3>3. CASE timeout[t] # 0
      <4> DEFINE b == [timer |-> t, kind |-> "tick"]
      <4>1. /\ b \in Block /\ b.kind = "tick"
            /\ mainQueue' = Append(mainQueue, b)
            /\ running' = running /\ t \in running
        BY <2>6, <3>3 DEF timerEvent, Block
      <4>2. \E i \in DOMAIN mainQueue' : mainQueue'[i].kind = "tick"
        BY <4>1, PostKeepsTicks
      <4>3. mainQueue' # <<>>
        BY <4>1, PostKeepsTicks
      <4>4. QED
        BY <4>1, <4>2, <4>3 DEF CodeInv, FlagHasTick, RestEnables, LastBlockEnds
    <3>4. QED
      BY <3>2, <3>3
  <2>7. CASE mainBlock
    <3>1. /\ mainQueue # <<>> /\ mainQueue \in Seq(Block)
          /\ mainQueue' = Tail(mainQueue)
          /\ UNCHANGED <<phone, running, timeout>>
      BY <2>7 DEF mainBlock, fields, CodeTypeOK
    <3>2. /\ Len(mainQueue') = Len(mainQueue) - 1
          /\ \A i \in 1..Len(mainQueue') : mainQueue'[i] = mainQueue[i + 1]
          /\ Len(mainQueue) > 0 /\ Len(mainQueue) \in Nat
      BY <3>1
    <3>3. FlagHasTick'
      <4>1. CASE Head(mainQueue).kind = "tick"
        BY <2>7, <4>1 DEF mainBlock, FlagHasTick
      <4>2. CASE Head(mainQueue).kind # "tick"
        <5>1. ASSUME NEW i \in DOMAIN mainQueue, mainQueue[i].kind = "tick"
              PROVE  \E j \in DOMAIN mainQueue' : mainQueue'[j].kind = "tick"
          <6>1. i # 1
            BY <4>2, <5>1, <3>1
          <6>2. i - 1 \in 1..Len(mainQueue') /\ mainQueue'[i - 1] = mainQueue[i]
            BY <6>1, <3>1, <3>2
          <6>3. DOMAIN mainQueue' = 1..Len(mainQueue')
            BY <3>1
          <6>4. QED
            BY <5>1, <6>2, <6>3
        <5>2. isGetCodeSuccess' = isGetCodeSuccess
          BY <2>7, <4>2 DEF mainBlock
        <5>3. QED
          BY <3>1, <5>1, <5>2 DEF CodeInv, FlagHasTick
      <4>3. QED
        BY <4>1, <4>2
    <3>4. LastBlockEnds'
      <4>1. ASSUME mainQueue' # <<>>
            PROVE  mainQueue'[Len(mainQueue')] = mainQueue[Len(mainQueue)]
        <5>1. Len(mainQueue') > 0
          BY <4>1, <3>1
        <5>2. Len(mainQueue') \in 1..Len(mainQueue') /\ Len(mainQueue') + 1 = Len(mainQueue)
          BY <5>1, <3>2
        <5>3. QED
          BY <5>2, <3>2
      <4>2. QED
        BY <3>1, <4>1 DEF CodeInv, LastBlockEnds
    <3>5. RestEnables'
      <4>1. ASSUME mainQueue' = <<>>, running = {} PROVE codeBut'
        <5>1. Len(mainQueue) = 1
          BY <4>1, <3>2
        <5>2. Head(mainQueue).kind = "end"
          BY <4>1, <5>1, <3>1 DEF CodeInv, LastBlockEnds
        <5>3. QED
          BY <2>7, <5>2 DEF mainBlock
      <4>2. QED
        BY <3>1, <4>1 DEF RestEnables
    <3>6. QED
      BY <3>3, <3>4, <3>5 DEF CodeInv
  <2>8. CASE UNCHANGED codeVars
    BY <2>8, EditKeeps DEF codeVars, fields
  <2>9. QED
    BY <2>1, <2>2, <2>3, <2>4, <2>5, <2>6, <2>7, <2>8 DEF CodeNext
<1>3. QED
  BY <1>1, <1>2, CodeTypeCorrect, PTL DEF CodeSpec

(* isGetCodeSuccess is never left up without a tick to take it down.       *)
THEOREM FlagHolds == CodeSpec => []FlagHasTick
<1>1. CodeInv => FlagHasTick
  BY DEF CodeInv
<1>2. QED
  BY <1>1, CodeInvHolds, PTL

(* After the last countdown a complete number can ask for a code.          *)
THEOREM RestHolds == CodeSpec => []RestEnables
<1>1. CodeInv => RestEnables
  BY DEF CodeInv
<1>2. QED
  BY <1>1, CodeInvHolds, PTL

(* The login button follows the two fields.                                *)
THEOREM LoginButHolds == CodeSpec => []LoginButMatchesFields
<1>1. CodeInit => LoginButMatchesFields
  BY DEF CodeInit, LoginButMatchesFields
<1>2. LoginButMatchesFields /\ [CodeNext]_codeVars => LoginButMatchesFields'
  <2> SUFFICES ASSUME LoginButMatchesFields, [CodeNext]_codeVars PROVE LoginButMatchesFields'
    OBVIOUS
  <2>1. CASE \E p, c, tag : textFieldDidChange(p, c, tag)
    <3>1. loginBut' = (phone' # "short" /\ code' = "full")
      BY <2>1 DEF textFieldDidChange
    <3>2. QED
      BY <3>1 DEF LoginButMatchesFields
  <2>2. CASE UNCHANGED fields
    BY <2>2 DEF LoginButMatchesFields, fields
  <2>3. QED
    BY <2>1, <2>2
       DEF CodeNext, codeVars, textDidChange, codeTextClick, codeButtonClick, getSysCodeFailure,
           getSysCodeSuccess, timerEvent, mainBlock
<1>3. QED
  BY <1>1, <1>2, PTL DEF CodeSpec

-----------------------------------------------------------------------------
(* The session layer, for every set of tokens and of request slots: its    *)
(* types, the invariants and action properties of its run, and the         *)
(* implementation of SignInLife.                                           *)

(* The requests under way stay requests, whatever is sent or answered.     *)
LEMMA CoveredType ==
    ASSUME NEW q \in [Slot -> Request], NEW s \in Slot
    PROVE  /\ Answered(q, s) \in [Slot -> Request]
           /\ Covered(q) \in [Slot -> Request]
           /\ Covered(Answered(q, s)) \in [Slot -> Request]
<1>1. ASSUME NEW p \in [Slot -> Request] PROVE Covered(p) \in [Slot -> Request]
  <2>1. ASSUME NEW r \in Slot PROVE [p[r] EXCEPT !.shown = FALSE] \in Request
    BY DEF Request
  <2>2. QED
    BY <2>1 DEF Covered
<1>2. Answered(q, s) \in [Slot -> Request]
  BY DEF Answered, NoRequest, Request, MaybeToken
<1>3. QED
  BY <1>1, <1>2

(* The variables of the session layer keep their types.                    *)
THEOREM SessionTypeCorrect == Spec => []TypeOK
<1>1. Init => TypeOK
  BY DEF Init, TypeOK, RootFor, NoRequest, Request, MaybeToken
<1>2. TypeOK /\ [Next]_vars => TypeOK'
  <2> SUFFICES ASSUME TypeOK, [Next]_vars PROVE TypeOK'
    OBVIOUS
  <2> USE DEF TypeOK, MaybeToken
  <2>1. ASSUME NEW s \in Slot, NEW kind \in {"api", "upload"}, send(s, kind)
        PROVE  TypeOK'
    <3>1. header' \in MaybeToken
      BY <2>1 DEF send, setHeader
    <3>2. QED
      BY <2>1, <3>1 DEF send, Sent, Request
  <2>2. ASSUME NEW s \in Slot, loginButClick(s) PROVE TypeOK'
    <3>1. header' \in MaybeToken
      BY <2>2 DEF loginButClick, setHeader
    <3>2. QED
      BY <2>2, <3>1 DEF loginButClick, Sent, Request
  <2>3. ASSUME NEW s \in Slot, NEW t \in Token, ServerGrant(s, t) PROVE TypeOK'
    BY <2>3 DEF ServerGrant, Request
  <2>4. ASSUME NEW s \in Slot, replyOther(s) PROVE TypeOK'
    <3>1. header' \in MaybeToken
      BY <2>4 DEF replyOther, setHeader
    <3>2. req' \in [Slot -> Request]
      <4>1. CASE req' = Answered(req, s)
        BY <4>1, CoveredType
      <4>2. CASE req' = Sent(req, s, "api")
        BY <4>2, <3>1 DEF Sent, Request
      <4>3. QED
        BY <2>4, <4>1, <4>2 DEF replyOther
    <3>3. QED
      BY <2>4, <3>1, <3>2 DEF replyOther
  <2>5. ASSUME NEW s \in Slot, reply995(s) PROVE TypeOK'
    BY <2>5, CoveredType DEF reply995, removeFromLocal
  <2>6. ASSUME NEW s \in Slot, upload995(s) PROVE TypeOK'
    BY <2>6, CoveredType DEF upload995, removeFromLocal
  <2>7. ASSUME NEW s \in Slot, loginSuccess(s) PROVE TypeOK'
    <3>1. req[s].grant \in MaybeToken
      BY DEF Request
    <3>2. QED
      BY <2>7, <3>1, CoveredType DEF loginSuccess, setLogonData, RootFor
  <2>8. ASSUME NEW t \in Token, ServerExpire(t) PROVE TypeOK'
    BY <2>8 DEF ServerExpire
  <2>9. CASE DefaultsFlush
    BY <2>9 DEF DefaultsFlush
  <2>10. CASE Relaunch
    BY <2>10 DEF Relaunch, RootFor, NoRequest, Request
  <2>11. CASE UNCHANGED vars
    BY <2>11 DEF vars
  <2>12. QED
    BY <2>1, <2>2, <2>3, <2>4, <2>5, <2>6, <2>7, <2>8, <2>9, <2>10, <2>11 DEF Next
<1>3. QED
  BY <1>1, <1>2, PTL DEF Spec

-----------------------------------------------------------------------------
(* SignedOutTabsKeepAToken needs to know that an upload under way was sent *)
(* with a token in the serializer; nothing ever takes it out again.        *)
HeaderBacksRequests ==
    \A s \in Slot : req[s].kind \in {"api", "upload"} => header # NoToken

SessionInv ==
    /\ LoginScreenMeansSignedOut
    /\ DiskLagsOnlyRemoval
    /\ SignedOutTabsKeepAToken
    /\ HeaderBacksRequests

(* Sending or dropping requests cannot uncover a request without a header. *)
LEMMA RequestsBacked ==
    ASSUME TypeOK, HeaderBacksRequests, NEW s \in Slot
    PROVE  \A r \in Slot :
              /\ Answered(req, s)[r].kind \in {"api", "upload"} => header # NoToken
              /\ Covered(Answered(req, s))[r].kind \in {"api", "upload"} => header # NoToken
<1> SUFFICES ASSUME NEW r \in Slot
             PROVE  /\ Answered(req, s)[r].kind \in {"api", "upload"} => header # NoToken
                    /\ Covered(Answered(req, s))[r].kind \in {"api", "upload"}
                          => header # NoToken
  OBVIOUS
<1>1. Answered(req, s) \in [Slot -> Request]
  BY CoveredType DEF TypeOK
<1>2. Answered(req, s)[r] = IF r = s THEN NoRequest ELSE req[r]
  BY DEF Answered, TypeOK
<1>3. Covered(Answered(req, s))[r].kind = Answered(req, s)[r].kind
  BY <1>1 DEF Covered, Request
<1>4. QED
  BY <1>2, <1>3 DEF NoRequest, HeaderBacksRequests

(* The invariants MCSession checks hold together, with the strengthening.  *)
THEOREM SessionInvHolds == Spec => []SessionInv
<1>1. Init => SessionInv
  BY DEF Init, SessionInv, LoginScreenMeansSignedOut, DiskLagsOnlyRemoval,
         SignedOutTabsKeepAToken, HeaderBacksRequests, RootFor, NoRequest
<1>2. TypeOK /\ SessionInv /\ [Next]_vars => SessionInv'
  <2> SUFFICES ASSUME TypeOK, SessionInv, [Next]_vars PROVE SessionInv'
    OBVIOUS
  <2> USE TokenAssumption DEF SessionInv, LoginScreenMeansSignedOut, DiskLagsOnlyRemoval,
                              SignedOutTabsKeepAToken
  <2>1. ASSUME NEW s \in Slot, NEW kind \in {"api", "upload"}, send(s, kind)
        PROVE  SessionInv'
    <3>1. header' # NoToken
      BY <2>1 DEF send, setHeader, isLogin, TypeOK
    <3>2. QED
      BY <2>1, <3>1 DEF send, HeaderBacksRequests
  <2>2. ASSUME NEW s \in Slot, loginButClick(s) PROVE SessionInv'
    <3>1. header' = header /\ token = NoToken
      BY <2>2 DEF loginButClick, setHeader, isLogin
    <3>2. HeaderBacksRequests'
      BY <2>2, <3>1 DEF loginButClick, HeaderBacksRequests, Sent, TypeOK
    <3>3. QED
      BY <2>2, <3>1, <3>2 DEF loginButClick
  <2>3. ASSUME NEW s \in Slot, NEW t \in Token, ServerGrant(s, t) PROVE SessionInv'
    <3>1. \A r \in Slot : req'[r].kind = req[r].kind
      BY <2>3 DEF ServerGrant, TypeOK, Request
    <3>2. QED
      BY <2>3, <3>1 DEF ServerGrant, HeaderBacksRequests
  <2>4. ASSUME NEW s \in Slot, replyOther(s) PROVE SessionInv'
    <3>1. CASE req' = Answered(req, s) /\ UNCHANGED header
      <4>1. HeaderBacksRequests'
        BY <3>1, RequestsBacked DEF HeaderBacksRequests
      <4>2. QED
        BY <2>4, <3>1, <4>1 DEF replyOther
    <3>2. CASE req[s].kind # "login" /\ setHeader
      <4>1. header # NoToken /\ header' # NoToken
        BY <2>4, <3>2 DEF replyOther, setHeader, isLogin, HeaderBacksRequests, TypeOK
      <4>2. QED
        BY <2>4, <4>1 DEF replyOther, HeaderBacksRequests
    <3>3. QED
      BY <2>4, <3>1, <3>2 DEF replyOther
  <2>5. ASSUME NEW s \in Slot, reply995(s) PROVE SessionInv'
    <3>1. HeaderBacksRequests'
      BY <2>5, RequestsBacked DEF reply995, HeaderBacksRequests
    <3>2. QED
      BY <2>5, <3>1 DEF reply995, removeFromLocal
  <2>6. ASSUME NEW s \in Slot, upload995(s) PROVE SessionInv'
    <3>1. HeaderBacksRequests'
      BY <2>6, RequestsBacked DEF upload995, HeaderBacksRequests
    <3>2. header # NoToken
      BY <2>6 DEF upload995, HeaderBacksRequests
    <3>3. QED
      BY <2>6, <3>1, <3>2 DEF upload995, removeFromLocal
  <2>7. ASSUME NEW s \in Slot, loginSuccess(s) PROVE SessionInv'
    <3>1. HeaderBacksRequests'
      BY <2>7, RequestsBacked DEF loginSuccess, HeaderBacksRequests
    <3>2. root' = "login" <=> token' = NoToken
      BY <2>7 DEF loginSuccess, RootFor
    <3>3. token' = NoToken => root' # "tabs"
      BY <3>2
    <3>4. DiskLagsOnlyRemoval'
      BY <2>7 DEF loginSuccess, setLogonData
    <3>5. QED
      BY <3>1, <3>2, <3>3, <3>4
  <2>8. ASSUME NEW t \in Token, ServerExpire(t) PROVE SessionInv'
    BY <2>8 DEF ServerExpire, HeaderBacksRequests
  <2>9. CASE DefaultsFlush
    BY <2>9 DEF DefaultsFlush, HeaderBacksRequests
  <2>10. CASE Relaunch
    BY <2>10 DEF Relaunch, RootFor, HeaderBacksRequests, NoRequest
  <2>11. CASE UNCHANGED vars
    BY <2>11 DEF vars, HeaderBacksRequests
  <2>12. QED
    BY <2>1, <2>2, <2>3, <2>4, <2>5, <2>6, <2>7, <2>8, <2>9, <2>10, <2>11 DEF Next
<1>3. QED
  BY <1>1, <1>2, SessionTypeCorrect, PTL DEF Spec

(* The login screen is never up over a signed-in session.                  *)
THEOREM LoginScreenHolds == Spec => []LoginScreenMeansSignedOut
<1>1. SessionInv => LoginScreenMeansSignedOut
  BY DEF SessionInv
<1>2. QED
  BY <1>1, SessionInvHolds, PTL

(* What is on disk differs from the session only where a removal has not   *)
(* been flushed.                                                           *)
THEOREM DiskHolds == Spec => []DiskLagsOnlyRemoval
<1>1. SessionInv => DiskLagsOnlyRemoval
  BY DEF SessionInv
<1>2. QED
  BY <1>1, SessionInvHolds, PTL

(* Over a signed-out tab bar the serializer still carries a token.         *)
THEOREM KeepATokenHolds == Spec => []SignedOutTabsKeepAToken
<1>1. SessionInv => SignedOutTabsKeepAToken
  BY DEF SessionInv
<1>2. QED
  BY <1>1, SessionInvHolds, PTL
(* A session the server still accepts falls only to the answer of another  *)
(* session's request.                                                      *)
THEOREM LiveSessionHolds == Spec => LiveSessionDroppedOnlyByStaleAnswer
<1> DEFINE Dropped == token \in valid /\ token' # token
           Blamed == \/ token' \in Token
                     \/ \E s \in Slot : /\ req[s].kind \in {"api", "upload"}
                                        /\ req'[s].kind = "none"
                                        /\ req[s].token \notin valid
<1>1. TypeOK /\ SessionInv /\ [Next]_vars => (Dropped => Blamed)
  <2> SUFFICES ASSUME TypeOK, SessionInv, [Next]_vars, Dropped PROVE Blamed
    OBVIOUS
  <2> USE TokenAssumption DEF TypeOK, MaybeToken
  <2>1. token \in Token /\ token # NoToken
    BY TokenAssumption
  <2>2. ASSUME NEW s \in Slot, reply995(s) PROVE Blamed
    <3>1. req'[s] = [NoRequest EXCEPT !.shown = FALSE]
      BY <2>2 DEF reply995, Covered, Answered
    <3>2. QED
      BY <2>2, <3>1 DEF reply995, NoRequest
  <2>3. ASSUME NEW s \in Slot, upload995(s) PROVE Blamed
    <3>1. req'[s].kind = "none"
      BY <2>3 DEF upload995, Answered, NoRequest
    <3>2. QED
      BY <2>3, <3>1 DEF upload995
  <2>4. ASSUME NEW s \in Slot, loginSuccess(s) PROVE Blamed
    <3>1. req[s].grant \in Token
      BY <2>4 DEF loginSuccess, Request
    <3>2. QED
      BY <2>4, <3>1 DEF loginSuccess, setLogonData
  <2>5. ASSUME Relaunch PROVE Blamed
    BY <2>5, <2>1 DEF Relaunch, SessionInv, DiskLagsOnlyRemoval
  <2>6. ASSUME UNCHANGED token PROVE FALSE
    BY <2>6
  <2>7. QED
    BY <2>2, <2>3, <2>4, <2>5, <2>6
       DEF Next, vars, send, loginButClick, ServerGrant, replyOther, ServerExpire,
           DefaultsFlush
<1>2. QED
  BY <1>1, SessionTypeCorrect, SessionInvHolds, PTL
     DEF Spec, LiveSessionDroppedOnlyByStaleAnswer

(* The tab bar is left over a signed-out session by nothing but an upload. *)
THEOREM OnlyUploadHolds == Spec => SignedOutTabsOnlyByUpload
<1> DEFINE Left == token # NoToken /\ token' = NoToken /\ root' = "tabs"
           ByUpload == \E s \in Slot : req[s].kind = "upload" /\ req'[s].kind = "none"
<1>1. TypeOK /\ SessionInv /\ [Next]_vars => (Left => ByUpload)
  <2> SUFFICES ASSUME TypeOK, SessionInv, [Next]_vars, Left PROVE ByUpload
    OBVIOUS
  <2>1. ASSUME NEW s \in Slot, upload995(s) PROVE ByUpload
    BY <2>1 DEF upload995, Answered, NoRequest, TypeOK
  <2>2. ASSUME NEW s \in Slot, loginSuccess(s) PROVE FALSE
    BY <2>2 DEF loginSuccess, RootFor
  <2>3. ASSUME NEW s \in Slot, reply995(s) PROVE FALSE
    BY <2>3 DEF reply995
  <2>4. ASSUME Relaunch PROVE FALSE
    BY <2>4 DEF Relaunch, RootFor
  <2>5. ASSUME UNCHANGED token PROVE FALSE
    BY <2>5
  <2>6. QED
    BY <2>1, <2>2, <2>3, <2>4, <2>5
       DEF Next, vars, send, loginButClick, ServerGrant, replyOther, ServerExpire,
           DefaultsFlush
<1>2. QED
  BY <1>1, SessionTypeCorrect, SessionInvHolds, PTL DEF Spec, SignedOutTabsOnlyByUpload

-----------------------------------------------------------------------------
(* The session layer implements the abstract life of a sign-in: each step  *)
(* of a reply, a flush or a relaunch is a step of SignInLife, every other  *)
(* step is a stutter of it.                                                *)
THEOREM LifeImplemented == Spec => ImplementsLife
<1>1. Init => Life!Init
  BY DEF Init, RootFor, Life!Init, Life!WindowFor, MaybeToken
<1>2. TypeOK /\ SessionInv /\ [Next]_vars => [Life!Next]_(Life!lifeVars)
  <2> SUFFICES ASSUME TypeOK, SessionInv, [Next]_vars PROVE [Life!Next]_(Life!lifeVars)
    OBVIOUS
  <2>1. ASSUME NEW s \in Slot, reply995(s) PROVE Life!Next
    BY <2>1 DEF reply995, removeFromLocal, Life!Next, Life!Expel
  <2>2. ASSUME NEW s \in Slot, upload995(s) PROVE Life!Next
    BY <2>2 DEF upload995, removeFromLocal, Life!Next, Life!Expel
  <2>3. ASSUME NEW s \in Slot, loginSuccess(s) PROVE Life!Next
    <3>1. req[s].grant \in Token
      BY <2>3 DEF loginSuccess, TypeOK, Request, MaybeToken
    <3>2. CASE setLogonData(req[s].grant)
      <4>1. Life!SignIn(req[s].grant)
        BY <2>3, <3>1, <3>2, TokenAssumption
           DEF loginSuccess, setLogonData, RootFor, Life!SignIn
      <4>2. QED
        BY <3>1, <4>1 DEF Life!Next
    <3>3. CASE UNCHANGED <<token, defaults, disk>>
      BY <2>3, <3>3 DEF loginSuccess, RootFor, Life!Next, Life!Rebuild, Life!WindowFor
    <3>4. QED
      BY <2>3, <3>2, <3>3 DEF loginSuccess
  <2>4. ASSUME DefaultsFlush PROVE Life!Next
    BY <2>4 DEF DefaultsFlush, SessionInv, DiskLagsOnlyRemoval, Life!Next, Life!Forget
  <2>5. ASSUME Relaunch PROVE Life!Next
    BY <2>5 DEF Relaunch, RootFor, Life!Next, Life!Relaunch, Life!WindowFor
  <2>6. ASSUME UNCHANGED <<token, disk, root>> PROVE UNCHANGED Life!lifeVars
    BY <2>6 DEF Life!lifeVars
  <2>7. QED
    BY <2>1, <2>2, <2>3, <2>4, <2>5, <2>6
       DEF Next, vars, send, loginButClick, ServerGrant, replyOther, ServerExpire
<1>3. QED
  BY <1>1, <1>2, SessionTypeCorrect, SessionInvHolds, PTL DEF Spec, ImplementsLife, Life!Spec
=============================================================================
