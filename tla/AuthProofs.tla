----------------------------- MODULE AuthProofs -----------------------------
(* The authentication, for any number of requests under way, any depth of  *)
(* the stack and any number of steps turned down again: its types, the     *)
(* order of the steps, the screens pushed backwards, and the refinement of *)
(* AuthOrder.                                                              *)
(*                                                                         *)
(* The order is not inductive as it stands. What carries it is that every  *)
(* screen on the stack, every request and every list - of the server, of   *)
(* the page or on its way - speaks for steps already accepted: a screen    *)
(* for those before it, a submission for those before its step, an answer  *)
(* for the step itself, and a list for every step it does not have open.   *)
(* A page of the operator's that was popped speaks like one on the stack.  *)
EXTENDS AuthSteps, TLAPS

\* A list's steps that are or were passed.
Known(l, p) == \A st \in Step : l[st] # 0 => st \in p

\* The steps accepted before a screen can be shown.
Needs(sc) ==
    CASE sc \in {"Evaluation", "Authentication"} -> {}
      [] sc \in {"AuthenDetial", "FaceAuthen"} -> {"auth-cert"}
      [] sc = "YSSWeb" -> {"auth-cert", "auth-face"}
      [] sc = "BankAuthen" -> {"auth-cert", "auth-face", "auth-tele"}
      [] sc = "ApplicationInformation" ->
            {"auth-cert", "auth-face", "auth-tele", "auth-card"}
      [] sc = "FinishAuthen" -> Step

\* The screens that send a request.
Askers(c) ==
    CASE c = "list" -> {"Evaluation"}
      [] c = "operator" -> {"Evaluation", "FaceAuthen"}
      [] c = "auth-cert" -> {"Authentication"}
      [] c = "auth-face" -> {"FaceAuthen"}
      [] c = "auth-card" -> {"BankAuthen"}
      [] c = "auth-zx" -> {"ApplicationInformation"}

Stack(sc, p) ==
    /\ sc \in Seq(Screen)
    /\ Len(sc) <= MaxDepth
    /\ \A i \in 1..Len(sc) : Needs(sc[i]) \subseteq p

Heard(q, p, sc) ==
    /\ q \in AuthRequest
    /\ q.list # NoList => Known(q.list, p)
    /\ q.call \in Submission =>
          /\ Earlier(q.call) \subseteq p
          /\ q.answer = "yes" => q.call \in p
    /\ q.call = "operator" => {"auth-cert", "auth-face"} \subseteq p
    /\ q.page > 0 => /\ q.page <= Len(sc)
                     /\ sc[q.page] \in Askers(q.call)

Requests(r, p, sc) ==
    /\ r \in [AuthSlot -> AuthRequest \cup {NoRequest}]
    /\ \A s \in AuthSlot : r[s] # NoRequest => Heard(r[s], p, sc)

Lists(l, p) ==
    /\ l \in AuthList \cup {NoList}
    /\ l # NoList => Known(l, p)

InOrder ==
    /\ serverState \in AuthList /\ Known(serverState, passed)
    /\ passed \in SUBSET Step
    /\ Stack(screens, passed)
    /\ Lists(evaluationList, passed)
    /\ Requests(authReq, passed, screens)

\* Whoever has left a page of the operator's had come to it in order.
WebKnown ==
    /\ webLeft \in BOOLEAN
    /\ webLeft => Needs("YSSWeb") \subseteq passed

\* A stack that only grew.
Grown(sc, sc2) ==
    /\ Len(sc) <= Len(sc2)
    /\ \A i \in 1..Len(sc) : sc2[i] = sc[i]

-----------------------------------------------------------------------------
(* The steps by name.                                                      *)

LEMMA StepFacts ==
    /\ Step = {"auth-cert", "auth-face", "auth-tele", "auth-card", "auth-zx"}
    /\ Earlier("auth-cert") = {}
    /\ Earlier("auth-face") = {"auth-cert"}
    /\ Earlier("auth-tele") = {"auth-cert", "auth-face"}
    /\ Earlier("auth-card") = {"auth-cert", "auth-face", "auth-tele"}
    /\ Earlier("auth-zx") = {"auth-cert", "auth-face", "auth-tele", "auth-card"}
<1>1. /\ DOMAIN authSn = 1..5
      /\ authSn[1] = "auth-cert" /\ authSn[2] = "auth-face" /\ authSn[3] = "auth-tele"
      /\ authSn[4] = "auth-card" /\ authSn[5] = "auth-zx"
  BY DEF authSn
<1>2. 1..5 = {1, 2, 3, 4, 5}
  OBVIOUS
<1>3. Step = {"auth-cert", "auth-face", "auth-tele", "auth-card", "auth-zx"}
  BY <1>1, <1>2 DEF Step
<1>4. \A st : Earlier(st) =
        {authSn[j] : j \in {k \in {1, 2, 3, 4, 5} :
                               \E i \in {1, 2, 3, 4, 5} : k < i /\ authSn[i] = st}}
  BY <1>1, <1>2 DEF Earlier
<1>5. Earlier("auth-cert") = {}
  BY <1>1, <1>4
<1>6. Earlier("auth-face") = {"auth-cert"}
  BY <1>1, <1>4
<1>7. Earlier("auth-tele") = {"auth-cert", "auth-face"}
  BY <1>1, <1>4
<1>8. Earlier("auth-card") = {"auth-cert", "auth-face", "auth-tele"}
  BY <1>1, <1>4
<1>9. Earlier("auth-zx") = {"auth-cert", "auth-face", "auth-tele", "auth-card"}
  BY <1>1, <1>4
<1>10. QED
  BY <1>3, <1>5, <1>6, <1>7, <1>8, <1>9

LEMMA ScreenFacts ==
    /\ Screen = {"Evaluation", "Authentication", "AuthenDetial", "FaceAuthen", "YSSWeb",
                 "BankAuthen", "ApplicationInformation", "FinishAuthen"}
    /\ Rank("Evaluation") = 1 /\ Rank("Authentication") = 2 /\ Rank("AuthenDetial") = 3
    /\ Rank("FaceAuthen") = 4 /\ Rank("YSSWeb") = 5 /\ Rank("BankAuthen") = 6
    /\ Rank("ApplicationInformation") = 7 /\ Rank("FinishAuthen") = 8
<1>1. /\ DOMAIN Chain = 1..8
      /\ Chain[1] = "Evaluation" /\ Chain[2] = "Authentication"
      /\ Chain[3] = "AuthenDetial" /\ Chain[4] = "FaceAuthen" /\ Chain[5] = "YSSWeb"
      /\ Chain[6] = "BankAuthen" /\ Chain[7] = "ApplicationInformation"
      /\ Chain[8] = "FinishAuthen"
  BY DEF Chain
<1>2. 1..8 = {1, 2, 3, 4, 5, 6, 7, 8}
  OBVIOUS
<1>3. \A i, j \in DOMAIN Chain : Chain[i] = Chain[j] => i = j
  BY <1>1, <1>2
<1>4. \A i \in DOMAIN Chain : Rank(Chain[i]) = i
  BY <1>3 DEF Rank
<1>5. QED
  BY <1>1, <1>2, <1>4 DEF Screen

LEMMA NeedsFacts ==
    /\ Needs("Evaluation") = {} /\ Needs("Authentication") = {}
    /\ Needs("AuthenDetial") = {"auth-cert"} /\ Needs("FaceAuthen") = {"auth-cert"}
    /\ Needs("YSSWeb") = {"auth-cert", "auth-face"}
    /\ Needs("BankAuthen") = {"auth-cert", "auth-face", "auth-tele"}
    /\ Needs("ApplicationInformation") = {"auth-cert", "auth-face", "auth-tele", "auth-card"}
    /\ Needs("FinishAuthen") = Step
BY DEF Needs

LEMMA AskersFacts ==
    /\ Askers("list") = {"Evaluation"}
    /\ Askers("operator") = {"Evaluation", "FaceAuthen"}
    /\ Askers("auth-cert") = {"Authentication"} /\ Askers("auth-face") = {"FaceAuthen"}
    /\ Askers("auth-card") = {"BankAuthen"}
    /\ Askers("auth-zx") = {"ApplicationInformation"}
BY DEF Askers

LEMMA LeadsFacts ==
    /\ StepScreen("auth-cert") = "Authentication" /\ StepScreen("auth-face") = "FaceAuthen"
    /\ StepScreen("auth-tele") = "YSSWeb" /\ StepScreen("auth-card") = "BankAuthen"
    /\ StepScreen("auth-zx") = "ApplicationInformation"
    /\ NextScreen("auth-cert") = "AuthenDetial" /\ NextScreen("operator") = "YSSWeb"
    /\ NextScreen("auth-card") = "ApplicationInformation"
    /\ NextScreen("auth-zx") = "FinishAuthen"
BY DEF StepScreen, NextScreen

-----------------------------------------------------------------------------
(* Nothing a request or a screen says becomes wrong while steps are added  *)
(* and the stack grows.                                                    *)

LEMMA HeardGrows ==
    ASSUME NEW q, NEW p, NEW p2, NEW sc, NEW sc2,
           Heard(q, p, sc), p \subseteq p2, Grown(sc, sc2), Len(sc) \in Nat, Len(sc2) \in Nat
    PROVE  Heard(q, p2, sc2)
<1>1. q \in AuthRequest /\ q.page \in Nat
  BY AuthAssumption DEF Heard, AuthRequest
<1>2. q.list # NoList => Known(q.list, p2)
  BY DEF Heard, Known
<1>3. q.page > 0 => q.page <= Len(sc2) /\ sc2[q.page] \in Askers(q.call)
  BY <1>1 DEF Heard, Grown
<1>4. QED
  BY <1>1, <1>2, <1>3 DEF Heard

LEMMA RequestsGrow ==
    ASSUME NEW r, NEW p, NEW p2, NEW sc, NEW sc2,
           Requests(r, p, sc), p \subseteq p2, Grown(sc, sc2), Len(sc) \in Nat, Len(sc2) \in Nat
    PROVE  Requests(r, p2, sc2)
BY HeardGrows DEF Requests

LEMMA RequestPut ==
    ASSUME NEW r, NEW p, NEW sc, NEW s \in AuthSlot, NEW q,
           Requests(r, p, sc), q = NoRequest \/ Heard(q, p, sc)
    PROVE  Requests([r EXCEPT ![s] = q], p, sc)
<1>1. q \in AuthRequest \cup {NoRequest}
  BY DEF Heard
<1>2. QED
  BY <1>1 DEF Requests

\* What a page asks for when it is on the stack.
LEMMA AskHeard ==
    ASSUME NEW c \in Call, NEW p, NEW sc, NEW n \in 0..MaxDepth,
           n > 0 => n <= Len(sc) /\ sc[n] \in Askers(c),
           c \in Submission => Earlier(c) \subseteq p,
           c = "operator" => {"auth-cert", "auth-face"} \subseteq p
    PROVE  Ask(c, n) \in AuthRequest /\ Heard(Ask(c, n), p, sc)
BY DEF Ask, AuthRequest, Heard

LEMMA PushKeeps ==
    ASSUME NEW sc \in Screen, NEW p, Stack(screens, passed), passed \subseteq p,
           Needs(sc) \subseteq p, pushViewController(sc)
    PROVE  Stack(screens', p) /\ Grown(screens, screens')
<1>1. screens \in Seq(Screen) /\ Len(screens) \in Nat /\ MaxDepth \in Nat
  BY AuthAssumption DEF Stack
<1>2. CASE UNCHANGED screens
  BY <1>1, <1>2 DEF Stack, Grown
<1>3. CASE Depth < MaxDepth /\ screens' = Append(screens, sc)
  <2>1. /\ screens' \in Seq(Screen) /\ Len(screens') = Len(screens) + 1
        /\ \A i \in 1..Len(screens) : screens'[i] = screens[i]
        /\ screens'[Len(screens) + 1] = sc
    BY <1>1, <1>3
  <2>2. ASSUME NEW i \in 1..Len(screens') PROVE Needs(screens'[i]) \subseteq p
    <3>1. CASE i <= Len(screens)
      BY <1>1, <2>1, <3>1 DEF Stack
    <3>2. CASE i = Len(screens) + 1
      BY <2>1, <3>2
    <3>3. QED
      BY <1>1, <2>1, <3>1, <3>2
  <2>3. QED
    BY <1>1, <1>3, <2>1, <2>2 DEF Stack, Grown, Depth
<1>4. QED
  BY <1>2, <1>3 DEF pushViewController

\* Popping screens keeps what is below, and parts the others' requests from it.
LEMMA CutKeeps ==
    ASSUME InOrder, NEW d \in 0..Len(screens)
    PROVE  /\ Stack(SubSeq(screens, 1, d), passed)
           /\ Requests(Orphaned(d), passed, SubSeq(screens, 1, d))
<1> DEFINE sc == SubSeq(screens, 1, d)
<1>1. screens \in Seq(Screen) /\ Len(screens) \in Nat /\ MaxDepth \in Nat /\ d \in Nat
  BY AuthAssumption DEF InOrder, Stack
<1>2. /\ sc \in Seq(Screen) /\ Len(sc) = d
      /\ \A i \in 1..d : sc[i] = screens[i]
  BY <1>1
<1> HIDE DEF sc
<1>3. Stack(sc, passed)
  BY <1>1, <1>2 DEF InOrder, Stack
<1>4. ASSUME NEW s \in AuthSlot
      PROVE  /\ Orphaned(d)[s] \in AuthRequest \cup {NoRequest}
             /\ Orphaned(d)[s] # NoRequest => Heard(Orphaned(d)[s], passed, sc)
  <2>1. authReq[s] # NoRequest => Heard(authReq[s], passed, screens)
    BY DEF InOrder, Requests
  <2>2. CASE authReq[s] # NoRequest /\ authReq[s].page > d
    <3>1. /\ Orphaned(d)[s] = [authReq[s] EXCEPT !.page = 0]
          /\ authReq[s] \in AuthRequest /\ 0 \in 0..MaxDepth
      BY <1>1, <2>1, <2>2 DEF Orphaned, Heard
    <3> DEFINE q == authReq[s]
    <3> HIDE DEF q
    <3>2. [q EXCEPT !.page = 0] \in AuthRequest
      BY <3>1 DEF AuthRequest, q
    <3>3. /\ [q EXCEPT !.page = 0].call = q.call
          /\ [q EXCEPT !.page = 0].answer = q.answer
          /\ [q EXCEPT !.page = 0].list = q.list
          /\ [q EXCEPT !.page = 0].page = 0
      BY <3>1 DEF AuthRequest, q
    <3>4. Heard([q EXCEPT !.page = 0], passed, sc)
      BY <2>1, <2>2, <3>2, <3>3 DEF Heard, q
    <3>5. QED
      BY <3>1, <3>2, <3>4 DEF q
  <2>3. CASE ~(authReq[s] # NoRequest /\ authReq[s].page > d)
    <3>1. Orphaned(d)[s] = authReq[s]
      BY <2>3 DEF Orphaned
    <3>2. ASSUME authReq[s] # NoRequest PROVE Heard(authReq[s], passed, sc)
      <4>1. /\ authReq[s].page \in Nat /\ authReq[s].page <= d
        BY <1>1, <2>1, <2>3, <3>2 DEF Heard, AuthRequest
      <4>2. authReq[s].page > 0 => sc[authReq[s].page] = screens[authReq[s].page]
        BY <1>1, <1>2, <4>1
      <4>3. QED
        BY <1>2, <2>1, <3>2, <4>1, <4>2 DEF Heard
    <3>3. authReq[s] \in AuthRequest \cup {NoRequest}
      BY DEF InOrder, Requests
    <3>4. QED
      BY <3>1, <3>2, <3>3
  <2>4. QED
    BY <2>2, <2>3
<1>5. Requests(Orphaned(d), passed, sc)
  BY <1>4 DEF Requests, Orphaned
<1>6. QED
  BY <1>3, <1>5 DEF sc

-----------------------------------------------------------------------------
(* The steps of Next.                                                      *)

LEMMA InitInOrder == AuthInit => InOrder
<1> SUFFICES ASSUME AuthInit PROVE InOrder
  OBVIOUS
<1>1. serverState \in AuthList /\ Known(serverState, passed)
  BY DEF AuthInit, AuthList, Known
<1>2. Stack(screens, passed)
  BY AuthAssumption DEF AuthInit, Stack
<1>3. Lists(evaluationList, passed) /\ Requests(authReq, passed, screens)
  BY DEF AuthInit, Lists, Requests
<1>4. QED
  BY <1>1, <1>2, <1>3 DEF AuthInit, InOrder

\* A step accepted is one more than before.
LEMMA AcceptKeeps ==
    ASSUME InOrder, NEW st \in Step,
           serverState' = [serverState EXCEPT ![st] = 1], passed' = passed \cup {st}
    PROVE  /\ serverState' \in AuthList /\ Known(serverState', passed')
           /\ passed' \in SUBSET Step
           /\ passed \subseteq passed'
           /\ UNCHANGED evaluationList => Lists(evaluationList', passed')
BY DEF InOrder, AuthList, Known, Lists

LEMMA ServerKeeps == InOrder /\ ServerNext => InOrder'
<1> SUFFICES ASSUME InOrder, ServerNext PROVE InOrder'
  OBVIOUS
<1>0. Len(screens) \in Nat /\ Grown(screens, screens)
  BY DEF InOrder, Stack, Grown
<1>1. ASSUME NEW s \in AuthSlot, accepts(s) PROVE InOrder'
  <2> DEFINE q == authReq[s]
             a == [q EXCEPT !.answer = "yes"]
  <2>1. Heard(q, passed, screens) /\ q \in AuthRequest /\ q.call \in Submission
    BY <1>1 DEF InOrder, Requests, accepts, Heard
  <2>2. q.call \in Step
    BY <2>1, StepFacts DEF Submission
  <2>3. /\ serverState' \in AuthList /\ Known(serverState', passed')
        /\ passed' \in SUBSET Step /\ passed \subseteq passed' /\ q.call \in passed'
        /\ Lists(evaluationList', passed')
    BY <1>1, <2>2, AcceptKeeps DEF accepts
  <2>4. Requests(authReq, passed', screens) /\ Heard(q, passed', screens)
    BY <1>0, <2>1, <2>3, RequestsGrow, HeardGrows DEF InOrder
  <2>5. authReq' = [authReq EXCEPT ![s] = a] /\ UNCHANGED screens
    BY <1>1 DEF accepts
  <2> HIDE DEF q
  <2>6. a \in AuthRequest /\ a.call = q.call /\ a.list = q.list /\ a.page = q.page
    BY <2>1 DEF AuthRequest
  <2>7. Heard(a, passed', screens)
    BY <2>3, <2>4, <2>6 DEF Heard
  <2> HIDE DEF a
  <2>8. Requests(authReq', passed', screens')
    BY <2>4, <2>5, <2>7, RequestPut
  <2>9. Stack(screens', passed')
    BY <2>3, <2>5 DEF InOrder, Stack
  <2>10. QED
    BY <2>3, <2>8, <2>9 DEF InOrder
<1>2. ASSUME NEW s \in AuthSlot, refuses(s) PROVE InOrder'
  <2> DEFINE q == authReq[s]
             a == [q EXCEPT !.answer = "no"]
  <2>1. Heard(q, passed, screens) /\ q \in AuthRequest
    BY <1>2 DEF InOrder, Requests, refuses, Heard
  <2>2. authReq' = [authReq EXCEPT ![s] = a]
        /\ UNCHANGED <<serverState, passed, screens, evaluationList>>
    BY <1>2 DEF refuses
  <2> HIDE DEF q
  <2>3. /\ a \in AuthRequest /\ a.call = q.call /\ a.list = q.list /\ a.page = q.page
        /\ a.answer = "no"
    BY <2>1 DEF AuthRequest
  <2>4. Heard(a, passed, screens)
    BY <2>1, <2>3 DEF Heard
  <2> HIDE DEF a
  <2>5. Requests(authReq', passed, screens)
    BY <2>2, <2>4, RequestPut DEF InOrder
  <2>6. QED
    BY <2>2, <2>5 DEF InOrder
<1>3. ASSUME NEW s \in AuthSlot, tells(s) PROVE InOrder'
  <2> DEFINE q == authReq[s]
             l == IF q.call = "list" THEN serverState ELSE NoList
             a == [q EXCEPT !.answer = "yes", !.list = l]
  <2>1. Heard(q, passed, screens) /\ q \in AuthRequest /\ q.call \in {"list", "operator"}
    BY <1>3 DEF InOrder, Requests, tells, Heard
  <2>2. /\ authReq' = [authReq EXCEPT ![s] = a]
        /\ UNCHANGED <<serverState, passed, screens, evaluationList>>
    BY <1>3 DEF tells
  <2>3. l \in AuthList \cup {NoList} /\ (l # NoList => Known(l, passed))
    BY DEF InOrder
  <2> HIDE DEF q, l
  <2>4. /\ a \in AuthRequest /\ a.call = q.call /\ a.list = l /\ a.page = q.page
    BY <2>1, <2>3 DEF AuthRequest
  <2>5. Heard(a, passed, screens)
    BY <2>1, <2>3, <2>4 DEF Heard, Submission
  <2> HIDE DEF a
  <2>6. Requests(authReq', passed, screens)
    BY <2>2, <2>5, RequestPut DEF InOrder
  <2>7. QED
    BY <2>2, <2>6 DEF InOrder
<1>4. ASSUME NEW st \in Step, turnsDown(st) PROVE InOrder'
  <2>1. serverState' \in AuthList /\ Known(serverState', passed)
    BY <1>4 DEF InOrder, turnsDown, AuthList, Known
  <2>2. QED
    BY <1>4, <2>1 DEF InOrder, turnsDown
<1>5. ASSUME operatorAccepts PROVE InOrder'
  <2>1. /\ serverState' = [serverState EXCEPT !["auth-tele"] = 1]
        /\ passed' = passed \cup {"auth-tele"} /\ UNCHANGED <<screens, evaluationList, authReq>>
    BY <1>5 DEF operatorAccepts
  <2>2. /\ serverState' \in AuthList /\ Known(serverState', passed')
        /\ passed' \in SUBSET Step /\ passed \subseteq passed'
        /\ Lists(evaluationList', passed')
    BY <2>1, AcceptKeeps, StepFacts
  <2>3. Requests(authReq', passed', screens') /\ Stack(screens', passed')
    BY <1>0, <2>1, <2>2, RequestsGrow DEF InOrder, Stack
  <2>4. QED
    BY <2>2, <2>3 DEF InOrder
<1>6. QED
  BY <1>1, <1>2, <1>3, <1>4, <1>5 DEF ServerNext

\* A page on top sends a request.
LEMMA SendKeeps ==
    ASSUME InOrder, NEW c \in Call, screens # <<>>, screens[Depth] \in Askers(c), send(c),
           c \in Submission => Earlier(c) \subseteq passed,
           c = "operator" => {"auth-cert", "auth-face"} \subseteq passed,
           UNCHANGED <<serverState, passed, screens, evaluationList>>
    PROVE  InOrder'
<1>1. Depth \in 0..MaxDepth /\ Depth <= Len(screens)
  BY AuthAssumption DEF InOrder, Stack, Depth
<1>2. Heard(Ask(c, Depth), passed, screens)
  BY <1>1, AskHeard
<1>3. PICK s \in AuthSlot : authReq' = [authReq EXCEPT ![s] = Ask(c, Depth)]
  BY DEF send
<1>4. Requests(authReq', passed, screens)
  BY <1>2, <1>3, RequestPut DEF InOrder
<1>5. QED
  BY <1>4 DEF InOrder

\* A screen is pushed, at most a step accepted, nothing asked.
LEMMA PushInOrder ==
    ASSUME InOrder, NEW sc \in Screen, Needs(sc) \subseteq passed', passed \subseteq passed',
           passed' \in SUBSET Step, pushViewController(sc),
           serverState' \in AuthList, Known(serverState', passed'),
           Lists(evaluationList', passed'), Requests(authReq', passed', screens)
    PROVE  InOrder'
<1>1. Stack(screens', passed') /\ Grown(screens, screens')
  BY PushKeeps DEF InOrder
<1>2. Len(screens) \in Nat /\ Len(screens') \in Nat
  BY <1>1 DEF InOrder, Stack
<1>3. Requests(authReq', passed', screens')
  BY <1>1, <1>2, RequestsGrow
<1>4. QED
  BY <1>1, <1>3 DEF InOrder

\* The screen on top, and what it stands for.
LEMMA TopFacts ==
    ASSUME InOrder, NEW sc, OnTop(sc)
    PROVE  /\ screens # <<>> /\ screens[Depth] = sc /\ sc \in Screen
           /\ Depth \in 1..MaxDepth
           /\ Needs(sc) \subseteq passed
<1>1. screens \in Seq(Screen) /\ screens # <<>> /\ screens[Len(screens)] = sc
  BY DEF InOrder, Stack, OnTop, Depth
<1>2. Len(screens) \in 1..MaxDepth /\ sc \in Screen
  BY <1>1, AuthAssumption DEF InOrder, Stack
<1>3. QED
  BY <1>1, <1>2 DEF InOrder, Stack, Depth

LEMMA UserKeeps == InOrder /\ UserNext => InOrder'
<1> SUFFICES ASSUME InOrder, UserNext PROVE InOrder'
  OBVIOUS
<1>0. /\ passed \in SUBSET Step /\ serverState \in AuthList /\ Known(serverState, passed)
      /\ Stack(screens, passed) /\ Lists(evaluationList, passed)
      /\ Requests(authReq, passed, screens)
  BY DEF InOrder
<1>1. CASE openEvaluation
  <2>1. screens = <<>> /\ screens' = <<"Evaluation">> /\ evaluationList' = NoList
        /\ UNCHANGED <<serverState, passed>>
    BY <1>1 DEF openEvaluation
  <2>2. PICK s \in AuthSlot : authReq' = [authReq EXCEPT ![s] = Ask("list", 1)]
    BY <1>1 DEF openEvaluation
  <2>3. Len(<<"Evaluation">>) = 1 /\ <<"Evaluation">>[1] = "Evaluation"
        /\ MaxDepth \in Nat /\ 1 \in 0..MaxDepth
    BY AuthAssumption
  <2>4. Stack(screens', passed')
    BY <2>1, <2>3, ScreenFacts, NeedsFacts DEF Stack
  <2>5. Grown(screens, screens') /\ Len(screens) = 0
    BY <2>1, <2>3 DEF Grown
  <2>6. Requests(authReq, passed, screens')
    BY <1>0, <2>1, <2>3, <2>5, RequestsGrow
  <2>7. Heard(Ask("list", 1), passed, screens')
    BY <2>1, <2>3, AskHeard, AskersFacts DEF Call, Submission
  <2>8. Requests(authReq', passed, screens')
    BY <2>2, <2>6, <2>7, RequestPut
  <2>9. QED
    BY <1>0, <2>1, <2>4, <2>8 DEF InOrder, Lists
<1>2. CASE backAction
  <2>1. Depth - 1 \in 0..Len(screens)
    BY <1>0, <1>2 DEF backAction, Stack, Depth
  <2>2. QED
    BY <1>0, <1>2, <2>1, CutKeeps DEF backAction, InOrder
<1>3. CASE rightBtnClip
  <2>1. 0 \in 0..Len(screens) /\ SubSeq(screens, 1, 0) = <<>>
    BY <1>0 DEF Stack
  <2>2. QED
    BY <1>0, <1>3, <2>1, CutKeeps DEF rightBtnClip, InOrder
<1>4. CASE renZhengButtonClick
  <2>1. PICK st \in Step :
           /\ FirstOpen(evaluationList, st)
           /\ IF st = "auth-tele" THEN send("operator") /\ UNCHANGED screens
              ELSE pushViewController(StepScreen(st)) /\ UNCHANGED authReq
    BY <1>4 DEF renZhengButtonClick
  <2>2. OnTop("Evaluation") /\ evaluationList # NoList
        /\ UNCHANGED <<serverState, passed, evaluationList>>
    BY <1>4 DEF renZhengButtonClick
  <2>3. evaluationList \in AuthList /\ Known(evaluationList, passed)
    BY <1>0, <2>2 DEF Lists
  <2>4. Earlier(st) \subseteq passed
    <3>1. ASSUME NEW t \in Earlier(st) PROVE t \in passed
      <4>1. t \in Step /\ ~Open(evaluationList, t)
        BY <2>1, StepFacts DEF FirstOpen
      <4>2. QED
        BY <2>3, <4>1 DEF Open, Known
    <3>2. QED
      BY <3>1
  <2>5. CASE st = "auth-tele"
    BY <2>1, <2>2, <2>4, <2>5, SendKeeps, StepFacts, AskersFacts DEF OnTop, Call, Submission
  <2>6. CASE st # "auth-tele"
    <3>1. StepScreen(st) \in Screen /\ Needs(StepScreen(st)) \subseteq Earlier(st)
      BY <2>6, StepFacts, ScreenFacts, NeedsFacts, LeadsFacts
    <3>2. QED
      BY <1>0, <2>1, <2>2, <2>4, <2>6, <3>1, PushInOrder
  <2>7. QED
    BY <2>5, <2>6
<1>5. CASE AuthenDetialNext
  <2>1. {"auth-cert"} \subseteq passed
    BY <1>5, TopFacts, NeedsFacts DEF AuthenDetialNext
  <2>2. QED
    BY <1>0, <1>5, <2>1, PushInOrder, NeedsFacts, ScreenFacts DEF AuthenDetialNext
<1>6. CASE useCusAuthInsert
  BY <1>6, SendKeeps, StepFacts, AskersFacts DEF useCusAuthInsert, OnTop, Call, Submission
<1>7. ASSUME NEW st \in Step, nextButtonClick(st) PROVE InOrder'
  <2>1. /\ st \in {"auth-face", "auth-card", "auth-zx"} /\ OnTop(StepScreen(st)) /\ send(st)
        /\ UNCHANGED <<serverState, passed, screens, evaluationList>>
    BY <1>7 DEF nextButtonClick
  <2>2. Earlier(st) = Needs(StepScreen(st)) /\ StepScreen(st) \in Askers(st)
        /\ st \in Call /\ st # "operator"
    BY <2>1, StepFacts, NeedsFacts, LeadsFacts, AskersFacts DEF Call, Submission
  <2>3. Earlier(st) \subseteq passed
    BY <2>1, <2>2, TopFacts
  <2>4. QED
    BY <2>1, <2>2, <2>3, SendKeeps DEF OnTop
<1>8. ASSUME NEW i \in DOMAIN screens, didReceiveScriptMessage(i) PROVE InOrder'
  <2>1. /\ screens[i] = "YSSWeb" /\ "auth-tele" \in passed /\ pushViewController("BankAuthen")
        /\ UNCHANGED <<serverState, passed, evaluationList, authReq>>
    BY <1>8 DEF didReceiveScriptMessage
  <2>2. Needs("YSSWeb") \subseteq passed
    BY <1>0, <2>1 DEF Stack
  <2>3. Needs("BankAuthen") \subseteq passed /\ "BankAuthen" \in Screen
    BY <2>1, <2>2, NeedsFacts, ScreenFacts
  <2>4. QED
    BY <1>0, <2>1, <2>3, PushInOrder
<1>9. QED
  BY <1>1, <1>2, <1>3, <1>4, <1>5, <1>6, <1>7, <1>8 DEF UserNext

LEMMA AnswerKeeps == InOrder /\ AnswerNext => InOrder'
<1> SUFFICES ASSUME InOrder, AnswerNext PROVE InOrder'
  OBVIOUS
<1>0. /\ passed \in SUBSET Step /\ serverState \in AuthList /\ Known(serverState, passed)
      /\ Stack(screens, passed) /\ Lists(evaluationList, passed)
      /\ Requests(authReq, passed, screens)
  BY DEF InOrder
<1> SUFFICES ASSUME NEW s \in AuthSlot,
                    \/ evaluationAnswered(s) \/ faceAnswered(s) \/ answered(s) \/ failed(s)
             PROVE  InOrder'
  BY DEF AnswerNext
<1> DEFINE q == authReq[s]
<1>1. Heard(q, passed, screens) /\ q \in AuthRequest
  BY <1>0 DEF Requests, evaluationAnswered, faceAnswered, answered, failed, Heard
<1>2. Requests([authReq EXCEPT ![s] = NoRequest], passed, screens)
  BY <1>0, RequestPut
<1>3. CASE evaluationAnswered(s)
  <2>1. Lists(evaluationList', passed)
    BY <1>0, <1>1, <1>3 DEF evaluationAnswered, Lists, Heard, AuthRequest
  <2>2. QED
    BY <1>0, <1>2, <1>3, <2>1 DEF evaluationAnswered, InOrder
<1>4. CASE faceAnswered(s)
  <2>1. /\ q.call = "auth-face" /\ q.answer = "yes"
        /\ authReq' = [authReq EXCEPT ![s] = Ask("operator", q.page)]
        /\ UNCHANGED <<serverState, passed, screens, evaluationList>>
    BY <1>4 DEF faceAnswered
  <2>2. {"auth-cert", "auth-face"} \subseteq passed
    BY <1>1, <2>1, StepFacts DEF Heard, Submission
  <2>3. /\ q.page \in 0..MaxDepth
        /\ q.page > 0 => q.page <= Len(screens) /\ screens[q.page] \in Askers("operator")
    BY <1>1, <2>1, AskersFacts DEF Heard, AuthRequest
  <2> HIDE DEF q
  <2>4. Heard(Ask("operator", q.page), passed, screens)
    BY <2>2, <2>3, AskHeard DEF Call, Submission
  <2>5. Requests(authReq', passed, screens)
    BY <1>0, <2>1, <2>4, RequestPut
  <2>6. QED
    BY <1>0, <2>1, <2>5 DEF InOrder
<1>5. CASE answered(s)
  <2>1. /\ q.call \in Call \ {"list", "auth-face"} /\ q.answer = "yes"
        /\ authReq' = [authReq EXCEPT ![s] = NoRequest]
        /\ UNCHANGED <<serverState, passed, evaluationList>>
        /\ UNCHANGED screens \/ pushViewController(NextScreen(q.call))
    BY <1>1, <1>5 DEF answered, AuthRequest
  <2>2. NextScreen(q.call) \in Screen /\ Needs(NextScreen(q.call)) \subseteq passed
    <3>1. q.call \in {"auth-cert", "auth-card", "auth-zx", "operator"}
      BY <2>1 DEF Call, Submission
    <3>2. CASE q.call = "auth-cert"
      BY <1>1, <2>1, <3>2, StepFacts, NeedsFacts, LeadsFacts, ScreenFacts
         DEF Heard, Submission
    <3>3. CASE q.call = "auth-card"
      BY <1>1, <2>1, <3>3, StepFacts, NeedsFacts, LeadsFacts, ScreenFacts
         DEF Heard, Submission
    <3>4. CASE q.call = "auth-zx"
      BY <1>1, <2>1, <3>4, StepFacts, NeedsFacts, LeadsFacts, ScreenFacts
         DEF Heard, Submission
    <3>5. CASE q.call = "operator"
      BY <1>1, <3>5, NeedsFacts, LeadsFacts, ScreenFacts DEF Heard
    <3>6. QED
      BY <3>1, <3>2, <3>3, <3>4, <3>5
  <2>3. CASE UNCHANGED screens
    BY <1>0, <1>2, <2>1, <2>3 DEF InOrder
  <2>4. CASE pushViewController(NextScreen(q.call))
    BY <1>0, <1>2, <2>1, <2>2, <2>4, PushInOrder
  <2>5. QED
    BY <2>1, <2>3, <2>4
<1>6. CASE failed(s)
  BY <1>0, <1>2, <1>6 DEF failed, InOrder
<1>7. QED
  BY <1>3, <1>4, <1>5, <1>6

LEMMA WebKeeps == InOrder /\ WebKnown /\ [AuthNext]_authVars => WebKnown'
<1> SUFFICES ASSUME InOrder, WebKnown, [AuthNext]_authVars PROVE WebKnown'
  OBVIOUS
<1> DEFINE OnStack == \E i \in DOMAIN screens : screens[i] = "YSSWeb"
<1>1. passed \subseteq passed'
  BY DEF AuthNext, ServerNext, UserNext, AnswerNext, authVars, accepts, refuses, tells,
         turnsDown, operatorAccepts, openEvaluation, backAction, rightBtnClip,
         renZhengButtonClick, AuthenDetialNext, useCusAuthInsert, nextButtonClick,
         didReceiveScriptMessage, evaluationAnswered, faceAnswered, answered, failed
<1>2. UNCHANGED webLeft \/ backAction \/ rightBtnClip
  BY DEF AuthNext, ServerNext, UserNext, AnswerNext, authVars, accepts, refuses, tells,
         turnsDown, operatorAccepts, openEvaluation,
         renZhengButtonClick, AuthenDetialNext, useCusAuthInsert, nextButtonClick,
         didReceiveScriptMessage, evaluationAnswered, faceAnswered, answered, failed
<1>3. webLeft' \in BOOLEAN
  BY <1>2 DEF WebKnown, backAction, rightBtnClip
<1>4. OnStack => Needs("YSSWeb") \subseteq passed
  BY DEF InOrder, Stack
<1>5. OnTop("YSSWeb") => Needs("YSSWeb") \subseteq passed
  BY TopFacts
<1>6. webLeft' => webLeft \/ OnStack \/ OnTop("YSSWeb")
  BY <1>2 DEF WebKnown, backAction, rightBtnClip
<1>7. QED
  BY <1>1, <1>3, <1>4, <1>5, <1>6 DEF WebKnown

LEMMA InOrderHolds == AuthSpec => [](InOrder /\ WebKnown)
<1>1. InOrder /\ [AuthNext]_authVars => InOrder'
  <2>1. CASE UNCHANGED authVars
    BY <2>1 DEF authVars, InOrder
  <2>2. QED
    BY <2>1, ServerKeeps, UserKeeps, AnswerKeeps DEF AuthNext
<1>2. AuthInit => WebKnown
  BY DEF AuthInit, WebKnown
<1>3. QED
  BY <1>1, <1>2, InitInOrder, WebKeeps, PTL DEF AuthSpec

-----------------------------------------------------------------------------
\* Server, stack, list and requests keep their types.
THEOREM TypeCorrect == AuthSpec => []AuthTypeOK
<1>1. InOrder /\ WebKnown => AuthTypeOK
  BY DEF InOrder, WebKnown, Stack, Lists, Requests, AuthTypeOK
<1>2. QED
  BY <1>1, InOrderHolds, PTL

\* Whatever is left, opened again, turned down or answered late, the last
\* page is shown to nobody who has not passed every step.
THEOREM FinishHolds == AuthSpec => []FinishMeansAllPassed
<1>1. InOrder => FinishMeansAllPassed
  <2> SUFFICES ASSUME InOrder, AtEnd PROVE passed = Step
    BY DEF FinishMeansAllPassed
  <2>1. Needs("FinishAuthen") \subseteq passed
    BY DEF InOrder, Stack, AtEnd
  <2>2. QED
    BY <2>1, NeedsFacts DEF InOrder
<1>2. QED
  BY <1>1, InOrderHolds, PTL

\* No step is submitted before the earlier ones were accepted.
THEOREM SubmittedHolds == AuthSpec => []SubmittedInOrder
<1>1. InOrder => SubmittedInOrder
  BY DEF InOrder, Requests, Heard, SubmittedInOrder
<1>2. QED
  BY <1>1, InOrderHolds, PTL

\* Only the answer to a covered page, or the message of one of the operator's,
\* pushes an earlier screen.
THEOREM BackwardsHolds == AuthSpec => BackwardsOnlyFromBelow
<1> DEFINE Longer == Len(screens') = Depth + 1 /\ screens # <<>>
           Backwards == Longer /\ Rank(screens'[Depth + 1]) < Rank(screens[Depth])
           Covered == \E s \in AuthSlot : /\ authReq[s] # NoRequest
                                          /\ authReq[s].page \in 1..(Depth - 1)
                                          /\ authReq'[s] = NoRequest
           Message == /\ screens'[Depth + 1] = "BankAuthen"
                      /\ \E i \in 1..(Depth - 1) : screens[i] = "YSSWeb"
<1>1. InOrder /\ [AuthNext]_authVars => (Backwards => Covered \/ Message)
  <2> SUFFICES ASSUME InOrder, [AuthNext]_authVars, Backwards, ~Message PROVE Covered
    OBVIOUS
  <2>0. screens \in Seq(Screen) /\ Depth \in Nat /\ Depth > 0 /\ screens # <<>>
    BY DEF InOrder, Stack, Depth
  <2>1. ~UNCHANGED screens
    BY <2>0 DEF Depth
  <2>2. \A sc \in Screen : pushViewController(sc) =>
           /\ screens'[Depth + 1] = sc
           /\ Rank(sc) < Rank(screens[Depth])
    BY <2>0, <2>1 DEF pushViewController, Depth
  <2>3. ASSUME NEW sc \in Screen, NEW t, OnTop(t), pushViewController(sc),
               Rank(t) < Rank(sc), Rank(t) \in Nat, Rank(sc) \in Nat
        PROVE  FALSE
    BY <2>2, <2>3 DEF OnTop
  <2>4. ~ServerNext
    BY <2>1 DEF ServerNext, accepts, refuses, tells, turnsDown, operatorAccepts
  <2>5. ~(openEvaluation \/ backAction \/ rightBtnClip)
    <3>1. ~openEvaluation
      BY <2>0 DEF openEvaluation
    <3>2. ~backAction
      BY <2>0 DEF backAction, Depth
    <3>3. ~rightBtnClip
      BY <2>0 DEF rightBtnClip
    <3>4. QED
      BY <3>1, <3>2, <3>3
  <2>6. ~renZhengButtonClick
    <3>1. SUFFICES ASSUME renZhengButtonClick PROVE FALSE
      OBVIOUS
    <3>2. PICK st \in Step : st # "auth-tele" /\ pushViewController(StepScreen(st))
      BY <2>1, <3>1 DEF renZhengButtonClick
    <3>3. /\ OnTop("Evaluation") /\ StepScreen(st) \in Screen
          /\ Rank("Evaluation") < Rank(StepScreen(st))
          /\ Rank("Evaluation") \in Nat /\ Rank(StepScreen(st)) \in Nat
      BY <3>1, <3>2, StepFacts, LeadsFacts, ScreenFacts DEF renZhengButtonClick
    <3>4. QED
      BY <2>3, <3>2, <3>3
  <2>7. ~AuthenDetialNext
    BY <2>3, ScreenFacts DEF AuthenDetialNext
  <2>8. ASSUME NEW i \in DOMAIN screens, didReceiveScriptMessage(i) PROVE FALSE
    <3>1. screens[i] = "YSSWeb" /\ pushViewController("BankAuthen")
      BY <2>8 DEF didReceiveScriptMessage
    <3>2. i \in 1..Depth
      BY <2>0 DEF Depth
    <3>3. CASE i = Depth
      BY <2>0, <2>3, <3>1, <3>3, ScreenFacts DEF OnTop
    <3>4. CASE i \in 1..(Depth - 1)
      BY <2>2, <3>1, <3>4, ScreenFacts
    <3>5. QED
      BY <2>0, <3>2, <3>3, <3>4
  <2>9. ~(useCusAuthInsert \/ \E st \in Step : nextButtonClick(st))
    BY <2>1 DEF useCusAuthInsert, nextButtonClick
  <2>10. PICK s \in AuthSlot : answered(s)
    BY <2>1, <2>4, <2>5, <2>6, <2>7, <2>8, <2>9
       DEF AuthNext, UserNext, AnswerNext, authVars, evaluationAnswered, faceAnswered, failed
  <2> DEFINE q == authReq[s]
  <2>11. /\ Heard(q, passed, screens) /\ q \in AuthRequest /\ q # NoRequest
         /\ q.call \in {"auth-cert", "auth-card", "auth-zx", "operator"}
         /\ q.page \in Nat /\ q.page # 0
         /\ pushViewController(NextScreen(q.call))
         /\ authReq' = [authReq EXCEPT ![s] = NoRequest]
    <3>1. /\ q # NoRequest /\ q.call \notin {"list", "auth-face"} /\ q.page # 0
          /\ pushViewController(NextScreen(q.call))
          /\ authReq' = [authReq EXCEPT ![s] = NoRequest]
      BY <2>1, <2>10 DEF answered
    <3>2. Heard(q, passed, screens) /\ q \in AuthRequest
      BY <3>1 DEF InOrder, Requests, Heard
    <3>3. q.call \in Call /\ q.page \in Nat
      BY <3>2, AuthAssumption DEF AuthRequest
    <3>4. QED
      BY <3>1, <3>2, <3>3 DEF Call, Submission
  <2>12. q.page <= Depth /\ screens[q.page] \in Askers(q.call)
    BY <2>11 DEF Heard, Depth
  <2>13. ASSUME NEW t \in Askers(q.call)
         PROVE  /\ NextScreen(q.call) \in Screen
                /\ Rank(t) < Rank(NextScreen(q.call))
                /\ Rank(t) \in Nat /\ Rank(NextScreen(q.call)) \in Nat
    BY <2>11, AskersFacts, LeadsFacts, ScreenFacts
  <2>14. q.page # Depth
    <3>1. SUFFICES ASSUME q.page = Depth PROVE FALSE
      OBVIOUS
    <3>2. OnTop(screens[Depth])
      BY <2>0 DEF OnTop
    <3>3. QED
      BY <2>3, <2>11, <2>12, <2>13, <3>1, <3>2
  <2>15. q.page \in 1..(Depth - 1)
    BY <2>0, <2>11, <2>12, <2>14
  <2>16. authReq'[s] = NoRequest
    BY <2>11 DEF InOrder, Requests
  <2>17. QED
    BY <2>11, <2>15, <2>16
<1>2. InOrder /\ [AuthNext]_authVars => [Backwards => Covered \/ Message]_authVars
  BY <1>1
<1>3. QED
  BY <1>2, InOrderHolds, PTL DEF AuthSpec, BackwardsOnlyFromBelow

-----------------------------------------------------------------------------
(* The refinement: a step accepted is Accept, everything else moves the    *)
(* last page on or off the stack, or stutters.                             *)

LEMMA AcceptInOrder ==
    ASSUME NEW st \in Step, Earlier(st) \subseteq passed,
           passed' = passed \cup {st}, AtEnd' = AtEnd
    PROVE  Order!OrderNext
<1>1. PICK i \in DOMAIN authSn : authSn[i] = st
  BY DEF Step
<1>2. DOMAIN authSn = 1..5
  BY DEF authSn
<1>3. {authSn[j] : j \in 1..(i - 1)} \subseteq Earlier(st)
  BY <1>1, <1>2 DEF Earlier
<1>4. Order!Accept(i)
  BY <1>1, <1>3 DEF Order!Accept
<1>5. QED
  BY <1>4 DEF Order!OrderNext

\* The authentication implements AuthOrder.
THEOREM OrderImplemented == AuthSpec => ImplementsOrder
<1>1. AuthInit => Order!OrderInit
  <2> SUFFICES ASSUME AuthInit PROVE Order!OrderInit
    OBVIOUS
  <2>1. DOMAIN screens = {}
    BY DEF AuthInit
  <2>2. ~AtEnd
    BY <2>1 DEF AtEnd
  <2>3. QED
    BY <2>2 DEF AuthInit, Order!OrderInit
<1>2. /\ InOrder /\ WebKnown /\ InOrder' /\ [AuthNext]_authVars
      => [Order!OrderNext]_(Order!orderVars)
  <2> SUFFICES ASSUME InOrder, WebKnown, InOrder', [AuthNext]_authVars
               PROVE  [Order!OrderNext]_(Order!orderVars)
    OBVIOUS
  <2>1. ASSUME NEW s \in AuthSlot, accepts(s) PROVE Order!OrderNext
    <3>1. authReq[s].call \in Submission /\ Earlier(authReq[s].call) \subseteq passed
      BY <2>1 DEF accepts, InOrder, Requests, Heard
    <3>2. authReq[s].call \in Step
      BY <3>1, StepFacts DEF Submission
    <3>3. passed' = passed \cup {authReq[s].call} /\ UNCHANGED screens
      BY <2>1 DEF accepts
    <3>4. AtEnd' = AtEnd
      BY <3>3 DEF AtEnd
    <3>5. QED
      BY <3>1, <3>2, <3>3, <3>4, AcceptInOrder
  <2>2. ASSUME operatorAccepts PROVE Order!OrderNext
    <3>1. Needs("YSSWeb") \subseteq passed
      BY <2>2 DEF operatorAccepts, WebKnown, InOrder, Stack
    <3>2. Earlier("auth-tele") \subseteq passed /\ "auth-tele" \in Step
      BY <3>1, NeedsFacts, StepFacts
    <3>3. passed' = passed \cup {"auth-tele"} /\ AtEnd' = AtEnd
      BY <2>2 DEF operatorAccepts, AtEnd
    <3>4. QED
      BY <3>2, <3>3, AcceptInOrder
  <2>3. ASSUME UNCHANGED passed PROVE [Order!OrderNext]_(Order!orderVars)
    <3>1. AtEnd' => passed' = Step
      <4>1. ASSUME AtEnd' PROVE Needs("FinishAuthen") \subseteq passed'
        <5>1. PICK i \in DOMAIN screens' : screens'[i] = "FinishAuthen"
          BY <4>1 DEF AtEnd
        <5>2. Stack(screens', passed')
          BY DEF InOrder
        <5>3. QED
          BY <5>1, <5>2 DEF Stack
      <4>2. QED
        BY <4>1, NeedsFacts DEF InOrder
    <3>2. CASE AtEnd /\ AtEnd'
      BY <2>3, <3>2 DEF Order!orderVars, AtEnd
    <3>3. CASE ~AtEnd /\ ~AtEnd'
      BY <2>3, <3>3 DEF Order!orderVars, AtEnd
    <3>4. CASE ~AtEnd /\ AtEnd'
      <4>1. passed = Step
        BY <2>3, <3>1, <3>4
      <4>2. Order!Finish
        BY <2>3, <3>4, <4>1 DEF Order!Finish, Order!Steps, Step, AtEnd
      <4>3. QED
        BY <4>2 DEF Order!OrderNext
    <3>5. CASE AtEnd /\ ~AtEnd'
      BY <2>3, <3>5 DEF Order!OrderNext, Order!Leave, AtEnd
    <3>6. QED
      BY <3>2, <3>3, <3>4, <3>5
  <2>4. QED
    BY <2>1, <2>2, <2>3
       DEF AuthNext, ServerNext, UserNext, AnswerNext, authVars, refuses, tells, turnsDown,
           openEvaluation, backAction, rightBtnClip, renZhengButtonClick, AuthenDetialNext,
           useCusAuthInsert, nextButtonClick, didReceiveScriptMessage, evaluationAnswered,
           faceAnswered, answered, failed
<1>3. QED
  BY <1>1, <1>2, InOrderHolds, PTL DEF AuthSpec, ImplementsOrder, Order!OrderSpec
=============================================================================
