------------------------------ MODULE AuthSteps -----------------------------
(***************************************************************************)
(* The authentication: five steps at the server, a list of them on the     *)
(* evaluation page, and a screen per step, each leading on to the next     *)
(* when its submission is answered with success. A request stays under way *)
(* while the user goes back or submits again; its answer then meets        *)
(* another stack. The evaluation page reads its list once.                 *)
(***************************************************************************)
EXTENDS Naturals, Sequences, FiniteSets

CONSTANTS
    AuthSlot,   \* bound: requests under way together
    MaxDepth,   \* bound: screens over the home screen
    MaxTurned,  \* bound: steps turned down at the same time
    NoList,     \* the evaluation page has no list yet
    NoRequest   \* a free slot

\* The order in which the server lists the steps (authSn).
authSn == <<"auth-cert", "auth-face", "auth-tele", "auth-card", "auth-zx">>
Step == {authSn[i] : i \in DOMAIN authSn}

\* 0 open, 1 passed, 9 turned down.
AuthList == [Step -> {0, 1, 9}]

\* The screens in the order of the chain.
Chain == <<"Evaluation", "Authentication", "AuthenDetial", "FaceAuthen", "YSSWeb",
           "BankAuthen", "ApplicationInformation", "FinishAuthen">>
Screen == {Chain[i] : i \in DOMAIN Chain}
Rank(sc) == CHOOSE i \in DOMAIN Chain : Chain[i] = sc

\* What a page asks of the server: the list, the operator's page, or one of
\* the steps that are submitted.
Submission == {"auth-cert", "auth-face", "auth-card", "auth-zx"}
Call == Submission \cup {"list", "operator"}
AuthRequest == [call : Call, page : 0..MaxDepth, answer : {"none", "yes", "no"},
                list : AuthList \cup {NoList}]

\* The bounds are numbers; a sentinel is none of the values it stands beside.
ASSUME AuthAssumption ==
    /\ MaxDepth \in Nat \ {0}
    /\ MaxTurned \in Nat
    /\ NoList \notin AuthList
    /\ NoRequest \notin AuthRequest

VARIABLES
    serverState,  \* the steps as the server knows them
    passed,       \* history: the steps the server ever accepted
    screens,      \* the stack over the home screen
    evaluationList,  \* the evaluation page's listArray
    authReq,      \* requests; page: where the asking page lies, 0 once popped
    webLeft       \* a page of the operator's was popped: its message handler,
                  \* the page itself, keeps it and its script alive

authVars == <<serverState, passed, screens, evaluationList, authReq, webLeft>>

AuthTypeOK ==
    /\ serverState \in AuthList
    /\ passed \in SUBSET Step
    /\ screens \in Seq(Screen)
    /\ Len(screens) <= MaxDepth
    /\ evaluationList \in AuthList \cup {NoList}
    /\ authReq \in [AuthSlot -> AuthRequest \cup {NoRequest}]
    /\ webLeft \in BOOLEAN

AuthInit ==
    /\ serverState = [s \in Step |-> 0]
    /\ passed = {}
    /\ screens = <<>>
    /\ evaluationList = NoList
    /\ authReq = [s \in AuthSlot |-> NoRequest]
    /\ webLeft = FALSE

Earlier(st) == {authSn[j] : j \in {k \in DOMAIN authSn :
                                      \E i \in DOMAIN authSn : k < i /\ authSn[i] = st}}

Depth == Len(screens)
OnTop(sc) ==
    /\ screens # <<>>
    /\ screens[Depth] = sc

Ask(c, p) == [call |-> c, page |-> p, answer |-> "none", list |-> NoList]

-----------------------------------------------------------------------------
(* The server.                                                             *)

accepts(s) ==
    /\ authReq[s] # NoRequest
    /\ authReq[s].answer = "none"
    /\ authReq[s].call \in Submission
    /\ serverState' = [serverState EXCEPT ![authReq[s].call] = 1]
    /\ passed' = passed \cup {authReq[s].call}
    /\ authReq' = [authReq EXCEPT ![s].answer = "yes"]
    /\ UNCHANGED <<screens, evaluationList, webLeft>>

refuses(s) ==
    /\ authReq[s] # NoRequest
    /\ authReq[s].answer = "none"
    /\ authReq' = [authReq EXCEPT ![s].answer = "no"]
    /\ UNCHANGED <<serverState, passed, screens, evaluationList, webLeft>>

tells(s) ==
    /\ authReq[s] # NoRequest
    /\ authReq[s].answer = "none"
    /\ authReq[s].call \in {"list", "operator"}
    /\ authReq' = [authReq EXCEPT ![s].answer = "yes",
                                  ![s].list = IF authReq[s].call = "list" THEN serverState
                                                                          ELSE NoList]
    /\ UNCHANGED <<serverState, passed, screens, evaluationList, webLeft>>

\* A step that was passed is turned down by a later review.
turnsDown(st) ==
    /\ serverState[st] = 1
    /\ Cardinality({t \in Step : serverState[t] = 9}) < MaxTurned
    /\ serverState' = [serverState EXCEPT ![st] = 9]
    /\ UNCHANGED <<passed, screens, evaluationList, authReq, webLeft>>

\* The operator lets the user in, on any of its pages that was ever opened: the
\* one on top, a covered one or one that was popped.
operatorAccepts ==
    /\ webLeft \/ \E i \in DOMAIN screens : screens[i] = "YSSWeb"
    /\ serverState' = [serverState EXCEPT !["auth-tele"] = 1]
    /\ passed' = passed \cup {"auth-tele"}
    /\ UNCHANGED <<screens, evaluationList, authReq, webLeft>>

-----------------------------------------------------------------------------
(* The stack. A push of the class on top already is refused. A page popped *)
(* keeps its requests, but has no navigation controller any more.          *)

pushViewController(sc) ==
    IF OnTop(sc) THEN UNCHANGED screens
    ELSE /\ Depth < MaxDepth
         /\ screens' = Append(screens, sc)

Orphaned(d) ==
    [s \in AuthSlot |->
        IF authReq[s] # NoRequest /\ authReq[s].page > d
        THEN [authReq[s] EXCEPT !.page = 0]
        ELSE authReq[s]]

send(c) ==
    \E s \in AuthSlot :
        /\ authReq[s] = NoRequest
        /\ authReq' = [authReq EXCEPT ![s] = Ask(c, Depth)]

\* The home screen opens the evaluation page, which asks for its list.
openEvaluation ==
    /\ screens = <<>>
    /\ screens' = <<"Evaluation">>
    /\ evaluationList' = NoList
    /\ \E s \in AuthSlot :
        /\ authReq[s] = NoRequest
        /\ authReq' = [authReq EXCEPT ![s] = Ask("list", 1)]
    /\ UNCHANGED <<serverState, passed, webLeft>>

backAction ==
    /\ screens # <<>>
    /\ screens' = SubSeq(screens, 1, Depth - 1)
    /\ authReq' = Orphaned(Depth - 1)
    /\ webLeft' = (webLeft \/ OnTop("YSSWeb"))
    /\ UNCHANGED <<serverState, passed, evaluationList>>

\* FinishAuthen: back to the home screen.
rightBtnClip ==
    /\ OnTop("FinishAuthen")
    /\ screens' = <<>>
    /\ authReq' = Orphaned(0)
    /\ webLeft' = (webLeft \/ \E i \in DOMAIN screens : screens[i] = "YSSWeb")
    /\ UNCHANGED <<serverState, passed, evaluationList>>

-----------------------------------------------------------------------------
(* The evaluation page.                                                    *)

Open(l, st) == l[st] \in {0, 9}

StepScreen(st) ==
    CASE st = "auth-cert" -> "Authentication"
      [] st = "auth-face" -> "FaceAuthen"
      [] st = "auth-tele" -> "YSSWeb"
      [] st = "auth-card" -> "BankAuthen"
      [] st = "auth-zx" -> "ApplicationInformation"

\* Mutated form of FirstOpen: the loop does not return at the first.
LastOpen(l, st) ==
    /\ Open(l, st)
    /\ \A t \in Step : st \in Earlier(t) => ~Open(l, t)

FirstOpen(l, st) ==
    /\ Open(l, st)
    /\ \A t \in Earlier(st) : ~Open(l, t)

\* The first open step's screen; the operator's page has to be asked for.
renZhengButtonClick ==
    /\ OnTop("Evaluation")
    /\ evaluationList # NoList
    /\ \E st \in Step :
        /\ FirstOpen(evaluationList, st)
        /\ IF st = "auth-tele"
           THEN /\ send("operator")
                /\ UNCHANGED screens
           ELSE /\ pushViewController(StepScreen(st))
                /\ UNCHANGED authReq
    /\ UNCHANGED <<serverState, passed, evaluationList, webLeft>>

-----------------------------------------------------------------------------
(* The screens of the steps.                                               *)

\* AuthenDetial has nothing to submit.
AuthenDetialNext ==
    /\ OnTop("AuthenDetial")
    /\ pushViewController("FaceAuthen")
    /\ UNCHANGED <<serverState, passed, evaluationList, authReq, webLeft>>

\* A hud covers the page while its photographs are being uploaded.
useCusAuthInsert ==
    /\ OnTop("Authentication")
    /\ \A s \in AuthSlot : authReq[s] # NoRequest => authReq[s].page # Depth
    /\ send("auth-cert")
    /\ UNCHANGED <<serverState, passed, screens, evaluationList, webLeft>>

\* The other three may be touched again while a request is under way.
nextButtonClick(st) ==
    /\ st \in {"auth-face", "auth-card", "auth-zx"}
    /\ OnTop(StepScreen(st))
    /\ send(st)
    /\ UNCHANGED <<serverState, passed, screens, evaluationList, webLeft>>

\* A page of the operator's says nextStep to a user who was let in, as often as
\* its script likes and whatever lies on top of it by then. (A popped page says
\* it too; it has no navigation controller to push with.)
didReceiveScriptMessage(i) ==
    /\ screens[i] = "YSSWeb"
    /\ "auth-tele" \in passed
    /\ pushViewController("BankAuthen")
    /\ UNCHANGED <<serverState, passed, evaluationList, authReq, webLeft>>

-----------------------------------------------------------------------------
(* Answers.                                                                *)

\* Mutated form of NextScreen: the bank card is the last step.
NextScreenEndsAtCard(c) ==
    CASE c = "auth-cert" -> "AuthenDetial"
      [] c = "operator" -> "YSSWeb"
      [] c = "auth-card" -> "FinishAuthen"
      [] c = "auth-zx" -> "FinishAuthen"

\* Mutated form of NextScreen: after the operator the details are shown again.
NextScreenBack(c) ==
    CASE c = "auth-cert" -> "AuthenDetial"
      [] c = "operator" -> "AuthenDetial"
      [] c = "auth-card" -> "ApplicationInformation"
      [] c = "auth-zx" -> "FinishAuthen"

\* Where an answer with success leads.
NextScreen(c) ==
    CASE c = "auth-cert" -> "AuthenDetial"
      [] c = "operator" -> "YSSWeb"
      [] c = "auth-card" -> "ApplicationInformation"
      [] c = "auth-zx" -> "FinishAuthen"

\* The list fills the page that asked, if it is there still.
evaluationAnswered(s) ==
    /\ authReq[s] # NoRequest
    /\ authReq[s].call = "list"
    /\ authReq[s].answer = "yes"
    /\ evaluationList' = IF authReq[s].page = 0 THEN evaluationList ELSE authReq[s].list
    /\ authReq' = [authReq EXCEPT ![s] = NoRequest]
    /\ UNCHANGED <<serverState, passed, screens, webLeft>>

\* The face is known: the page goes on to ask for the operator's, popped or not.
faceAnswered(s) ==
    /\ authReq[s] # NoRequest
    /\ authReq[s].call = "auth-face"
    /\ authReq[s].answer = "yes"
    /\ authReq' = [authReq EXCEPT ![s] = Ask("operator", authReq[s].page)]
    /\ UNCHANGED <<serverState, passed, screens, evaluationList, webLeft>>

\* A page that is on the stack pushes, over whatever lies on top.
answered(s) ==
    /\ authReq[s] # NoRequest
    /\ authReq[s].call \notin {"list", "auth-face"}
    /\ authReq[s].answer = "yes"
    /\ IF authReq[s].page = 0 THEN UNCHANGED screens
                              ELSE pushViewController(NextScreen(authReq[s].call))
    /\ authReq' = [authReq EXCEPT ![s] = NoRequest]
    /\ UNCHANGED <<serverState, passed, evaluationList, webLeft>>

\* A message, or no connection (before or after the server's part).
failed(s) ==
    /\ authReq[s] # NoRequest
    /\ authReq[s].answer # "none"
    /\ authReq' = [authReq EXCEPT ![s] = NoRequest]
    /\ UNCHANGED <<serverState, passed, screens, evaluationList, webLeft>>

-----------------------------------------------------------------------------
ServerNext ==
    \/ \E s \in AuthSlot : accepts(s) \/ refuses(s) \/ tells(s)
    \/ \E st \in Step : turnsDown(st)
    \/ operatorAccepts

UserNext ==
    \/ openEvaluation
    \/ backAction
    \/ rightBtnClip
    \/ renZhengButtonClick
    \/ AuthenDetialNext
    \/ useCusAuthInsert
    \/ \E st \in Step : nextButtonClick(st)
    \/ \E i \in DOMAIN screens : didReceiveScriptMessage(i)

AnswerNext ==
    \E s \in AuthSlot :
        \/ evaluationAnswered(s)
        \/ faceAnswered(s)
        \/ answered(s)
        \/ failed(s)

AuthNext == ServerNext \/ UserNext \/ AnswerNext

AuthSpec == AuthInit /\ [][AuthNext]_authVars

-----------------------------------------------------------------------------
(* Properties.                                                             *)

\* The end of the authentication is on the stack.
AtEnd == \E i \in DOMAIN screens : screens[i] = "FinishAuthen"

\* Whoever reaches the last page has passed every step: screens left and
\* opened again, answers to pages no longer on top, steps turned down and
\* done again never let a step be left out (the chain of the screens'
\* answers, renZhengButtonClick).
FinishMeansAllPassed == AtEnd => passed = Step

\* No step is submitted before every earlier one was accepted, even when the
\* page it comes from was opened from a list that is no longer true
\* (EvaluationViewController asks for its listArray once).
SubmittedInOrder ==
    \A s \in AuthSlot :
        (authReq[s] # NoRequest /\ authReq[s].call \in Submission)
            => Earlier(authReq[s].call) \subseteq passed

\* The stack goes back to an earlier screen by a push only from a page that is
\* covered: the user had gone on when a second submission of that page was
\* answered, or when a page of the operator's said nextStep once more.
BackwardsOnlyFromBelow ==
    [][ (/\ Len(screens') = Depth + 1
         /\ screens # <<>>
         /\ Rank(screens'[Depth + 1]) < Rank(screens[Depth]))
        => \/ \E s \in AuthSlot : /\ authReq[s] # NoRequest
                                  /\ authReq[s].page \in 1..(Depth - 1)
                                  /\ authReq'[s] = NoRequest
           \/ /\ screens'[Depth + 1] = "BankAuthen"
              /\ \E i \in 1..(Depth - 1) : screens[i] = "YSSWeb" ]_authVars

\* Stack, list and requests implement AuthOrder: the steps are accepted in
\* order and the last page comes after all of them, for the steps accepted
\* and the last page on the stack.
Order == INSTANCE AuthOrder WITH order <- authSn, done <- passed, finished <- AtEnd
ImplementsOrder == Order!OrderSpec
=============================================================================
