-------------------------------- MODULE Home --------------------------------
(***************************************************************************)
(* The home screen (MainViewController) and what the self tab shows of     *)
(* it. Each appearance asks the server for the user's account; an answer   *)
(* adds the views of the account's state to those that are there already,  *)
(* and is posted as Main_data. The account changes at the server, and      *)
(* several requests may be under way at once.                              *)
(***************************************************************************)
EXTENDS TabShell

CONSTANTS
    Fact,      \* what an account may be: userState, creditAppstate, overFlag
    HomeSlot,  \* bound: requests of the home screen under way together
    MaxAge,    \* bound: how often the account changes at the server
    NoModel,   \* no answer yet
    NoReq      \* a free slot

\* Facts have the fields of MainDetianModel; a missing field reads as 0.
ASSUME FactAssumption ==
    /\ Fact \subseteq [userState : 0..6, creditAppstate : {0, 1, 9}, overFlag : {0, 1}]
    /\ NoModel \notin Fact
\* An age is a natural number, so the bound is one; NoReq is no request.
ASSUME HomeAssumption ==
    /\ MaxAge \in Nat
    /\ NoModel \notin [fact : Fact, age : 0..MaxAge]
    /\ NoReq \notin [answer : [fact : Fact, age : 0..MaxAge] \cup {NoModel}, late : BOOLEAN]

VARIABLES
    account,      \* the account as the server knows it now
    homeReq,      \* requests under way; late once another answer came first
    detialModel,  \* the model of the last answer
    centre,       \* the fact the centre view was built from, once and for all
    panel,        \* the overFlag the repayment panel shows, or NoModel
    views,        \* the other views added to the screen
    statueLab     \* the self tab's label

homeVars == <<account, homeReq, detialModel, centre, panel, views, statueLab>>

Snapshot == [fact : Fact, age : 0..MaxAge]
HomeRequest == [answer : Snapshot \cup {NoModel}, late : BOOLEAN]
Waiting == [answer |-> NoModel, late |-> FALSE]

HomeTypeOK ==
    /\ account \in Snapshot
    /\ homeReq \in [HomeSlot -> HomeRequest \cup {NoReq}]
    /\ detialModel \in Snapshot \cup {NoModel}
    /\ centre \in Fact \cup {NoModel}
    /\ panel \in {0, 1, NoModel}
    /\ views \in SUBSET {"topBgImg", "whiteBgView", "accationView"}
    /\ statueLab \in {"", "certified", "uncertified"}

HomeInit ==
    /\ account \in [fact : Fact, age : {0}]
    /\ \E s \in HomeSlot : homeReq = [t \in HomeSlot |-> IF t = s THEN Waiting ELSE NoReq]
    /\ detialModel = NoModel
    /\ centre = NoModel
    /\ panel = NoModel
    /\ views = {}
    /\ statueLab = ""

-----------------------------------------------------------------------------
(* What the views make of a fact.                                          *)

Approved(f) ==
    /\ f.userState = 4
    /\ f.creditAppstate = 1

\* initDetialView leaves the button enabled in these states only.
statueButEnabled(f) ==
    \/ f.userState \in {1, 2}
    \/ Approved(f)

\* Where whiteBgViewButtonClick goes.
leadsTo(f) ==
    CASE f.userState \in {1, 2} -> "Evaluation"
      [] Approved(f) -> "Loan"
      [] OTHER -> "nowhere"

LabelOf(f) == IF f.userState > 3 THEN "certified" ELSE "uncertified"

\* The centre view is created by its getter, from the model of that moment.
whiteBgView(f) == IF centre = NoModel THEN f ELSE centre

-----------------------------------------------------------------------------
(* Requests. The server reads the account at some moment between sending   *)
(* and answering.                                                          *)

useMainInsert ==
    \E s \in HomeSlot :
        /\ homeReq[s] = NoReq
        /\ homeReq' = [homeReq EXCEPT ![s] = Waiting]

accountMoves ==
    /\ account.age < MaxAge
    /\ \E f \in Fact \ {account.fact} : account' = [fact |-> f, age |-> account.age + 1]
    /\ UNCHANGED <<shellVars, homeReq, detialModel, centre, panel, views, statueLab>>

\* Mutated form of serverReads: an answer may be one kept from before.
serverReadsCached(s) ==
    /\ homeReq[s] # NoReq
    /\ homeReq[s].answer = NoModel
    /\ \E n \in 0..account.age :
           homeReq' = [homeReq EXCEPT ![s].answer = [account EXCEPT !.age = n]]
    /\ UNCHANGED <<shellVars, account, detialModel, centre, panel, views, statueLab>>

serverReads(s) ==
    /\ homeReq[s] # NoReq
    /\ homeReq[s].answer = NoModel
    /\ homeReq' = [homeReq EXCEPT ![s].answer = account]
    /\ UNCHANGED <<shellVars, account, detialModel, centre, panel, views, statueLab>>

\* Slot s is given back. Once it has an effect, those still under way are late.
Done(s) == [homeReq EXCEPT ![s] = NoReq]
Overtake(s) ==
    [t \in HomeSlot |-> IF t = s \/ homeReq[t] = NoReq THEN NoReq
                        ELSE [homeReq[t] EXCEPT !.late = TRUE]]

creatInitNoAuthonUI(f) ==
    /\ f.userState \in 1..5
    /\ centre' = whiteBgView(f)
    /\ views' = views \cup {"topBgImg", "whiteBgView"}
    /\ UNCHANGED panel

\* Mutated form of creatMianUI: a panel that is there is left as it is.
creatMianUIOnce(f) ==
    /\ f.userState = 6
    /\ centre' = whiteBgView(f)
    /\ views' = (views \ {"topBgImg"}) \cup {"whiteBgView"}
                    \cup (IF f.overFlag = 1 THEN {} ELSE {"accationView"})
    /\ panel' = IF panel = NoModel THEN f.overFlag ELSE panel

\* The blue picture goes; the warning is added when it is due, and never
\* removed.
creatMianUI(f) ==
    /\ f.userState = 6
    /\ centre' = whiteBgView(f)
    /\ views' = (views \ {"topBgImg"}) \cup {"whiteBgView"}
                    \cup (IF f.overFlag = 1 THEN {} ELSE {"accationView"})
    /\ panel' = f.overFlag

\* The notification reaches the self tab once that has loaded.
selfNotificationCLick(f) ==
    statueLab' = IF "self" \in loaded THEN LabelOf(f) ELSE statueLab

\* Mutated form of mainAnswered: the notification carries the model before.
mainAnsweredPostsFirst(s) ==
    /\ homeReq[s] # NoReq
    /\ homeReq[s].answer # NoModel
    /\ LET f == homeReq[s].answer.fact IN
        /\ \/ creatInitNoAuthonUI(f)
           \/ creatMianUI(f)
           \/ /\ f.userState = 0
              /\ UNCHANGED <<centre, panel, views>>
        /\ IF detialModel = NoModel THEN UNCHANGED statueLab
                                    ELSE selfNotificationCLick(detialModel.fact)
    /\ detialModel' = homeReq[s].answer
    /\ homeReq' = Overtake(s)
    /\ UNCHANGED <<shellVars, account>>

mainAnswered(s) ==
    /\ homeReq[s] # NoReq
    /\ homeReq[s].answer # NoModel
    /\ LET f == homeReq[s].answer.fact IN
        /\ \/ creatInitNoAuthonUI(f)
           \/ creatMianUI(f)
           \/ /\ f.userState = 0
              /\ UNCHANGED <<centre, panel, views>>
        /\ selfNotificationCLick(f)
    /\ detialModel' = homeReq[s].answer
    /\ homeReq' = Overtake(s)
    /\ UNCHANGED <<shellVars, account>>

\* No connection, or a message shown instead.
mainFailed(s) ==
    /\ homeReq[s] # NoReq
    /\ homeReq' = Done(s)
    /\ UNCHANGED <<shellVars, account, detialModel, centre, panel, views, statueLab>>

-----------------------------------------------------------------------------
(* Touches.                                                                *)

RepaymentPage(over, says, state) ==
    [screen |-> "Repayment", overFlag |-> over, said |-> says, state |-> state]

\* The panel's button. The picture above the panel after a return to an
\* earlier state takes no touches, so the button stays within reach.
payButtonClick ==
    /\ AtRoot("main")
    /\ panel # NoModel
    /\ pushPage(RepaymentPage(detialModel.fact.overFlag, panel, detialModel.fact.userState))
    /\ UNCHANGED homeVars

whiteBgViewButtonClick ==
    /\ AtRoot("main")
    /\ "whiteBgView" \in views
    /\ statueButEnabled(centre)
    /\ leadsTo(detialModel.fact) # "nowhere"
    /\ pushPage([screen |-> leadsTo(detialModel.fact)])
    /\ UNCHANGED homeVars

-----------------------------------------------------------------------------
(* Properties.                                                             *)

\* Once the self tab has a label, it is the label of the model at home: the
\* same answer reaches both (useMainInsert, selfNotificationCLick:).
SelfAgrees ==
    statueLab # "" => /\ detialModel # NoModel
                      /\ statueLab = LabelOf(detialModel.fact)

\* The home screen goes back to an older account only by the answer of a
\* request that was already under way when the newer one was shown; a
\* request sent later never takes anything back (useMainInsert's block).
OlderOnlyIfOvertaken ==
    [][ (detialModel # NoModel /\ detialModel'.age < detialModel.age)
            => \E s \in HomeSlot : /\ homeReq[s] # NoReq
                                   /\ homeReq'[s] = NoReq
                                   /\ homeReq[s].late ]_homeVars
=============================================================================
