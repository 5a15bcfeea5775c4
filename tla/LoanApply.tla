------------------------------ MODULE LoanApply ------------------------------
(***************************************************************************)
(* Applying for a loan: LoanViewController (the amount, the plan the       *)
(* server computes for it, the account the loan is paid to, the button     *)
(* that applies), MyBankViewController over it (the choice of an account,  *)
(* announced as "Bank_Model") and LoanOningViewController (what was        *)
(* applied for).  Answers come in any order, also while another screen is  *)
(* on top; the completions hold the screen weakly.  A release build: an    *)
(* index beyond an array is nil (NSArray+beyond.m), but nil in a           *)
(* dictionary literal still ends the process.                              *)
(***************************************************************************)
EXTENDS Naturals

CONSTANTS
    Amount,            \* bound: the amounts that are typed or offered, 0 for
                       \* the empty field
    creditLeftamtStr,  \* the limit MainViewController hands over
    Card,              \* the user's bank cards
    NoCard,            \* nil
    Slot               \* bound: the requests under way at one time

ASSUME LoanAssumption ==
    /\ Amount \subseteq Nat /\ 0 \in Amount
    /\ creditLeftamtStr \in Nat
    /\ NoCard \notin Card

VARIABLES
    screens,         \* LoanViewController and what lies over it, {} once it
                     \* is gone
    prodsModel,      \* the amount of the product offered, 0 before the answer
    moneyText,       \* the amount in the field
    repayDueList,    \* the amount whose plan is shown: none or one
    firstBankModel,  \* the account shown
    enabled,         \* nextBut.enabled
    visible,         \* nextBut and bankView are on the screen
    req,             \* the requests under way
    receipt,         \* LoanOning: the account paid and the account it names
    crashed          \* why the process ended, "no" while it runs

page == <<prodsModel, moneyText, repayDueList, firstBankModel, enabled, visible>>
vars == <<screens, page, req, receipt, crashed>>

MaybeCard == Card \cup {NoCard}
Kind == {"none", "prods", "plan", "banks", "lend"}
NoRequest == [kind |-> "none", amount |-> 0, card |-> NoCard]
Request == [kind : Kind, amount : Amount, card : MaybeCard]
NoReceipt == [paid |-> NoCard, named |-> NoCard]

TypeOK ==
    /\ screens \subseteq {"Loan", "MyBank", "LoanOning"}
    /\ screens # {} => "Loan" \in screens
    /\ prodsModel \in Amount /\ moneyText \in Amount
    /\ repayDueList \subseteq Amount
    /\ firstBankModel \in MaybeCard
    /\ enabled \in BOOLEAN /\ visible \in BOOLEAN
    /\ req \in [Slot -> Request]
    /\ receipt \in [paid : MaybeCard, named : MaybeCard]
    /\ crashed \in {"no", "edit", "product", "submit"}

(* MyBank lies only on LoanViewController, and nothing on LoanOning.       *)
Top == IF "LoanOning" \in screens THEN "LoanOning"
       ELSE IF "MyBank" \in screens THEN "MyBank" ELSE "Loan"
On(k) == crashed = "no" /\ screens # {} /\ Top = k
Waiting(s, kind) == crashed = "no" /\ screens # {} /\ req[s].kind = kind

(* A slot's request is answered, or goes on as a request of another kind.  *)
Answer(s) == req' = [req EXCEPT ![s] = NoRequest]
GoOn(s, kind, a) == req' = [req EXCEPT ![s] = [kind |-> kind, amount |-> a, card |-> NoCard]]
Below == screens \ {Top}

Fresh(s) == [r \in Slot |-> IF r = s THEN [NoRequest EXCEPT !.kind = "prods"] ELSE NoRequest]

(* viewDidLoad asks for the products; a button nobody disabled is enabled. *)
Init ==
    /\ screens = {"Loan"}
    /\ prodsModel = 0 /\ moneyText = 0 /\ repayDueList = {}
    /\ firstBankModel = NoCard
    /\ enabled = TRUE /\ visible = FALSE
    /\ \E s \in Slot : req = Fresh(s)
    /\ receipt = NoReceipt
    /\ crashed = "no"

(* The screen is opened again; nobody hears the answers of an earlier one. *)
viewDidLoad(s) ==
    /\ screens = {} \/ crashed # "no"
    /\ screens' = {"Loan"}
    /\ prodsModel' = 0 /\ moneyText' = 0 /\ repayDueList' = {}
    /\ firstBankModel' = NoCard
    /\ enabled' = TRUE /\ visible' = FALSE
    /\ req' = Fresh(s)
    /\ receipt' = NoReceipt
    /\ crashed' = "no"

-----------------------------------------------------------------------------
(* Mutated form of useGetAppRrods: the cards are asked for without waiting *)
(* for the plan.                                                           *)
useGetAppRrodsEager(s) ==
    /\ Waiting(s, "prods")
    /\ \E a \in Amount \ {0} : prodsModel' = a /\ moneyText' = a
    /\ GoOn(s, "banks", 0)
    /\ UNCHANGED <<screens, repayDueList, firstBankModel, enabled, visible, receipt, crashed>>

(* The products: the first one's amount replaces what is in the field and  *)
(* its plan is asked for, whatever the limit.  A product without a fixed   *)
(* term has no term, and the request's dictionary literal raises.          *)
useGetAppRrods(s) ==
    /\ Waiting(s, "prods")
    /\ \/ \E a \in Amount \ {0} :
             /\ prodsModel' = a /\ moneyText' = a
             /\ \/ GoOn(s, "plan", a) /\ UNCHANGED crashed
                \/ crashed' = "product" /\ UNCHANGED req
       \/ Answer(s) /\ UNCHANGED <<prodsModel, moneyText, crashed>>
    /\ UNCHANGED <<screens, repayDueList, firstBankModel, enabled, visible, receipt>>

(* The page shows the plan of an amount.                                   *)
relodHuanKuanCenterView(a) == repayDueList' = {a}

(* The plan: shown for the amount it was asked for; then the cards are     *)
(* asked for again.  An error leaves everything as it is.                  *)
useGetRepayInfo(s) ==
    /\ Waiting(s, "plan")
    /\ \/ relodHuanKuanCenterView(req[s].amount) /\ GoOn(s, "banks", 0)
       \/ UNCHANGED repayDueList /\ Answer(s)
    /\ UNCHANGED <<screens, prodsModel, moneyText, firstBankModel, enabled, visible, receipt,
                   crashed>>

(* The page shows an account, and with it the rest: agreement and button.  *)
reloadBankView(c) == firstBankModel' = c /\ visible' = TRUE

(* The cards: the first one takes the place of whatever was chosen (nil if *)
(* there is none).                                                         *)
useGetBankList(s) ==
    /\ Waiting(s, "banks")
    /\ Answer(s)
    /\ \/ \E c \in MaybeCard : reloadBankView(c)
       \/ UNCHANGED <<firstBankModel, visible>>
    /\ UNCHANGED <<screens, prodsModel, moneyText, repayDueList, enabled, receipt, crashed>>

-----------------------------------------------------------------------------
(* Mutated forms of textCLick: the button is left alone; the plan of an    *)
(* amount beyond the limit is asked for as well.                           *)
textCLickKeepsButton(s, a) ==
    /\ On("Loan")
    /\ moneyText' = a
    /\ IF a > creditLeftamtStr THEN UNCHANGED <<req, crashed>>
       ELSE IF prodsModel = 0 THEN crashed' = "edit" /\ UNCHANGED req
       ELSE req[s] = NoRequest /\ GoOn(s, "plan", a) /\ UNCHANGED crashed
    /\ UNCHANGED <<screens, prodsModel, repayDueList, firstBankModel, enabled, visible, receipt>>

textCLickUnlimited(s, a) ==
    /\ On("Loan")
    /\ moneyText' = a
    /\ enabled' = (a # 0)
    /\ IF prodsModel = 0 THEN crashed' = "edit" /\ UNCHANGED req
       ELSE req[s] = NoRequest /\ GoOn(s, "plan", a) /\ UNCHANGED crashed
    /\ UNCHANGED <<screens, prodsModel, repayDueList, firstBankModel, visible, receipt>>

(* An edit of the amount.  Beyond the limit a warning is shown and no plan *)
(* asked for; the button stays as the field is empty or not.  Before the   *)
(* products are there the request's dictionary literal raises.             *)
textCLick(s, a) ==
    /\ On("Loan")
    /\ moneyText' = a
    /\ enabled' = (a # 0)
    /\ IF a > creditLeftamtStr THEN UNCHANGED <<req, crashed>>
       ELSE IF prodsModel = 0 THEN crashed' = "edit" /\ UNCHANGED req
       ELSE req[s] = NoRequest /\ GoOn(s, "plan", a) /\ UNCHANGED crashed
    /\ UNCHANGED <<screens, prodsModel, repayDueList, firstBankModel, visible, receipt>>

chouseCardButtonClick ==
    /\ On("Loan") /\ visible
    /\ screens' = screens \cup {"MyBank"}
    /\ UNCHANGED <<page, req, receipt, crashed>>

(* MyBank announces the card chosen and pops itself.                       *)
notificationClick(c) ==
    /\ On("MyBank")
    /\ reloadBankView(c)
    /\ screens' = Below
    /\ UNCHANGED <<prodsModel, moneyText, repayDueList, enabled, req, receipt, crashed>>

(* The button applies for the amount in the field, to the account shown.   *)
(* Its throttle spaces taps by five seconds; nothing else keeps a second   *)
(* application from being sent while one is under way.                     *)
sureButtonClick(s) ==
    /\ On("Loan") /\ visible /\ enabled
    /\ IF firstBankModel = NoCard THEN crashed' = "submit" /\ UNCHANGED req
       ELSE /\ req[s] = NoRequest
            /\ req' = [req EXCEPT ![s] = [kind |-> "lend", amount |-> moneyText,
                                          card |-> firstBankModel]]
            /\ UNCHANGED crashed
    /\ UNCHANGED <<screens, page, receipt>>

(* The loan is accepted: LoanOning is pushed on whatever is on top (not on *)
(* itself), with the account shown by now.                                 *)
useLoanLendTradeUp(s) ==
    /\ Waiting(s, "lend")
    /\ Answer(s)
    /\ \/ /\ Top # "LoanOning"
          /\ screens' = screens \cup {"LoanOning"}
          /\ receipt' = [paid |-> req[s].card, named |-> firstBankModel]
       \/ UNCHANGED <<screens, receipt>>
    /\ UNCHANGED <<page, crashed>>

backAction ==
    /\ crashed = "no" /\ screens # {}
    /\ screens' = Below
    /\ UNCHANGED <<page, req, receipt, crashed>>

(* LoanOning's "done" returns to the root of the tab.                      *)
rightBtnClip ==
    /\ On("LoanOning")
    /\ screens' = {}
    /\ UNCHANGED <<page, req, receipt, crashed>>

Next ==
    \/ \E s \in Slot :
          \/ viewDidLoad(s)
          \/ useGetAppRrods(s) \/ useGetRepayInfo(s) \/ useGetBankList(s)
          \/ \E a \in Amount : textCLick(s, a)
          \/ sureButtonClick(s) \/ useLoanLendTradeUp(s)
    \/ chouseCardButtonClick
    \/ \E c \in Card : notificationClick(c)
    \/ backAction \/ rightBtnClip

Spec == Init /\ [][Next]_vars

-----------------------------------------------------------------------------
(* Nobody can apply before a product and the plan of some amount have been *)
(* shown: the button depends on a chain of three answers.                  *)
ButtonNeedsPlan == visible => (prodsModel # 0 /\ repayDueList # {})

(* Every application on its way names an amount and an account, in spite   *)
(* of fields cleared, products and card lists that arrive late, or empty.  *)
LoanNamesAmountAndCard ==
    \A s \in Slot : req[s].kind = "lend" => (req[s].amount # 0 /\ req[s].card # NoCard)

(* A plan is shown only for an amount within the limit or for the amount   *)
(* of the product itself, in whichever order plans are answered.           *)
PlanWithinLimit ==
    \A a \in repayDueList : a <= creditLeftamtStr \/ a = prodsModel
=============================================================================
