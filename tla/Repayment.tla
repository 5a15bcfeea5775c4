------------------------------ MODULE Repayment ------------------------------
(***************************************************************************)
(* Paying bills back: RepaymentViewController (the bills, those selected,  *)
(* the amount in an editable field), RepaySelectBankView (the sheet that   *)
(* confirms amount and card) and MyBankViewController (the choice of a     *)
(* card, announced as "Bank_Model").  The list is asked for once, when the *)
(* screen opens, and may be answered at any later time; a repayment may be *)
(* answered at any time, or never.  An exception ends the process.         *)
(***************************************************************************)
EXTENDS RepayAmount

CONSTANTS
    Card,     \* the bank cards
    NoCard,   \* "(null)": the list has not arrived
    Slot      \* bound: repayments under way at one time

ASSUME CardAssumption == NoCard \notin Card

VARIABLES
    screens,      \* RepaymentViewController and MyBank over it, {} once gone
    asked,        \* the list is still to be answered
    dataArray,    \* the bills listed
    selectArray,  \* the bills selected
    dataDictt,    \* the card the list came with, NoCard before
    moneyText,    \* where the amount in the field comes from
    bankView,     \* the confirmation sheet
    req,          \* the repayments under way
    crashed

list == <<asked, dataArray, selectArray, dataDictt>>
vars == <<screens, list, moneyText, bankView, req, crashed>>

(* An amount: none yet, typed by hand, or the sum of these bills.          *)
Amount == [by : {"none", "hand", "sum"}, of : SUBSET Bill]
NoAmount == [by |-> "none", of |-> {}]
Typed == [by |-> "hand", of |-> {}]
SumOf(bills) == [by |-> "sum", of |-> bills]

MaybeCard == Card \cup {NoCard}
Sheet == [up : BOOLEAN, card : MaybeCard]
NoRequest == [sent |-> FALSE, bills |-> {}, amt |-> NoAmount, card |-> NoCard, chosen |-> NoCard]
Request == [sent : BOOLEAN, bills : SUBSET Bill, amt : Amount, card : MaybeCard, chosen : MaybeCard]

TypeOK ==
    /\ screens \subseteq {"Repayment", "MyBank"}
    /\ screens # {} => "Repayment" \in screens
    /\ asked \in BOOLEAN /\ crashed \in BOOLEAN
    /\ dataArray \subseteq Bill /\ selectArray \subseteq Bill
    /\ dataDictt \in MaybeCard
    /\ moneyText \in Amount
    /\ bankView \in Sheet
    /\ req \in [Slot -> Request]

Loaded == dataDictt # NoCard
Top == IF "MyBank" \in screens THEN "MyBank" ELSE "Repayment"
On(k) == ~crashed /\ screens # {} /\ Top = k

(* A fresh instance of the screen; what an earlier one asked for is        *)
(* answered to nobody.                                                     *)
Init ==
    /\ screens = {"Repayment"}
    /\ asked = TRUE
    /\ dataArray = {} /\ selectArray = {} /\ dataDictt = NoCard
    /\ moneyText = NoAmount
    /\ bankView = [up |-> FALSE, card |-> NoCard]
    /\ req = [s \in Slot |-> NoRequest]
    /\ crashed = FALSE

viewDidLoad ==
    /\ screens = {} \/ crashed
    /\ screens' = {"Repayment"}
    /\ asked' = TRUE
    /\ dataArray' = {} /\ selectArray' = {} /\ dataDictt' = NoCard
    /\ moneyText' = NoAmount
    /\ bankView' = [up |-> FALSE, card |-> NoCard]
    /\ req' = [s \in Slot |-> NoRequest]
    /\ crashed' = FALSE

popViewController == screens' = screens \ {Top}

(* The answer to the list: its first bill is selected and its amount put   *)
(* in the field.  An empty list is an exception: selectArray is given nil  *)
(* (a debug build stops at dataArray[0]).  An error changes nothing.       *)
useGetRepayInsert ==
    /\ asked /\ ~crashed /\ screens # {}
    /\ asked' = FALSE
    /\ \/ /\ \E bills \in SUBSET Bill \ {{}}, c \in Card : \E b \in bills :
                /\ dataArray' = bills
                /\ dataDictt' = c
                /\ selectArray' = {b}
                /\ moneyText' = SumOf({b})
          /\ UNCHANGED crashed
       \/ /\ crashed' = TRUE
          /\ UNCHANGED <<dataArray, selectArray, dataDictt, moneyText>>
       \/ UNCHANGED <<dataArray, selectArray, dataDictt, moneyText, crashed>>
    /\ UNCHANGED <<screens, bankView, req>>

Toggled(b) == IF b \in selectArray THEN selectArray \ {b} ELSE selectArray \cup {b}

(* Mutated forms of selectButtonClick: the last bill may be deselected;    *)
(* the sum is not computed again.                                          *)
selectButtonClickEmpties(b) ==
    /\ On("Repayment") /\ ~bankView.up
    /\ b \in dataArray
    /\ selectArray' = Toggled(b)
    /\ moneyText' = SumOf(selectArray')
    /\ UNCHANGED <<screens, asked, dataArray, dataDictt, bankView, req, crashed>>

selectButtonClickSilent(b) ==
    /\ On("Repayment") /\ ~bankView.up
    /\ b \in dataArray
    /\ selectArray # {b}
    /\ selectArray' = Toggled(b)
    /\ UNCHANGED <<screens, asked, dataArray, dataDictt, moneyText, bankView, req, crashed>>

(* The box of a bill.  The last selected bill stays; getAllAmutMoney puts  *)
(* the new sum in the field, whatever was typed there.                     *)
selectButtonClick(b) ==
    /\ On("Repayment") /\ ~bankView.up
    /\ b \in dataArray
    /\ selectArray # {b}
    /\ selectArray' = Toggled(b)
    /\ moneyText' = SumOf(selectArray')
    /\ UNCHANGED <<screens, asked, dataArray, dataDictt, bankView, req, crashed>>

(* Mutated form of EditMoney: the sheet leaves the field within reach.     *)
EditMoneyUnderSheet ==
    /\ On("Repayment")
    /\ moneyText' = Typed
    /\ UNCHANGED <<screens, list, bankView, req, crashed>>

(* The amount is a text field: the user may type another one.              *)
EditMoney ==
    /\ On("Repayment") /\ ~bankView.up
    /\ moneyText' = Typed
    /\ UNCHANGED <<screens, list, bankView, req, crashed>>

-----------------------------------------------------------------------------
(* The sheet covers the screen; it shows the card the list came with.      *)
sureButtonClick ==
    /\ On("Repayment") /\ ~bankView.up
    /\ bankView' = [up |-> TRUE, card |-> dataDictt]
    /\ UNCHANGED <<screens, list, moneyText, req, crashed>>

cancleButtonClick ==
    /\ On("Repayment") /\ bankView.up
    /\ bankView' = [bankView EXCEPT !.up = FALSE]
    /\ UNCHANGED <<screens, list, moneyText, req, crashed>>

selectBankViewClick ==
    /\ On("Repayment") /\ bankView.up
    /\ screens' = screens \cup {"MyBank"}
    /\ UNCHANGED <<list, moneyText, bankView, req, crashed>>

(* MyBank announces the card and pops itself; the observer changes the     *)
(* title of the sheet's button and nothing else.                           *)
notificationClick(c) ==
    /\ On("MyBank")
    /\ bankView' = [bankView EXCEPT !.card = c]
    /\ popViewController
    /\ UNCHANGED <<list, moneyText, req, crashed>>

(* The sheet goes; the request names the selected bills, the amount in the *)
(* field and the card of the list.  Before the list there is no card, and  *)
(* a dictionary literal with nil is an exception.  (chosen is not part of  *)
(* the request: the card the user saw when confirming it.)                 *)
repayButClick(s) ==
    /\ On("Repayment") /\ bankView.up
    /\ ~req[s].sent
    /\ bankView' = [bankView EXCEPT !.up = FALSE]
    /\ IF Loaded
       THEN /\ req' = [req EXCEPT ![s] = [sent |-> TRUE, bills |-> selectArray,
                                          amt |-> moneyText, card |-> dataDictt,
                                          chosen |-> bankView.card]]
            /\ UNCHANGED crashed
       ELSE crashed' = TRUE /\ UNCHANGED req
    /\ UNCHANGED <<screens, list, moneyText>>

(* The answer to a repayment: a success pops whatever is on top, an error  *)
(* is only shown.                                                          *)
repayReply(s) ==
    /\ ~crashed /\ req[s].sent
    /\ req' = [req EXCEPT ![s] = NoRequest]
    /\ popViewController \/ UNCHANGED screens
    /\ UNCHANGED <<list, moneyText, bankView, crashed>>

backAction ==
    /\ ~crashed /\ screens # {}
    /\ popViewController
    /\ UNCHANGED <<list, moneyText, bankView, req, crashed>>

Next ==
    \/ viewDidLoad \/ useGetRepayInsert \/ EditMoney
    \/ \E b \in Bill : selectButtonClick(b)
    \/ sureButtonClick \/ cancleButtonClick \/ selectBankViewClick
    \/ \E c \in Card : notificationClick(c)
    \/ \E s \in Slot : repayButClick(s) \/ repayReply(s)
    \/ backAction

Spec == Init /\ [][Next]_vars

-----------------------------------------------------------------------------
(* Every repayment on its way names at least one listed bill and a card,   *)
(* and - unless the user typed the amount - asks for exactly the sum of    *)
(* the bills it names, however edits, selections, late lists, cancelled    *)
(* sheets and earlier repayments preceded it.                              *)
RequestPaysWhatItNames ==
    \A s \in Slot : req[s].sent =>
        /\ req[s].bills # {} /\ req[s].card \in Card
        /\ req[s].amt = Typed \/ req[s].amt = SumOf(req[s].bills)

(* While the sheet asks for confirmation the amount beneath it changes     *)
(* only by the one answer to the list: once that has come, what the sheet  *)
(* showed is what is charged.                                              *)
AmountSettledUnderSheet ==
    [][(bankView.up /\ bankView'.up /\ moneyText' # moneyText) => (asked /\ ~asked')]_vars

(* RepaymentViewController.m heads selectBankViewClick with "choose the    *)
(* bank card": a card shown at the confirmation is the card charged.       *)
ChosenCardIsCharged ==
    \A s \in Slot : (req[s].sent /\ req[s].chosen # NoCard) => req[s].chosen = req[s].card

(* What RequestPaysWhatItNames needs of the screen: once the list is there *)
(* something is selected, and the field holds its sum or what was typed.   *)
SelectionMatchesField ==
    Loaded => /\ selectArray # {}
              /\ moneyText = Typed \/ moneyText = SumOf(selectArray)

(* Every repayment on its way whose amount the user did not type asks for  *)
(* the sum of the bills it names to the cent, although it was added in a   *)
(* float, whatever the order in which they were selected, as long as there *)
(* are four bills at most and they come to 32768.00 at most                *)
(* (getAllAmutMoney).                                                      *)
SumToTheCent ==
    \A s \in Slot : (req[s].sent /\ req[s].amt.by = "sum") => SumsToTheCent[req[s].bills]
=============================================================================
