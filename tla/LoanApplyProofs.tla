--------------------------- MODULE LoanApplyProofs ---------------------------
(* Theorems about LoanApply, for every set of amounts and cards, every     *)
(* limit and every number of requests under way: its type invariant, and   *)
(* what the chain of answers that builds the page guarantees.              *)
EXTENDS LoanApply, TLAPS

(* The variables keep their types.                                         *)
THEOREM TypeCorrect == Spec => []TypeOK
<1> USE LoanAssumption DEF MaybeCard
<1>1. Init => TypeOK
  <2> SUFFICES ASSUME Init PROVE TypeOK
    OBVIOUS
  <2>1. req \in [Slot -> Request]
    BY DEF Init, Fresh, NoRequest, Request, Kind
  <2>2. QED
    BY <2>1 DEF Init, TypeOK, NoReceipt
<1>2. TypeOK /\ [Next]_vars => TypeOK'
  <2> SUFFICES ASSUME TypeOK, [Next]_vars PROVE TypeOK'
    OBVIOUS
  <2> USE DEF TypeOK
  <2>1. \A s \in Slot : Answer(s) => req' \in [Slot -> Request]
    BY DEF Answer, NoRequest, Request, Kind
  <2>2. \A s \in Slot, k \in Kind, a \in Amount : GoOn(s, k, a) => req' \in [Slot -> Request]
    BY DEF GoOn, Request
  <2>3. /\ Below \subseteq {"Loan", "MyBank", "LoanOning"}
        /\ Below # {} => "Loan" \in Below
    BY DEF Below, Top
  <2>4. ASSUME NEW s \in Slot, viewDidLoad(s) PROVE TypeOK'
    <3>1. req' \in [Slot -> Request]
      BY <2>4 DEF viewDidLoad, Fresh, NoRequest, Request, Kind
    <3>2. QED
      BY <2>4, <3>1 DEF viewDidLoad, NoReceipt
  <2>5. ASSUME NEW s \in Slot, useGetAppRrods(s) PROVE TypeOK'
    BY <2>1, <2>2, <2>5 DEF useGetAppRrods, Kind
  <2>6. ASSUME NEW s \in Slot, useGetRepayInfo(s) PROVE TypeOK'
    <3>1. req[s].amount \in Amount
      BY DEF Request
    <3>2. QED
      BY <2>1, <2>2, <2>6, <3>1 DEF useGetRepayInfo, relodHuanKuanCenterView, Kind
  <2>7. ASSUME NEW s \in Slot, useGetBankList(s) PROVE TypeOK'
    BY <2>1, <2>7 DEF useGetBankList, reloadBankView
  <2>8. ASSUME NEW s \in Slot, NEW a \in Amount, textCLick(s, a) PROVE TypeOK'
    BY <2>2, <2>8 DEF textCLick, Kind
  <2>9. ASSUME NEW s \in Slot, sureButtonClick(s) PROVE TypeOK'
    <3>1. req' \in [Slot -> Request]
      BY <2>9 DEF sureButtonClick, Request, Kind
    <3>2. QED
      BY <2>9, <3>1 DEF sureButtonClick, page
  <2>10. ASSUME NEW s \in Slot, useLoanLendTradeUp(s) PROVE TypeOK'
    <3>1. req[s].card \in MaybeCard
      BY DEF Request
    <3>2. receipt' \in [paid : MaybeCard, named : MaybeCard]
      BY <2>10, <3>1 DEF useLoanLendTradeUp
    <3>3. QED
      BY <2>1, <2>10, <3>2 DEF useLoanLendTradeUp, page, Waiting, Top
  <2>11. CASE chouseCardButtonClick
    BY <2>11 DEF chouseCardButtonClick, page, On, Top
  <2>12. ASSUME NEW c \in Card, notificationClick(c) PROVE TypeOK'
    BY <2>3, <2>12 DEF notificationClick, reloadBankView
  <2>13. CASE backAction
    BY <2>3, <2>13 DEF backAction, page
  <2>14. CASE rightBtnClip
    BY <2>14 DEF rightBtnClip, page
  <2>15. CASE UNCHANGED vars
    BY <2>15 DEF vars, page
  <2>16. QED
    BY <2>4, <2>5, <2>6, <2>7, <2>8, <2>9, <2>10, <2>11, <2>12, <2>13, <2>14, <2>15 DEF Next
<1>3. QED
  BY <1>1, <1>2, PTL DEF Spec

-----------------------------------------------------------------------------
(* The inductive invariant: each kind of request under way vouches for the *)
(* answers before it in the chain products - plan - cards.                 *)
Within(a) == a <= creditLeftamtStr \/ a = prodsModel

OneProducts ==
    crashed = "no" =>
        \A s \in Slot : req[s].kind = "prods" =>
            /\ prodsModel = 0
            /\ \A r \in Slot : req[r].kind = "prods" => r = s
PlansBacked ==
    \A s \in Slot : req[s].kind = "plan" => (prodsModel # 0 /\ Within(req[s].amount))
CardsBacked ==
    \A s \in Slot : req[s].kind = "banks" => (prodsModel # 0 /\ repayDueList # {})
NoPlanBeforeProducts == prodsModel = 0 => repayDueList = {}
BanksOverPage == "MyBank" \in screens => visible
EnabledNeedsAmount == (prodsModel # 0 /\ enabled) => moneyText # 0

IInv ==
    /\ OneProducts /\ PlansBacked /\ CardsBacked
    /\ NoPlanBeforeProducts /\ BanksOverPage /\ EnabledNeedsAmount
    /\ ButtonNeedsPlan /\ LoanNamesAmountAndCard /\ PlanWithinLimit

(* What the slots hold after a request was answered or went on.            *)
LEMMA SlotsAfter ==
    ASSUME TypeOK, NEW s \in Slot
    PROVE  /\ Answer(s) => \A r \in Slot :
                 /\ r = s => req'[r].kind = "none"
                 /\ r # s => req'[r] = req[r]
           /\ \A k, a : GoOn(s, k, a) => \A r \in Slot :
                 /\ r = s => req'[r].kind = k /\ req'[r].amount = a
                 /\ r # s => req'[r] = req[r]
BY DEF TypeOK, Answer, GoOn, NoRequest

(* The chain of answers holds in every state.                              *)
THEOREM InvHolds == Spec => []IInv
<1> USE DEF OneProducts, PlansBacked, CardsBacked, NoPlanBeforeProducts, BanksOverPage,
            EnabledNeedsAmount, ButtonNeedsPlan, LoanNamesAmountAndCard, PlanWithinLimit, Within, IInv
<1>1. Init => IInv
  BY DEF Init, Fresh, NoRequest
<1>2. TypeOK /\ IInv /\ [Next]_vars => IInv'
  <2> SUFFICES ASSUME TypeOK, IInv, [Next]_vars PROVE IInv'
    OBVIOUS
  <2>1. ASSUME NEW s \in Slot, viewDidLoad(s) PROVE IInv'
    BY <2>1 DEF viewDidLoad, Fresh, NoRequest
  <2>2. ASSUME NEW s \in Slot, useGetAppRrods(s) PROVE IInv'
    <3>1. \A r \in Slot : req[r].kind # "plan" /\ req[r].kind # "banks"
      BY <2>2 DEF useGetAppRrods, Waiting
    <3>2. /\ repayDueList = {} /\ repayDueList' = repayDueList /\ ~visible /\ ~visible'
          /\ \A r \in Slot : req[r].kind = "prods" => r = s
      BY <2>2 DEF useGetAppRrods, Waiting
    <3>3. ASSUME NEW a \in Amount \ {0}, prodsModel' = a, moneyText' = a, GoOn(s, "plan", a)
          PROVE  IInv'
      BY <2>2, <3>1, <3>2, <3>3, SlotsAfter DEF useGetAppRrods
    <3>4. ASSUME NEW a \in Amount \ {0}, prodsModel' = a, moneyText' = a,
                 crashed' = "product", UNCHANGED req
          PROVE  IInv'
      BY <2>2, <3>1, <3>2, <3>4 DEF useGetAppRrods
    <3>5. ASSUME Answer(s), UNCHANGED <<prodsModel, moneyText, crashed>>
          PROVE  IInv'
      BY <2>2, <3>1, <3>2, <3>5, SlotsAfter DEF useGetAppRrods
    <3>6. QED
      BY <2>2, <3>3, <3>4, <3>5 DEF useGetAppRrods
  <2>3. ASSUME NEW s \in Slot, useGetRepayInfo(s) PROVE IInv'
    <3>1. prodsModel # 0 /\ Within(req[s].amount)
      BY <2>3 DEF useGetRepayInfo, relodHuanKuanCenterView, Waiting
    <3>2. CASE repayDueList' = {req[s].amount} /\ GoOn(s, "banks", 0)
      BY <2>3, <3>1, <3>2, SlotsAfter DEF useGetRepayInfo, relodHuanKuanCenterView
    <3>3. CASE UNCHANGED repayDueList /\ Answer(s)
      BY <2>3, <3>3, SlotsAfter DEF useGetRepayInfo, relodHuanKuanCenterView
    <3>4. QED
      BY <2>3, <3>2, <3>3 DEF useGetRepayInfo, relodHuanKuanCenterView
  <2>4. ASSUME NEW s \in Slot, useGetBankList(s) PROVE IInv'
    BY <2>4, SlotsAfter DEF useGetBankList, reloadBankView, Waiting
  <2>5. ASSUME NEW s \in Slot, NEW a \in Amount, textCLick(s, a) PROVE IInv'
    <3>1. CASE UNCHANGED req
      BY <2>5, <3>1 DEF textCLick, On
    <3>2. CASE /\ ~(a > creditLeftamtStr) /\ prodsModel # 0
               /\ GoOn(s, "plan", a) /\ UNCHANGED crashed
      <4>1. a <= creditLeftamtStr
        BY <3>2, LoanAssumption
      <4>2. OneProducts' /\ PlansBacked' /\ CardsBacked' /\ LoanNamesAmountAndCard'
        BY <2>5, <3>2, <4>1, SlotsAfter DEF textCLick
      <4>3. NoPlanBeforeProducts' /\ BanksOverPage' /\ ButtonNeedsPlan' /\ PlanWithinLimit'
        BY <2>5 DEF textCLick
      <4>4. EnabledNeedsAmount'
        BY <2>5 DEF textCLick
      <4>5. QED
        BY <4>2, <4>3, <4>4
    <3>3. QED
      BY <2>5, <3>1, <3>2 DEF textCLick
  <2>6. ASSUME NEW s \in Slot, sureButtonClick(s) PROVE IInv'
    <3>1. prodsModel # 0 /\ moneyText # 0
      BY <2>6 DEF sureButtonClick
    <3>2. CASE firstBankModel = NoCard
      BY <2>6, <3>2 DEF sureButtonClick, page, On
    <3>3. CASE firstBankModel # NoCard
      <4>1. /\ \A r \in Slot : r # s => req'[r] = req[r]
            /\ req'[s].kind = "lend" /\ req'[s].amount = moneyText
            /\ req'[s].card = firstBankModel
        BY <2>6, <3>3 DEF sureButtonClick, TypeOK
      <4>2. QED
        BY <2>6, <3>1, <3>3, <4>1 DEF sureButtonClick, page
    <3>4. QED
      BY <3>2, <3>3
  <2>7. ASSUME NEW s \in Slot, useLoanLendTradeUp(s) PROVE IInv'
    BY <2>7, SlotsAfter DEF useLoanLendTradeUp, page
  <2>8. CASE chouseCardButtonClick
    BY <2>8 DEF chouseCardButtonClick, page
  <2>9. ASSUME NEW c \in Card, notificationClick(c) PROVE IInv'
    <3>1. visible
      BY <2>9 DEF notificationClick, reloadBankView, On, Top
    <3>2. QED
      BY <2>9, <3>1 DEF notificationClick, reloadBankView
  <2>10. CASE backAction
    BY <2>10 DEF backAction, Below, page
  <2>11. CASE rightBtnClip
    BY <2>11 DEF rightBtnClip, page
  <2>12. CASE UNCHANGED vars
    BY <2>12 DEF vars, page
  <2>13. QED
    BY <2>1, <2>2, <2>3, <2>4, <2>5, <2>6, <2>7, <2>8, <2>9, <2>10, <2>11, <2>12 DEF Next
<1>3. QED
  BY <1>1, <1>2, TypeCorrect, PTL DEF Spec

(* Nobody applies before a product and a plan have been shown.             *)
THEOREM ButtonHolds == Spec => []ButtonNeedsPlan
<1>1. IInv => ButtonNeedsPlan
  BY DEF IInv
<1>2. QED
  BY <1>1, InvHolds, PTL

(* Every application on its way names an amount and an account.            *)
THEOREM LoanNamesHolds == Spec => []LoanNamesAmountAndCard
<1>1. IInv => LoanNamesAmountAndCard
  BY DEF IInv
<1>2. QED
  BY <1>1, InvHolds, PTL

(* The plan shown is for an amount within the limit or the product's own.  *)
THEOREM PlanHolds == Spec => []PlanWithinLimit
<1>1. IInv => PlanWithinLimit
  BY DEF IInv
<1>2. QED
  BY <1>1, InvHolds, PTL
=============================================================================
