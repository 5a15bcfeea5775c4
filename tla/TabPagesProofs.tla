--------------------------- MODULE TabPagesProofs ---------------------------
(* The tabs, for every set of accounts, every number of requests under way *)
(* and every number of changes at the server: types, what the home screen  *)
(* shows of its answers, and what a page is opened with.                   *)
EXTENDS TabPages, SequenceTheorems, TLAPS

-----------------------------------------------------------------------------
(* Pages.                                                                  *)

(* A push leaves the pages below as they are.                              *)
LEMMA PushFacts ==
    ASSUME pages \in Seq(Page), NEW p \in Page, pushPage(p)
    PROVE  /\ pages' \in Seq(Page)
           /\ \A i \in DOMAIN pages' :
                 pages'[i] = p \/ (i \in DOMAIN pages /\ pages'[i] = pages[i])
           /\ UNCHANGED <<tab, loaded>>
BY DEF pushPage

(* A pop leaves the pages below the top one as they are.                   *)
LEMMA PopFacts ==
    ASSUME pages \in Seq(Page), popPage
    PROVE  /\ pages' \in Seq(Page)
           /\ \A i \in DOMAIN pages' : i \in DOMAIN pages /\ pages'[i] = pages[i]
           /\ UNCHANGED <<tab, loaded>>
<1> DEFINE n == Len(pages) - 1
<1>1. /\ n \in Int /\ 0 <= n /\ n < Len(pages)
      /\ pages # <<>> /\ pages' = SubSeq(pages, 1, n)
  BY DEF popPage
<1>2. \A i \in 1..n : i \in DOMAIN pages /\ pages[i] \in Page
  BY <1>1
<1> HIDE DEF n
<1>3. /\ SubSeq(pages, 1, n) \in Seq(Page)
      /\ Len(SubSeq(pages, 1, n)) = IF 1 <= n THEN n - 1 + 1 ELSE 0
      /\ \A i \in 1..(n - 1 + 1) : SubSeq(pages, 1, n)[i] = pages[1 + i - 1]
  BY <1>1, <1>2, SubSeqProperties
<1>4. /\ n - 1 + 1 = n /\ (IF 1 <= n THEN n ELSE 0) = n
      /\ \A i \in 1..n : 1 + i - 1 = i
  BY <1>1
<1>5. QED
  BY <1>1, <1>2, <1>3, <1>4 DEF popPage

(* Only a page of details has the screen of one.                           *)
LEMMA DetailType ==
    ASSUME NEW p \in Page, p.screen \in Detail
    PROVE  p \in [screen : Detail, kind : Kind, from : {"latest", "older"},
                  lendState : 0..5 \cup {NotYet}]
BY DEF Page, Detail

-----------------------------------------------------------------------------
(* Types.                                                                  *)

(* A page is opened from what an answer gave: there is a panel only after  *)
(* one, and rows only after one of the list's.                             *)
FromAnAnswer ==
    /\ panel # NoModel => detialModel # NoModel
    /\ listArray # "none" => listFrom # "nothing"

TypeInv == TypeOK /\ FromAnAnswer

(* The home screen's requests stay requests when one is sent.              *)
LEMMA InsertType ==
    ASSUME homeReq \in [HomeSlot -> HomeRequest \cup {NoReq}], useMainInsert
    PROVE  homeReq' \in [HomeSlot -> HomeRequest \cup {NoReq}]
<1>1. Waiting \in HomeRequest
  BY DEF Waiting, HomeRequest
<1>2. QED
  BY <1>1 DEF useMainInsert

(* The list's requests stay requests when one is sent.                     *)
LEMMA ListSentType ==
    ASSUME RecordsTypeOK, NEW k \in Kind, useLoanLendTradeList(k)
    PROVE  /\ listReq' \in [RecSlot -> ListRequest \cup {NoCall}]
           /\ listFrom' \in {"nothing", "latest", "older"}
           /\ listFrom # "nothing" => listFrom' # "nothing"
<1>1. PICK s \in RecSlot :
          listReq' = [t \in RecSlot |->
                        CASE t = s -> [loanType |-> k, latest |-> TRUE]
                          [] t # s /\ listReq[t] = NoCall -> NoCall
                          [] OTHER -> [listReq[t] EXCEPT !.latest = FALSE]]
  BY DEF useLoanLendTradeList
<1>2. [loanType |-> k, latest |-> TRUE] \in ListRequest
  BY DEF ListRequest
<1>3. \A t \in RecSlot : listReq[t] # NoCall
                           => [listReq[t] EXCEPT !.latest = FALSE] \in ListRequest
  BY DEF RecordsTypeOK, ListRequest
<1>4. listReq' \in [RecSlot -> ListRequest \cup {NoCall}]
  BY <1>1, <1>2, <1>3
<1>5. QED
  BY <1>4 DEF useLoanLendTradeList, RecordsTypeOK

(* What an answer says, and what is kept of it, is a fact at an age.       *)
LEMMA AnsweredType ==
    ASSUME HomeTypeOK, NEW s \in HomeSlot, mainAnswered(s)
    PROVE  HomeTypeOK' /\ detialModel' # NoModel
<1> DEFINE f == homeReq[s].answer.fact
<1>1. homeReq[s] \in HomeRequest /\ homeReq[s].answer \in Snapshot
  BY HomeAssumption DEF HomeTypeOK, mainAnswered, HomeRequest
<1>2. f \in Fact /\ f.overFlag \in {0, 1}
  BY <1>1, FactAssumption DEF Snapshot
<1>3. centre' \in Fact \cup {NoModel}
  BY <1>2 DEF mainAnswered, HomeTypeOK, creatInitNoAuthonUI, creatMianUI, whiteBgView
<1>4. panel' \in {0, 1, NoModel}
  BY <1>2 DEF mainAnswered, HomeTypeOK, creatInitNoAuthonUI, creatMianUI
<1>5. views' \in SUBSET {"topBgImg", "whiteBgView", "accationView"}
  BY DEF mainAnswered, HomeTypeOK, creatInitNoAuthonUI, creatMianUI
<1>6. statueLab' \in {"", "certified", "uncertified"}
  BY DEF mainAnswered, HomeTypeOK, selfNotificationCLick, LabelOf
<1>7. homeReq' \in [HomeSlot -> HomeRequest \cup {NoReq}]
  <2>1. \A t \in HomeSlot : homeReq[t] # NoReq
                             => [homeReq[t] EXCEPT !.late = TRUE] \in HomeRequest
    BY DEF HomeTypeOK, HomeRequest
  <2>2. QED
    BY <2>1 DEF mainAnswered, Overtake
<1>8. detialModel' \in Snapshot
  BY <1>1 DEF mainAnswered
<1>9. detialModel' # NoModel
  BY <1>8, HomeAssumption DEF Snapshot
<1>10. QED
  BY <1>3, <1>4, <1>5, <1>6, <1>7, <1>8, <1>9 DEF HomeTypeOK, mainAnswered

(* What the home screen's own steps do to its variables.                   *)
LEMMA HomeStepType ==
    ASSUME TypeInv, HomeNext
    PROVE  /\ HomeTypeOK'
           /\ detialModel # NoModel => detialModel' # NoModel
           /\ panel' # NoModel => detialModel' # NoModel
<1> USE DEF TypeInv, TypeOK, FromAnAnswer
<1>1. CASE accountMoves
  <2>1. account.age \in 0..MaxAge /\ account.age < MaxAge
    BY <1>1 DEF accountMoves, Snapshot, HomeTypeOK
  <2>2. account.age + 1 \in 0..MaxAge
    BY <2>1, HomeAssumption
  <2>3. account' \in Snapshot
    BY <1>1, <2>2 DEF accountMoves, Snapshot
  <2>4. QED
    BY <1>1, <2>3 DEF accountMoves, HomeTypeOK
<1>2. ASSUME NEW s \in HomeSlot, serverReads(s)
      PROVE  HomeTypeOK' /\ UNCHANGED <<panel, detialModel>>
  <2>1. [homeReq[s] EXCEPT !.answer = account] \in HomeRequest
    BY <1>2 DEF serverReads, HomeTypeOK, HomeRequest
  <2>2. QED
    BY <1>2, <2>1 DEF serverReads, HomeTypeOK
<1>3. ASSUME NEW s \in HomeSlot, mainAnswered(s) PROVE HomeTypeOK' /\ detialModel' # NoModel
  BY <1>3, AnsweredType
<1>4. ASSUME NEW s \in HomeSlot, mainFailed(s)
      PROVE  HomeTypeOK' /\ UNCHANGED <<panel, detialModel>>
  BY <1>4 DEF mainFailed, Done, HomeTypeOK
<1>5. CASE payButtonClick \/ whiteBgViewButtonClick
  BY <1>5 DEF payButtonClick, whiteBgViewButtonClick, homeVars, HomeTypeOK
<1>6. QED
  BY <1>1, <1>2, <1>3, <1>4, <1>5 DEF HomeNext, accountMoves, payButtonClick,
     whiteBgViewButtonClick, homeVars

(* A page pushed from home is one of the pages.                            *)
LEMMA HomePages ==
    ASSUME TypeInv, HomeNext
    PROVE  UNCHANGED shellVars \/ \E p \in Page : pushPage(p)
<1> USE DEF TypeInv, TypeOK, FromAnAnswer
<1>1. CASE payButtonClick
  <2>1. detialModel \in Snapshot /\ panel \in {0, 1}
    BY <1>1 DEF payButtonClick, HomeTypeOK
  <2>2. detialModel.fact.overFlag \in {0, 1} /\ detialModel.fact.userState \in 0..6
    BY <2>1, FactAssumption DEF Snapshot
  <2>3. RepaymentPage(detialModel.fact.overFlag, panel, detialModel.fact.userState) \in Page
    BY <2>1, <2>2 DEF RepaymentPage, Page
  <2>4. QED
    BY <1>1, <2>3 DEF payButtonClick
<1>2. CASE whiteBgViewButtonClick
  <2>1. leadsTo(detialModel.fact) \in {"Evaluation", "Loan"}
    BY <1>2 DEF whiteBgViewButtonClick, leadsTo
  <2>2. [screen |-> leadsTo(detialModel.fact)] \in Page
    BY <2>1 DEF Page
  <2>3. QED
    BY <1>2, <2>2 DEF whiteBgViewButtonClick
<1>3. CASE accountMoves \/ \E s \in HomeSlot : serverReads(s) \/ mainAnswered(s) \/ mainFailed(s)
  BY <1>3 DEF accountMoves, serverReads, mainAnswered, mainFailed
<1>4. QED
  BY <1>1, <1>2, <1>3 DEF HomeNext

(* A touch of the record tab's pages pushes one of the pages, and its other*)
(* steps leave the pages alone but for an answer to one of them.           *)
LEMMA RecordPages ==
    ASSUME TypeInv, RecordsNext
    PROVE  \/ UNCHANGED shellVars
           \/ \E p \in Page : pushPage(p)
           \/ \E i \in DOMAIN pages : detialAnswered(i)
<1> USE DEF TypeInv, TypeOK, FromAnAnswer, Page, Detail
<1>1. CASE didSelectRow
  <2>1. listArray \in Kind /\ listFrom \in {"latest", "older"}
    BY <1>1 DEF didSelectRow, RecordsTypeOK
  <2>2. \A sc \in Detail : DetailPage(sc, listArray, listFrom) \in Page
    BY <2>1 DEF DetailPage
  <2>3. QED
    BY <1>1, <2>2 DEF didSelectRow
<1>2. CASE loanDetialButtonClick
  <2>1. DetailPage("LoanDetial", "lend", "latest") \in Page
    BY DEF DetailPage, Kind
  <2>2. QED
    BY <1>2, <2>1 DEF loanDetialButtonClick
<1>3. CASE recordDetialLoanButtonClick
  <2>1. [screen |-> "Repayment", overFlag |-> 1, said |-> 1, state |-> 6] \in Page
    OBVIOUS
  <2>2. QED
    BY <1>3, <2>1 DEF recordDetialLoanButtonClick
<1>4. CASE bottomBUttonclick
  <2>1. [screen |-> "Repayment", overFlag |-> 0, said |-> 0, state |-> 6] \in Page
    OBVIOUS
  <2>2. QED
    BY <1>4, <2>1 DEF bottomBUttonclick
<1>5. CASE recordButtonClick
  <2>1. [screen |-> "RepayRecordDetial"] \in Page
    OBVIOUS
  <2>2. QED
    BY <1>5, <2>1 DEF recordButtonClick
<1>6. CASE \/ \E i \in {0, 1} : segControlClick(i)
           \/ \E s \in RecSlot : listAnswered(s) \/ listFailed(s)
  BY <1>6 DEF segControlClick, listAnswered, listFailed
<1>7. QED
  BY <1>1, <1>2, <1>3, <1>4, <1>5, <1>6 DEF RecordsNext

(* An answer to a page of details gives it a state, and nothing else.      *)
LEMMA DetailAnswered ==
    ASSUME TypeInv, NEW i \in DOMAIN pages, detialAnswered(i)
    PROVE  /\ pages' \in Seq(Page)
           /\ DOMAIN pages' = DOMAIN pages
           /\ \A j \in DOMAIN pages : j # i => pages'[j] = pages[j]
           /\ pages'[i].screen = pages[i].screen
           /\ pages'[i].kind = pages[i].kind
           /\ pages'[i].from = pages[i].from
           /\ pages[i].screen \in Detail
           /\ UNCHANGED <<tab, loaded, recordVars>>
<1>1. PICK l \in IF pages[i].screen = "LoanDetial" THEN LendState ELSE {0} :
          pages' = [pages EXCEPT ![i].lendState = l]
  BY DEF detialAnswered
<1>2. l \in 0..5
  BY <1>1, RecordsAssumption
<1>3. pages[i] \in Page /\ pages \in Seq(Page)
  BY DEF TypeInv, TypeOK
<1>4. pages[i] \in [screen : Detail, kind : Kind, from : {"latest", "older"},
                    lendState : 0..5 \cup {NotYet}]
  BY <1>3, DetailType DEF detialAnswered
<1> DEFINE p == [pages[i] EXCEPT !.lendState = l]
<1>5. p \in Page
  BY <1>2, <1>4 DEF Page, Detail
<1>6. p.screen = pages[i].screen /\ p.kind = pages[i].kind /\ p.from = pages[i].from
  BY <1>4
<1>7. pages' = [pages EXCEPT ![i] = p]
  BY <1>1
<1> HIDE DEF p
<1>8. /\ pages' \in Seq(Page)
      /\ DOMAIN pages' = DOMAIN pages
      /\ \A j \in DOMAIN pages : j # i => pages'[j] = pages[j]
      /\ pages'[i] = p
  BY <1>3, <1>5, <1>7
<1>9. pages[i].screen \in Detail /\ UNCHANGED <<tab, loaded, recordVars>>
  BY DEF detialAnswered
<1>10. QED
  BY <1>6, <1>8, <1>9

(* What the record tab's own steps do to its variables.                    *)
LEMMA RecordStepType ==
    ASSUME TypeInv, RecordsNext
    PROVE  RecordsTypeOK' /\ (listArray' # "none" => listFrom' # "nothing")
<1> USE DEF TypeInv, TypeOK, FromAnAnswer
<1>1. ASSUME NEW i \in {0, 1}, segControlClick(i)
      PROVE  RecordsTypeOK' /\ (listArray' # "none" => listFrom' # "nothing")
  <2>1. SegmentKind(i) \in Kind
    BY DEF SegmentKind, Kind
  <2>2. useLoanLendTradeList(SegmentKind(i))
    BY <1>1 DEF segControlClick
  <2>3. QED
    BY <1>1, <2>1, <2>2, ListSentType DEF segControlClick, RecordsTypeOK
<1>2. ASSUME NEW s \in RecSlot, listAnswered(s)
      PROVE  RecordsTypeOK' /\ (listArray' # "none" => listFrom' # "nothing")
  BY <1>2 DEF listAnswered, RecordsTypeOK, ListRequest
<1>3. ASSUME NEW s \in RecSlot, listFailed(s)
      PROVE  RecordsTypeOK' /\ (listArray' # "none" => listFrom' # "nothing")
  BY <1>3 DEF listFailed, RecordsTypeOK
<1>4. CASE UNCHANGED recordVars
  BY <1>4 DEF recordVars, RecordsTypeOK
<1>5. QED
  BY <1>1, <1>2, <1>3, <1>4, DetailAnswered DEF RecordsNext, didSelectRow,
     loanDetialButtonClick, recordDetialLoanButtonClick, bottomBUttonclick, recordButtonClick,
     detialAnswered

(* The first selection of the record tab asks for the loans.               *)
LEMMA RecordLoadType ==
    ASSUME TypeInv, recordDidLoad
    PROVE  RecordsTypeOK' /\ (listArray' # "none" => listFrom' # "nothing")
<1>1. "lend" \in Kind /\ useLoanLendTradeList("lend")
  BY DEF Kind, recordDidLoad
<1>2. QED
  BY <1>1, ListSentType DEF TypeInv, TypeOK, FromAnAnswer, recordDidLoad, RecordsTypeOK

(* The variables keep their types: the tab and the pages over it, what     *)
(* Home keeps of its answers, and the record tab's segment and list.       *)
THEOREM TypeInvHolds == Spec => []TypeInv
<1>1. Init => TypeInv
  <2> SUFFICES ASSUME Init PROVE TypeInv
    OBVIOUS
  <2> USE DEF Init
  <2>1. ShellTypeOK /\ pages \in Seq(Page)
    BY DEF ShellInit, ShellTypeOK, Tab
  <2>2. HomeTypeOK
    <3>1. Waiting \in HomeRequest
      BY DEF Waiting, HomeRequest
    <3>2. homeReq \in [HomeSlot -> HomeRequest \cup {NoReq}]
      BY <3>1 DEF HomeInit
    <3>3. account \in Snapshot
      <4>1. 0 \in 0..MaxAge
        BY HomeAssumption
      <4>2. QED
        BY <4>1 DEF HomeInit, Snapshot
    <3>4. QED
      BY <3>2, <3>3 DEF HomeInit, HomeTypeOK
  <2>3. RecordsTypeOK
    BY DEF RecordsInit, RecordsTypeOK
  <2>4. QED
    BY <2>1, <2>2, <2>3 DEF TypeInv, TypeOK, FromAnAnswer, HomeInit, RecordsInit
<1>2. TypeInv /\ [Next]_vars => TypeInv'
  <2> SUFFICES ASSUME TypeInv, [Next]_vars PROVE TypeInv'
    OBVIOUS
  <2>1. /\ ShellTypeOK /\ HomeTypeOK /\ RecordsTypeOK /\ pages \in Seq(Page)
        /\ panel # NoModel => detialModel # NoModel
        /\ listArray # "none" => listFrom # "nothing"
    BY DEF TypeInv, TypeOK, FromAnAnswer
  <2>2. CASE HomeNext /\ UNCHANGED recordVars
    <3>1. ShellTypeOK' /\ pages' \in Seq(Page)
      BY <2>1, <2>2, HomePages, PushFacts DEF ShellTypeOK, shellVars
    <3>2. RecordsTypeOK' /\ UNCHANGED <<listArray, listFrom>>
      BY <2>1, <2>2 DEF recordVars, RecordsTypeOK
    <3>3. QED
      BY <2>1, <2>2, <3>1, <3>2, HomeStepType DEF TypeInv, TypeOK, FromAnAnswer
  <2>3. CASE RecordsNext /\ UNCHANGED homeVars
    <3>1. ShellTypeOK' /\ pages' \in Seq(Page)
      BY <2>1, <2>3, RecordPages, PushFacts, DetailAnswered DEF ShellTypeOK, shellVars
    <3>2. HomeTypeOK' /\ UNCHANGED <<panel, detialModel>>
      BY <2>1, <2>3 DEF homeVars, HomeTypeOK
    <3>3. QED
      BY <2>1, <2>3, <3>1, <3>2, RecordStepType DEF TypeInv, TypeOK, FromAnAnswer
  <2>4. CASE goBack
    <3>1. ShellTypeOK' /\ pages' \in Seq(Page)
      BY <2>1, <2>4, PopFacts DEF goBack, ShellTypeOK
    <3>2. HomeTypeOK' /\ UNCHANGED <<panel, detialModel>>
      BY <2>1, <2>4, InsertType DEF goBack, homeVars, HomeTypeOK
    <3>3. RecordsTypeOK' /\ UNCHANGED <<listArray, listFrom>>
      BY <2>1, <2>4 DEF goBack, recordVars, RecordsTypeOK
    <3>4. QED
      BY <2>1, <3>1, <3>2, <3>3 DEF TypeInv, TypeOK, FromAnAnswer
  <2>5. CASE selectMain
    <3>1. ShellTypeOK' /\ pages' = pages
      BY <2>1, <2>5 DEF selectMain, selectTab, ShellTypeOK, Tab
    <3>2. HomeTypeOK' /\ UNCHANGED <<panel, detialModel>>
      BY <2>1, <2>5, InsertType DEF selectMain, HomeTypeOK
    <3>3. RecordsTypeOK' /\ UNCHANGED <<listArray, listFrom>>
      BY <2>1, <2>5 DEF selectMain, recordVars, RecordsTypeOK
    <3>4. QED
      BY <2>1, <3>1, <3>2, <3>3 DEF TypeInv, TypeOK, FromAnAnswer
  <2>6. CASE selectRecord
    <3>1. ShellTypeOK' /\ pages' = pages
      BY <2>1, <2>6 DEF selectRecord, selectTab, ShellTypeOK, Tab
    <3>2. HomeTypeOK' /\ UNCHANGED <<panel, detialModel>>
      BY <2>1, <2>6 DEF selectRecord, homeVars, HomeTypeOK
    <3>3. RecordsTypeOK' /\ (listArray' # "none" => listFrom' # "nothing")
      BY <2>1, <2>6, RecordLoadType DEF selectRecord, recordVars, RecordsTypeOK
    <3>4. QED
      BY <2>1, <3>1, <3>2, <3>3 DEF TypeInv, TypeOK, FromAnAnswer
  <2>7. CASE selectSelf
    <3>1. ShellTypeOK' /\ pages' = pages
      BY <2>1, <2>7 DEF selectSelf, selectTab, ShellTypeOK, Tab
    <3>2. QED
      BY <2>1, <2>7, <3>1 DEF selectSelf, homeVars, recordVars, HomeTypeOK, RecordsTypeOK,
         TypeInv, TypeOK, FromAnAnswer
  <2>8. CASE UNCHANGED vars
    BY <2>1, <2>8 DEF vars, shellVars, homeVars, recordVars, ShellTypeOK, HomeTypeOK,
       RecordsTypeOK, TypeInv, TypeOK, FromAnAnswer
  <2>9. QED
    BY <2>2, <2>3, <2>4, <2>5, <2>6, <2>7, <2>8 DEF Next
<1>3. QED
  BY <1>1, <1>2, PTL DEF Spec

(* The type invariant by itself.                                           *)
THEOREM TypeCorrect == Spec => []TypeOK
<1>1. TypeInv => TypeOK
  BY DEF TypeInv
<1>2. QED
  BY <1>1, TypeInvHolds, PTL

-----------------------------------------------------------------------------
(* The home screen.                                                        *)

(* What the server has read for a request that is still under way.         *)
Read(s) == homeReq[s] # NoReq /\ homeReq[s].answer # NoModel

(* What is shown is never newer than the account, and neither is an answer *)
(* under way; one that was not overtaken is not older than what is shown.  *)
AnswersInTime ==
    /\ detialModel # NoModel => detialModel.age <= account.age
    /\ \A s \in HomeSlot : Read(s) =>
          /\ homeReq[s].answer.age <= account.age
          /\ (detialModel # NoModel /\ ~homeReq[s].late)
                => detialModel.age <= homeReq[s].answer.age

(* The panel is the last answer's whenever that one draws a panel.         *)
PanelOfModel ==
    (panel # NoModel /\ detialModel.fact.userState = 6) => panel = detialModel.fact.overFlag

(* A label is there only once the self tab has been loaded: no later       *)
(* answer passes it by.                                                    *)
LabelNeedsSelf == statueLab # "" => "self" \in loaded

HomeInv == AnswersInTime /\ PanelOfModel /\ LabelNeedsSelf /\ SelfAgrees

(* Ages are numbers, wherever there is one.                                *)
LEMMA AgeFacts ==
    ASSUME TypeOK
    PROVE  /\ account.age \in Nat
           /\ detialModel # NoModel => detialModel.age \in Nat
           /\ \A s \in HomeSlot : Read(s) => homeReq[s].answer.age \in Nat
<1>1. \A a \in Snapshot : a.age \in Nat
  <2>1. \A a \in Snapshot : a.age \in 0..MaxAge
    BY DEF Snapshot
  <2>2. QED
    BY <2>1, HomeAssumption
<1>2. \A s \in HomeSlot : Read(s) => homeReq[s].answer \in Snapshot
  BY DEF Read, TypeOK, HomeTypeOK, HomeRequest
<1>3. QED
  BY <1>1, <1>2 DEF TypeOK, HomeTypeOK

(* An appearance sends a request nothing has been read for yet.            *)
LEMMA InsertKeeps ==
    ASSUME TypeOK, HomeInv, useMainInsert, loaded \subseteq loaded',
           UNCHANGED <<account, detialModel, centre, panel, views, statueLab>>
    PROVE  HomeInv'
<1>1. PICK s \in HomeSlot : homeReq' = [homeReq EXCEPT ![s] = Waiting]
  BY DEF useMainInsert
<1>2. \A t \in HomeSlot : Read(t)' => Read(t) /\ homeReq'[t] = homeReq[t]
  BY <1>1 DEF Read, Waiting, TypeOK, HomeTypeOK
<1>3. AnswersInTime'
  BY <1>2 DEF HomeInv, AnswersInTime
<1>4. QED
  BY <1>3 DEF HomeInv, PanelOfModel, LabelNeedsSelf, SelfAgrees

(* An answer is shown by all who show it, and overtakes those under way.   *)
LEMMA AnsweredKeeps ==
    ASSUME TypeInv, HomeInv, NEW s \in HomeSlot, mainAnswered(s)
    PROVE  HomeInv'
<1> DEFINE f == homeReq[s].answer.fact
<1>1. /\ Read(s) /\ detialModel' = homeReq[s].answer /\ homeReq' = Overtake(s)
      /\ UNCHANGED <<account, loaded>>
  BY DEF mainAnswered, Read, shellVars
<1>2. detialModel' # NoModel
  BY AnsweredType DEF TypeInv, TypeOK
<1>3. AnswersInTime'
  <2>1. detialModel'.age <= account'.age
    BY <1>1 DEF HomeInv, AnswersInTime
  <2>2. ASSUME NEW t \in HomeSlot, Read(t)'
        PROVE  /\ homeReq'[t].late = TRUE
               /\ homeReq'[t].answer = homeReq[t].answer
               /\ Read(t)
    <3>1. homeReq'[t] = [homeReq[t] EXCEPT !.late = TRUE] /\ homeReq[t] # NoReq
      BY <1>1, <2>2 DEF Read, Overtake
    <3>2. homeReq[t] \in HomeRequest
      BY <3>1 DEF TypeInv, TypeOK, HomeTypeOK
    <3>3. QED
      BY <2>2, <3>1, <3>2 DEF Read, HomeRequest
  <2>3. QED
    BY <1>1, <2>1, <2>2 DEF HomeInv, AnswersInTime
<1>4. PanelOfModel'
  BY <1>1 DEF mainAnswered, HomeInv, PanelOfModel, creatInitNoAuthonUI, creatMianUI
<1>5. LabelNeedsSelf' /\ SelfAgrees'
  BY <1>1, <1>2 DEF mainAnswered, selfNotificationCLick, HomeInv, LabelNeedsSelf, SelfAgrees
<1>6. QED
  BY <1>3, <1>4, <1>5 DEF HomeInv

(* The server reads the account as it is, which is no older than what the  *)
(* screen shows.                                                           *)
LEMMA ReadKeeps ==
    ASSUME TypeInv, HomeInv, NEW s \in HomeSlot, serverReads(s)
    PROVE  HomeInv'
<1>1. /\ homeReq' = [homeReq EXCEPT ![s].answer = account]
      /\ homeReq[s] \in HomeRequest
      /\ UNCHANGED <<shellVars, account, detialModel, centre, panel, views, statueLab>>
  BY DEF serverReads, TypeInv, TypeOK, HomeTypeOK
<1>2. /\ homeReq'[s].answer = account
      /\ \A t \in HomeSlot : t # s => homeReq'[t] = homeReq[t]
  BY <1>1 DEF HomeRequest, TypeInv, TypeOK, HomeTypeOK
<1>3. account.age \in Nat
  BY AgeFacts DEF TypeInv
<1>4. AnswersInTime'
  BY <1>1, <1>2, <1>3 DEF HomeInv, AnswersInTime, Read
<1>5. QED
  BY <1>1, <1>4 DEF HomeInv, PanelOfModel, LabelNeedsSelf, SelfAgrees, shellVars

(* The account moves on, and no one who shows an older one is younger.     *)
LEMMA MoveKeeps ==
    ASSUME TypeInv, HomeInv, accountMoves
    PROVE  HomeInv'
<1>1. /\ account'.age = account.age + 1
      /\ UNCHANGED <<shellVars, homeReq, detialModel, centre, panel, views, statueLab>>
  BY DEF accountMoves
<1>2. /\ account.age \in Nat
      /\ detialModel # NoModel => detialModel.age \in Nat
      /\ \A s \in HomeSlot : Read(s) => homeReq[s].answer.age \in Nat
  BY AgeFacts DEF TypeInv
<1>3. AnswersInTime'
  BY <1>1, <1>2 DEF HomeInv, AnswersInTime, Read
<1>4. QED
  BY <1>1, <1>3 DEF HomeInv, PanelOfModel, LabelNeedsSelf, SelfAgrees, shellVars

(* The inductive invariant of the home screen, under every step.           *)
THEOREM HomeInvHolds == Spec => []HomeInv
<1>1. Init => HomeInv
  <2> SUFFICES ASSUME Init PROVE HomeInv
    OBVIOUS
  <2>1. \A s \in HomeSlot : ~Read(s)
    <3>1. PICK t \in HomeSlot : homeReq = [u \in HomeSlot |-> IF u = t THEN Waiting ELSE NoReq]
      BY DEF Init, HomeInit
    <3>2. Waiting.answer = NoModel
      BY DEF Waiting
    <3>3. QED
      BY <3>1, <3>2 DEF Read
  <2>2. QED
    BY <2>1 DEF Init, HomeInit, HomeInv, AnswersInTime, PanelOfModel, LabelNeedsSelf, SelfAgrees
<1>2. TypeInv /\ HomeInv /\ [Next]_vars => HomeInv'
  <2> SUFFICES ASSUME TypeInv, HomeInv, [Next]_vars PROVE HomeInv'
    OBVIOUS
  <2>1. ASSUME UNCHANGED homeVars, loaded \subseteq loaded' PROVE HomeInv'
    BY <2>1 DEF homeVars, HomeInv, AnswersInTime, Read, PanelOfModel, LabelNeedsSelf, SelfAgrees
  <2>2. CASE accountMoves
    BY <2>2, MoveKeeps
  <2>3. ASSUME NEW s \in HomeSlot, serverReads(s) PROVE HomeInv'
    BY <2>3, ReadKeeps
  <2>4. ASSUME NEW s \in HomeSlot, mainAnswered(s) PROVE HomeInv'
    BY <2>4, AnsweredKeeps
  <2>5. ASSUME NEW s \in HomeSlot, mainFailed(s) PROVE HomeInv'
    <3>1. /\ homeReq' = [homeReq EXCEPT ![s] = NoReq]
          /\ UNCHANGED <<shellVars, account, detialModel, centre, panel, views, statueLab>>
      BY <2>5 DEF mainFailed, Done
    <3>2. \A t \in HomeSlot : Read(t)' => Read(t) /\ homeReq'[t] = homeReq[t]
      BY <3>1 DEF Read, TypeInv, TypeOK, HomeTypeOK
    <3>3. QED
      BY <3>1, <3>2 DEF HomeInv, AnswersInTime, PanelOfModel, LabelNeedsSelf, SelfAgrees, shellVars
  <2>6. CASE payButtonClick \/ whiteBgViewButtonClick
    BY <2>1, <2>6 DEF payButtonClick, whiteBgViewButtonClick, pushPage
  <2>7. CASE RecordsNext /\ UNCHANGED homeVars
    <3>1. loaded' = loaded
      BY <2>7, RecordPages DEF shellVars, pushPage, detialAnswered
    <3>2. QED
      BY <2>1, <2>7, <3>1
  <2>8. CASE goBack
    <3>1. loaded' = loaded
      BY <2>8 DEF goBack, popPage
    <3>2. QED
      BY <2>1, <2>8, <3>1, InsertKeeps DEF goBack, TypeInv
  <2>9. CASE selectMain
    BY <2>9, InsertKeeps DEF selectMain, selectTab, TypeInv
  <2>10. CASE selectRecord \/ selectSelf
    BY <2>1, <2>10 DEF selectRecord, selectSelf, selectTab
  <2>11. CASE UNCHANGED vars
    BY <2>1, <2>11 DEF vars, shellVars
  <2>12. QED
    BY <2>2, <2>3, <2>4, <2>5, <2>6, <2>7, <2>8, <2>9, <2>10, <2>11 DEF Next, HomeNext
<1>3. QED
  BY <1>1, <1>2, TypeInvHolds, PTL DEF Spec

(* The self tab's label, once there, is that of the model at home.         *)
THEOREM SelfHolds == Spec => []SelfAgrees
<1>1. HomeInv => SelfAgrees
  BY DEF HomeInv
<1>2. QED
  BY <1>1, HomeInvHolds, PTL

(* The home screen goes back in time only by an answer that was overtaken. *)
THEOREM OlderHolds == Spec => OlderOnlyIfOvertaken
<1> DEFINE Step == (detialModel # NoModel /\ detialModel'.age < detialModel.age)
                      => \E s \in HomeSlot : /\ homeReq[s] # NoReq
                                             /\ homeReq'[s] = NoReq
                                             /\ homeReq[s].late
<1>1. TypeInv /\ HomeInv /\ [Next]_vars => [Step]_homeVars
  <2> SUFFICES ASSUME TypeInv, HomeInv, [Next]_vars,
                      detialModel # NoModel, detialModel'.age < detialModel.age
               PROVE  \E s \in HomeSlot : /\ homeReq[s] # NoReq
                                          /\ homeReq'[s] = NoReq
                                          /\ homeReq[s].late
    OBVIOUS
  <2>1. detialModel.age \in Nat
    BY AgeFacts DEF TypeInv
  <2>2. detialModel' # detialModel
    BY <2>1
  <2>3. PICK s \in HomeSlot : mainAnswered(s)
    <3>1. HomeNext
      BY <2>2 DEF Next, vars, homeVars, goBack, selectMain, selectRecord, selectSelf
    <3>2. QED
      BY <2>2, <3>1 DEF HomeNext, accountMoves, serverReads, mainFailed, payButtonClick,
         whiteBgViewButtonClick, homeVars
  <2>4. /\ Read(s) /\ homeReq[s] # NoReq
        /\ detialModel' = homeReq[s].answer
        /\ homeReq'[s] = NoReq
    BY <2>3 DEF mainAnswered, Read, Overtake
  <2>5. homeReq[s].answer.age \in Nat
    BY <2>4, AgeFacts DEF TypeInv
  <2>6. homeReq[s].late
    BY <2>1, <2>4, <2>5 DEF HomeInv, AnswersInTime
  <2>7. QED
    BY <2>4, <2>6
<1>2. QED
  BY <1>1, TypeInvHolds, HomeInvHolds, PTL DEF Spec, OlderOnlyIfOvertaken

(* The panel's button pushes what the panel says, or what the model says   *)
(* in another state; all other pages of repayments are opened from a page  *)
(* of details with the word they show.                                     *)
THEOREM AnnouncedHolds == Spec => []RepaymentAsAnnounced
<1> DEFINE Told(p) == p.screen = "Repayment" => (p.overFlag = p.said \/ p.state # 6)
<1>1. Init => RepaymentAsAnnounced
  BY DEF Init, ShellInit, RepaymentAsAnnounced
<1>2. TypeInv /\ HomeInv /\ RepaymentAsAnnounced /\ [Next]_vars => RepaymentAsAnnounced'
  <2> SUFFICES ASSUME TypeInv, HomeInv, RepaymentAsAnnounced, [Next]_vars
               PROVE  RepaymentAsAnnounced'
    OBVIOUS
  <2>1. /\ pages \in Seq(Page)
        /\ \A i \in DOMAIN pages : Told(pages[i])
    BY DEF TypeInv, TypeOK, RepaymentAsAnnounced
  <2>2. ASSUME NEW p \in Page, pushPage(p), Told(p) PROVE RepaymentAsAnnounced'
    BY <2>1, <2>2, PushFacts DEF RepaymentAsAnnounced
  <2>3. ASSUME pages' = pages PROVE RepaymentAsAnnounced'
    BY <2>3 DEF RepaymentAsAnnounced
  <2>4. CASE HomeNext
    <3>1. ASSUME NEW p \in Page, pushPage(p), HomeNext PROVE Told(p)
      <4>1. /\ pages'[Len(pages) + 1] = p
            /\ Len(pages) + 1 \in DOMAIN pages' /\ Len(pages) + 1 \notin DOMAIN pages
        BY <2>1, <3>1 DEF pushPage
      <4>2. CASE payButtonClick
        <5>1. /\ panel # NoModel
              /\ p = RepaymentPage(detialModel.fact.overFlag, panel, detialModel.fact.userState)
          BY <2>1, <4>1, <4>2 DEF payButtonClick, pushPage
        <5>2. QED
          BY <5>1 DEF HomeInv, PanelOfModel, RepaymentPage
      <4>3. CASE whiteBgViewButtonClick
        <5>1. p = [screen |-> leadsTo(detialModel.fact)]
          BY <2>1, <4>1, <4>3 DEF whiteBgViewButtonClick, pushPage
        <5>2. leadsTo(detialModel.fact) # "Repayment"
          BY DEF leadsTo
        <5>3. QED
          BY <5>1, <5>2
      <4>4. CASE pages' = pages
        BY <2>1, <4>1, <4>4
      <4>5. QED
        BY <2>4, <4>2, <4>3, <4>4
           DEF HomeNext, accountMoves, serverReads, mainAnswered, mainFailed, shellVars
    <3>2. QED
      BY <2>2, <2>3, <2>4, <3>1, HomePages DEF shellVars
  <2>5. CASE RecordsNext
    <3>1. ASSUME NEW p \in Page, pushPage(p) PROVE Told(p)
      <4>1. /\ pages'[Len(pages) + 1] = p
            /\ Len(pages) + 1 \in DOMAIN pages' /\ Len(pages) + 1 \notin DOMAIN pages
        BY <2>1, <3>1 DEF pushPage
      <4>2. \A q : pushPage(q) => q = p
        BY <2>1, <4>1 DEF pushPage
      <4>3. CASE didSelectRow \/ loanDetialButtonClick
        BY <4>2, <4>3 DEF didSelectRow, loanDetialButtonClick, DetailPage
      <4>4. CASE recordDetialLoanButtonClick
        BY <4>2, <4>4 DEF recordDetialLoanButtonClick
      <4>5. CASE bottomBUttonclick
        BY <4>2, <4>5 DEF bottomBUttonclick
      <4>6. CASE recordButtonClick
        BY <4>2, <4>6 DEF recordButtonClick
      <4>7. CASE DOMAIN pages' = DOMAIN pages
        BY <2>1, <4>1, <4>7
      <4>8. QED
        BY <2>5, <4>3, <4>4, <4>5, <4>6, <4>7, DetailAnswered
           DEF RecordsNext, segControlClick, listAnswered, listFailed, shellVars
    <3>2. ASSUME NEW i \in DOMAIN pages, detialAnswered(i) PROVE RepaymentAsAnnounced'
      <4>1. pages'[i].screen # "Repayment"
        BY <3>2, DetailAnswered DEF Detail
      <4>2. QED
        BY <2>1, <3>2, <4>1, DetailAnswered DEF RepaymentAsAnnounced
    <3>3. QED
      BY <2>2, <2>3, <2>5, <3>1, <3>2, RecordPages DEF shellVars
  <2>6. CASE goBack
    BY <2>1, <2>6, PopFacts DEF goBack, RepaymentAsAnnounced
  <2>7. CASE selectMain \/ selectRecord \/ selectSelf \/ UNCHANGED vars
    BY <2>3, <2>7 DEF selectMain, selectRecord, selectSelf, selectTab, vars, shellVars
  <2>8. QED
    BY <2>4, <2>5, <2>6, <2>7 DEF Next
<1>3. QED
  BY <1>1, <1>2, TypeInvHolds, HomeInvHolds, PTL DEF Spec

-----------------------------------------------------------------------------
(* The record tab.                                                         *)

(* The last request sent asks for the segment shown.                       *)
LatestOfSegment ==
    \A s \in RecSlot :
        (listReq[s] # NoCall /\ listReq[s].latest)
            => listReq[s].loanType = SegmentKind(selectSegIndexd)

(* The selected tab's root is loaded; until the record tab's is, its first *)
(* segment is the selected one, for which the load then asks.              *)
RootsLoaded ==
    /\ tab \in loaded
    /\ "record" \notin loaded => selectSegIndexd = 0

RecordInv == ListOfSegment /\ LatestOfSegment /\ RootsLoaded /\ DetailOfItsKind

(* A request for the segment shown makes those under way the older ones,   *)
(* and the rows there the rows of an older one.                            *)
LEMMA AskKeeps ==
    ASSUME TypeInv, NEW i, useLoanLendTradeList(SegmentKind(i)), selectSegIndexd' = i
    PROVE  ListOfSegment' /\ LatestOfSegment'
<1>1. PICK s \in RecSlot :
          listReq' = [t \in RecSlot |->
                        CASE t = s -> [loanType |-> SegmentKind(i), latest |-> TRUE]
                          [] t # s /\ listReq[t] = NoCall -> NoCall
                          [] OTHER -> [listReq[t] EXCEPT !.latest = FALSE]]
  BY DEF useLoanLendTradeList
<1>2. ASSUME NEW t \in RecSlot, listReq'[t] # NoCall, listReq'[t].latest
      PROVE  listReq'[t].loanType = SegmentKind(i)
  <2>1. CASE t = s
    BY <1>1, <2>1
  <2>2. CASE t # s
    <3>1. listReq[t] # NoCall /\ listReq'[t] = [listReq[t] EXCEPT !.latest = FALSE]
      BY <1>1, <1>2, <2>2
    <3>2. listReq[t] \in ListRequest
      BY <3>1 DEF TypeInv, TypeOK, RecordsTypeOK
    <3>3. listReq'[t].latest = FALSE
      BY <3>1, <3>2 DEF ListRequest
    <3>4. QED
      BY <1>2, <3>3
  <2>3. QED
    BY <2>1, <2>2
<1>3. listFrom' # "latest"
  BY DEF useLoanLendTradeList
<1>4. QED
  BY <1>2, <1>3 DEF ListOfSegment, LatestOfSegment

(* The answer of the last request fills the list with the segment's rows.  *)
LEMMA ListAnsweredKeeps ==
    ASSUME TypeInv, RecordInv, NEW s \in RecSlot, listAnswered(s)
    PROVE  RecordInv'
<1>1. /\ listReq[s] # NoCall
      /\ listArray' \in {listReq[s].loanType, "none"}
      /\ listFrom' = IF listReq[s].latest THEN "latest" ELSE "older"
      /\ listReq' = [listReq EXCEPT ![s] = NoCall]
      /\ UNCHANGED <<tab, loaded, pages, selectSegIndexd, typeStr>>
  BY DEF listAnswered, shellVars
<1>2. ListOfSegment'
  BY <1>1 DEF RecordInv, LatestOfSegment, ListOfSegment
<1>3. LatestOfSegment'
  BY <1>1 DEF RecordInv, LatestOfSegment, TypeInv, TypeOK, RecordsTypeOK
<1>4. QED
  BY <1>1, <1>2, <1>3 DEF RecordInv, RootsLoaded, DetailOfItsKind

(* A page of details that is pushed is of its kind.                        *)
OfItsKind(p) ==
    (p.screen \in Detail /\ p.from = "latest")
        => p.kind = IF p.screen = "LoanDetial" THEN "lend" ELSE "repay"

LEMMA PushKeeps ==
    ASSUME TypeInv, RecordInv, NEW p \in Page, pushPage(p), OfItsKind(p), UNCHANGED recordVars
    PROVE  RecordInv'
<1>1. DetailOfItsKind'
  BY PushFacts DEF TypeInv, TypeOK, RecordInv, DetailOfItsKind, OfItsKind
<1>2. QED
  BY <1>1 DEF RecordInv, ListOfSegment, LatestOfSegment, RootsLoaded, recordVars, pushPage

(* What no page of details is pushed by: the home screen's touches.        *)
LEMMA HomePushKeeps ==
    ASSUME TypeInv, RecordInv, HomeNext, UNCHANGED recordVars
    PROVE  RecordInv'
<1> USE DEF TypeInv, TypeOK
<1>1. ASSUME NEW p \in Page, pushPage(p) PROVE RecordInv'
  <2>1. \A q : pushPage(q) => q = p
    <3>1. /\ pages'[Len(pages) + 1] = p
          /\ \A q : pushPage(q) => pages'[Len(pages) + 1] = q
      BY <1>1 DEF pushPage
    <3>2. QED
      BY <3>1
  <2>2. Len(pages) + 1 \in DOMAIN pages' /\ Len(pages) + 1 \notin DOMAIN pages
    BY <1>1 DEF pushPage
  <2>3. CASE payButtonClick
    <3>1. p.screen = "Repayment"
      BY <2>1, <2>3 DEF payButtonClick, RepaymentPage
    <3>2. QED
      BY <1>1, <3>1, PushKeeps DEF OfItsKind, Detail
  <2>4. CASE whiteBgViewButtonClick
    <3>1. p.screen \in {"Evaluation", "Loan"}
      BY <2>1, <2>4 DEF whiteBgViewButtonClick, leadsTo
    <3>2. QED
      BY <1>1, <3>1, PushKeeps DEF OfItsKind, Detail
  <2>5. QED
    BY <2>2, <2>3, <2>4
       DEF HomeNext, accountMoves, serverReads, mainAnswered, mainFailed, shellVars
<1>2. CASE UNCHANGED shellVars
  BY <1>2 DEF RecordInv, ListOfSegment, LatestOfSegment, RootsLoaded, DetailOfItsKind,
     shellVars, recordVars
<1>3. QED
  BY <1>1, <1>2, HomePages

(* The inductive invariant of the record tab, under every step.            *)
THEOREM RecordInvHolds == Spec => []RecordInv
<1>1. Init => RecordInv
  <2> SUFFICES ASSUME Init PROVE RecordInv
    OBVIOUS
  <2>1. ListOfSegment /\ LatestOfSegment
    BY DEF Init, RecordsInit, ListOfSegment, LatestOfSegment
  <2>2. RootsLoaded
    BY DEF Init, ShellInit, RecordsInit, RootsLoaded
  <2>3. DOMAIN pages = {}
    BY DEF Init, ShellInit
  <2>4. QED
    BY <2>1, <2>2, <2>3 DEF RecordInv, DetailOfItsKind
<1>2. TypeInv /\ RecordInv /\ [Next]_vars => RecordInv'
  <2> SUFFICES ASSUME TypeInv, RecordInv, [Next]_vars PROVE RecordInv'
    OBVIOUS
  <2>1. CASE HomeNext /\ UNCHANGED recordVars
    BY <2>1, HomePushKeeps
  <2>2. ASSUME NEW i \in {0, 1}, segControlClick(i) PROVE RecordInv'
    <3>1. ListOfSegment' /\ LatestOfSegment'
      BY <2>2, AskKeeps DEF segControlClick
    <3>2. tab = "record" /\ UNCHANGED <<tab, loaded, pages>>
      BY <2>2 DEF segControlClick, AtRoot, shellVars
    <3>3. QED
      BY <3>1, <3>2 DEF RecordInv, RootsLoaded, DetailOfItsKind
  <2>3. ASSUME NEW s \in RecSlot, listAnswered(s) PROVE RecordInv'
    BY <2>3, ListAnsweredKeeps
  <2>4. ASSUME NEW s \in RecSlot, listFailed(s) PROVE RecordInv'
    <3>1. LatestOfSegment'
      BY <2>4 DEF listFailed, RecordInv, LatestOfSegment, TypeInv, TypeOK, RecordsTypeOK
    <3>2. QED
      BY <2>4, <3>1 DEF listFailed, shellVars, RecordInv, ListOfSegment, RootsLoaded,
         DetailOfItsKind
  <2>5. CASE didSelectRow
    <3>1. DetailPage(IF selectSegIndexd = 0 THEN "LoanDetial" ELSE "RepaymentDetial",
                     listArray, listFrom) \in Page
      BY <2>5 DEF didSelectRow, DetailPage, Page, Detail, TypeInv, TypeOK, RecordsTypeOK,
         FromAnAnswer
    <3>2. OfItsKind(DetailPage(IF selectSegIndexd = 0 THEN "LoanDetial" ELSE "RepaymentDetial",
                               listArray, listFrom))
      BY <2>5 DEF didSelectRow, DetailPage, OfItsKind, RecordInv, ListOfSegment, SegmentKind,
         TypeInv, TypeOK, RecordsTypeOK
    <3>3. QED
      BY <2>5, <3>1, <3>2, PushKeeps DEF didSelectRow
  <2>6. ASSUME NEW i \in DOMAIN pages, detialAnswered(i) PROVE RecordInv'
    <3>1. DetailOfItsKind'
      BY <2>6, DetailAnswered DEF RecordInv, DetailOfItsKind
    <3>2. UNCHANGED <<tab, loaded, recordVars>>
      BY <2>6, DetailAnswered
    <3>3. QED
      BY <3>1, <3>2 DEF RecordInv, ListOfSegment, LatestOfSegment, RootsLoaded, recordVars
  <2>7. CASE loanDetialButtonClick
    <3>1. DetailPage("LoanDetial", "lend", "latest") \in Page
      BY DEF DetailPage, Page, Detail, Kind
    <3>2. OfItsKind(DetailPage("LoanDetial", "lend", "latest"))
      BY DEF DetailPage, OfItsKind
    <3>3. QED
      BY <2>7, <3>1, <3>2, PushKeeps DEF loanDetialButtonClick
  <2>8. ASSUME NEW p \in Page, p.screen \in {"Repayment", "RepayRecordDetial"}, pushPage(p),
               UNCHANGED recordVars
        PROVE  RecordInv'
    BY <2>8, PushKeeps DEF OfItsKind, Detail
  <2>9. CASE recordDetialLoanButtonClick
    <3>1. [screen |-> "Repayment", overFlag |-> 1, said |-> 1, state |-> 6] \in Page
      BY DEF Page
    <3>2. QED
      BY <2>8, <2>9, <3>1 DEF recordDetialLoanButtonClick
  <2>10. CASE bottomBUttonclick
    <3>1. [screen |-> "Repayment", overFlag |-> 0, said |-> 0, state |-> 6] \in Page
      BY DEF Page
    <3>2. QED
      BY <2>8, <2>10, <3>1 DEF bottomBUttonclick
  <2>11. CASE recordButtonClick
    <3>1. [screen |-> "RepayRecordDetial"] \in Page
      BY DEF Page
    <3>2. QED
      BY <2>8, <2>11, <3>1 DEF recordButtonClick
  <2>12. CASE goBack
    <3>1. DetailOfItsKind'
      BY <2>12, PopFacts DEF goBack, RecordInv, DetailOfItsKind, TypeInv, TypeOK
    <3>2. UNCHANGED <<tab, loaded, recordVars>>
      BY <2>12 DEF goBack, popPage
    <3>3. QED
      BY <3>1, <3>2 DEF RecordInv, ListOfSegment, LatestOfSegment, RootsLoaded, recordVars
  <2>13. ASSUME UNCHANGED <<pages, recordVars>>, tab' \in loaded', loaded \subseteq loaded'
         PROVE  RecordInv'
    BY <2>13 DEF RecordInv, ListOfSegment, LatestOfSegment, RootsLoaded, DetailOfItsKind,
       recordVars
  <2>14. CASE selectMain \/ selectSelf
    BY <2>13, <2>14 DEF selectMain, selectSelf, selectTab
  <2>15. CASE selectRecord
    <3>1. CASE "record" \in loaded
      BY <2>13, <2>15, <3>1 DEF selectRecord, selectTab
    <3>2. CASE "record" \notin loaded
      <4>1. /\ selectSegIndexd = 0 /\ selectSegIndexd' = 0
            /\ useLoanLendTradeList("lend")
        BY <2>15, <3>2 DEF selectRecord, recordDidLoad, RecordInv, RootsLoaded
      <4>2. SegmentKind(0) = "lend"
        BY DEF SegmentKind
      <4>3. ListOfSegment' /\ LatestOfSegment'
        BY <4>1, <4>2, AskKeeps
      <4>4. QED
        BY <2>15, <4>1, <4>3 DEF selectRecord, selectTab, RecordInv, RootsLoaded, DetailOfItsKind
    <3>3. QED
      BY <3>1, <3>2
  <2>16. CASE UNCHANGED vars
    BY <2>13, <2>16 DEF vars, shellVars, RecordInv, RootsLoaded
  <2>17. QED
    BY <2>1, <2>2, <2>3, <2>4, <2>5, <2>6, <2>7, <2>9, <2>10, <2>11, <2>12, <2>14, <2>15, <2>16
       DEF Next, RecordsNext
<1>3. QED
  BY <1>1, <1>2, TypeInvHolds, PTL DEF Spec

(* Details are opened with a row of their own kind, unless an answer that  *)
(* was overtaken had filled the list.                                      *)
THEOREM DetailHolds == Spec => []DetailOfItsKind
<1>1. RecordInv => DetailOfItsKind
  BY DEF RecordInv
<1>2. QED
  BY <1>1, RecordInvHolds, PTL
=============================================================================
