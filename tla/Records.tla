------------------------------ MODULE Records -------------------------------
(***************************************************************************)
(* The record tab (RecordViewController): two segments over one list, each *)
(* change of segment a new request, and the pages a row leads to: the      *)
(* loan's or the repayment's details, from where the user goes on to       *)
(* repay. Rows are told apart by their kind only.                          *)
(***************************************************************************)
EXTENDS TabShell, Integers

CONSTANTS
    RecSlot,    \* bound: list requests under way together
    NoCall,     \* a free slot
    LendState   \* the lendStates of a loan that are told apart

Kind == {"lend", "repay"}

\* A free slot is no request; lendState is one of LoanDetialInfoModel's.
ASSUME RecordsAssumption ==
    /\ NoCall \notin [loanType : Kind, latest : BOOLEAN]
    /\ LendState \subseteq 0..5

VARIABLES
    selectSegIndexd,  \* the segment: 0 loans, 1 repayments
    typeStr,          \* the loanType of requests
    listReq,          \* list requests; latest: the last one sent
    listArray,        \* the kind of the rows, or "none"
    listFrom          \* what filled the list: the latest request, or an older one

recordVars == <<selectSegIndexd, typeStr, listReq, listArray, listFrom>>

ListRequest == [loanType : Kind, latest : BOOLEAN]

RecordsTypeOK ==
    /\ selectSegIndexd \in {0, 1}
    /\ typeStr \in Kind \cup {""}
    /\ listReq \in [RecSlot -> ListRequest \cup {NoCall}]
    /\ listArray \in Kind \cup {"none"}
    /\ listFrom \in {"nothing", "latest", "older"}

RecordsInit ==
    /\ selectSegIndexd = 0
    /\ typeStr = ""
    /\ listReq = [s \in RecSlot |-> NoCall]
    /\ listArray = "none"
    /\ listFrom = "nothing"

SegmentKind(i) == IF i = 0 THEN "lend" ELSE "repay"

-----------------------------------------------------------------------------
(* The list.                                                               *)

\* A request of kind k is sent; those under way are no longer the latest.
useLoanLendTradeList(k) ==
    /\ \E s \in RecSlot :
        /\ listReq[s] = NoCall
        /\ listReq' = [t \in RecSlot |->
                          CASE t = s -> [loanType |-> k, latest |-> TRUE]
                            [] t # s /\ listReq[t] = NoCall -> NoCall
                            [] OTHER -> [listReq[t] EXCEPT !.latest = FALSE]]
    /\ listFrom' = IF listFrom = "latest" THEN "older" ELSE listFrom

\* viewDidLoad, when the tab is first selected.
recordDidLoad ==
    /\ typeStr' = "lend"
    /\ useLoanLendTradeList("lend")
    /\ UNCHANGED <<selectSegIndexd, listArray>>

\* Mutated form of segControlClick: the request goes out before the kind
\* is set.
segControlClickAsksFirst(i) ==
    /\ AtRoot("record")
    /\ i # selectSegIndexd
    /\ selectSegIndexd' = i
    /\ typeStr' = SegmentKind(i)
    /\ useLoanLendTradeList(typeStr)
    /\ UNCHANGED <<shellVars, listArray>>

segControlClick(i) ==
    /\ AtRoot("record")
    /\ i # selectSegIndexd
    /\ selectSegIndexd' = i
    /\ typeStr' = SegmentKind(i)
    /\ useLoanLendTradeList(SegmentKind(i))
    /\ UNCHANGED <<shellVars, listArray>>

\* The rows of the answer, of any number, replace the list.
listAnswered(s) ==
    /\ listReq[s] # NoCall
    /\ listArray' \in {listReq[s].loanType, "none"}
    /\ listFrom' = IF listReq[s].latest THEN "latest" ELSE "older"
    /\ listReq' = [listReq EXCEPT ![s] = NoCall]
    /\ UNCHANGED <<shellVars, selectSegIndexd, typeStr>>

\* The rows stay.
listFailed(s) ==
    /\ listReq[s] # NoCall
    /\ listReq' = [listReq EXCEPT ![s] = NoCall]
    /\ UNCHANGED <<shellVars, selectSegIndexd, typeStr, listArray, listFrom>>

-----------------------------------------------------------------------------
(* The pages. A page keeps the row it was opened with: its kind, and what  *)
(* had filled the list then; and lendState once its request is answered.   *)

NotYet == -1
DetailPage(sc, kind, from) ==
    [screen |-> sc, kind |-> kind, from |-> from, lendState |-> NotYet]
Detail == {"LoanDetial", "RepaymentDetial"}

\* The segment decides the screen, the list the row.
didSelectRow ==
    /\ AtRoot("record")
    /\ listArray # "none"
    /\ pushPage(DetailPage(IF selectSegIndexd = 0 THEN "LoanDetial" ELSE "RepaymentDetial",
                           listArray, listFrom))
    /\ UNCHANGED recordVars

\* setTopViewData of both pages: the loan's lendState, or (for a repayment)
\* any number for "there are rows". An error leaves the page as it is.
detialAnswered(i) ==
    /\ pages[i].screen \in Detail
    /\ pages[i].lendState = NotYet
    /\ \E l \in IF pages[i].screen = "LoanDetial" THEN LendState ELSE {0} :
           pages' = [pages EXCEPT ![i].lendState = l]
    /\ UNCHANGED <<tab, loaded, recordVars>>

\* RepaymentDetial: a loan the repayment was for.
loanDetialButtonClick ==
    /\ pages # <<>>
    /\ Top.screen = "RepaymentDetial"
    /\ Top.lendState # NotYet
    /\ pushPage(DetailPage("LoanDetial", "lend", "latest"))
    /\ UNCHANGED recordVars

\* LoanDetial, in use (3): repay before it is due.
recordDetialLoanButtonClick ==
    /\ pages # <<>>
    /\ Top.screen = "LoanDetial"
    /\ Top.lendState = 3
    /\ pushPage([screen |-> "Repayment", overFlag |-> 1, said |-> 1, state |-> 6])
    /\ UNCHANGED recordVars

\* LoanDetial, overdue (4): repay now.
bottomBUttonclick ==
    /\ pages # <<>>
    /\ Top.screen = "LoanDetial"
    /\ Top.lendState = 4
    /\ pushPage([screen |-> "Repayment", overFlag |-> 0, said |-> 0, state |-> 6])
    /\ UNCHANGED recordVars

\* LoanDetial, overdue or settled: its repayments.
recordButtonClick ==
    /\ pages # <<>>
    /\ Top.screen = "LoanDetial"
    /\ Top.lendState \in {4, 5}
    /\ pushPage([screen |-> "RepayRecordDetial"])
    /\ UNCHANGED recordVars

-----------------------------------------------------------------------------
(* Properties.                                                             *)

\* A list that the latest request filled is of the segment's kind; only
\* the answer of an older request, or a latest one still under way or
\* failed, leaves rows of the other segment there (segControlClick:,
\* useLoanLendTradeList).
ListOfSegment ==
    (listFrom = "latest" /\ listArray # "none") => listArray = SegmentKind(selectSegIndexd)

\* A page of details is opened with a row of its own kind, unless an older
\* request had filled the list (tableView:didSelectRowAtIndexPath:).
DetailOfItsKind ==
    \A i \in DOMAIN pages :
        (pages[i].screen \in Detail /\ pages[i].from = "latest")
            => pages[i].kind = IF pages[i].screen = "LoanDetial" THEN "lend" ELSE "repay"
=============================================================================
