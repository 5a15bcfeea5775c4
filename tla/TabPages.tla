------------------------------ MODULE TabPages ------------------------------
(***************************************************************************)
(* The three tabs together: the home screen, the record tab and the label  *)
(* of the self tab, under one tab bar. A page popped or a tab selected     *)
(* makes a root appear, which the home screen answers with a request; the  *)
(* first selection of a tab loads its root.                                *)
(***************************************************************************)
EXTENDS Home, Records

vars == <<shellVars, homeVars, recordVars>>

Page ==
    [screen : {"Evaluation", "Loan", "RepayRecordDetial"}]
        \cup [screen : {"Repayment"}, overFlag : {0, 1}, said : {0, 1}, state : 0..6]
        \cup [screen : Detail, kind : Kind, from : {"latest", "older"},
              lendState : 0..5 \cup {NotYet}]

TypeOK ==
    /\ ShellTypeOK
    /\ pages \in Seq(Page)
    /\ HomeTypeOK
    /\ RecordsTypeOK

\* The main tab is selected first, and its root appears.
Init ==
    /\ ShellInit
    /\ HomeInit
    /\ RecordsInit

\* A page is left. The root of the selected tab appears under the last one.
goBack ==
    /\ popPage
    /\ IF tab = "main" /\ Len(pages) = 1
       THEN /\ useMainInsert
            /\ UNCHANGED <<account, detialModel, centre, panel, views, statueLab>>
       ELSE UNCHANGED homeVars
    /\ UNCHANGED recordVars

selectMain ==
    /\ selectTab("main")
    /\ useMainInsert
    /\ UNCHANGED <<account, detialModel, centre, panel, views, statueLab, recordVars>>

selectRecord ==
    /\ selectTab("record")
    /\ IF "record" \in loaded THEN UNCHANGED recordVars ELSE recordDidLoad
    /\ UNCHANGED homeVars

selectSelf ==
    /\ selectTab("self")
    /\ UNCHANGED <<homeVars, recordVars>>

HomeNext ==
    \/ accountMoves
    \/ \E s \in HomeSlot : serverReads(s) \/ mainAnswered(s) \/ mainFailed(s)
    \/ payButtonClick
    \/ whiteBgViewButtonClick

RecordsNext ==
    \/ \E i \in {0, 1} : segControlClick(i)
    \/ \E s \in RecSlot : listAnswered(s) \/ listFailed(s)
    \/ didSelectRow
    \/ \E i \in DOMAIN pages : detialAnswered(i)
    \/ loanDetialButtonClick
    \/ recordDetialLoanButtonClick
    \/ bottomBUttonclick
    \/ recordButtonClick

Next ==
    \/ HomeNext /\ UNCHANGED recordVars
    \/ RecordsNext /\ UNCHANGED homeVars
    \/ goBack
    \/ selectMain
    \/ selectRecord
    \/ selectSelf

Spec == Init /\ [][Next]_vars

\* A page of repayments is opened as overdue exactly if the panel or the
\* details it was opened from said so, unless the account had meanwhile left
\* the state in which the panel is drawn (payButtonClick reads the model of
\* the last answer, creatMianUI drew the panel from that of the last answer
\* in state 6).
RepaymentAsAnnounced ==
    \A i \in DOMAIN pages :
        pages[i].screen = "Repayment"
            => (pages[i].overFlag = pages[i].said \/ pages[i].state # 6)
=============================================================================
