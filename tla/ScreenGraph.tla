---------------------------- MODULE ScreenGraph ----------------------------
(***************************************************************************)
(* Which screen leads to which.  A pair <<a, b>> of a *Pushes set: a touch *)
(* on a pushes b at once.  A pair of an *Answers set: a sends a request,   *)
(* and its successful reply pushes b - or, when b is PopsTop, pops the     *)
(* screen on top.  A pair of a *Messages set: the script of a's web page   *)
(* pushes b.  The server's data that selects among the successors of a     *)
(* screen (userState, creditAppstate, the list of open authentications)    *)
(* belongs to the modules of those screens; here any successor may come.   *)
(***************************************************************************)

PopsTop == "PopsTop"

(* The roots of the three tabs.                                            *)
Tabs == {"Main", "Record", "Self"}

(* BankAuthenViewController is two screens in one class: isAddBank adds a  *)
(* card for MyBank, otherwise it is a step of the authentication.          *)
classOf(kind) == IF kind = "BankAdd" THEN "BankAuthen" ELSE kind

-----------------------------------------------------------------------------
MainPushes == {<<"Main", "Repayment">>, <<"Main", "Evaluation">>, <<"Main", "Loan">>}

EvaluationPushes ==
    {"Evaluation"} \X {"FaceAuthen", "Authentication", "ApplicationInformation", "BankAuthen"}
EvaluationAnswers == {<<"Evaluation", "YSSWeb">>}

AuthenticationAnswers == {<<"Authentication", "AuthenDetial">>}
AuthenDetialPushes == {<<"AuthenDetial", "FaceAuthen">>}
FaceAuthenAnswers == {<<"FaceAuthen", "YSSWeb">>}
YSSWebMessages == {<<"YSSWeb", "BankAuthen">>}

BankAuthenAnswers == {<<"BankAuthen", "ApplicationInformation">>, <<"BankAdd", PopsTop>>}
ApplicationInformationAnswers == {<<"ApplicationInformation", "FinishAuthen">>}

LoanPushes == {<<"Loan", "NewWeb">>}
LoanCardPushes == {<<"Loan", "MyBank">>}
LoanAnswers == {<<"Loan", "LoanOning">>}

RepaymentPushes == {<<"Repayment", "MyBank">>}
RepaymentAnswers == {<<"Repayment", PopsTop>>}

MyBankPushes == {<<"MyBank", "BankAdd">>}

RecordPushes == {<<"Record", "LoanDetial">>, <<"Record", "RepaymentDetial">>}
LoanDetialPushes == {<<"LoanDetial", "Repayment">>}
LoanDetialRecordPushes == {<<"LoanDetial", "RepayRecordDetial">>}
RepaymentDetialPushes == {<<"RepaymentDetial", "LoanDetial">>}

SelfPushes == {"Self"} \X {"MyBank", "FeedBack", "Setting"}
FeedBackAnswers == {<<"FeedBack", PopsTop>>}

(* The last screen of a flow returns to the root of its tab.               *)
FinishAuthenGoesHome == {"FinishAuthen"}
LoanOningGoesHome == {"LoanOning"}

-----------------------------------------------------------------------------
AllPushes ==
    UNION {MainPushes, EvaluationPushes, AuthenDetialPushes, LoanPushes, LoanCardPushes,
           RepaymentPushes, MyBankPushes, RecordPushes, LoanDetialPushes,
           LoanDetialRecordPushes, RepaymentDetialPushes, SelfPushes}

AllAnswers ==
    UNION {EvaluationAnswers, AuthenticationAnswers, FaceAuthenAnswers, BankAuthenAnswers,
           ApplicationInformationAnswers, LoanAnswers, RepaymentAnswers, FeedBackAnswers}

AllMessages == YSSWebMessages

AllScreens ==
    LET Edges == AllPushes \cup AllAnswers \cup AllMessages IN
    Tabs \cup {e[1] : e \in Edges} \cup ({e[2] : e \in Edges} \ {PopsTop})
=============================================================================
