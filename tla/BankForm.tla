------------------------------ MODULE BankForm ------------------------------
(***************************************************************************)
(* The bank card's form (BankAuthenViewController): the texts copied from  *)
(* their fields on each edit, and a button that only the phone's and the   *)
(* code's handlers look after. (Its code button is a copy of the login     *)
(* screen's: SmsCode.)                                                     *)
(***************************************************************************)

\* A text is nil until its field is first edited. Of its contents only being
\* empty matters here.
Text == {"nil", "", "text"}

VARIABLES
    bankText,   \* nameStr, bankCardStr, phoneStr, codeStr
    bankNext,   \* nextBut.enabled
    bankSent    \* a card is under way

bankVars == <<bankText, bankNext, bankSent>>

\* The holder's name and the card's number are treated alike: "card".
BankField == {"card", "phone", "code"}

BankTypeOK ==
    /\ bankText \in [BankField -> Text]
    /\ bankNext \in BOOLEAN
    /\ bankSent \in BOOLEAN

bankDidLoad ==
    /\ bankText' = [b \in BankField |-> "nil"]
    /\ bankNext' = FALSE
    /\ bankSent' = FALSE

BankInit ==
    /\ bankText = [b \in BankField |-> "nil"]
    /\ bankNext = FALSE
    /\ bankSent = FALSE

\* STRING_ISNIL: nil and empty alike.
IsNil(t) == t # "text"

Complete(texts) == \A b \in BankField : ~IsNil(texts[b])

\* An edit is copied; only the phone's and the code's go on to look whether
\* the form is complete (textFieldDidChange:LimitLength:).
textChangeCLick(b, t) ==
    /\ bankText' = [bankText EXCEPT ![b] = t]
    /\ bankNext' = IF b \in {"phone", "code"} THEN Complete(bankText') ELSE bankNext
    /\ UNCHANGED bankSent

\* The dictionary literal raises on a nil. The holder, the number and the
\* phone go through EMPTY_IF_NIL; the code and the user's id do not, and the
\* id is nil for a user who is not signed in.
bankLiteralRaises(signedIn) == bankText["code"] = "nil" \/ ~signedIn

bankNextButtonClick ==
    /\ bankNext
    /\ bankSent' = TRUE
    /\ UNCHANGED <<bankText, bankNext>>
=============================================================================
