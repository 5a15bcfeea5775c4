------------------------------- MODULE Forms --------------------------------
(***************************************************************************)
(* The pages a user fills in, one of them open at a time: the photographs  *)
(* of the identity card (AuthenticationViewController), the bank card      *)
(* (BankForm) and, after it, the applicant (InfoForm), and a complaint     *)
(* (FeedBack). Each gathers its data over many touches and sends it in a   *)
(* literal or by index, and a nil or an index beyond an array ends the     *)
(* application. A page left is thrown away. The user's id is in most of    *)
(* the literals, and an answer 995 to an upload takes it from the model    *)
(* while the pages stay.                                                   *)
(***************************************************************************)
EXTENDS BankForm, InfoForm, FeedBack

VARIABLES
    userId,     \* loginModel.userId is there: a user is signed in
    form,       \* the page open, or "none"
    photos,     \* the sides of the identity card that are there
    photoNext,  \* nextBut.enabled of the photographs' page
    ended       \* what ended the application by an exception, or "no"

formVars == <<userId, form, photos, photoNext, ended>>
vars == <<formVars, bankVars, infoVars, feedVars>>

Side == {"topData", "fanData"}

TypeOK ==
    /\ userId \in BOOLEAN
    /\ form \in {"none", "photos", "bank", "info", "complaint"}
    /\ photos \in SUBSET Side
    /\ photoNext \in BOOLEAN
    /\ ended \in {"no", "literal", "deletion", "browser"}
    /\ BankTypeOK
    /\ InfoTypeOK
    /\ FeedTypeOK

Init ==
    /\ userId = TRUE
    /\ form = "none"
    /\ photos = {}
    /\ photoNext = FALSE
    /\ ended = "no"
    /\ BankInit
    /\ InfoInit
    /\ FeedInit

\* The page f is on the screen.
On(f) ==
    /\ form = f
    /\ ended = "no"

EndsBy(why, raises) == ended' = IF raises THEN why ELSE ended

-----------------------------------------------------------------------------
(* Pages come and go.                                                      *)

\* The bank card's page also stands for itself: adding a card.
openForm ==
    /\ On("none")
    /\ form' \in {"photos", "bank", "complaint"}
    /\ UNCHANGED <<userId, photos, photoNext, ended, bankVars, infoVars, feedVars>>

formsGone ==
    /\ form' = "none"
    /\ photos' = {}
    /\ photoNext' = FALSE
    /\ ended' = "no"
    /\ bankDidLoad
    /\ infoDidLoad
    /\ feedDidLoad

\* A page is left. A complaint that succeeds leaves its page, too; so does a
\* card added.
leaveForm ==
    /\ form # "none"
    /\ ended = "no"
    /\ formsGone
    /\ UNCHANGED userId

\* The user signs in again, in tabs that are new: after the application was
\* started again, or after another request was answered 995.
signInAgain ==
    /\ formsGone
    /\ userId' = TRUE

\* An upload is answered 995, of the photographs or of a complaint; it may
\* outlive its page. The session is removed and the tabs stay.
upload995 ==
    /\ ended = "no"
    /\ userId
    /\ userId' = FALSE
    /\ UNCHANGED <<form, photos, photoNext, ended, bankVars, infoVars, feedVars>>

-----------------------------------------------------------------------------
(* The photographs. An edited picture that is missing gives no data.       *)

didFinishPickingMedia(s) ==
    /\ On("photos")
    /\ photos' \in {photos \cup {s}, photos \ {s}}
    /\ photoNext' = (photos' = Side)
    /\ UNCHANGED <<userId, form, ended, bankVars, infoVars, feedVars>>

\* The array literal takes both sides; the user's id goes through EMPTY_IF_NIL.
useCusAuthInsert ==
    /\ On("photos")
    /\ photoNext
    /\ EndsBy("literal", photos # Side)
    /\ UNCHANGED <<userId, form, photos, photoNext, bankVars, infoVars, feedVars>>

-----------------------------------------------------------------------------
(* The bank card.                                                          *)

bankEdit(b) ==
    /\ On("bank")
    /\ \E t \in {"", "text"} : textChangeCLick(b, t)
    /\ UNCHANGED <<formVars, infoVars, feedVars>>

bankNextTouched ==
    /\ On("bank")
    /\ bankNextButtonClick
    /\ EndsBy("literal", bankLiteralRaises(userId))
    /\ UNCHANGED <<userId, form, photos, photoNext, infoVars, feedVars>>

\* A card is answered: with success the applicant's page is opened. The
\* fields may have been edited since.
bankAnswered ==
    /\ On("bank")
    /\ bankSent
    /\ bankSent' = FALSE
    /\ form' \in {"bank", "info"}
    /\ UNCHANGED <<userId, photos, photoNext, ended, bankText, bankNext, infoVars, feedVars>>

-----------------------------------------------------------------------------
(* The applicant.                                                          *)

infoTouched ==
    /\ On("info")
    /\ \/ \E r \in Row : cellForRow(r) \/ hideRow(r) \/ typeAddress(r)
       \/ didSelectRow
       \/ textFieldShouldEndEditing
    /\ UNCHANGED <<formVars, bankVars, feedVars>>

infoNextButtonClick ==
    /\ On("info")
    /\ infoNext
    /\ EndsBy("literal", infoLiteralRaises(userId))
    /\ UNCHANGED <<userId, form, photos, photoNext, bankVars, infoVars, feedVars>>

\* The phone book is read, and sent in a literal with the user's id.
nofiticationCLick ==
    /\ On("info")
    /\ EndsBy("literal", ~userId)
    /\ UNCHANGED <<userId, form, photos, photoNext, bankVars, infoVars, feedVars>>

\* Back to the bank card's page, as it was left; the applicant's is gone.
backToBank ==
    /\ On("info")
    /\ form' = "bank"
    /\ infoDidLoad
    /\ UNCHANGED <<userId, photos, photoNext, ended, bankVars, feedVars>>

-----------------------------------------------------------------------------
(* The complaint.                                                          *)

complaintTouched ==
    /\ On("complaint")
    /\ \/ chousePiack
       \/ \E a \in Choice : didFinishPicking(a)
       \/ pickingCancelled
       \/ complaintFailed
    /\ UNCHANGED <<formVars, bankVars, infoVars>>

\* The complaint's literal carries the user's id.
complaintSent ==
    /\ On("complaint")
    /\ sureButtonClick
    /\ EndsBy("literal", ~userId)
    /\ UNCHANGED <<userId, form, photos, photoNext, bankVars, infoVars>>

pictureTouched(i) ==
    /\ On("complaint")
    /\ \/ detImgButton(i) /\ EndsBy("deletion", deletionRaises(i))
       \/ showBigImage(i) /\ EndsBy("browser", browserRaises(i))
    /\ UNCHANGED <<userId, form, photos, photoNext, bankVars, infoVars>>

-----------------------------------------------------------------------------
Next ==
    \/ openForm
    \/ leaveForm
    \/ signInAgain
    \/ upload995
    \/ \E s \in Side : didFinishPickingMedia(s)
    \/ useCusAuthInsert
    \/ \E b \in BankField : bankEdit(b)
    \/ bankNextTouched
    \/ bankAnswered
    \/ infoTouched
    \/ infoNextButtonClick
    \/ nofiticationCLick
    \/ backToBank
    \/ complaintTouched
    \/ complaintSent
    \/ \E i \in DOMAIN imageArray : pictureTouched(i)

Spec == Init /\ [][Next]_vars

-----------------------------------------------------------------------------
(* Properties.                                                             *)

\* While a user is signed in, no button can be pressed with an entry of its
\* page still nil: no order of edits, emptied fields, reloads and reused cells
\* ends the application in a literal. Only the user's own id, gone with an
\* upload's answer while the pages stay, does (nextButtonClick of the bank
\* card's and the applicant's page, nofiticationCLick:, sureButtonClick).
RaisesOnlySignedOut == ended = "literal" => ~userId

\* An address typed as the employer's is sent as the home's, or the other
\* way round, only if one cell has served both rows: the controller reads
\* the texts through the cells (cellForRowAtIndexPath:, checkButtonEnble).
OwnAddress ==
    (custAddr = "work" \/ workAddr = "house")
        => \E c \in Cell : served[c] = AddressRow

\* The picker starts from the assets of the pictures shown: whatever is
\* chosen, deleted and chosen again, the two arrays agree element by
\* element, as long as no deletion took two equal pictures at once
\* (detImgButton: takes by value from the one and by index from the other).
AssetsMatchPictures ==
    (~twins /\ ended = "no") => imageArray = PicturesOf(pubPicAssetArr)

\* No deletion ends the application: equal pictures may go together, and
\* leave more assets than pictures but never fewer, so that the index of a
\* picture is an index of the assets (detImgButton:).
DeletionNeverEnds == ended # "deletion"
=============================================================================
