# YiLeDai: a verification project

YiLeDai ("乐易贷") is an iOS client, in Objective-C, of a lending service: the
user signs in with a code sent by SMS, authenticates (identity card, face, bank
card, personal data), applies for a loan and pays bills back. The application's
own code is `src/LeYiDaiProject/LeYiDaiProject/` (about 14 000 lines of `.m`,
most of them views and layout constraints); `Pods/` and `thirdSDK/` are
libraries. In this text a path without a prefix is below the application's own
directory.

The project has a TLA+ module per component, a TLC configuration per question,
and machine-checked proofs of the properties that matter most. There is no
server in the repository: what it answers is chosen freely within what the
client's code distinguishes. (The one assumption made of it is the order of the
authentication's steps, see section 3.)

## 1. Inventory

### How the program runs

Touches, timers of the run loop and the completion blocks of AFNetworking all
run on the main queue. Nothing there is interrupted, but nothing waits either:
while a request is under way the user goes on touching, and answers come back
in any order, to a screen that is covered, popped, or no longer in the window.
A dispatch timer (the countdown of a code), the camera's capture queue and the
contact store run beside the main queue. The server may end a session at any
time; the process may end at any time and be started again.

### Components

| Component | State | Operations | Talks to | What makes it correct |
|---|---|---|---|---|
| Tap throttle `category/UIButton+Touch.m` | a flag and an interval per button | `mySendAction`, `resetState` | every button | two sends keep their interval; a button always comes back |
| Session `login/model/LoginModel.m`, `util/RequestAPI.m`, `AppDelegate.m` | user in memory, in the defaults, on disk; token header; root of the window | `setLogonData`, `removeFromLocal`, `POST`/`GET`/uploads, code 995, `initCustomWindow`, `logout` | every request | window, memory and disk agree; a live session is not lost |
| Login screen `login/LoginViewController.m` | two fields, two buttons, a flag, countdowns | edits, `codeButtonClick`, timer events, main-queue blocks | Session, throttle | the code button rests while a countdown runs and is given back |
| Tab navigation `pubView/KLTAnimateNav/` | stack of screens, two arrays of screenshots, the edge drag and its overlay | push, pop, pop to root, drag, settle | all screens | what a drag uncovers is the screen it returns to |
| Screens and tabs `base/` and each controller | which screen leads to which | touches, answers | Tab navigation | no screen twice in a row |
| Loan application `main/controller/LoanViewController.m`, `LoanOningViewController.m` | amount, product, plan, account, button, requests, receipt | the chain products, plan, cards; `textCLick:`, `useLoanLendTradeUp` | `MyBank` (by the notification `Bank_Model`) | only complete applications are sent, within the limit |
| Repayment `main/controller/RepaymentViewController.m`, `main/view/RepaySelectBankView.m` | bills, selection, amount, sheet, requests | list, select, edit, confirm, choose a card, pay | `MyBank` | what is paid is what was confirmed |
| Home `main/MainViewController.m` | the last answer, the centre view kept from the first, the panel, the other views | `useMainInsert` on each appearance, `payButtonClick`, `whiteBgViewButtonClick` | the self tab, by `Main_data`; Authentication, Loan, Repayment | the self tab follows; what the panel announces is what opens; only an overtaken answer goes back in time |
| Authentication `main/controller/*Authen*`, `Evaluation*`, `ApplicationInformation*`, `YSSWeb*` | the list of steps, the screens of the chain, their submissions; each page's form | one submission per step, the next screen pushed by its answer | Session (uploads), navigation | no step is left out or submitted before an earlier one; a form sends no nil while a user is signed in, and no other field's text |
| Face capture `main/controller/FaceAuther/`, `main/controller/FaceAuthenViewController.m` | `hasFinished`, `runningStatus`, delegate, camera; the page's face and button | frames and results on the capture queue, closing on the main queue | notification `IDFACELIVE` | one face per capture; what is sent is what is shown |
| Records `record/` | segment, list, list's kind | switch, list, open | navigation | the detail opened is of the kind of the row |
| Self `self/` | the label taken from home's answers; feedback: pictures, their assets, the browser's array | pick, delete, send | Home (`Main_data`), Session (upload) | the label is that of the account at home; both arrays agree |
| Phone book `self/model/PhoneBookModel.m` | - | read contacts, post `Device_book` | the loan's and the applicant's pages | the upload goes out with the session's token |
| Array guard `category/NSArray+beyond.m` | - | exchanged `objectAtIndex:` | everywhere in a release build | an index beyond the end is nil |

### What is hard

`PROJECT.json` lists each hazard at its line. They come in five kinds:
answers out of order or after the screen changed (session, loan, repayment,
records); navigation by an answer in the middle of a gesture; a flag or a field
with two writers (the code button's two countdowns, the selection and the typed
amount); a step that is missing on one of several paths (the upload's 995, the
removal that is not synchronised, the return before the button is disabled,
the address field that outlives its row);
and threads beside the main queue (timer, camera, contacts).

## 2. Plan

Modules in the order they were written; all are done.

1. `ButtonTouch` - the throttle, on which every other screen relies instead of
   disabling its buttons.
2. `Session`, with the abstract `SignInLife` it implements.
3. `ScreenGraph` (a table) and `NavStack`, composed in `MCNavStack`.
4. `SmsCode` - the code button.
5. `Repayment`, with `RepayAmount` for the float its amounts are summed in.
6. `LoanApply`.
7. `FaceCapture` - the capture queue beside the main queue.
8. `TabShell`, `Home`, `Records`, composed with the self tab's label in `TabPages`.
9. `AuthSteps` - the chain of screens and the list of steps, with the abstract
   `AuthOrder` it implements.
10. `BankForm`, `InfoForm`, `FeedBack`, composed with the photographs' page in
    `Forms`.

Left for later: `Repayment` and `LoanApply` with one `MyBank` that announces `Bank_Model`
to both. The two are never on the stack together (`ScreenGraph`: neither leads to
the other), so that the composition would show nothing the parts do not.

Abstract specifications: `SignInLife` and `AuthOrder`. Theorems: the type
invariant and the safety properties of each module, and its refinement where it
has one.

## 3. What is modelled

Names are the source's: an action has the name of the method it translates, a
variable that of the property. Where one method is several steps (it sends a
request, later its block runs) each step has a name of its own
(`codeButtonClick`, `getSysCodeSuccess`, `getSysCodeFailure`). Definitions
headed "Mutated form of" are deliberate bugs, not part of any specification:
they show that each property is violated when the code is changed so. A
variable headed "history" is read by properties only.

**`ButtonTouch`.** `isIgnoreEvent` is the associated flag, `resetDue` the
earliest second at which the run loop may deliver `resetState`, `sent` the times
at which each button's action was sent. `mySendAction` returns while the flag
is up, and otherwise schedules the reset and raises the flag; for another class
than `UIButton` and `FSCustomButton` it only raises it. A reset may be late.

**`Session`.** `token` is `LoginModel` in memory, `defaults` and `disk` the
stored copy before and after it is synchronised, `header` the
`X-Access-Token` of the one shared manager, `root` the window's root. Sending
and each outcome of a request are actions: `replyOther`, `reply995` (removes the
session and brings the login screen), `upload995` (only removes it),
`loginSuccess` (writes the session, builds the window; the screen is held
weakly, so the session may not be written). `Relaunch` starts again from `disk`.

**`SignInLife`.** Who is signed in, whom a relaunch brings back, which window is
up: what `Session` promises, without requests, header and defaults.

**`ScreenGraph`, `NavStack`.** `ScreenGraph` lists, per screen, what a touch
pushes, what an answer pushes or pops, and what the script of a web page pushes:
a message of the operator's page comes when it comes, the page on top or covered,
and as often as it likes (`scriptMessage`). `NavStack` is parameterised by such a
graph: `stack` is `viewControllers`, `screenshotImgs` and `screenShotArray` are
the two arrays of pictures (of `KLTNavigationController` and of
`AnimationContoller`), represented by the screen each shows; `finger`, `shift`,
`settling`, `overlay`, `shown` are the edge drag, the animation after it, and
the two views it puts in the window. A push of the class already on top is
refused, as in `pushViewController:animated:`.

**`SmsCode`.** Both fields by what the code tells apart (too short, 11
characters, a mobile number), both buttons, the flag `isGetCodeSuccess`, the
running timers with their captured counters, and the blocks they posted to the
main queue. `timerEvent` runs beside the main queue; everything else on it.

**`Repayment`.** `dataArray` and `selectArray` as sets of bills, `moneyText` by
where the amount comes from (nothing, typed, the sum of a set of bills),
`bankView` the sheet with the card its button shows, `req` the repayments under
way. `RepayAmount` has the sum itself, in the
arithmetic of the code: a significand of 24 bits over a power of two, rounded to
the nearest, halves to even, after each `floatValue` and each addition, and again by
`%.2f`; `AllMoney` is the loop's variable after each bill, and the bills are added in
every order in which they may have been selected. Confirming before the
list has come ends the process (nil has no card
number), as in the code.

**`LoanApply`.** The chain products, plan, cards, each answered later or with an
error; `textCLick` with its early returns; the choice of a card; the submission
with its dictionary literals (nil raises) and the receipt.

**`FaceCapture`.** The page and its captures, one on the screen at a time. Each
capture has a serial queue of its own; `stage` is how far it is with its frame:
converted, past the first check of `hasFinished`, past the second and with the
recogniser, and after `LivenessRemindCodeOK` the three things it does in this
order: the page keeps the face (`notificationClick`, on this queue), dispatches
its showing, and the capture dispatches its closing. The result may have no
image at all (nothing is announced), or one that is not readable, or not to be
written as a JPEG, or good (`image`): `PictureOf` and `StringOf` say what of it
the page gets, and the string may be nil beside an enabled button. The literal of
the submission raises on it (`NextRaises`), and on the user's id when there is
none: whether a user is signed in is chosen freely at the touch, since an upload of
another page, answered 995 at any time, signs the user out and leaves this page on.
The exception ends the application, and `relaunch` starts anew. `mainQueue` holds the
blocks. `hasFinished` is written by the setter (which stops the session and
takes the delegate) in one place and directly in others, as in the code. `cut`
is a history variable: a capture was closed by hand, or dismissed after a timeout
or an error, with a frame or a face still under way.

**`TabShell`, `Home`, `Records`, `TabPages`.** `tab`, `loaded` and `pages` are the
tab bar and what lies over the selected tab's root; a page hides the bar
(`pushViewController:animated:` sets `hidesBottomBarWhenPushed`), so that one
stack is enough. `Home` has the account at the server (`account`, with an `age`
that counts its changes, so that an older answer can be told), the requests of
each appearance, `detialModel`, and the views. `centre` is the account the centre
view was built from: its getter makes it once, and no later answer changes it.
`panel` is the overFlag the blue panel shows, redrawn in state 6 only.
`statueLab` is the self tab's label, which `selfNotificationCLick:` sets once the
tab has loaded. `Records` has the segment, the requests, and of the rows only
their kind and which request they came from (`listFrom`); a page of details keeps
both. `ListOfSegment` is the fact about the list that `DetailOfItsKind` rests on. `TabPages` joins them: returning to a root and selecting a tab are what
makes the home screen ask and a tab load.

**`AuthSteps`, `AuthOrder`.** `serverState` is the server's list, `evaluationList`
the page's copy, read once; `screens` the stack over the home screen; `authReq`
the requests, each with the place on the stack of the page that asked: 0 once it
was popped, when its `navigationController` is nil and its push does nothing.
`accepts`, `refuses`, `tells`, `turnsDown` are the server's part, `operatorAccepts`
the operator's, `answered` and its like the blocks. A page of the operator's says
`nextStep` (`didReceiveScriptMessage`) whenever it likes once the user was let in,
the page on top or covered, and the bank card's page is pushed over whatever is on
top. A page that was popped is kept by its message handler, so that the user may
still be let in there (`webLeft`); its push goes nowhere. The server accepts what is submitted or refuses it, and
may turn down later what it accepted. `AuthOrder` says what is promised: steps
are accepted in order, and the end is reached by those who have all of them.

**`BankForm`, `InfoForm`, `FeedBack`, `Forms`.** Pages that gather data. Of a text
only nil, empty and non-empty are told apart, of an address the row it was typed
in. The twelve entries of the applicant beside the addresses are listed as
`checkButtonEnble` looks at them (`Checked`) and as the literal takes them
(`Submitted`). `userId` is whether the model has a user: `upload995` takes it while
the page stays, also after the page of the upload was left, and `signInAgain` gives
it back in tabs that are new. Four literals carry it as it is: those of the bank card,
the applicant, the phone book and the complaint. `cellAt` is the table's assignment of cells to rows, which UIKit may change
whenever a row leaves the view; `houseAddressTextFile` and `workAddressTextFile`
are the fields the controller remembers. In `FeedBack` the three arrays are
sequences; a picture is what an asset shows (`content`), and two assets may show the
same. `ended` says which exception ended the application: a nil in a literal, an
index beyond an array, or the browser's message to a picture. `Forms` opens one page
at a time, and throws away a page that is left.

What the models take as given:

- completion blocks of AFNetworking run on the main queue, one at a time, in any
  order; a request may stay unanswered;
- the build is a release build (`NSArray+beyond.m` is compiled only there);
- an animated transition of `UINavigationController` is one step, and UIKit
  delivers no touch during it or while a dragged view settles. Whether a second
  finger may touch while one drags is the constant `SecondFinger`; the run allows
  it;
- the confirmation sheet of a repayment covers its screen, so nothing beneath it
  is touched; a popped screen's requests go on, and its blocks do nothing to it
  that anybody sees;
- the recogniser calls its block before `livenessStratrgyWithImage:` returns, so
  that a capture has one frame under way; it may answer anything;
- a capture covers the whole screen, as with the SDK the project is built for (a
  sheet that a swipe may begin to dismiss would run `viewWillAppear:` again);
- the server lists the steps in the order of the chain (`authSn`). The order of the
  list is the server's and not in the repository: this is an assumption of
  `AuthSteps`, and `SubmittedInOrder`, `FinishMeansAllPassed` and `AuthOrder` rest on
  it. It is the order in which the screens' answers lead on; the comment at
  `EvaluationViewController.m:29` has another, with the face before the identity
  card and the personal data before the bank card;
- a step counts as passed once the server accepted it (`passed` is history), even if
  it was turned down later;
- `AuthSteps`, `Repayment`, `LoanApply` and `Records` take the user as signed in. Their
  pages, too, put the user's id into literals as it is
  (`EvaluationViewController.m:160`, 186; `LoanViewController.m:147`, 181, 205;
  `RepaymentViewController.m:244`, 282; `RecordViewController.m:137`;
  `MyBankViewController.m:101`), so that after an upload's 995 a touch there raises as
  it does in `Forms` and `FaceCapture`, which have it;
- `AuthSteps` lets a face page that was popped go on to ask for the operator's
  page, since its blocks hold `self` strongly; its push then goes nowhere;
- in `TabPages` the pages of the self tab are not pushed: none of them comes back
  to home or records with anything but an appearance;
- two crosses of `FeedBack` are not touched in one turn of the main queue;
- the stack in `Repayment` and `LoanApply` is the part above that screen, a set,
  since the order is fixed.

## 4. What the runs show

| Run | Kind | Properties | Instance and why it is enough |
|---|---|---|---|
| `button_touch` | pass | `Spacing`, `Recovers` | an interval of 3 s, the default, and a bar button of another class; 7 s hold two full intervals and a late reset |
| `session` | pass | `LoginScreenMeansSignedOut`, `DiskLagsOnlyRemoval`, `SignedOutTabsKeepAToken`, `LiveSessionDroppedOnlyByStaleAnswer`, `SignedOutTabsOnlyByUpload`, `ImplementsLife` | 3 tokens: a session is replaced twice; 3 requests: an answer of the first meets the login of the second while an upload runs |
| `nav_stack` | pass | `PicturesMatchStack`, `NoScreenTwiceInARow`, `DisplacedOnlyAtRoot` | the application's whole graph, all three tabs, depth up to 9 (the longest flow), two requests under way |
| `nav_uncovers` | violation | `DragUncoversItsPicture` | as above |
| `sms_code` | pass | `FlagHasTick`, `RestEnables`, `LoginButMatchesFields`, `CountdownEnds` | two countdowns of 3 ticks overlap in every way, up to three requests |
| `repayment` | pass | `RequestPaysWhatItNames`, `SelectionMatchesField`, `SumToTheCent`, `AmountSettledUnderSheet` | 3 bills: a selection grows and shrinks; 2 cards; 2 repayments under way; five lists of amounts, one with the largest rounding found among three bills below the limit (0.33 cents, of the 0.5 that would show), one that goes wrong above it |
| `repay_card` | violation | `ChosenCardIsCharged` | as above |
| `loan_apply` | pass | `ButtonNeedsPlan`, `LoanNamesAmountAndCard`, `PlanWithinLimit` | no amount, one within and one beyond the limit; 2 cards; 3 requests: two plans and an application |
| `face_capture` | pass | `OneFacePerCapture`, `RaisesOnlyForBadImage`, `SentFaceIsShown`, `ResultCloses` | 2 captures: a face is replaced by another, good or not, and a frame left by the first meets the second; `MaxQueue` 1: a timeout is dispatched to an empty main queue only (the proofs are for any bound); results are never held back |
| `tab_pages` | pass | `SelfAgrees`, `OlderOnlyIfOvertaken`, `RepaymentAsAnnounced`, `DetailOfItsKind` | five accounts, one of each kind the screens treat differently (no state in the answer, authentication begun, approved, repaying, overdue); one change at the server, so that one answer is older than another; 2 requests of either list overtake each other |
| `auth_steps` | pass | `FinishMeansAllPassed`, `SubmittedInOrder`, `BackwardsOnlyFromBelow`, `ImplementsOrder` | all five steps; 2 requests: a second submission, or one of a page left, is answered late; 9 screens: the chain and one screen pushed again; one step turned down |
| `forms` | pass | `RaisesOnlySignedOut`, `OwnAddress`, `AssetsMatchPictures`, `DeletionNeverEnds` | of the applicant's twelve entries two are followed (`Watched`), one of a contact's alert and one typed, both of which may be emptied again; the others are there from the start (the proof is for any choice); 2 cells for 3 rows, so that either serves both addresses; 5 photographs, of which 2 show the same: 3, at which the page changes its behaviour, one more, and a twin; the picker's limit is then no limit |

Tokens, requests, bank cards and table cells are interchangeable model values and
are declared symmetric in the runs without a liveness property, as are the two
photographs that show the same. Bills are not: they have amounts. `MaxNow`, `MaxDepth`,
`Slot`, `HomeSlot`, `RecSlot`, `AuthSlot`, `Cell`, `Watched`, `MaxAge`, `MaxTurned`,
`MaxComplaints`, `Timer`, `MaxRequests`, `MaxBlocks` (how far the main queue may lag behind
a timer) and `MaxQueue` are bounds and appear in guards or as the sets
enumerated; nothing else limits a behaviour. `button_touch` turns deadlock
checking off: the clock stops at `MaxNow`.

The two violations are disagreements of the code with a comment or a text of its
own:

- `nav_uncovers`: the user drags a screen away whose request is answered after the
  drag began, with the finger still down or during the 0.3 s animation after it is
  lifted; the animation's block pops whatever is on top then, and not the screen that
  was dragged. (TLC's shortest trace has the answer under the finger.)
- `repay_card`: choosing a card on the confirmation sheet changes the title of
  its button only. The card that came with the list is charged.

Further disagreements were seen while modelling. They are behaviours of the
models, and no run is spent on them:

- an answer that pops to the root under a dragging finger: `panGestureRec:`
  returns at once on the root (`KLTNavigationController.m:181`), so the picture and
  the cover stay in the window, although the comment at 267 says they must be
  removed every time. `DisplacedOnlyAtRoot` bounds the damage to the views
  themselves: only a root is left out of place, and the next push brings it back;
- the flag that keeps the code button off for 60 s (`LoginViewController.m:31`) is
  lowered by the first tick (194): an edit enables the button after a second;
- an amount beyond the limit is warned about (`LoanViewController.m:114`), but the
  button was enabled before (109), and with an older plan on the page the
  application goes out;
- `FeedBackViewController` says that three pictures may be chosen and lets the
  picker take 9 (257); with exactly three, a touch of a picture opens the browser,
  which sends a string's method to a picture (252, `SDPhotoBrowser.m:167`) and
  raises. `Forms` has it as `ended = "browser"`;
- a sum above 32768.00 may be a cent off: 8371.85, 25308.95 and 1248.33, selected
  in this order, come to 34929.13, and the field says 34929.12. Up to 32768.00 it is
  right for up to four bills (each addition rounds by at most 1/1024, the bills
  together by at most 1/512): `SumToTheCent` checks it for three and `CentsHold`
  proves it for four. Of five it is not true: bills of 18053.71, 3317.12,
  2115.37, 2377.37 and 5854.12 come to 31717.69, and the field says 31717.70;
- the number and the code of the bank card's page are copied before they are
  truncated (`BankAuthenViewController.m:251`, 255), so that a character too many
  is sent; name and card may be emptied after the button was enabled;
- `FaceAuthenViewController` enables its button without a look at the string it will
  send (50-58): after an image that cannot be read or encoded, a touch raises;
- after an upload's 995 the pages stay and the next touch that sends the user's id in a
  literal raises: `RaisesOnlySignedOut` says that in the forms nothing else does;
- a message of the operator's page, covered by then, pushes the bank card's page over
  the screens after it (`BackwardsOnlyFromBelow` allows it);
- an address typed last is neither checked nor sent before something else is
  edited, and after a cell was reused the address shown and the one sent may
  differ (`OwnAddress` has the reuse as its only cause);
- a user whose account is under review at launch has a disabled centre button
  until the next launch, approved or not, since the centre view is built once;
  the overdue warning, once added, is never removed.

**Fairness.** `ButtonTouch` assumes that the clock goes on and that a delayed
selector that is due is delivered: the run loop is not blocked for ever.
`SmsCode` assumes that timers fire and the main queue is served. `FaceCapture`
assumes that the main queue is served, an animation ends, and a capture's queue
goes on with the block it began. Neither the
user nor the server owes anything: no liveness property rests on an answer.

## 5. What is proved

The theorems are in `*Proofs.tla` and hold for every value of the constants that
satisfies the `ASSUME` of the module (all of which only say what the constants
are: a sentinel is no member of its set, a bound is a natural number, the bills of
a list are finitely many and come to positive amounts).

| Module | Theorems | Inductive invariant |
|---|---|---|
| `LoginProofs`, of `ButtonTouch` | `TouchTypeCorrect`, `SpacingHolds` | `Spacing` and `FlagCoversInterval`: while the flag is up, the last send plus the interval is not after the earliest reset; once it is down, not after now. Without it the step that lowers the flag proves nothing. |
| `LoginProofs`, of `Session` | `SessionTypeCorrect`, `LoginScreenHolds`, `DiskHolds`, `KeepATokenHolds`, `LiveSessionHolds`, `OnlyUploadHolds`, `LifeImplemented` | the three invariants and `HeaderBacksRequests`: while a request of the tabs is under way the shared header is not empty, so that an upload turned down leaves a token behind. The refinement maps `who`, `kept`, `window` to `token`, `disk`, `root`; each action maps to a step of `SignInLife` or a stutter. |
| `NavStackProofs` | `TypeCorrect`, `PicturesHold`, `NoTwiceHolds`, `DisplacedHolds` | `Settled`, the type invariant and both properties together; one lemma each for push, pop and pop to root, used by touches, answers and drags alike. For `DisplacedHolds`, `Placed`: no finger is down while a view settles, and one that settles back has been put back already. |
| `LoginProofs`, of `SmsCode` | `CodeTypeCorrect`, `FlagHolds`, `RestHolds`, `LoginButHolds` | `FlagHasTick`, `RestEnables` and `LastBlockEnds`: when no timer runs, the last block on the main queue gives the button back. |
| `RepaymentProofs` | `TypeCorrect`, `PaysHolds`, `SelectionHolds`, `SheetHolds`, `CentsHold`, `SumsHold`, `PrintedHolds` | `SelectionMatchesField` carries `RequestPaysWhatItNames`: a request copies selection and field. `SheetHolds` is an action property and needs no invariant. `CentsHold` needs only the types of a request; the work is in the arithmetic, see below. |
| `LoanApplyProofs` | `TypeCorrect`, `ButtonHolds`, `LoanNamesHolds`, `PlanHolds` | six facts about the chain: one products request at most and nothing before its answer, plans and card requests only after it, the bank list only over a complete page, an enabled button only beside an amount. |
| `FaceCaptureProofs` | `TypeCorrect`, `OneFaceHolds`, `RaisesHolds`, `SentHolds` | `CaptureInv`: a frame past the checks belongs to a capture that announced nothing, one with a result has no delegate, and its closing waits behind its showing. `ShownIsKept`: an enabled button, or a showing under way, has a string beside it or a bad image behind it; it carries `RaisesHolds`. `PageInv`: while `cut` is not set, a capture that leaves has nothing under way, and a face kept but not shown belongs to an open one. |
| `AuthProofs` | `TypeCorrect`, `FinishHolds`, `SubmittedHolds`, `BackwardsHolds`, `OrderImplemented` | `InOrder`: every screen, request and list speaks for steps already accepted. A screen on the stack for those before it (`Needs`), a submission for those before its step, an answer for the step itself, a list - the server's, the page's or one on its way - for every step it does not have open. Without the lists the page's button, which goes by a list that may be old, proves nothing. That a request's place on the stack holds a screen that sends such requests (`Askers`) carries `BackwardsHolds`: an answer from the top screen leads forward, and a message from it does as well. `WebKnown`, beside it, is what a popped page of the operator's leaves behind: the steps before it were accepted, so that letting the user in there leaves none out. The refinement maps `order`, `done`, `finished` to `authSn`, `passed`, `AtEnd`. |
| `TabPagesProofs` | `TypeCorrect`, `SelfHolds`, `OlderHolds`, `AnnouncedHolds`, `DetailHolds` | `TypeInv`: a panel and rows are there only after an answer that gave them. `HomeInv`: no answer under way is newer than the account, and one not marked late is not older than what is shown (`AnswersInTime`, from which the action property `OlderOnlyIfOvertaken` follows); the panel is the model's in the state that draws one (`PanelOfModel`, under `RepaymentAsAnnounced`); a label needs the loaded tab (`LabelNeedsSelf`). `RecordInv`: list and latest request are of the segment (`ListOfSegment`, `LatestOfSegment`), and the first segment stays selected until the tab is loaded (`RootsLoaded`). |
| `FormsProofs` | `TypeCorrect`, `RaisesHolds`, `AddressHolds`, `AssetsHold`, `DeletionHolds` | `FormsInv`, one part per page. An enabled button stands over entries that are not nil (`BankReady`, `InfoReady`, `PhotosReady`), since every entry submitted is checked (`SubmittedIsChecked`); what is left to raise is the user's id (`RaisesHolds`). A cell's text was typed in a row it served (`TextOfOwnRow`), and the two remembered fields are of cells that served their rows (`FieldsServe`), so that a wrong address comes from a cell that served both. There is an asset for every picture (`FewerPictures`), because a deletion takes one asset and at least one picture (`RemoveFacts`); if it takes one only, both arrays lose the same place (`RemoveOnlyOne`). |

The type invariant (`TypeOK`, `TouchTypeOK`, `CodeTypeOK`) is proved for each of
these modules and therefore not repeated in its run. Each invariant that a proof
needs beside the checked ones is stated in the proof's module, or in the
component's where it explains the code (`FlagCoversInterval`, `ListOfSegment`), and
was model-checked on the instance of the component's run before it was proved.

`removeObject:` is stated by the places it keeps (`Kept`, `NthOf`) and not by a
recursive definition, which the provers cannot unfold; the lemmas
`RankFacts` to `RemoveOnlyOne` say what it returns for arrays of any length.

`CentsHold` is about every list of bills and every amount. Its argument is the error
of each rounding, in units of 2^-30, of which every float in reach is a multiple
(`Value`): a rounding is off by half a unit of the last bit at most (`NearestFacts`);
an amount of c cents is off by 64 c parts of 100 * 2^30 (`FloatValueFacts`); a sum's
last bit is the one that leaves it 24 bits (`PlusFacts`), hence 2^-9 below
32768.00, and at the limit itself, where the floats lie twice as far apart, the sum
is next to it at worst (`OneMore`). `AllMoneyIsNear` adds these up over the loop:
four bills are off by 524288000 of the 536870912 parts that make half a cent, and so
near a float prints right (`PrintedHolds`).

The loop's variable is a recursive function, and induction over its argument comes
from `CountingUp`: a set with 0 and with the successor of each of its numbers has
them all, for otherwise one would be the least it lacks. It is proved from the
library's theorem that finite sets are well-founded under strict inclusion and
speaks of a set, so that it needs no operator for a parameter. `AllMoneyEquation` and
`TotalsEquation` use it to show that the recursive functions exist.

Only model-checked:

- the liveness properties `Recovers`, `CountdownEnds` and `ResultCloses`: liveness under
  fairness is beyond the prover;
- both violations, which TLC finds as counterexamples.

## 6. What is not modelled

- Views, layout, formatting, cells, `YYModel` records: no state of their own.
- Signing out: the button 退出 of `SettingViewController` has no target, so that a
  session ends by a 995 only.
- The phone book: its only effect is a post, for which the loan's and
  the applicant's pages upload the contacts and look at no answer (`Forms` has the
  literal of that upload on the applicant's page). It comes on the
  main queue, but for the first time, after the permission, on the contact store's.
- The recognition of a face is a binary library; of face capture,
  `DetectionViewController` and `LivingConfigViewController` are opened by nobody.
- The pickers' lists of the applicant's page and of the loan, the operator's web
  page but for its message, the details of `AuthenDetial`: they only show.
- `popToViewController:animated:` has no caller. `OperatorViewController` is opened by
  nobody; its code button is a copy of the one in `SmsCode`.
- The details of a bill (`detialButCick:`): they are only shown, and which row is
  read depends on the views UIKit builds for a cell.
- `SDPhotoBrowser`, `FSCustomButton`, `Pods/`, `thirdSDK/`: third-party code. All
  the C and C++ of the repository is there (SQLite, SQLCipher and the like); the
  application's own code, which this project models, is Objective-C throughout.
- Whether a repayment or an application sent twice is carried out twice: the
  server's decision. The client keeps a second application apart by the throttle of its
  button; a second repayment not even so, for each sheet has a button of its own.
- That the receipt of an application shows the card chosen meanwhile
  (`receipt.named`, `receipt.paid` in `LoanApply`): seen in the model, no run.
