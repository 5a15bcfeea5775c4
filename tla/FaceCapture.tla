----------------------------- MODULE FaceCapture -----------------------------
(***************************************************************************)
(* The face step of the authentication.  FaceAuthenViewController (the     *)
(* page) presents a LivenessViewController (a capture) at a time.  Frames  *)
(* of a capture's camera are handled one after another on a queue of the   *)
(* capture's own, beside the main queue; a recognised face is announced as *)
(* IDFACELIVE on that queue, and the page keeps it there and shows it on   *)
(* the main queue.  The recogniser is a binary library: it is taken to     *)
(* call its block before livenessStratrgyWithImage: returns, with any code *)
(* and any image, or none.                                                 *)
(***************************************************************************)
EXTENDS Naturals, Sequences

CONSTANTS
    Capture,   \* the captures presented, one after another
    None,      \* no face
    MaxQueue   \* bound: a timeout finds fewer blocks on the main queue

ASSUME CaptureAssumption == None \notin Capture /\ MaxQueue \in Nat

VARIABLES
    life,           \* of a capture: unused, open, closing (animated), gone
    hasFinished,    \* of a capture, read and written on both queues
    runningStatus,  \* of its VideoCaptureDevice
    delegate,       \* the device still has the capture as its delegate
    camera,         \* captureSession: off, on, blind (no input), interrupted
    stage,          \* how far the capture's queue is with its frame
    faces,          \* how often the capture announced a face
    image,          \* the image it announced, or none
    mainQueue,      \* blocks dispatched to the main queue
    active,         \* the application is active
    base64ImageStr, \* the page: the face to be sent, by its capture; None: nil
    faceBut,        \* the page: the face shown, by its capture
    nextBut,        \* the page: the button that sends is enabled
    sent,           \* the face the page sent last; None before the first
    cut             \* history: a capture was closed from outside with a frame
                    \* of its, or its face, still under way

device == <<runningStatus, delegate, camera>>
page == <<base64ImageStr, faceBut, nextBut, sent>>
vars == <<life, hasFinished, device, stage, faces, image, mainQueue, active, page, cut>>

MaybeFace == Capture \cup {None}

(* What a result has for bestImage: nothing UIImage can read, a picture    *)
(* that cannot be written as a JPEG again, or a good one; and what becomes *)
(* of it: the picture, and the string made of the picture.                 *)
Image == {"unreadable", "unencodable", "good"}
PictureOf(c) == IF image[c] \in {"unencodable", "good"} THEN c ELSE None
StringOf(c) == IF image[c] = "good" THEN c ELSE None

Block == [kind : {"show", "close", "dismiss"}, capture : Capture]
Stage == {"idle", "converted", "passed", "recognised", "found", "posted", "told"}

OnScreen(c) == life[c] \in {"open", "closing"}

PageOnTop == \A c \in Capture : ~OnScreen(c)
dispatch(kind, c) == mainQueue' = Append(mainQueue, [kind |-> kind, capture |-> c])
Waiting(kind, c) == \E i \in DOMAIN mainQueue : mainQueue[i] = [kind |-> kind, capture |-> c]

TypeOK ==
    /\ life \in [Capture -> {"unused", "open", "closing", "gone"}]
    /\ hasFinished \in [Capture -> BOOLEAN]
    /\ runningStatus \in [Capture -> BOOLEAN]
    /\ delegate \in [Capture -> BOOLEAN]
    /\ camera \in [Capture -> {"off", "on", "blind", "interrupted"}]
    /\ stage \in [Capture -> Stage]
    /\ faces \in [Capture -> Nat]
    /\ image \in [Capture -> Image \cup {"none"}]
    /\ mainQueue \in Seq(Block)
    /\ active \in BOOLEAN /\ nextBut \in BOOLEAN
    /\ base64ImageStr \in MaybeFace /\ faceBut \in MaybeFace /\ sent \in MaybeFace
    /\ cut \in BOOLEAN
    /\ \A c, d \in Capture : OnScreen(c) /\ OnScreen(d) => c = d

Init ==
    /\ life = [c \in Capture |-> "unused"]
    /\ hasFinished = [c \in Capture |-> FALSE]
    /\ runningStatus = [c \in Capture |-> FALSE]
    /\ delegate = [c \in Capture |-> FALSE]
    /\ camera = [c \in Capture |-> "off"]
    /\ stage = [c \in Capture |-> "idle"]
    /\ faces = [c \in Capture |-> 0]
    /\ image = [c \in Capture |-> "none"]
    /\ mainQueue = <<>>
    /\ active = TRUE
    /\ base64ImageStr = None /\ faceBut = None /\ nextBut = FALSE /\ sent = None
    /\ cut = FALSE

-----------------------------------------------------------------------------
(* The setter stops the session and takes the delegate; a session that is  *)
(* interrupted is not running, and stopSession returns.                    *)
stopSession(c) == camera' = [camera EXCEPT ![c] = IF @ = "interrupted" THEN @ ELSE "off"]

(* Mutated form of setHasFinished: the delegate stays.                     *)
setHasFinishedKeepsDelegate(c) ==
    /\ hasFinished' = [hasFinished EXCEPT ![c] = TRUE]
    /\ stopSession(c)
    /\ UNCHANGED <<runningStatus, delegate>>

setHasFinished(c) ==
    /\ hasFinished' = [hasFinished EXCEPT ![c] = TRUE]
    /\ stopSession(c)
    /\ delegate' = [delegate EXCEPT ![c] = FALSE]
    /\ UNCHANGED runningStatus

dismiss(c) == life' = [life EXCEPT ![c] = IF @ = "open" THEN "closing" ELSE @]

(* Mutated form of closeAction: it returns on a capture that has finished. *)
closeActionOnce(c) ==
    IF hasFinished[c]
    THEN UNCHANGED <<hasFinished, device, life>>
    ELSE /\ hasFinished' = [hasFinished EXCEPT ![c] = TRUE]
         /\ runningStatus' = [runningStatus EXCEPT ![c] = FALSE]
         /\ dismiss(c)
         /\ UNCHANGED <<delegate, camera>>

closeAction(c) ==
    /\ hasFinished' = [hasFinished EXCEPT ![c] = TRUE]
    /\ runningStatus' = [runningStatus EXCEPT ![c] = FALSE]
    /\ dismiss(c)
    /\ UNCHANGED <<delegate, camera>>

-----------------------------------------------------------------------------
(* The main queue: the page.                                               *)

(* A capture starts: its device has it as delegate, and the camera runs - *)
(* without permission it has no input, and the capture will be dismissed.  *)
viewDidLoad(c) == delegate' = [delegate EXCEPT ![c] = TRUE]

captureError(c) == dispatch("dismiss", c)

startSession(c, c0) ==
    /\ camera' = [camera EXCEPT ![c] = c0]
    /\ IF c0 = "on" THEN UNCHANGED mainQueue ELSE captureError(c)

viewWillAppear(c, c0) ==
    /\ hasFinished' = [hasFinished EXCEPT ![c] = FALSE]
    /\ runningStatus' = [runningStatus EXCEPT ![c] = TRUE]
    /\ startSession(c, c0)

faceButClick(c, c0) ==
    /\ active /\ PageOnTop
    /\ life[c] = "unused"
    /\ life' = [life EXCEPT ![c] = "open"]
    /\ viewDidLoad(c) /\ viewWillAppear(c, c0)
    /\ UNCHANGED <<stage, faces, image, active, page, cut>>

(* The literal of the submission takes the string and the user's id as     *)
(* they are; a nil raises, and the exception ends the application.  The id *)
(* is nil when an upload of another page was answered 995 meanwhile, which *)
(* leaves the tabs and this page on; the next application starts anew.     *)
NextRaises(signedIn) == base64ImageStr = None \/ ~signedIn

relaunch ==
    /\ life' = [c \in Capture |-> "unused"]
    /\ hasFinished' = [c \in Capture |-> FALSE]
    /\ runningStatus' = [c \in Capture |-> FALSE]
    /\ delegate' = [c \in Capture |-> FALSE]
    /\ camera' = [c \in Capture |-> "off"]
    /\ stage' = [c \in Capture |-> "idle"]
    /\ faces' = [c \in Capture |-> 0]
    /\ image' = [c \in Capture |-> "none"]
    /\ mainQueue' = <<>>
    /\ active' = TRUE
    /\ base64ImageStr' = None /\ faceBut' = None /\ nextBut' = FALSE /\ sent' = None
    /\ cut' = FALSE

nextButtonClick(signedIn) ==
    /\ active /\ PageOnTop /\ nextBut
    /\ \/ NextRaises(signedIn) /\ relaunch
       \/ /\ ~NextRaises(signedIn)
          /\ sent' = base64ImageStr
          /\ UNCHANGED <<life, hasFinished, device, stage, faces, image, mainQueue, active>>
          /\ UNCHANGED <<base64ImageStr, faceBut, nextBut, cut>>

(* The main queue: the capture.                                            *)
closeButton(c) ==
    /\ active /\ life[c] = "open"
    /\ closeAction(c)
    /\ cut' = (cut \/ stage[c] # "idle" \/ Waiting("show", c))
    /\ UNCHANGED <<stage, faces, image, mainQueue, active, page>>

viewDidDisappear(c) ==
    /\ life[c] = "closing"
    /\ life' = [life EXCEPT ![c] = "gone"]
    /\ hasFinished' = [hasFinished EXCEPT ![c] = TRUE]
    /\ stopSession(c)
    /\ delegate' = [delegate EXCEPT ![c] = FALSE]
    /\ runningStatus' = [runningStatus EXCEPT ![c] = FALSE]
    /\ UNCHANGED <<stage, faces, image, mainQueue, active, page, cut>>

onAppWillResignAction ==
    /\ active /\ active' = FALSE
    /\ hasFinished' = [c \in Capture |-> life[c] # "unused" \/ hasFinished[c]]
    /\ UNCHANGED <<life, device, stage, faces, image, mainQueue, page, cut>>

onAppBecomeActive ==
    /\ ~active /\ active' = TRUE
    /\ hasFinished' = [c \in Capture |-> life[c] = "unused" /\ hasFinished[c]]
    /\ UNCHANGED <<life, device, stage, faces, image, mainQueue, page, cut>>

(* The system takes the camera from an application that is not active, and *)
(* gives it back.                                                          *)
Interrupt(c) ==
    /\ \/ ~active /\ camera[c] = "on" /\ camera' = [camera EXCEPT ![c] = "interrupted"]
       \/ camera[c] = "interrupted" /\ camera' = [camera EXCEPT ![c] = "on"]
    /\ UNCHANGED <<life, hasFinished, runningStatus, delegate, stage, faces, image>>
    /\ UNCHANGED <<mainQueue, active, page, cut>>

(* The blocks: the page shows the face and enables its button; the capture *)
(* closes after its result; the capture is dismissed after a timeout or an *)
(* error.  A capture that is gone does nothing more.                       *)
showBlock(c) ==
    /\ faceBut' = PictureOf(c)
    /\ nextBut' = TRUE
    /\ UNCHANGED <<life, hasFinished, device, base64ImageStr, sent, cut>>

closeBlock(c) ==
    /\ IF OnScreen(c) THEN closeAction(c) ELSE UNCHANGED <<life, hasFinished, device>>
    /\ UNCHANGED <<page, cut>>

dismissBlock(c) ==
    /\ dismiss(c)
    /\ cut' = (cut \/ life[c] = "open")
    /\ UNCHANGED <<hasFinished, device, page>>

mainBlock ==
    /\ mainQueue # <<>>
    /\ mainQueue' = Tail(mainQueue)
    /\ LET b == Head(mainQueue) IN
         \/ b.kind = "show" /\ showBlock(b.capture)
         \/ b.kind = "close" /\ closeBlock(b.capture)
         \/ b.kind = "dismiss" /\ dismissBlock(b.capture)
    /\ UNCHANGED <<stage, faces, image, active>>

-----------------------------------------------------------------------------
(* The capture's queue: one frame at a time.                               *)
reach(c, from, to) ==
    /\ stage[c] = from
    /\ stage' = [stage EXCEPT ![c] = to]

didOutputSampleBuffer(c) ==
    /\ camera[c] = "on" /\ runningStatus[c]
    /\ reach(c, "idle", "converted")
    /\ UNCHANGED <<life, hasFinished, device, faces, image, mainQueue, active, page, cut>>

(* The delegate is read after the conversion, hasFinished after that.      *)
captureOutputSampleBuffer(c) ==
    /\ reach(c, "converted", IF delegate[c] /\ ~hasFinished[c] THEN "passed" ELSE "idle")
    /\ UNCHANGED <<life, hasFinished, device, faces, image, mainQueue, active, page, cut>>

faceProcesss(c) ==
    /\ reach(c, "passed", IF hasFinished[c] THEN "idle" ELSE "recognised")
    /\ UNCHANGED <<life, hasFinished, device, faces, image, mainQueue, active, page, cut>>

(* Mutated form of LivenessOK: the closing is dispatched first.            *)
LivenessOKClosesFirst(c, bestImage) ==
    /\ reach(c, "recognised", IF bestImage THEN "found" ELSE "told")
    /\ setHasFinished(c)
    /\ dispatch("close", c)
    /\ UNCHANGED <<life, faces, image, active, page, cut>>

(* LivenessRemindCodeOK, with a best image or none.                        *)
LivenessOK(c, bestImage) ==
    /\ reach(c, "recognised", IF bestImage THEN "found" ELSE "told")
    /\ setHasFinished(c)
    /\ UNCHANGED <<life, faces, image, mainQueue, active, page, cut>>

(* LivenessRemindCodeTimeout leaves hasFinished as it is.                  *)
LivenessTimeout(c) ==
    /\ reach(c, "recognised", "idle")
    /\ Len(mainQueue) < MaxQueue
    /\ dispatch("dismiss", c)
    /\ UNCHANGED <<life, hasFinished, device, faces, image, active, page, cut>>

(* Every other code changes the hints only.                                *)
LivenessHint(c) ==
    /\ reach(c, "recognised", "idle")
    /\ UNCHANGED <<life, hasFinished, device, faces, image, mainQueue, active, page, cut>>

(* Mutated form of notificationClick: the string is not kept.              *)
notificationClickForgets(c, img) ==
    /\ reach(c, "found", "posted")
    /\ faces' = [faces EXCEPT ![c] = @ + 1]
    /\ image' = [image EXCEPT ![c] = img]
    /\ UNCHANGED <<life, hasFinished, device, mainQueue, active, page, cut>>

(* IDFACELIVE is delivered where it is posted, with what UIImage made of   *)
(* the image: the page keeps the string of it, whatever it is...           *)
notificationClick(c, img) ==
    /\ reach(c, "found", "posted")
    /\ faces' = [faces EXCEPT ![c] = @ + 1]
    /\ image' = [image EXCEPT ![c] = img]
    /\ base64ImageStr' = StringOf(c)'
    /\ UNCHANGED <<life, hasFinished, device, mainQueue, active>>
    /\ UNCHANGED <<faceBut, nextBut, sent, cut>>

(* ...dispatches its showing, and then the capture dispatches its closing. *)
DispatchShow(c) ==
    /\ reach(c, "posted", "told")
    /\ dispatch("show", c)
    /\ UNCHANGED <<life, hasFinished, device, faces, image, active, page, cut>>

DispatchClose(c) ==
    /\ reach(c, "told", "idle")
    /\ dispatch("close", c)
    /\ UNCHANGED <<life, hasFinished, device, faces, image, active, page, cut>>

MainQueue ==
    \/ \E signedIn \in BOOLEAN : nextButtonClick(signedIn)
    \/ onAppWillResignAction \/ onAppBecomeActive \/ mainBlock
    \/ \E c \in Capture :
        \/ \E c0 \in {"on", "blind"} : faceButClick(c, c0)
        \/ closeButton(c) \/ viewDidDisappear(c) \/ Interrupt(c)

AfterResult(c) ==
    (\E img \in Image : notificationClick(c, img)) \/ DispatchShow(c) \/ DispatchClose(c)

VideoBufferQueue(c) ==
    \/ didOutputSampleBuffer(c) \/ captureOutputSampleBuffer(c) \/ faceProcesss(c)
    \/ \E bestImage \in BOOLEAN : LivenessOK(c, bestImage)
    \/ LivenessTimeout(c) \/ LivenessHint(c) \/ AfterResult(c)

Next == MainQueue \/ \E c \in Capture : VideoBufferQueue(c)

Spec == Init /\ [][Next]_vars

(* The main queue is served, an animation ends, and a queue goes on with a *)
(* block it began.  Nobody owes a frame, a face or a touch.                *)
FairSpec ==
    /\ Spec
    /\ WF_vars(mainBlock)
    /\ \A c \in Capture : WF_vars(viewDidDisappear(c)) /\ WF_vars(AfterResult(c))

-----------------------------------------------------------------------------
(* A capture announces one face at most: hasFinished alone would not do,   *)
(* for a return to the application lowers it again, and neither would the  *)
(* stopping of a session that is interrupted at that moment.               *)
OneFacePerCapture == \A c \in Capture : faces[c] <= 1

(* The button is enabled without a look at what it will send.  String and  *)
(* button are written on different queues, by captures that follow each    *)
(* other, may be cut short or find no image at all; still, for a user who  *)
(* is signed in a touch raises only after a capture whose image could not  *)
(* be read or encoded.                                                     *)
RaisesOnlyForBadImage ==
    nextBut /\ NextRaises(TRUE) =>
        \E c \in Capture : image[c] \in {"unreadable", "unencodable"}

(* What is sent is the face the page shows, however the captures followed  *)
(* each other - unless one was closed from outside in the middle of a      *)
(* frame, whose face may come in when the page is back.                    *)
SentFaceIsShown == [][sent' \notin {sent, None} => sent' = faceBut \/ cut]_vars

(* A result closes its capture.                                            *)
ResultCloses == \A c \in Capture : stage[c] \in {"found", "posted", "told"} ~> life[c] = "gone"
=============================================================================
