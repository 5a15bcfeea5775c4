------------------------- MODULE FaceCaptureProofs -------------------------
(* Face capture, for any number of captures: one face each, no nil string  *)
(* unless an image was bad, and the face sent is the face shown.           *)
EXTENDS FaceCapture, TLAPS

(* A block that is dispatched or run leaves the queue a queue of blocks.   *)
LEMMA QueueType ==
    ASSUME mainQueue \in Seq(Block)
    PROVE  /\ \A k \in {"show", "close", "dismiss"}, c \in Capture :
                  dispatch(k, c) => mainQueue' \in Seq(Block)
           /\ mainQueue # <<>> =>
                  Head(mainQueue) \in Block /\ Tail(mainQueue) \in Seq(Block)
<1>1. \A k \in {"show", "close", "dismiss"}, c \in Capture :
         [kind |-> k, capture |-> c] \in Block
  BY DEF Block
<1>2. QED
  BY <1>1 DEF dispatch

(* What it means that a capture is presented.                              *)
LEMMA Presented ==
    ASSUME NEW c \in Capture, NEW c0, faceButClick(c, c0)
    PROVE  /\ active /\ PageOnTop /\ life[c] = "unused"
           /\ life' = [life EXCEPT ![c] = "open"]
           /\ delegate' = [delegate EXCEPT ![c] = TRUE]
           /\ hasFinished' = [hasFinished EXCEPT ![c] = FALSE]
           /\ runningStatus' = [runningStatus EXCEPT ![c] = TRUE]
           /\ camera' = [camera EXCEPT ![c] = c0]
           /\ mainQueue' = mainQueue \/ dispatch("dismiss", c)
           /\ UNCHANGED <<stage, faces, image, active, page, cut>>
BY DEF faceButClick, viewDidLoad, viewWillAppear, startSession, captureError

(* The button's two outcomes; and what is true when the application has    *)
(* started again.                                                          *)
LEMMA NextClicked ==
    ASSUME NEW signedIn \in BOOLEAN, nextButtonClick(signedIn)
    PROVE  \/ relaunch
           \/ /\ PageOnTop /\ base64ImageStr # None /\ sent' = base64ImageStr
              /\ UNCHANGED <<life, hasFinished, device, stage, faces, image, mainQueue, active>>
              /\ UNCHANGED <<base64ImageStr, faceBut, nextBut, cut>>
BY DEF nextButtonClick, NextRaises

LEMMA Relaunched ==
    ASSUME relaunch
    PROVE  /\ mainQueue' \in Seq(Block) /\ ~nextBut'
           /\ \A c \in Capture : /\ \A k : ~Waiting(k, c)'
                                 /\ stage'[c] = "idle" /\ faces'[c] = 0 /\ ~delegate'[c]
                                 /\ camera'[c] = "off" /\ life'[c] = "unused"
<1>1. mainQueue' \in Seq(Block) /\ DOMAIN mainQueue' = {}
  BY DEF relaunch
<1>2. QED
  BY <1>1 DEF relaunch, Waiting

(* Types, and one capture at most on the screen.                           *)
THEOREM TypeCorrect == Spec => []TypeOK
<1>1. Init => TypeOK
  <2> SUFFICES ASSUME Init PROVE TypeOK
    OBVIOUS
  <2>1. mainQueue \in Seq(Block)
    BY DEF Init
  <2>2. QED
    BY <2>1 DEF Init, TypeOK, MaybeFace, Stage, OnScreen
<1>2. TypeOK /\ [Next]_vars => TypeOK'
  <2> SUFFICES ASSUME TypeOK, [Next]_vars PROVE TypeOK'
    OBVIOUS
  <2> USE DEF TypeOK, Stage, OnScreen
  <2>1. CASE \E signedIn \in BOOLEAN : nextButtonClick(signedIn)
    <3>1. CASE relaunch
      BY <3>1, Relaunched DEF relaunch, MaybeFace
    <3>2. QED
      BY <2>1, <3>1, NextClicked DEF device
  <2>2. CASE onAppWillResignAction
    BY <2>2 DEF onAppWillResignAction, device, page
  <2>3. CASE onAppBecomeActive
    BY <2>3 DEF onAppBecomeActive, device, page
  <2>4. CASE mainBlock
    <3>1. mainQueue' \in Seq(Block) /\ Head(mainQueue) \in Block
      BY <2>4, QueueType DEF mainBlock
    <3> DEFINE c == Head(mainQueue).capture
    <3>2. c \in Capture
      BY <3>1 DEF Block
    <3>3. CASE showBlock(c)
      BY <2>4, <3>1, <3>2, <3>3 DEF mainBlock, showBlock, device, MaybeFace, PictureOf
    <3>4. CASE closeBlock(c)
      BY <2>4, <3>1, <3>2, <3>4 DEF mainBlock, closeBlock, closeAction, dismiss, device, page
    <3>5. CASE dismissBlock(c)
      BY <2>4, <3>1, <3>2, <3>5 DEF mainBlock, dismissBlock, dismiss, device, page
    <3>6. QED
      BY <2>4, <3>3, <3>4, <3>5 DEF mainBlock
  <2>5. ASSUME NEW c \in Capture, NEW c0 \in {"on", "blind"}, faceButClick(c, c0)
        PROVE  TypeOK'
    <3>1. mainQueue' \in Seq(Block)
      BY <2>5, QueueType, Presented
    <3>2. /\ PageOnTop /\ life' = [life EXCEPT ![c] = "open"]
          /\ delegate' = [delegate EXCEPT ![c] = TRUE]
          /\ hasFinished' = [hasFinished EXCEPT ![c] = FALSE]
          /\ runningStatus' = [runningStatus EXCEPT ![c] = TRUE]
          /\ camera' = [camera EXCEPT ![c] = c0]
          /\ UNCHANGED <<stage, faces, image, active, page, cut>>
      BY <2>5, Presented
    <3>3. QED
      BY <3>1, <3>2 DEF PageOnTop, page
  <2>6. ASSUME NEW c \in Capture, closeButton(c) PROVE TypeOK'
    BY <2>6 DEF closeButton, closeAction, dismiss, page
  <2>7. ASSUME NEW c \in Capture, viewDidDisappear(c) PROVE TypeOK'
    BY <2>7 DEF viewDidDisappear, stopSession, page
  <2>8. ASSUME NEW c \in Capture, Interrupt(c) PROVE TypeOK'
    BY <2>8 DEF Interrupt, page
  <2>9. ASSUME NEW c \in Capture, VideoBufferQueue(c) PROVE TypeOK'
    <3> USE DEF reach, device, page
    <3>1. CASE didOutputSampleBuffer(c)
      BY <3>1 DEF didOutputSampleBuffer
    <3>2. CASE captureOutputSampleBuffer(c)
      BY <3>2 DEF captureOutputSampleBuffer
    <3>3. CASE faceProcesss(c)
      BY <3>3 DEF faceProcesss
    <3>4. ASSUME NEW bestImage \in BOOLEAN, LivenessOK(c, bestImage) PROVE TypeOK'
      BY <3>4 DEF LivenessOK, setHasFinished, stopSession
    <3>5. CASE LivenessTimeout(c)
      BY <3>5, QueueType DEF LivenessTimeout
    <3>6. CASE LivenessHint(c)
      BY <3>6 DEF LivenessHint
    <3>7. ASSUME NEW img \in Image, notificationClick(c, img) PROVE TypeOK'
      BY <3>7 DEF notificationClick, MaybeFace, StringOf
    <3>8. CASE DispatchShow(c)
      BY <3>8, QueueType DEF DispatchShow
    <3>9. CASE DispatchClose(c)
      BY <3>9, QueueType DEF DispatchClose
    <3>10. QED
      BY <2>9, <3>1, <3>2, <3>3, <3>4, <3>5, <3>6, <3>7, <3>8, <3>9
         DEF VideoBufferQueue, AfterResult
  <2>10. CASE UNCHANGED vars
    BY <2>10 DEF vars, device, page
  <2>11. QED
    BY <2>1, <2>2, <2>3, <2>4, <2>5, <2>6, <2>7, <2>8, <2>9, <2>10 DEF Next, MainQueue
<1>3. QED
  BY <1>1, <1>2, PTL DEF Spec

-----------------------------------------------------------------------------
(* What the proofs need to know of a capture.  One that was never          *)
(* presented has done nothing; a frame that passed the checks belongs to a *)
(* capture that announced nothing; from its result on a capture is nobody's*)
(* delegate.                                                               *)
UnusedIsFresh(c) ==
    life[c] = "unused" =>
        /\ faces[c] = 0 /\ stage[c] = "idle" /\ camera[c] = "off"
        /\ \A k \in {"show", "close"} : ~Waiting(k, c)

FacesFollowChecks(c) ==
    /\ faces[c] \in {0, 1}
    /\ stage[c] \in {"passed", "recognised", "found"} => faces[c] = 0
    /\ faces[c] = 1 \/ stage[c] \in {"found", "posted", "told"} => ~delegate[c]

(* No frame of the capture can come to a face any more.                    *)
Quiet(c) == stage[c] = "idle" \/ (stage[c] = "converted" /\ ~delegate[c])

(* The closing is dispatched last, after the showing.                      *)
Ordered(c) ==
    \A i, j \in DOMAIN mainQueue :
        i < j /\ mainQueue[i] = [kind |-> "close", capture |-> c]
            => mainQueue[j] # [kind |-> "show", capture |-> c]

ClosingIsLast(c) == Ordered(c) /\ (Waiting("close", c) => ~delegate[c] /\ Quiet(c))

CaptureInv == \A c \in Capture : UnusedIsFresh(c) /\ FacesFollowChecks(c) /\ ClosingIsLast(c)

(* A face that the page shows, or will show, has been kept before, as far  *)
(* as an image was good.                                                   *)
UnderWay(c) == stage[c] = "posted" \/ Waiting("show", c)
BadImage == \E c \in Capture : image[c] \in {"unreadable", "unencodable"}
ShownIsKept ==
    (nextBut \/ \E c \in Capture : UnderWay(c)) => base64ImageStr # None \/ BadImage

(* While no capture was cut short: one that leaves the screen has nothing  *)
(* under way; the string kept is of the one under way; and if it is not of *)
(* the one shown, its capture is still open.                               *)
LeavesQuietly(c) ==
    life[c] \in {"closing", "gone"} => Quiet(c) /\ ~Waiting("show", c) /\ ~runningStatus[c]

PageInv ==
    ~cut =>
        /\ \A c \in Capture : LeavesQuietly(c)
        /\ \A c \in Capture : UnderWay(c) => base64ImageStr = StringOf(c)
        /\ base64ImageStr \notin {None, faceBut} =>
             \E c \in Capture : life[c] = "open" /\ base64ImageStr = c /\ UnderWay(c)

IInv == CaptureInv /\ ShownIsKept /\ PageInv

-----------------------------------------------------------------------------
(* A dispatched block waits beside those that waited; it may not break the *)
(* order unless it shows a face behind its capture's closing.              *)
LEMMA Dispatched ==
    ASSUME mainQueue \in Seq(Block),
           NEW k0 \in {"show", "close", "dismiss"}, NEW c0 \in Capture, dispatch(k0, c0)
    PROVE  /\ \A k \in {"show", "close", "dismiss"}, c \in Capture :
                  Waiting(k, c)' <=> Waiting(k, c) \/ (k = k0 /\ c = c0)
           /\ \A c \in Capture :
                  Ordered(c) /\ (k0 = "show" /\ c = c0 => ~Waiting("close", c)) => Ordered(c)'
<1> DEFINE b == [kind |-> k0, capture |-> c0]
           n == Len(mainQueue)
<1>1. /\ n \in Nat /\ DOMAIN mainQueue = 1..n /\ DOMAIN mainQueue' = 1..(n + 1)
      /\ mainQueue'[n + 1] = b
      /\ \A i \in 1..n : mainQueue'[i] = mainQueue[i]
  BY DEF dispatch
<1>2. \A k \in {"show", "close", "dismiss"}, c \in Capture :
         ([kind |-> k, capture |-> c] = b) <=> (k = k0 /\ c = c0)
  OBVIOUS
<1>3. ASSUME NEW k \in {"show", "close", "dismiss"}, NEW c \in Capture
      PROVE  Waiting(k, c)' <=> Waiting(k, c) \/ (k = k0 /\ c = c0)
  <2>1. Waiting(k, c)' <=> \E i \in 1..(n + 1) : mainQueue'[i] = [kind |-> k, capture |-> c]
    BY <1>1 DEF Waiting
  <2>2. Waiting(k, c) <=> \E i \in 1..n : mainQueue[i] = [kind |-> k, capture |-> c]
    BY <1>1 DEF Waiting
  <2>3. \A i : i \in 1..(n + 1) <=> i \in 1..n \/ i = n + 1
    BY <1>1
  <2> HIDE DEF b, n
  <2>4. QED
    BY <1>1, <1>2, <2>1, <2>2, <2>3
<1>4. ASSUME NEW c \in Capture, Ordered(c), k0 = "show" /\ c = c0 => ~Waiting("close", c),
             NEW i \in 1..(n + 1), NEW j \in 1..(n + 1), i < j,
             mainQueue'[i] = [kind |-> "close", capture |-> c]
      PROVE  mainQueue'[j] # [kind |-> "show", capture |-> c]
  <2>1. i \in 1..n /\ mainQueue[i] = [kind |-> "close", capture |-> c]
    BY <1>1, <1>4
  <2>2. CASE j \in 1..n
    BY <1>1, <1>4, <2>1, <2>2 DEF Ordered
  <2>3. CASE j = n + 1
    BY <1>1, <1>2, <1>4, <2>1, <2>3 DEF Waiting
  <2>4. QED
    BY <1>1, <2>2, <2>3
<1>5. QED
  BY <1>1, <1>3, <1>4 DEF Ordered

(* The block that runs is the one that waits no more, and nothing is shown *)
(* behind a closing.                                                       *)
LEMMA Ran ==
    ASSUME mainQueue \in Seq(Block), mainQueue # <<>>, mainQueue' = Tail(mainQueue),
           NEW c \in Capture
    PROVE  /\ \A k \in {"show", "close", "dismiss"} :
                  /\ Waiting(k, c)' => Waiting(k, c)
                  /\ Waiting(k, c) =>
                       Waiting(k, c)' \/ Head(mainQueue) = [kind |-> k, capture |-> c]
                  /\ Head(mainQueue) = [kind |-> k, capture |-> c] => Waiting(k, c)
           /\ Ordered(c) => Ordered(c)'
           /\ Ordered(c) /\ Head(mainQueue) = [kind |-> "close", capture |-> c]
                  => ~Waiting("show", c)'
<1> DEFINE n == Len(mainQueue)
<1>1. /\ n \in Nat \ {0} /\ DOMAIN mainQueue = 1..n /\ DOMAIN mainQueue' = 1..(n - 1)
      /\ Head(mainQueue) = mainQueue[1]
      /\ \A i \in 1..(n - 1) : mainQueue'[i] = mainQueue[i + 1]
  OBVIOUS
<1> HIDE DEF n
<1>2. \A i \in 1..(n - 1) : i + 1 \in 1..n /\ 1 < i + 1
  BY <1>1
<1>3. \A i \in 1..n : i = 1 \/ (i - 1 \in 1..(n - 1) /\ mainQueue'[i - 1] = mainQueue[i])
  BY <1>1
<1>4. ASSUME NEW k \in {"show", "close", "dismiss"}
      PROVE  /\ Waiting(k, c)' => Waiting(k, c)
             /\ Waiting(k, c) => Waiting(k, c)' \/ Head(mainQueue) = [kind |-> k, capture |-> c]
             /\ Head(mainQueue) = [kind |-> k, capture |-> c] => Waiting(k, c)
  <2> DEFINE b == [kind |-> k, capture |-> c]
  <2>1. Waiting(k, c) <=> \E i \in 1..n : mainQueue[i] = b
    BY <1>1 DEF Waiting
  <2>2. Waiting(k, c)' <=> \E i \in 1..(n - 1) : mainQueue'[i] = b
    BY <1>1 DEF Waiting
  <2> HIDE DEF b
  <2>3. 1 \in 1..n
    BY <1>1
  <2>4. Waiting(k, c)' => Waiting(k, c)
    BY <1>1, <1>2, <2>1, <2>2
  <2>5. Waiting(k, c) => Waiting(k, c)' \/ Head(mainQueue) = b
    BY <1>1, <1>3, <2>1, <2>2
  <2>6. Head(mainQueue) = b => Waiting(k, c)
    BY <1>1, <2>1, <2>3
  <2>7. QED
    BY <2>4, <2>5, <2>6 DEF b
<1>5. Ordered(c) => Ordered(c)'
  <2>1. \A i, j \in 1..(n - 1) : i < j => i + 1 < j + 1
    BY <1>1
  <2>2. QED
    BY <1>1, <1>2, <2>1 DEF Ordered
<1>6. Ordered(c) /\ Head(mainQueue) = [kind |-> "close", capture |-> c] => ~Waiting("show", c)'
  BY <1>1, <1>2 DEF Ordered, Waiting
<1>7. QED
  BY <1>4, <1>5, <1>6

-----------------------------------------------------------------------------
(* A step that leaves the main queue alone.                                *)
LEMMA QueueStays ==
    ASSUME UNCHANGED mainQueue, NEW c \in Capture
    PROVE  (\A k : Waiting(k, c)' <=> Waiting(k, c)) /\ (Ordered(c)' <=> Ordered(c))
BY DEF Waiting, Ordered

LEMMA NothingWaits ==
    ASSUME NEW c \in Capture, ~Waiting("show", c)'
    PROVE  Ordered(c)'
BY DEF Waiting, Ordered

(* What a step must do for one capture to keep its invariant: the blocks   *)
(* that wait for it are fewer or the same, and nothing else of it changed  *)
(* but flags that the invariant does not read.                             *)
LEMMA Untouched ==
    ASSUME NEW c \in Capture,
           life'[c] = life[c] \/ life'[c] \in {"closing", "gone"},
           UNCHANGED <<faces[c], stage[c]>>,
           delegate'[c] => delegate[c],
           camera'[c] = camera[c] \/ life'[c] # "unused",
           \A k \in {"show", "close"} : Waiting(k, c)' => Waiting(k, c),
           Ordered(c) => Ordered(c)',
           UnusedIsFresh(c), FacesFollowChecks(c), ClosingIsLast(c)
    PROVE  UnusedIsFresh(c)' /\ FacesFollowChecks(c)' /\ ClosingIsLast(c)'
BY DEF UnusedIsFresh, FacesFollowChecks, ClosingIsLast, Quiet

(* Every capture's history is kept by every step.                          *)
THEOREM CaptureHolds == Spec => []CaptureInv
<1>1. Init => CaptureInv
  <2> SUFFICES ASSUME Init, NEW c \in Capture
               PROVE  UnusedIsFresh(c) /\ FacesFollowChecks(c) /\ ClosingIsLast(c)
    BY DEF CaptureInv
  <2>1. DOMAIN mainQueue = {}
    BY DEF Init
  <2>2. (\A k : ~Waiting(k, c)) /\ Ordered(c)
    BY <2>1 DEF Waiting, Ordered
  <2>3. QED
    BY <2>2 DEF Init, UnusedIsFresh, FacesFollowChecks, ClosingIsLast
<1>2. TypeOK /\ CaptureInv /\ [Next]_vars => CaptureInv'
  <2> SUFFICES ASSUME TypeOK, CaptureInv, [Next]_vars,
                      NEW c \in Capture
               PROVE  UnusedIsFresh(c)' /\ FacesFollowChecks(c)' /\ ClosingIsLast(c)'
    BY DEF CaptureInv
  <2> DEFINE Goal == UnusedIsFresh(c)' /\ FacesFollowChecks(c)' /\ ClosingIsLast(c)'
  <2>0. UnusedIsFresh(c) /\ FacesFollowChecks(c) /\ ClosingIsLast(c)
    BY DEF CaptureInv
  <2> USE DEF TypeOK
  <2>1. CASE \E signedIn \in BOOLEAN : nextButtonClick(signedIn)
    <3>1. CASE relaunch
      BY <3>1, Relaunched, NothingWaits
         DEF UnusedIsFresh, FacesFollowChecks, ClosingIsLast
    <3>2. QED
      BY <2>0, <2>1, <3>1, NextClicked, QueueStays, Untouched DEF device
  <2>2. CASE onAppWillResignAction
    BY <2>0, <2>2, QueueStays, Untouched DEF onAppWillResignAction, device
  <2>3. CASE onAppBecomeActive
    BY <2>0, <2>3, QueueStays, Untouched DEF onAppBecomeActive, device
  <2>4. CASE mainBlock
    <3>1. /\ \A k \in {"show", "close"} : Waiting(k, c)' => Waiting(k, c)
          /\ Ordered(c) => Ordered(c)'
      BY <2>4, Ran DEF mainBlock
    <3>2. UNCHANGED <<faces, stage>>
      BY <2>4 DEF mainBlock
    <3> DEFINE d == Head(mainQueue).capture
    <3>3. d \in Capture
      BY <2>4, QueueType DEF mainBlock, Block
    <3>4. CASE showBlock(d)
      BY <2>0, <3>1, <3>2, <3>4, Untouched DEF showBlock, device
    <3>5. CASE closeBlock(d)
      <4>1. life'[c] = life[c] \/ life'[c] \in {"closing", "gone"}
        BY <3>3, <3>5 DEF closeBlock, closeAction, dismiss
      <4>2. UNCHANGED <<delegate, camera>>
        BY <3>5 DEF closeBlock, closeAction, device
      <4>3. QED
        BY <2>0, <3>1, <3>2, <4>1, <4>2, Untouched
    <3>6. CASE dismissBlock(d)
      <4>1. life'[c] = life[c] \/ life'[c] \in {"closing", "gone"}
        BY <3>3, <3>6 DEF dismissBlock, dismiss
      <4>2. UNCHANGED <<delegate, camera>>
        BY <3>6 DEF dismissBlock, device
      <4>3. QED
        BY <2>0, <3>1, <3>2, <4>1, <4>2, Untouched
    <3>7. QED
      BY <2>4, <3>4, <3>5, <3>6 DEF mainBlock
  <2>5. ASSUME NEW d \in Capture, NEW c0 \in {"on", "blind"}, faceButClick(d, c0)
        PROVE  Goal
    <3>1. /\ \A k \in {"show", "close"} : Waiting(k, c)' <=> Waiting(k, c)
          /\ Ordered(c) => Ordered(c)'
      <4>1. CASE UNCHANGED mainQueue
        BY <4>1, QueueStays
      <4>2. CASE dispatch("dismiss", d)
        BY <4>2, Dispatched
      <4>3. QED
        BY <2>5, <4>1, <4>2, Presented
    <3>2. CASE c = d
      <4>1. /\ faces[c] = 0 /\ stage[c] = "idle" /\ life'[c] = "open"
            /\ UNCHANGED <<faces, stage>>
            /\ ~Waiting("close", c)
        BY <2>0, <2>5, <3>2, Presented DEF UnusedIsFresh
      <4>2. QED
        BY <2>0, <3>1, <4>1 DEF UnusedIsFresh, FacesFollowChecks, ClosingIsLast
    <3>3. CASE c # d
      BY <2>0, <2>5, <3>1, <3>3, Untouched, Presented
    <3>4. QED
      BY <3>2, <3>3
  <2>6. ASSUME NEW d \in Capture, closeButton(d) PROVE Goal
    BY <2>0, <2>6, QueueStays, Untouched DEF closeButton, closeAction, dismiss
  <2>7. ASSUME NEW d \in Capture, viewDidDisappear(d) PROVE Goal
    <3>1. /\ (life'[c] = life[c] /\ camera'[c] = camera[c]) \/ life'[c] = "gone"
          /\ delegate'[c] => delegate[c]
          /\ UNCHANGED <<faces, stage, mainQueue>>
      BY <2>7 DEF viewDidDisappear, stopSession
    <3>2. QED
      BY <2>0, <3>1, QueueStays, Untouched
  <2>8. ASSUME NEW d \in Capture, Interrupt(d) PROVE Goal
    <3>1. /\ camera'[c] = camera[c] \/ camera[c] \in {"on", "interrupted"}
          /\ UNCHANGED <<life, delegate, faces, stage, mainQueue>>
      BY <2>8 DEF Interrupt
    <3>2. camera'[c] = camera[c] \/ life'[c] # "unused"
      BY <2>0, <3>1 DEF UnusedIsFresh
    <3>3. QED
      BY <2>0, <3>1, <3>2, QueueStays, Untouched
  <2>9. ASSUME NEW d \in Capture, VideoBufferQueue(d) PROVE Goal
    <3> USE DEF reach, device
    <3>1. ASSUME d # c, UNCHANGED mainQueue PROVE Goal
      BY <2>0, <2>9, <3>1, QueueStays, Untouched
         DEF VideoBufferQueue, AfterResult, didOutputSampleBuffer, captureOutputSampleBuffer,
             faceProcesss, LivenessOK, setHasFinished, stopSession, LivenessTimeout,
             LivenessHint, notificationClick, DispatchShow, DispatchClose
    <3>2. CASE didOutputSampleBuffer(d)
      <4> USE <3>2 DEF didOutputSampleBuffer
      <4>1. CASE c = d
        BY <2>0, <4>1, QueueStays
           DEF UnusedIsFresh, FacesFollowChecks, ClosingIsLast, Quiet
      <4>2. QED
        BY <3>1, <4>1
    <3>3. CASE captureOutputSampleBuffer(d)
      <4> USE <3>3 DEF captureOutputSampleBuffer
      <4>1. CASE c = d
        BY <2>0, <4>1, QueueStays
           DEF UnusedIsFresh, FacesFollowChecks, ClosingIsLast, Quiet
      <4>2. QED
        BY <3>1, <4>1
    <3>4. CASE faceProcesss(d) \/ LivenessHint(d)
      <4> USE <3>4 DEF faceProcesss, LivenessHint
      <4>1. CASE c = d
        BY <2>0, <4>1, QueueStays
           DEF UnusedIsFresh, FacesFollowChecks, ClosingIsLast, Quiet
      <4>2. QED
        BY <3>1, <4>1
    <3>5. ASSUME NEW bestImage \in BOOLEAN, LivenessOK(d, bestImage) PROVE Goal
      <4> USE <3>5 DEF LivenessOK, setHasFinished, stopSession
      <4>1. CASE c = d
        BY <2>0, <4>1, QueueStays
           DEF UnusedIsFresh, FacesFollowChecks, ClosingIsLast, Quiet
      <4>2. QED
        BY <3>1, <4>1
    <3>6. ASSUME NEW img \in Image, notificationClick(d, img) PROVE Goal
      <4> USE <3>6 DEF notificationClick
      <4>1. CASE c = d
        BY <2>0, <4>1, QueueStays
           DEF UnusedIsFresh, FacesFollowChecks, ClosingIsLast, Quiet
      <4>2. QED
        BY <3>1, <4>1
    <3>7. CASE LivenessTimeout(d)
      <4>1. /\ \A k \in {"show", "close"} : Waiting(k, c)' <=> Waiting(k, c)
            /\ Ordered(c) => Ordered(c)'
        BY <3>7, Dispatched DEF LivenessTimeout
      <4>2. QED
        BY <2>0, <3>7, <4>1
           DEF LivenessTimeout, UnusedIsFresh, FacesFollowChecks, ClosingIsLast, Quiet
    <3>8. CASE DispatchShow(d)
      <4>1. c = d => stage[c] = "posted" /\ life[c] # "unused" /\ ~Waiting("close", c)
        BY <2>0, <3>8 DEF DispatchShow, UnusedIsFresh, ClosingIsLast, Quiet
      <4>2. /\ Waiting("close", c)' <=> Waiting("close", c)
            /\ c # d => (Waiting("show", c)' <=> Waiting("show", c))
            /\ Ordered(c) => Ordered(c)'
        BY <3>8, <4>1, Dispatched DEF DispatchShow
      <4>3. QED
        BY <2>0, <3>8, <4>1, <4>2
           DEF DispatchShow, UnusedIsFresh, FacesFollowChecks, ClosingIsLast, Quiet
    <3>9. CASE DispatchClose(d)
      <4>1. c = d => stage'[c] = "idle" /\ ~delegate[c] /\ life[c] # "unused"
        BY <2>0, <3>9 DEF DispatchClose, UnusedIsFresh, FacesFollowChecks
      <4>2. /\ Waiting("show", c)' <=> Waiting("show", c)
            /\ c # d => (Waiting("close", c)' <=> Waiting("close", c))
            /\ Ordered(c) => Ordered(c)'
        BY <3>9, Dispatched DEF DispatchClose
      <4>3. QED
        BY <2>0, <3>9, <4>1, <4>2
           DEF DispatchClose, UnusedIsFresh, FacesFollowChecks, ClosingIsLast, Quiet
    <3>10. QED
      BY <2>9, <3>2, <3>3, <3>4, <3>5, <3>6, <3>7, <3>8, <3>9 DEF VideoBufferQueue, AfterResult
  <2>10. CASE UNCHANGED vars
    BY <2>0, <2>10, QueueStays, Untouched DEF vars, device
  <2>11. QED
    BY <2>1, <2>2, <2>3, <2>4, <2>5, <2>6, <2>7, <2>8, <2>9, <2>10 DEF Next, MainQueue
<1>3. QED
  BY <1>1, <1>2, TypeCorrect, PTL DEF Spec

(* A capture announces one face at most.                                   *)
THEOREM OneFaceHolds == Spec => []OneFacePerCapture
<1>1. CaptureInv => OneFacePerCapture
  <2> SUFFICES ASSUME CaptureInv, NEW c \in Capture PROVE faces[c] <= 1
    BY DEF OneFacePerCapture
  <2>1. faces[c] = 0 \/ faces[c] = 1
    BY DEF CaptureInv, FacesFollowChecks
  <2>2. QED
    BY <2>1
<1>2. QED
  BY <1>1, CaptureHolds, PTL

-----------------------------------------------------------------------------
(* A face once kept stays kept, by this or by a later capture, and a bad   *)
(* image stays known until the next launch.                                *)
THEOREM ShownHolds == Spec => []ShownIsKept
<1>1. Init => ShownIsKept
  <2> SUFFICES ASSUME Init PROVE ~nextBut /\ \A c \in Capture : ~UnderWay(c)
    BY DEF ShownIsKept
  <2>1. DOMAIN mainQueue = {}
    BY DEF Init
  <2>2. QED
    BY <2>1 DEF Init, UnderWay, Waiting
<1>2. TypeOK /\ ShownIsKept /\ [Next]_vars => ShownIsKept'
  <2> SUFFICES ASSUME TypeOK, ShownIsKept, [Next]_vars PROVE ShownIsKept'
    OBVIOUS
  <2> DEFINE Some == nextBut \/ \E c \in Capture : UnderWay(c)
  <2>0. ASSUME UNCHANGED <<base64ImageStr, image>>, Some' => Some PROVE ShownIsKept'
    BY <2>0 DEF ShownIsKept, BadImage
  <2>1. CASE UNCHANGED <<base64ImageStr, image, nextBut, stage, mainQueue>>
    <3>1. Some' => Some
      BY <2>1, QueueStays DEF UnderWay
    <3>2. QED
      BY <2>0, <2>1, <3>1
  <2>2. CASE mainBlock
    <3>1. \A c \in Capture : UnderWay(c)' => UnderWay(c)
      BY <2>2, Ran DEF mainBlock, UnderWay, TypeOK
    <3> DEFINE d == Head(mainQueue).capture
    <3>2. CASE Head(mainQueue).kind = "show" /\ showBlock(d)
      <4>1. d \in Capture /\ Head(mainQueue) = [kind |-> "show", capture |-> d]
        BY <2>2, <3>2, QueueType DEF mainBlock, Block, TypeOK
      <4>2. Waiting("show", d)
        BY <2>2, <4>1, Ran DEF mainBlock, TypeOK
      <4>3. Some
        BY <4>1, <4>2 DEF UnderWay
      <4>4. QED
        BY <2>0, <2>2, <3>2, <4>3 DEF showBlock, mainBlock
    <3>3. CASE closeBlock(d) \/ dismissBlock(d)
      BY <2>0, <2>2, <3>1, <3>3 DEF closeBlock, dismissBlock, mainBlock, page
    <3>4. QED
      BY <2>2, <3>2, <3>3 DEF mainBlock
  <2>3. ASSUME NEW d \in Capture, NEW c0 \in {"on", "blind"}, faceButClick(d, c0)
        PROVE  ShownIsKept'
    <3>1. \A c \in Capture : Waiting("show", c)' <=> Waiting("show", c)
      BY <2>3, QueueStays, Dispatched, Presented DEF TypeOK
    <3>2. QED
      BY <2>0, <2>3, <3>1, Presented DEF page, UnderWay
  <2>4. ASSUME NEW d \in Capture, VideoBufferQueue(d) PROVE ShownIsKept'
    <3>1. ASSUME NEW img \in Image, notificationClick(d, img) PROVE ShownIsKept'
      <4>1. image'[d] = img /\ base64ImageStr' = IF img = "good" THEN d ELSE None
        BY <3>1 DEF notificationClick, StringOf, TypeOK
      <4>2. d # None
        BY CaptureAssumption
      <4>3. QED
        BY <4>1, <4>2 DEF ShownIsKept, BadImage, Image
    <3>2. CASE DispatchShow(d)
      <4>1. UnderWay(d) /\ Some
        BY <3>2 DEF DispatchShow, reach, UnderWay
      <4>2. QED
        BY <2>0, <3>2, <4>1 DEF DispatchShow, page
    <3>3. CASE DispatchClose(d) \/ LivenessTimeout(d)
      <4>1. \A c \in Capture : Waiting("show", c)' <=> Waiting("show", c)
        BY <3>3, Dispatched DEF DispatchClose, LivenessTimeout, TypeOK
      <4>2. \A c \in Capture : UnderWay(c)' => UnderWay(c)
        BY <3>3, <4>1 DEF DispatchClose, LivenessTimeout, reach, UnderWay, TypeOK
      <4>3. QED
        BY <2>0, <3>3, <4>2 DEF DispatchClose, LivenessTimeout, page
    <3>4. ASSUME UNCHANGED <<base64ImageStr, image, nextBut, mainQueue>>,
                 NEW to \in Stage \ {"posted"},
                 stage' = [stage EXCEPT ![d] = to]
          PROVE  ShownIsKept'
      <4>1. \A c \in Capture : UnderWay(c)' => UnderWay(c)
        BY <3>4, QueueStays DEF UnderWay, TypeOK
      <4>2. QED
        BY <2>0, <3>4, <4>1
    <3>5. CASE \/ didOutputSampleBuffer(d) \/ captureOutputSampleBuffer(d)
               \/ faceProcesss(d) \/ LivenessHint(d)
               \/ \E bestImage \in BOOLEAN : LivenessOK(d, bestImage)
      BY <3>4, <3>5 DEF didOutputSampleBuffer, captureOutputSampleBuffer, faceProcesss,
         LivenessHint, LivenessOK, reach, page, Stage
    <3>6. QED
      BY <2>4, <3>1, <3>2, <3>3, <3>5 DEF VideoBufferQueue, AfterResult
  <2>5. CASE \E signedIn \in BOOLEAN : nextButtonClick(signedIn)
    <3>1. CASE relaunch
      BY <3>1, Relaunched DEF ShownIsKept, UnderWay
    <3>2. QED
      BY <2>1, <2>5, <3>1, NextClicked
  <2>6. QED
    BY <2>1, <2>2, <2>3, <2>4, <2>5
       DEF Next, MainQueue, onAppWillResignAction, onAppBecomeActive,
           closeButton, viewDidDisappear, Interrupt, vars, page
<1>3. QED
  BY <1>1, <1>2, TypeCorrect, PTL DEF Spec

(* For a user who is signed in, a submission carries nil after a bad image *)
(* only.                                                                   *)
THEOREM RaisesHolds == Spec => []RaisesOnlyForBadImage
<1>1. ShownIsKept => RaisesOnlyForBadImage
  BY DEF ShownIsKept, RaisesOnlyForBadImage, NextRaises, BadImage
<1>2. QED
  BY <1>1, ShownHolds, PTL

-----------------------------------------------------------------------------
(* A capture with a frame or a face under way is on the screen and open,   *)
(* and there is one at most.                                               *)
LEMMA BusyIsOpen ==
    ASSUME TypeOK, CaptureInv, PageInv, ~cut, NEW c \in Capture, ~Quiet(c) \/ UnderWay(c)
    PROVE  life[c] = "open" /\ \A d \in Capture : life[d] = "open" => d = c
<1>1. life[c] # "unused"
  BY DEF CaptureInv, UnusedIsFresh, Quiet, UnderWay
<1>2. life[c] \notin {"closing", "gone"}
  BY DEF PageInv, LeavesQuietly, Quiet, UnderWay
<1>3. QED
  BY <1>1, <1>2 DEF TypeOK, OnScreen

(* A step that leaves alone all that the page's invariant reads.           *)
LEMMA PageStays ==
    ASSUME PageInv, UNCHANGED <<life, runningStatus, delegate, stage, mainQueue, cut>>,
           UNCHANGED <<base64ImageStr, faceBut, image>>
    PROVE  PageInv'
<1>1. \A c \in Capture : /\ Waiting("show", c)' <=> Waiting("show", c)
                         /\ UnderWay(c)' <=> UnderWay(c)
                         /\ LeavesQuietly(c)' <=> LeavesQuietly(c)
                         /\ StringOf(c)' = StringOf(c)
  BY QueueStays DEF UnderWay, LeavesQuietly, Quiet, StringOf
<1>2. QED
  BY <1>1 DEF PageInv

(* A step of a capture's queue that brings its frame no nearer to the page *)
(* than it was.                                                            *)
LEMMA FrameEnds ==
    ASSUME TypeOK, CaptureInv, PageInv, NEW d \in Capture,
           UNCHANGED <<life, runningStatus, cut, base64ImageStr, faceBut, image>>,
           \A c \in Capture : Waiting("show", c)' <=> Waiting("show", c),
           \A c \in Capture : delegate'[c] => delegate[c],
           stage[d] # "posted", stage'[d] # "posted",
           \A c \in Capture \ {d} : stage'[c] = stage[c],
           life[d] \in {"closing", "gone"} /\ ~cut => Quiet(d)'
    PROVE  PageInv'
<1>1. \A c \in Capture : UnderWay(c)' <=> UnderWay(c)
  BY DEF UnderWay
<1>2. ASSUME ~cut, NEW c \in Capture PROVE LeavesQuietly(c)'
  BY <1>2 DEF PageInv, LeavesQuietly, Quiet
<1>3. QED
  BY <1>1, <1>2 DEF PageInv, StringOf

(* While no capture is cut short, the page shows the face it keeps.        *)
LEMMA PageStep ==
    ASSUME TypeOK, CaptureInv, PageInv, [Next]_vars
    PROVE  PageInv'
<1>1. CASE UNCHANGED <<life, runningStatus, delegate, stage, mainQueue, cut,
                       base64ImageStr, faceBut, image>>
  BY <1>1, PageStays
<1>2. CASE mainBlock
  <2>1. PICK d \in Capture : /\ d = Head(mainQueue).capture
                             /\ Head(mainQueue) = [kind |-> Head(mainQueue).kind, capture |-> d]
    BY <1>2, QueueType DEF mainBlock, Block, TypeOK
  <2>0. stage' = stage /\ image' = image
    BY <1>2 DEF mainBlock
  <2>2. \A c \in Capture : (Waiting("show", c)' => Waiting("show", c))
                         /\ (UnderWay(c)' => UnderWay(c))
    BY <1>2, <2>0, <2>1, Ran DEF mainBlock, TypeOK, UnderWay
  <2>3. CASE Head(mainQueue).kind = "show" /\ showBlock(d)
    <3>1. UnderWay(d)
      BY <1>2, <2>0, <2>1, <2>3, Ran DEF mainBlock, TypeOK, UnderWay
    <3>2. ~cut => base64ImageStr \in {None, PictureOf(d)}
      BY <3>1 DEF PageInv, StringOf, PictureOf
    <3>3. QED
      BY <2>0, <2>1, <2>2, <2>3, <3>1, <3>2
         DEF showBlock, device, PageInv, LeavesQuietly, Quiet, StringOf
  <2>4. ASSUME Head(mainQueue).kind # "show", NEW c \in Capture
        PROVE  (Waiting("show", c)' <=> Waiting("show", c)) /\ (UnderWay(c)' <=> UnderWay(c))
    <3>1. Head(mainQueue) # [kind |-> "show", capture |-> c]
      BY <2>4
    <3>2. QED
      BY <1>2, <2>0, <2>1, <3>1, Ran DEF mainBlock, TypeOK, UnderWay
  <2>5. CASE Head(mainQueue).kind = "close" /\ closeBlock(d)
    <3>1. CASE ~OnScreen(d)
      BY <2>0, <2>1, <2>4, <2>5, <3>1
         DEF closeBlock, device, page, PageInv, LeavesQuietly, Quiet, StringOf
    <3>2. CASE OnScreen(d)
      <4>1. /\ life' = [life EXCEPT ![d] = IF @ = "open" THEN "closing" ELSE @]
            /\ runningStatus' = [runningStatus EXCEPT ![d] = FALSE]
            /\ UNCHANGED <<delegate, camera, page, cut>>
        BY <2>5, <3>2 DEF closeBlock, closeAction, dismiss
      <4>2. Quiet(d) /\ ~Waiting("show", d)'
        <5>1. ClosingIsLast(d) /\ Head(mainQueue) = [kind |-> "close", capture |-> d]
          BY <2>0, <2>1, <2>5 DEF CaptureInv
        <5>2. Waiting("close", d) /\ ~Waiting("show", d)'
          BY <1>2, <2>0, <2>1, <5>1, Ran DEF mainBlock, TypeOK, ClosingIsLast
        <5>3. QED
          BY <5>1, <5>2 DEF ClosingIsLast
      <4>3. \A c \in Capture : (Waiting("show", c)' <=> Waiting("show", c))
                             /\ (UnderWay(c)' <=> UnderWay(c))
        BY <2>4, <2>5
      <4>4. ~UnderWay(d)
        BY <2>0, <2>1, <4>2, <4>3 DEF UnderWay, Quiet
      <4>5. ASSUME ~cut, NEW c \in Capture PROVE LeavesQuietly(c)'
        <5>1. CASE c = d
          <6>1. Quiet(c)' /\ ~runningStatus'[c]
            BY <2>0, <2>1, <4>1, <4>2, <5>1 DEF Quiet, TypeOK
          <6>2. QED
            BY <4>2, <5>1, <6>1 DEF LeavesQuietly
        <5>2. CASE c # d
          <6>1. LeavesQuietly(c) /\ (Quiet(c)' <=> Quiet(c))
            BY <2>0, <2>1, <4>1, <4>5 DEF PageInv, Quiet
          <6>2. /\ life'[c] = life[c] /\ runningStatus'[c] = runningStatus[c]
            BY <4>1, <5>2 DEF TypeOK
          <6>3. QED
            BY <4>3, <6>1, <6>2 DEF LeavesQuietly
        <5>3. QED
          BY <5>1, <5>2
      <4>6. \A c \in Capture \ {d} : life'[c] = life[c]
        BY <4>1 DEF TypeOK
      <4>7. QED
        BY <2>0, <2>1, <4>1, <4>3, <4>4, <4>5, <4>6 DEF PageInv, page, StringOf
    <3>3. QED
      BY <3>1, <3>2
  <2>6. CASE Head(mainQueue).kind = "dismiss" /\ dismissBlock(d)
    <3>1. ~cut' => life' = life /\ ~cut
      BY <2>0, <2>1, <2>6 DEF dismissBlock, dismiss, TypeOK
    <3>2. QED
      BY <2>0, <2>1, <2>4, <2>6, <3>1
         DEF dismissBlock, device, page, PageInv, LeavesQuietly, Quiet, StringOf
  <2>7. QED
    BY <1>2, <2>1, <2>3, <2>5, <2>6 DEF mainBlock
<1>3. ASSUME NEW d \in Capture, NEW c0 \in {"on", "blind"}, faceButClick(d, c0) PROVE PageInv'
  <2>1. \A c \in Capture : (Waiting("show", c)' <=> Waiting("show", c))
                         /\ (UnderWay(c)' <=> UnderWay(c))
    BY <1>3, QueueStays, Dispatched, Presented DEF TypeOK, UnderWay
  <2>2. \A c \in Capture : life[c] # "open"
    BY <1>3, Presented DEF PageOnTop, OnScreen
  <2>3. ASSUME ~cut, NEW c \in Capture PROVE LeavesQuietly(c)'
    <3>1. CASE c = d
      <4>1. life'[c] = "open"
        BY <1>3, <3>1, Presented DEF TypeOK
      <4>2. QED
        BY <4>1 DEF LeavesQuietly
    <3>2. CASE c # d
      <4>1. /\ life'[c] = life[c] /\ runningStatus'[c] = runningStatus[c]
            /\ delegate'[c] = delegate[c] /\ stage'[c] = stage[c]
        BY <1>3, <3>2, Presented DEF TypeOK
      <4>2. QED
        BY <2>1, <2>3, <4>1 DEF PageInv, LeavesQuietly, Quiet
    <3>3. QED
      BY <3>1, <3>2
  <2>4. QED
    BY <1>3, <2>1, <2>2, <2>3, Presented DEF page, PageInv, StringOf
<1>4. ASSUME NEW d \in Capture, closeButton(d) PROVE PageInv'
  <2>1. \A c \in Capture : (Waiting("show", c)' <=> Waiting("show", c))
                         /\ (UnderWay(c)' <=> UnderWay(c))
    BY <1>4, QueueStays DEF closeButton, UnderWay
  <2>2. ~cut' => ~cut /\ stage[d] = "idle" /\ ~Waiting("show", d)
    BY <1>4 DEF closeButton
  <2>3. ASSUME ~cut', NEW c \in Capture PROVE LeavesQuietly(c)'
    BY <1>4, <2>1, <2>2, <2>3
       DEF closeButton, closeAction, dismiss, PageInv, LeavesQuietly, Quiet, TypeOK
  <2>4. ~cut' => ~UnderWay(d)
    BY <2>2 DEF UnderWay
  <2>5. QED
    BY <1>4, <2>1, <2>2, <2>3, <2>4
       DEF closeButton, closeAction, dismiss, page, PageInv, TypeOK, StringOf
<1>5. ASSUME NEW d \in Capture, viewDidDisappear(d) PROVE PageInv'
  <2>1. \A c \in Capture : (Waiting("show", c)' <=> Waiting("show", c))
                         /\ (UnderWay(c)' <=> UnderWay(c))
    BY <1>5, QueueStays DEF viewDidDisappear, UnderWay
  <2>2. ASSUME ~cut, NEW c \in Capture PROVE LeavesQuietly(c)'
    BY <1>5, <2>1, <2>2 DEF viewDidDisappear, PageInv, LeavesQuietly, Quiet, TypeOK
  <2>3. QED
    BY <1>5, <2>1, <2>2 DEF viewDidDisappear, page, PageInv, TypeOK, StringOf
<1>6. ASSUME NEW d \in Capture, VideoBufferQueue(d) PROVE PageInv'
  <2> USE DEF reach, device, page
  <2>1. ~Quiet(d) /\ ~cut => life[d] = "open"
    BY BusyIsOpen
  <2>2. CASE didOutputSampleBuffer(d)
    <3>1. life[d] \in {"closing", "gone"} /\ ~cut => ~runningStatus[d]
      BY DEF PageInv, LeavesQuietly
    <3>2. QED
      BY <2>2, <3>1, QueueStays, FrameEnds DEF didOutputSampleBuffer, TypeOK
  <2>3. CASE captureOutputSampleBuffer(d)
    <3>1. life[d] \in {"closing", "gone"} /\ ~cut => Quiet(d)'
      BY <2>1, <2>3 DEF captureOutputSampleBuffer, Quiet, TypeOK
    <3>2. QED
      BY <2>3, <3>1, QueueStays, FrameEnds DEF captureOutputSampleBuffer, TypeOK
  <2>4. CASE faceProcesss(d) \/ LivenessHint(d)
    BY <2>1, <2>4, QueueStays, FrameEnds DEF faceProcesss, LivenessHint, TypeOK, Quiet
  <2>5. ASSUME NEW bestImage \in BOOLEAN, LivenessOK(d, bestImage) PROVE PageInv'
    BY <2>1, <2>5, QueueStays, FrameEnds DEF LivenessOK, setHasFinished, TypeOK, Quiet
  <2>6. CASE LivenessTimeout(d) \/ DispatchClose(d)
    <3>1. \A c \in Capture : Waiting("show", c)' <=> Waiting("show", c)
      BY <2>6, Dispatched DEF LivenessTimeout, DispatchClose, TypeOK
    <3>2. QED
      BY <2>1, <2>6, <3>1, FrameEnds DEF LivenessTimeout, DispatchClose, TypeOK, Quiet
  <2>7. ASSUME NEW img \in Image, notificationClick(d, img) PROVE PageInv'
    <3> USE <2>7 DEF notificationClick
    <3>1. \A c \in Capture : (Waiting("show", c)' <=> Waiting("show", c))
                           /\ (UnderWay(c)' <=> UnderWay(c) \/ c = d)
      BY QueueStays DEF UnderWay, TypeOK
    <3>2. ~Quiet(d)
      BY DEF Quiet
    <3>3. ~cut => life[d] = "open" /\ \A c \in Capture : UnderWay(c) => c = d
      BY <2>1, <3>2, BusyIsOpen
    <3>4. ASSUME ~cut, NEW c \in Capture PROVE LeavesQuietly(c)'
      BY <3>1, <3>3, <3>4 DEF PageInv, LeavesQuietly, Quiet, TypeOK
    <3>5. base64ImageStr' \in {None, d} /\ UnderWay(d)'
      BY DEF StringOf, UnderWay, TypeOK
    <3>6. QED
      BY <3>1, <3>3, <3>4, <3>5 DEF PageInv
  <2>8. CASE DispatchShow(d)
    <3>1. \A c \in Capture : /\ c # d => (Waiting("show", c)' <=> Waiting("show", c))
                             /\ UnderWay(c)' <=> UnderWay(c)
      BY <2>8, Dispatched DEF DispatchShow, UnderWay, TypeOK
    <3>2. ~Quiet(d)
      BY <2>8 DEF DispatchShow, Quiet
    <3>3. ~cut => life[d] = "open"
      BY <2>1, <3>2
    <3>4. /\ life' = life /\ runningStatus' = runningStatus /\ delegate' = delegate
          /\ base64ImageStr' = base64ImageStr /\ faceBut' = faceBut /\ cut' = cut
          /\ image' = image
      BY <2>8 DEF DispatchShow
    <3>5. \A c \in Capture \ {d} : stage'[c] = stage[c]
      BY <2>8 DEF DispatchShow, TypeOK
    <3>6. ASSUME ~cut, NEW c \in Capture PROVE LeavesQuietly(c)'
      <4>1. CASE c = d
        BY <3>3, <3>4, <3>6, <4>1 DEF LeavesQuietly
      <4>2. CASE c # d
        BY <3>1, <3>4, <3>5, <3>6, <4>2 DEF PageInv, LeavesQuietly, Quiet
      <4>3. QED
        BY <4>1, <4>2
    <3>7. QED
      BY <3>1, <3>4, <3>6 DEF PageInv, StringOf
  <2>9. QED
    BY <1>6, <2>2, <2>3, <2>4, <2>5, <2>6, <2>7, <2>8 DEF VideoBufferQueue, AfterResult
<1>7. CASE \E signedIn \in BOOLEAN : nextButtonClick(signedIn)
  <2>1. CASE relaunch
    <3>1. base64ImageStr' = None
      BY <2>1 DEF relaunch
    <3>2. QED
      BY <2>1, <3>1, Relaunched DEF PageInv, LeavesQuietly, UnderWay
  <2>2. QED
    BY <1>1, <1>7, <2>1, NextClicked DEF device
<1>8. QED
  BY <1>1, <1>2, <1>3, <1>4, <1>5, <1>6, <1>7
     DEF Next, MainQueue, onAppWillResignAction, onAppBecomeActive, Interrupt,
         vars, device, page

(* What is sent is what is shown, unless a capture was cut short.          *)
THEOREM SentHolds == Spec => SentFaceIsShown
<1>1. Init => PageInv
  <2> SUFFICES ASSUME Init PROVE PageInv
    OBVIOUS
  <2>1. DOMAIN mainQueue = {}
    BY DEF Init
  <2>2. \A c \in Capture : ~UnderWay(c) /\ LeavesQuietly(c)
    BY <2>1 DEF Init, UnderWay, Waiting, LeavesQuietly
  <2>3. QED
    BY <2>2 DEF Init, PageInv
<1>2. PageInv /\ [Next]_vars => [sent' \notin {sent, None} => sent' = faceBut \/ cut]_vars
  <2> SUFFICES ASSUME PageInv, [Next]_vars, sent' \notin {sent, None}, ~cut
               PROVE  sent' = faceBut
    OBVIOUS
  <2>1. \E signedIn \in BOOLEAN : nextButtonClick(signedIn)
    BY DEF Next, MainQueue, VideoBufferQueue, AfterResult, vars, device, page,
       onAppWillResignAction, onAppBecomeActive, mainBlock, showBlock, closeBlock, dismissBlock,
       faceButClick, closeButton, viewDidDisappear, Interrupt, didOutputSampleBuffer,
       captureOutputSampleBuffer, faceProcesss, LivenessOK, LivenessTimeout, LivenessHint,
       notificationClick, DispatchShow, DispatchClose
  <2>2. \A c \in Capture : life[c] # "open"
    BY <2>1 DEF nextButtonClick, PageOnTop, OnScreen
  <2>3. base64ImageStr # None /\ sent' = base64ImageStr
    BY <2>1, NextClicked DEF relaunch
  <2>4. QED
    BY <2>2, <2>3 DEF PageInv
<1>3. QED
  BY <1>1, <1>2, PageStep, TypeCorrect, CaptureHolds, PTL DEF Spec, SentFaceIsShown
=============================================================================
