------------------------------ MODULE NavStack ------------------------------
(***************************************************************************)
(* One tab's navigation: KLTNavigationController (the stack of view        *)
(* controllers, the screenshots it shows while the user drags back from    *)
(* the left edge) and AnimationContoller (the screenshots of its animated  *)
(* transitions), driven by touches, by the replies of requests that push   *)
(* or pop when they succeed, by the messages of a web page's script, and   *)
(* by the completion blocks of UIView animations.  UIKit ignores touches   *)
(* during a transition and while the dragged view settles; replies and     *)
(* messages come at any time.  An animated transition is one step here:    *)
(* what two overlapping ones do is UIKit's business.                       *)
(***************************************************************************)
EXTENDS Naturals, Sequences

CONSTANTS
    Screen,       \* the screens
    Home,         \* those a tab can have at its root
    Back,         \* not a screen: the reply pops
    class(_),     \* the class of a screen
    Pushes,       \* <<a, b>>: a touch on a pushes b
    Answers,      \* <<a, b>>: the reply to a request of a pushes b, or pops
    Messages,     \* <<a, b>>: the script of a page of a pushes b
    GoesHome,     \* screens with a button that returns to the root
    SecondFinger, \* the user may touch other views while one finger drags
    Slot,         \* bound: the requests under way at one time
    MaxDepth      \* bound: the depth of the stack

ASSUME GraphAssumption ==
    /\ Home \subseteq Screen /\ GoesHome \subseteq Screen
    /\ Back \notin Screen
    /\ Pushes \subseteq Screen \X Screen
    /\ Answers \subseteq Screen \X (Screen \cup {Back})
    /\ Messages \subseteq Screen \X Screen
    /\ SecondFinger \in BOOLEAN
    /\ MaxDepth \in Nat

VARIABLES
    stack,            \* viewControllers, the root first
    screenshotImgs,   \* KLTNavigationController: the screen each image shows
    screenShotArray,  \* AnimationContoller: the screen each image shows
    finger,           \* the edge gesture is under way
    shift,            \* translation of the view: "none", "near" (<= 40), "far"
    settling,         \* dragEnd's animation: "no", "back", "away"
    overlay,          \* image and cover are in the window
    shown,            \* the screen the overlay's image shows
    req               \* the requests whose reply navigates

drag == <<finger, shift, settling, overlay, shown>>
vars == <<stack, screenshotImgs, screenShotArray, drag, req>>

Top == stack[Len(stack)]
Below(s) == SubSeq(s, 1, Len(s) - 1)

NoRequest == [at |-> 0, to |-> Back]
Request == [at : Nat, to : Screen \cup {Back}]

TypeOK ==
    /\ stack \in Seq(Screen) /\ Len(stack) > 0
    /\ screenshotImgs \in Seq(Screen) /\ screenShotArray \in Seq(Screen)
    /\ finger \in BOOLEAN /\ overlay \in BOOLEAN
    /\ shift \in {"none", "near", "far"}
    /\ settling \in {"no", "back", "away"}
    /\ shown \in Screen \cup {Back}
    /\ req \in [Slot -> Request]

(* initWithRootViewController pushes onto an empty stack: no screenshot.   *)
Init ==
    /\ stack \in {<<h>> : h \in Home}
    /\ screenshotImgs = <<>> /\ screenShotArray = <<>>
    /\ finger = FALSE /\ overlay = FALSE
    /\ shift = "none" /\ settling = "no" /\ shown = Back
    /\ req = [s \in Slot |-> NoRequest]

-----------------------------------------------------------------------------
(* A popped screen's navigationController is nil: what its replies send to *)
(* it goes nowhere.  The requests r of a stack cut to the depth n:         *)
StillHeard(r, n) == [s \in Slot |-> IF r[s].at > n THEN NoRequest ELSE r[s]]

(* Mutated form of pushViewController: without the class comparison.       *)
pushViewControllerTwice(k, r) ==
    /\ Len(stack) < MaxDepth
    /\ stack' = Append(stack, k)
    /\ screenshotImgs' = Append(screenshotImgs, Top)
    /\ screenShotArray' = Append(screenShotArray, Top)
    /\ shift' = "none"
    /\ req' = r
    /\ UNCHANGED <<finger, settling, overlay, shown>>

(* Mutated form of pushViewController: the view stays where it is.         *)
pushViewControllerDisplaced(k, r) ==
    IF class(k) = class(Top)
    THEN /\ req' = r
         /\ UNCHANGED <<stack, screenshotImgs, screenShotArray, drag>>
    ELSE /\ Len(stack) < MaxDepth
         /\ stack' = Append(stack, k)
         /\ screenshotImgs' = Append(screenshotImgs, Top)
         /\ screenShotArray' = Append(screenShotArray, Top)
         /\ req' = r
         /\ UNCHANGED drag

(* A screen of the class already on top is not pushed.  The animation      *)
(* appends its own screenshot and brings the view back in place.           *)
pushViewController(k, r) ==
    IF class(k) = class(Top)
    THEN /\ req' = r
         /\ UNCHANGED <<stack, screenshotImgs, screenShotArray, drag>>
    ELSE /\ Len(stack) < MaxDepth
         /\ stack' = Append(stack, k)
         /\ screenshotImgs' = Append(screenshotImgs, Top)
         /\ screenShotArray' = Append(screenShotArray, Top)
         /\ shift' = "none"
         /\ req' = r
         /\ UNCHANGED <<finger, settling, overlay, shown>>

(* Both an animated pop (when its animation completes) and dragEnd (with   *)
(* removeLastScreenShot) drop an image of AnimationContoller as well.      *)
(* UIKit keeps the root, removeLastObject an empty array.                  *)
popViewController(r) ==
    LET n == Len(stack) IN
    /\ screenshotImgs' = IF Len(screenshotImgs) >= n - 1 THEN Below(screenshotImgs)
                                                        ELSE screenshotImgs
    /\ stack' = IF n > 1 THEN Below(stack) ELSE stack
    /\ screenShotArray' = Below(screenShotArray)
    /\ req' = StillHeard(r, Len(stack'))

(* Mutated form of popToRootViewController: AnimationContoller keeps its   *)
(* images.                                                                 *)
popToRootViewControllerKeeps ==
    /\ screenshotImgs' = <<>>
    /\ stack' = <<stack[1]>>
    /\ req' = StillHeard(req, 1)
    /\ UNCHANGED <<screenShotArray, drag>>

(* The callers never animate it.                                           *)
popToRootViewController ==
    /\ screenshotImgs' = <<>> /\ screenShotArray' = <<>>
    /\ stack' = <<stack[1]>>
    /\ req' = StillHeard(req, 1)
    /\ UNCHANGED drag

-----------------------------------------------------------------------------
(* Touches reach the top screen.                                           *)
Touchable == settling = "no" /\ (finger => SecondFinger)

tapPush ==
    /\ Touchable
    /\ \E k \in Screen : <<Top, k>> \in Pushes /\ pushViewController(k, req)

tapSubmit(s) ==
    /\ Touchable
    /\ req[s] = NoRequest
    /\ \E k \in Screen \cup {Back} :
          /\ <<Top, k>> \in Answers
          /\ req' = [req EXCEPT ![s] = [at |-> Len(stack), to |-> k]]
    /\ UNCHANGED <<stack, screenshotImgs, screenShotArray, drag>>

(* The back button; MyBank's choice of a card pops itself the same way.    *)
backAction ==
    /\ Touchable
    /\ Len(stack) > 1
    /\ popViewController(req)
    /\ UNCHANGED drag

tapHome ==
    /\ Touchable
    /\ Top \in GoesHome
    /\ popToRootViewController

(* A reply: an error changes nothing here; a success navigates from        *)
(* whatever is on top by now.                                              *)
reply(s) ==
    /\ req[s] # NoRequest
    /\ LET rest == [req EXCEPT ![s] = NoRequest] IN
       \/ /\ req' = rest
          /\ UNCHANGED <<stack, screenshotImgs, screenShotArray, drag>>
       \/ /\ req[s].to = Back
          /\ popViewController(rest)
          /\ UNCHANGED drag
       \/ /\ req[s].to # Back
          /\ pushViewController(req[s].to, rest)

(* A message of a web page's script, the page on top or covered: it pushes *)
(* over whatever is on top, as often as it comes.                          *)
scriptMessage ==
    \E i \in 1..Len(stack) : \E k \in Screen :
        /\ <<stack[i], k>> \in Messages
        /\ pushViewController(k, req)

-----------------------------------------------------------------------------
(* The edge gesture.  panGestureRec returns at once while the root is the  *)
(* visible screen, whatever the phase of the gesture.                      *)
dragBegin ==
    /\ ~finger /\ settling = "no"
    /\ finger' = TRUE
    /\ IF Len(stack) = 1 THEN UNCHANGED <<overlay, shown>>
       ELSE /\ overlay' = TRUE
            /\ shown' = IF screenshotImgs = <<>> THEN Back
                        ELSE screenshotImgs[Len(screenshotImgs)]
    /\ UNCHANGED <<stack, screenshotImgs, screenShotArray, shift, settling, req>>

dragging ==
    /\ finger /\ Len(stack) > 1
    /\ shift' \in {"near", "far"}
    /\ UNCHANGED <<stack, screenshotImgs, screenShotArray, finger, settling, overlay,
                   shown, req>>

dragEnd ==
    /\ finger
    /\ finger' = FALSE
    /\ IF Len(stack) = 1 THEN UNCHANGED <<shift, settling>>
       ELSE IF shift = "far" THEN settling' = "away" /\ UNCHANGED shift
                             ELSE settling' = "back" /\ shift' = "none"
    /\ UNCHANGED <<stack, screenshotImgs, screenShotArray, overlay, shown, req>>

(* The completion blocks of dragEnd's two animations, 0.3 s later.         *)
settledBack ==
    /\ settling = "back"
    /\ settling' = "no"
    /\ overlay' = FALSE
    /\ UNCHANGED <<stack, screenshotImgs, screenShotArray, finger, shift, shown, req>>

settledAway ==
    /\ settling = "away"
    /\ settling' = "no"
    /\ overlay' = FALSE
    /\ shift' = "none"
    /\ popViewController(req)
    /\ UNCHANGED <<finger, shown>>

Next ==
    \/ tapPush \/ backAction \/ tapHome
    \/ \E s \in Slot : tapSubmit(s) \/ reply(s)
    \/ scriptMessage
    \/ dragBegin \/ dragging \/ dragEnd \/ settledBack \/ settledAway

Spec == Init /\ [][Next]_vars

-----------------------------------------------------------------------------
(* Both controllers hold exactly one image per screen below the top, of    *)
(* that screen and in its place, whoever navigates when: what a drag or a  *)
(* pop uncovers is a picture of the screen that lies below.                *)
PicturesMatchStack ==
    /\ screenshotImgs = Below(stack)
    /\ screenShotArray = Below(stack)

(* However often a button was tapped, a request answered or a script       *)
(* heard, a screen never lies directly on another one of its class.        *)
NoScreenTwiceInARow ==
    \A i \in 1..(Len(stack) - 1) : class(stack[i]) # class(stack[i + 1])

(* A view left out of place with no finger on it and no animation under    *)
(* way is that of a root: its screen was popped under the finger, and      *)
(* panGestureRec returns at the root.  Any push brings it back, so that    *)
(* no other screen is ever seen out of place.                              *)
DisplacedOnlyAtRoot ==
    (shift # "none" /\ ~finger /\ settling = "no") => Len(stack) = 1

(* KLTNavigationController.m says of the pop at the end of a drag: it      *)
(* makes the screen really before it - the one the overlay shows - the     *)
(* top of the stack.                                                       *)
DragUncoversItsPicture ==
    [][(settling = "away" /\ settling' = "no") => stack'[Len(stack')] = shown]_vars
=============================================================================
