--------------------------- MODULE NavStackProofs ---------------------------
(* The navigation of a tab, for every graph of screens, every number of    *)
(* requests and every depth: its types, the agreement of both arrays of    *)
(* screenshots with the stack, the guard against pushing twice, and which  *)
(* view may be left out of place.                                          *)
EXTENDS NavStack, SequenceTheorems, TLAPS

(* Taking the last element off a sequence, and putting one on.             *)
LEMMA BelowFacts ==
    ASSUME NEW S, NEW s \in Seq(S)
    PROVE  /\ Below(s) \in Seq(S)
           /\ Len(s) > 0 => Len(Below(s)) = Len(s) - 1
           /\ \A i \in 1..(Len(s) - 1) : Below(s)[i] = s[i]
           /\ Len(s) > 0 => Append(Below(s), s[Len(s)]) = s
<1>1. CASE Len(s) = 0
  BY <1>1 DEF Below
<1>2. CASE Len(s) > 0
  <2>1. /\ Below(s) \in Seq(S) /\ Len(Below(s)) = Len(s) - 1
        /\ \A i \in 1..(Len(s) - 1) : Below(s)[i] = s[i]
    <3> DEFINE n == Len(s) - 1
    <3>1. 1 \in Int /\ n \in Nat /\ n \in Int
      BY <1>2
    <3>2. \A i \in 1..n : s[i] \in S
      BY <3>1
    <3>3. Below(s) = SubSeq(s, 1, n)
      BY DEF Below
    <3> HIDE DEF n
    <3>4. /\ SubSeq(s, 1, n) \in Seq(S)
          /\ Len(SubSeq(s, 1, n)) = IF 1 <= n THEN n - 1 + 1 ELSE 0
          /\ \A i \in 1..(n - 1 + 1) : SubSeq(s, 1, n)[i] = s[1 + i - 1]
      BY <3>1, <3>2, SubSeqProperties
    <3>5. /\ n - 1 + 1 = n /\ (IF 1 <= n THEN n ELSE 0) = n
          /\ \A i \in 1..n : 1 + i - 1 = i
      BY <3>1
    <3>6. /\ Below(s) \in Seq(S) /\ Len(Below(s)) = n
          /\ \A i \in 1..n : Below(s)[i] = s[i]
      BY <3>3, <3>4, <3>5
    <3>7. QED
      BY <3>6 DEF n
  <2>2. Append(Below(s), s[Len(s)]) = s
    BY <1>2, <2>1
  <2>3. QED
    BY <2>1, <2>2
<1>3. QED
  BY <1>1, <1>2

LEMMA BelowAppend ==
    ASSUME NEW S, NEW s \in Seq(S), NEW e \in S
    PROVE  Below(Append(s, e)) = s
BY DEF Below

(* The requests left when screens are popped are requests.                 *)
LEMMA StillHeardType ==
    ASSUME NEW r \in [Slot -> Request], NEW n
    PROVE  StillHeard(r, n) \in [Slot -> Request]
BY DEF StillHeard, NoRequest, Request

-----------------------------------------------------------------------------
(* What the three operations of the controller do to stack and images.     *)
Settled == TypeOK /\ PicturesMatchStack /\ NoScreenTwiceInARow

LEMMA PushKeeps ==
    ASSUME Settled, NEW k \in Screen, NEW r \in [Slot -> Request],
           pushViewController(k, r)
    PROVE  Settled'
<1> USE DEF Settled
<1>1. CASE class(k) = class(Top)
  <2>1. TypeOK'
    BY <1>1 DEF pushViewController, TypeOK, drag
  <2>2. (PicturesMatchStack /\ NoScreenTwiceInARow)'
    BY <1>1 DEF pushViewController, PicturesMatchStack, NoScreenTwiceInARow
  <2>3. QED
    BY <2>1, <2>2
<1>2. CASE class(k) # class(Top)
  <2>1. /\ stack' = Append(stack, k)
        /\ screenshotImgs' = Append(screenshotImgs, Top)
        /\ screenShotArray' = Append(screenShotArray, Top)
        /\ shift' = "none" /\ req' = r
        /\ UNCHANGED <<finger, settling, overlay, shown>>
    BY <1>2 DEF pushViewController
  <2>2. stack \in Seq(Screen) /\ Len(stack) > 0 /\ Top \in Screen
    BY DEF TypeOK, Top
  <2>3. TypeOK'
    BY <2>1, <2>2 DEF TypeOK
  <2>4. PicturesMatchStack'
    <3>1. Append(Below(stack), Top) = stack
      BY <2>2, BelowFacts DEF Top
    <3>2. Below(stack') = stack
      BY <2>1, <2>2, BelowAppend
    <3>3. QED
      BY <2>1, <3>1, <3>2 DEF PicturesMatchStack
  <2>5. NoScreenTwiceInARow'
    <3>1. ASSUME NEW i \in 1..Len(stack)
          PROVE  class(stack'[i]) # class(stack'[i + 1])
      <4>1. CASE i = Len(stack)
        BY <4>1, <1>2, <2>1, <2>2 DEF Top
      <4>2. CASE i < Len(stack)
        <5>1. stack'[i] = stack[i] /\ stack'[i + 1] = stack[i + 1]
          BY <4>2, <2>1, <2>2
        <5>2. QED
          BY <4>2, <5>1 DEF NoScreenTwiceInARow
      <4>3. QED
        BY <4>1, <4>2, <2>2
    <3>2. Len(stack') = Len(stack) + 1
      BY <2>1, <2>2
    <3>3. QED
      BY <3>1, <3>2, <2>2 DEF NoScreenTwiceInARow
  <2>6. QED
    BY <2>3, <2>4, <2>5
<1>3. QED
  BY <1>1, <1>2

LEMMA PopKeeps ==
    ASSUME Settled, NEW r \in [Slot -> Request], popViewController(r),
           UNCHANGED <<finger, shown>>,
           shift' \in {"none", "near", "far"}, settling' \in {"no", "back", "away"},
           overlay' \in BOOLEAN
    PROVE  Settled'
<1> USE DEF Settled
<1>1. /\ stack \in Seq(Screen) /\ Len(stack) > 0
      /\ screenshotImgs = Below(stack) /\ screenShotArray = Below(stack)
      /\ Len(stack) \in Nat
  BY DEF TypeOK, PicturesMatchStack
<1>2. req' \in [Slot -> Request]
  BY StillHeardType DEF popViewController
<1>3. CASE Len(stack) > 1
  <2>1. Below(stack) \in Seq(Screen) /\ Len(Below(stack)) = Len(stack) - 1
    BY <1>1, BelowFacts
  <2>2. /\ stack' = Below(stack)
        /\ screenshotImgs' = Below(Below(stack))
        /\ screenShotArray' = Below(Below(stack))
    BY <1>1, <1>3, <2>1 DEF popViewController
  <2>3. Below(Below(stack)) \in Seq(Screen)
    BY <2>1, BelowFacts
  <2>4. TypeOK'
    BY <1>1, <1>2, <1>3, <2>1, <2>2, <2>3 DEF TypeOK
  <2>5. PicturesMatchStack'
    BY <2>2 DEF PicturesMatchStack
  <2>6. NoScreenTwiceInARow'
    <3>1. \A i \in 1..(Len(stack) - 1) : stack'[i] = stack[i]
      BY <1>1, <2>2, BelowFacts
    <3>2. QED
      BY <1>1, <2>1, <2>2, <3>1 DEF NoScreenTwiceInARow
  <2>7. QED
    BY <2>4, <2>5, <2>6
<1>4. CASE Len(stack) = 1
  <2>1. Below(stack) = <<>> /\ Below(Below(stack)) = <<>>
    BY <1>1, <1>4 DEF Below
  <2>2. stack' = stack /\ screenshotImgs' = <<>> /\ screenShotArray' = <<>>
    BY <1>1, <1>4, <2>1 DEF popViewController
  <2>3. TypeOK'
    BY <1>2, <2>2 DEF TypeOK
  <2>4. PicturesMatchStack'
    BY <2>1, <2>2 DEF PicturesMatchStack
  <2>5. QED
    BY <2>2, <2>3, <2>4 DEF NoScreenTwiceInARow
<1>5. Len(stack) > 1 \/ Len(stack) = 1
  <2>1. Len(stack) \in Nat /\ Len(stack) > 0
    BY <1>1
  <2>2. \A l \in Nat : l > 0 => l > 1 \/ l = 1
    OBVIOUS
  <2>3. QED
    BY <2>1, <2>2
<1>6. QED
  BY <1>3, <1>4, <1>5

LEMMA PopToRootKeeps ==
    ASSUME Settled, popToRootViewController
    PROVE  Settled'
<1> USE DEF Settled
<1>1. /\ stack' = <<stack[1]>> /\ screenshotImgs' = <<>> /\ screenShotArray' = <<>>
      /\ UNCHANGED drag
  BY DEF popToRootViewController
<1>2. stack[1] \in Screen
  BY DEF TypeOK
<1>3. req' \in [Slot -> Request]
  BY StillHeardType DEF popToRootViewController, TypeOK
<1>4. TypeOK'
  BY <1>1, <1>2, <1>3 DEF TypeOK, drag
<1>5. Below(stack') = <<>>
  BY <1>1, <1>2 DEF Below
<1>6. QED
  BY <1>1, <1>2, <1>4, <1>5 DEF PicturesMatchStack, NoScreenTwiceInARow

-----------------------------------------------------------------------------
(* Types, images and classes hold together.                                *)
THEOREM SettledHolds == Spec => []Settled
<1>1. Init => Settled
  <2> SUFFICES ASSUME Init PROVE Settled
    OBVIOUS
  <2>1. PICK h \in Home : stack = <<h>>
    BY DEF Init
  <2>2. TypeOK
    <3>1. h \in Screen
      BY GraphAssumption
    <3>2. /\ <<h>> \in Seq(Screen) /\ Len(<<h>>) > 0
          /\ screenshotImgs \in Seq(Screen) /\ screenShotArray \in Seq(Screen)
      BY <3>1 DEF Init
    <3>3. req \in [Slot -> Request]
      BY DEF Init, NoRequest, Request
    <3>4. QED
      BY <2>1, <3>2, <3>3 DEF Init, TypeOK
  <2>3. Below(stack) = <<>>
    BY <2>1 DEF Below
  <2>4. QED
    BY <2>1, <2>2, <2>3 DEF Init, Settled, PicturesMatchStack, NoScreenTwiceInARow
<1>2. Settled /\ [Next]_vars => Settled'
  <2> SUFFICES ASSUME Settled, [Next]_vars PROVE Settled'
    OBVIOUS
  <2>0. /\ TypeOK /\ req \in [Slot -> Request]
        /\ shift \in {"none", "near", "far"} /\ settling \in {"no", "back", "away"}
        /\ overlay \in BOOLEAN
    BY DEF Settled, TypeOK
  <2>1. CASE tapPush
    BY <2>0, <2>1, PushKeeps DEF tapPush
  <2>2. CASE backAction
    BY <2>0, <2>2, PopKeeps DEF backAction, drag
  <2>3. CASE tapHome
    BY <2>3, PopToRootKeeps DEF tapHome
  <2>4. ASSUME NEW s \in Slot, tapSubmit(s) PROVE Settled'
    <3>1. PICK k \in Screen \cup {Back} :
             req' = [req EXCEPT ![s] = [at |-> Len(stack), to |-> k]]
      BY <2>4 DEF tapSubmit
    <3>2. req' \in [Slot -> Request]
      BY <2>0, <3>1 DEF Request, TypeOK
    <3>3. UNCHANGED <<stack, screenshotImgs, screenShotArray, drag>>
      BY <2>4 DEF tapSubmit
    <3>4. QED
      BY <3>2, <3>3 DEF drag, Settled, TypeOK, PicturesMatchStack, NoScreenTwiceInARow
  <2>5. ASSUME NEW s \in Slot, reply(s) PROVE Settled'
    <3> DEFINE rest == [req EXCEPT ![s] = NoRequest]
    <3>1. rest \in [Slot -> Request] /\ req[s].to \in Screen \cup {Back}
      BY <2>0 DEF Request, NoRequest
    <3>2. CASE req' = rest /\ UNCHANGED <<stack, screenshotImgs, screenShotArray, drag>>
      BY <3>1, <3>2 DEF drag, Settled, TypeOK, PicturesMatchStack, NoScreenTwiceInARow
    <3>3. CASE popViewController(rest) /\ UNCHANGED drag
      <4> HIDE DEF rest
      <4>1. QED
        BY <2>0, <3>1, <3>3, PopKeeps DEF drag
    <3>4. CASE req[s].to # Back /\ pushViewController(req[s].to, rest)
      <4> HIDE DEF rest
      <4>1. QED
        BY <3>1, <3>4, PushKeeps
    <3>5. QED
      BY <2>5, <3>2, <3>3, <3>4 DEF reply
  <2>6. CASE dragBegin
    <3>1. Len(screenshotImgs) > 0 => screenshotImgs[Len(screenshotImgs)] \in Screen
      BY DEF Settled, TypeOK
    <3>2. shown' \in Screen \cup {Back}
      BY <2>6, <3>1 DEF dragBegin, Settled, TypeOK
    <3>3. QED
      BY <2>6, <3>2 DEF dragBegin, Settled, TypeOK, PicturesMatchStack, NoScreenTwiceInARow
  <2>7. CASE dragging
    BY <2>7 DEF dragging, Settled, TypeOK, PicturesMatchStack, NoScreenTwiceInARow
  <2>8. CASE dragEnd
    BY <2>8 DEF dragEnd, Settled, TypeOK, PicturesMatchStack, NoScreenTwiceInARow
  <2>9. CASE settledBack
    BY <2>9 DEF settledBack, Settled, TypeOK, PicturesMatchStack, NoScreenTwiceInARow
  <2>10. CASE settledAway
    BY <2>0, <2>10, PopKeeps DEF settledAway
  <2>11. CASE UNCHANGED vars
    BY <2>11 DEF vars, drag, Settled, TypeOK, PicturesMatchStack, NoScreenTwiceInARow
  <2>12. CASE scriptMessage
    <3>1. PICK k \in Screen : pushViewController(k, req)
      BY <2>12 DEF scriptMessage
    <3>2. QED
      BY <2>0, <3>1, PushKeeps
  <2>13. QED
    BY <2>1, <2>2, <2>3, <2>4, <2>5, <2>6, <2>7, <2>8, <2>9, <2>10, <2>11,
       <2>12 DEF Next
<1>3. QED
  BY <1>1, <1>2, PTL DEF Spec

(* Every image lies in its place, in both arrays, whatever navigates when. *)
THEOREM PicturesHold == Spec => []PicturesMatchStack
<1>1. Settled => PicturesMatchStack
  BY DEF Settled
<1>2. QED
  BY <1>1, SettledHolds, PTL

(* Two taps or two replies never put a screen on one of its class.         *)
THEOREM NoTwiceHolds == Spec => []NoScreenTwiceInARow
<1>1. Settled => NoScreenTwiceInARow
  BY DEF Settled
<1>2. QED
  BY <1>1, SettledHolds, PTL

(* Stack, images, gesture and requests keep their types.                   *)
THEOREM TypeCorrect == Spec => []TypeOK
<1>1. Settled => TypeOK
  BY DEF Settled
<1>2. QED
  BY <1>1, SettledHolds, PTL

-----------------------------------------------------------------------------
(* DisplacedOnlyAtRoot is not inductive: the release of a finger must find *)
(* no animation under way, and the animation back a view already in place. *)
Placed ==
    /\ settling # "no" => ~finger
    /\ settling = "back" => shift = "none"
    /\ DisplacedOnlyAtRoot

LEMMA PushPlaces ==
    ASSUME Placed, NEW k, NEW r, pushViewController(k, r)
    PROVE  Placed'
<1>1. CASE class(k) = class(Top)
  BY <1>1 DEF pushViewController, drag, Placed, DisplacedOnlyAtRoot
<1>2. CASE class(k) # class(Top)
  BY <1>2 DEF pushViewController, Placed, DisplacedOnlyAtRoot
<1>3. QED
  BY <1>1, <1>2

LEMMA PopPlaces ==
    ASSUME Placed, NEW r, popViewController(r), UNCHANGED drag
    PROVE  Placed'
<1>1. Len(stack) = 1 => stack' = stack
  BY DEF popViewController
<1>2. QED
  BY <1>1 DEF drag, Placed, DisplacedOnlyAtRoot

(* Whoever pops the screen under a finger, only a root is left out of its  *)
(* place.                                                                  *)
THEOREM DisplacedHolds == Spec => []DisplacedOnlyAtRoot
<1>1. Init => Placed
  BY DEF Init, Placed, DisplacedOnlyAtRoot
<1>2. TypeOK /\ Placed /\ [Next]_vars => Placed'
  <2> SUFFICES ASSUME TypeOK, Placed, [Next]_vars PROVE Placed'
    OBVIOUS
  <2> USE DEF Placed, DisplacedOnlyAtRoot
  <2>1. CASE tapPush
    <3>1. PICK k \in Screen : pushViewController(k, req)
      BY <2>1 DEF tapPush
    <3>2. QED
      BY <3>1, PushPlaces
  <2>2. CASE backAction
    BY <2>2, PopPlaces DEF backAction
  <2>3. CASE tapHome
    <3>1. Len(stack') = 1 /\ UNCHANGED drag
      BY <2>3 DEF tapHome, popToRootViewController
    <3>2. QED
      BY <3>1 DEF drag
  <2>4. ASSUME NEW s \in Slot, tapSubmit(s) PROVE Placed'
    BY <2>4 DEF tapSubmit, drag
  <2>5. ASSUME NEW s \in Slot, reply(s) PROVE Placed'
    <3> DEFINE rest == [req EXCEPT ![s] = NoRequest]
    <3>1. CASE UNCHANGED <<stack, drag>>
      BY <3>1 DEF drag
    <3>2. CASE popViewController(rest) /\ UNCHANGED drag
      BY <3>2, PopPlaces
    <3>3. CASE pushViewController(req[s].to, rest)
      BY <3>3, PushPlaces
    <3>4. QED
      BY <2>5, <3>1, <3>2, <3>3 DEF reply
  <2>6. CASE dragBegin
    BY <2>6 DEF dragBegin
  <2>7. CASE dragging
    BY <2>7 DEF dragging
  <2>8. CASE dragEnd
    BY <2>8 DEF dragEnd
  <2>9. CASE settledBack
    BY <2>9 DEF settledBack
  <2>10. CASE settledAway
    BY <2>10 DEF settledAway
  <2>11. CASE UNCHANGED vars
    BY <2>11 DEF vars, drag
  <2>12. CASE scriptMessage
    <3>1. PICK k \in Screen : pushViewController(k, req)
      BY <2>12 DEF scriptMessage
    <3>2. QED
      BY <3>1, PushPlaces
  <2>13. QED
    BY <2>1, <2>2, <2>3, <2>4, <2>5, <2>6, <2>7, <2>8, <2>9, <2>10, <2>11,
       <2>12 DEF Next
<1>3. Placed => DisplacedOnlyAtRoot
  BY DEF Placed
<1>4. QED
  BY <1>1, <1>2, <1>3, TypeCorrect, PTL DEF Spec
=============================================================================
