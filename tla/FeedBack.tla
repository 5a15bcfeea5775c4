------------------------------ MODULE FeedBack ------------------------------
(***************************************************************************)
(* The pictures of a complaint (FeedBackViewController): the pictures      *)
(* shown and sent, the assets the picker starts from, and what the photo   *)
(* browser is given, three arrays kept in step by hand. Deleting a picture *)
(* takes every equal one from the first, one element from the second, and  *)
(* nothing from the third.                                                 *)
(***************************************************************************)
EXTENDS Naturals, Sequences, FiniteSets

CONSTANTS
    Asset,           \* the photographs of the device
    Picture,         \* what they show; two photographs may show the same
    content,         \* the picture of an asset
    MaxImagesCount,  \* the picker's limit, 9 in the code
    MaxComplaints    \* bound: complaints under way together

\* Every asset has a picture.
ASSUME FeedAssumption ==
    /\ content \in [Asset -> Picture]
    /\ MaxImagesCount \in Nat
    /\ MaxComplaints \in Nat

VARIABLES
    imageArray,      \* the pictures shown, and sent
    pubPicAssetArr,  \* the assets chosen
    srcStringArray,  \* the pictures of the last choice, for the browser
    picking,         \* the picker is over the page
    complaints,      \* the number of complaints under way
    twins            \* history: a deletion took several pictures

feedVars == <<imageArray, pubPicAssetArr, srcStringArray, picking, complaints, twins>>

FeedTypeOK ==
    /\ imageArray \in Seq(Picture)
    /\ pubPicAssetArr \in Seq(Asset)
    /\ srcStringArray \in Seq(Picture)
    /\ picking \in BOOLEAN
    /\ complaints \in 0..MaxComplaints
    /\ twins \in BOOLEAN

FeedInit ==
    /\ imageArray = <<>>
    /\ pubPicAssetArr = <<>>
    /\ srcStringArray = <<>>
    /\ picking = FALSE
    /\ complaints = 0
    /\ twins = FALSE

\* The page is made anew.
feedDidLoad ==
    /\ imageArray' = <<>>
    /\ pubPicAssetArr' = <<>>
    /\ srcStringArray' = <<>>
    /\ picking' = FALSE
    /\ complaints' = 0
    /\ twins' = FALSE

PicturesOf(assets) == [i \in DOMAIN assets |-> content[assets[i]]]

\* A choice: different assets, no more than the limit.
Choice ==
    UNION {{a \in [1..n -> Asset] : \A i, j \in 1..n : a[i] = a[j] => i = j} :
              n \in 0..MaxImagesCount}

\* The places of s that do not hold p, and the k-th of them.
Kept(s, p) == {j \in DOMAIN s : s[j] # p}
NthOf(K, k) == CHOOSE j \in K : Cardinality({i \in K : i <= j}) = k

\* removeObject: takes every equal element.
removeObject(s, p) == [k \in 1..Cardinality(Kept(s, p)) |-> s[NthOf(Kept(s, p), k)]]

\* Mutated form of removeObjectAtIndex: nothing is taken.
removeObjectAtIndexForgets(s, i) == s

\* removeObjectAtIndex: takes one element.
removeObjectAtIndex(s, i) ==
    [j \in 1..(Len(s) - 1) |-> IF j < i THEN s[j] ELSE s[j + 1]]

-----------------------------------------------------------------------------
\* A touch of the plus cell, there unless three pictures are shown. The
\* picker starts from the assets chosen; what it leaves is any choice.
chousePiack ==
    /\ ~picking
    /\ Len(imageArray) # 3
    /\ picking' = TRUE
    /\ UNCHANGED <<imageArray, pubPicAssetArr, srcStringArray, complaints, twins>>

\* Mutated form of didFinishPicking: the assets of the last choice stay.
didFinishPickingKeepsAssets(a) ==
    /\ picking
    /\ picking' = FALSE
    /\ pubPicAssetArr' = pubPicAssetArr
    /\ srcStringArray' = PicturesOf(a)
    /\ imageArray' = PicturesOf(a)
    /\ twins' = FALSE
    /\ UNCHANGED complaints

\* The picker is dismissed with a choice; the table is reloaded on the main
\* queue before it can be touched again.
didFinishPicking(a) ==
    /\ picking
    /\ picking' = FALSE
    /\ pubPicAssetArr' = a
    /\ srcStringArray' = PicturesOf(a)
    /\ imageArray' = PicturesOf(a)
    /\ twins' = FALSE
    /\ UNCHANGED complaints

\* The picker is dismissed without a choice.
pickingCancelled ==
    /\ picking
    /\ picking' = FALSE
    /\ UNCHANGED <<imageArray, pubPicAssetArr, srcStringArray, complaints, twins>>

\* The cross on picture i. The index is the picture's; beyond the assets'
\* end it raises.
detImgButton(i) ==
    /\ ~picking
    /\ imageArray' = removeObject(imageArray, imageArray[i])
    /\ pubPicAssetArr' = removeObjectAtIndex(pubPicAssetArr, i)
    /\ twins' = (twins \/ \E j \in DOMAIN imageArray \ {i} : imageArray[j] = imageArray[i])
    /\ UNCHANGED <<srcStringArray, picking, complaints>>

deletionRaises(i) == i \notin DOMAIN pubPicAssetArr

\* A touch of a picture, when three are shown.
showBigImage(i) ==
    /\ ~picking
    /\ Len(imageArray) = 3
    /\ UNCHANGED feedVars

\* The browser asks for a picture's URL, and srcStringArray answers with a
\* picture, which does not know how to replace a string. (An entry beyond
\* the array is nil in a release build, and gives no URL.)
browserRaises(i) == i \in DOMAIN srcStringArray

\* The body is built at once, from the pictures shown; the page may be
\* touched, and the button again, while it is sent.
sureButtonClick ==
    /\ ~picking
    /\ complaints < MaxComplaints
    /\ complaints' = complaints + 1
    /\ UNCHANGED <<imageArray, pubPicAssetArr, srcStringArray, picking, twins>>

\* An answer without success is shown and leaves the page as it is.
complaintFailed ==
    /\ complaints > 0
    /\ complaints' = complaints - 1
    /\ UNCHANGED <<imageArray, pubPicAssetArr, srcStringArray, picking, twins>>
=============================================================================
