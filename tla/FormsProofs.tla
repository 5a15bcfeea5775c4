----------------------------- MODULE FormsProofs -----------------------------
(* The forms, for every number of cells, photographs and complaints: what  *)
(* removing a picture leaves, types, and that no order of edits, reuses,   *)
(* choices and deletions sends a nil entry, takes another row's text or    *)
(* reaches beyond an array. The entries followed may be all of them.       *)
EXTENDS Forms, SequenceTheorems, FiniteSetTheorems, TLAPS

-----------------------------------------------------------------------------
(* The k-th of a set of places.                                            *)

(* The number of places up to j: what NthOf looks for.                     *)
Rank(K, j) == Cardinality({i \in K : i <= j})

(* A later place has a greater rank, so that a rank names its place, and   *)
(* every rank up to the number of places is some place's.                  *)
LEMMA RankFacts ==
    ASSUME NEW n \in Nat, NEW K \in SUBSET (1..n)
    PROVE  /\ IsFiniteSet(K) /\ Cardinality(K) \in Nat
           /\ \A j \in K : Rank(K, j) \in 1..Cardinality(K)
           /\ \A i, j \in K : Rank(K, i) = Rank(K, j) => i = j
           /\ \A k \in 1..Cardinality(K) : \E j \in K : Rank(K, j) = k
<1>1. IsFiniteSet(1..n)
  BY FS_Interval
<1>2. IsFiniteSet(K) /\ Cardinality(K) \in Nat
  BY <1>1, FS_Subset, FS_CardinalityType
<1> DEFINE UpTo(j) == {i \in K : i <= j}
<1>3. ASSUME NEW j \in K
      PROVE  /\ IsFiniteSet(UpTo(j)) /\ Cardinality(UpTo(j)) \in 1..Cardinality(K)
  <2>1. UpTo(j) \in SUBSET K /\ UpTo(j) # {}
    OBVIOUS
  <2>2. /\ IsFiniteSet(UpTo(j)) /\ Cardinality(UpTo(j)) <= Cardinality(K)
        /\ Cardinality(UpTo(j)) \in Nat
    BY <1>2, <2>1, FS_Subset, FS_CardinalityType
  <2>3. Cardinality(UpTo(j)) # 0
    BY <2>1, <2>2, FS_EmptySet
  <2>4. QED
    BY <1>2, <2>2, <2>3
<1>4. ASSUME NEW i \in K, NEW j \in K, i < j
      PROVE  Rank(K, i) # Rank(K, j)
  <2>1. \A k \in K : k \in Int
    OBVIOUS
  <2>2. UpTo(i) \in SUBSET UpTo(j) /\ j \in UpTo(j) /\ j \notin UpTo(i)
    <3>1. i \in Int /\ j \in Int /\ ~(j <= i) /\ j <= j
      BY <1>4, <2>1
    <3>2. \A k \in K : k <= i => k <= j
      BY <1>4, <2>1, <3>1
    <3>3. QED
      BY <1>4, <3>1, <3>2
  <2>3. Cardinality(UpTo(j)) = Cardinality(UpTo(i)) => UpTo(j) = UpTo(i)
    BY <1>3, <2>2, FS_Subset
  <2>4. QED
    BY <2>2, <2>3 DEF Rank
<1>5. \A i, j \in K : Rank(K, i) = Rank(K, j) => i = j
  <2>1. \A k \in K : k \in Int
    OBVIOUS
  <2>2. QED
    BY <1>4, <2>1
<1>6. \A j \in K : Rank(K, j) \in 1..Cardinality(K)
  BY <1>3 DEF Rank
<1>7. \A k \in 1..Cardinality(K) : \E j \in K : Rank(K, j) = k
  <2> DEFINE f == [j \in K |-> Rank(K, j)]
             T == 1..Cardinality(K)
  <2>1. f \in Injection(K, T)
    BY <1>5, <1>6 DEF Injection, IsInjective
  <2>2. IsFiniteSet(T) /\ Cardinality(T) = Cardinality(K)
    BY <1>2, FS_Interval
  <2>3. f \in Surjection(K, T)
    BY <2>1, <2>2, FS_Injection
  <2>4. QED
    BY <2>3 DEF Surjection
<1>8. QED
  BY <1>2, <1>5, <1>6, <1>7

(* The k-th place is one of the places, and its rank is k.                 *)
LEMMA NthFacts ==
    ASSUME NEW n \in Nat, NEW K \in SUBSET (1..n), NEW k \in 1..Cardinality(K)
    PROVE  NthOf(K, k) \in K /\ Rank(K, NthOf(K, k)) = k
<1>1. \E j \in K : Rank(K, j) = k
  BY RankFacts
<1>2. QED
  BY <1>1 DEF NthOf, Rank

(* All places but i: the k-th is k before i, and k + 1 from there on.      *)
LEMMA NthButOne ==
    ASSUME NEW n \in Nat, NEW i \in 1..n
    PROVE  LET K == (1..n) \ {i}
           IN  /\ IsFiniteSet(K) /\ Cardinality(K) = n - 1
               /\ \A k \in 1..(n - 1) : NthOf(K, k) = IF k < i THEN k ELSE k + 1
<1> DEFINE K == (1..n) \ {i}
<1>1. IsFiniteSet(1..n) /\ Cardinality(1..n) = n
  BY FS_Interval
<1>2. IsFiniteSet(K) /\ Cardinality(K) = n - 1
  BY <1>1, FS_RemoveElement
<1>3. \A j \in K : j < i => Rank(K, j) = j
  <2>1. \A j \in K : j < i => {q \in K : q <= j} = 1..j
    OBVIOUS
  <2>2. \A j \in K : Cardinality(1..j) = j
    BY FS_Interval
  <2>3. QED
    BY <2>1, <2>2 DEF Rank
<1>4. \A j \in K : i < j => Rank(K, j) = j - 1
  <2>1. ASSUME NEW j \in K, i < j PROVE Rank(K, j) = j - 1
    <3>1. {q \in K : q <= j} = (1..j) \ {i} /\ i \in 1..j
      BY <2>1
    <3>2. IsFiniteSet(1..j) /\ Cardinality(1..j) = j
      BY FS_Interval
    <3>3. QED
      BY <3>1, <3>2, FS_RemoveElement DEF Rank
  <2>2. QED
    BY <2>1
<1>5. ASSUME NEW k \in 1..(n - 1)
      PROVE  NthOf(K, k) = IF k < i THEN k ELSE k + 1
  <2>1. NthOf(K, k) \in K /\ Rank(K, NthOf(K, k)) = k
    BY <1>2, NthFacts
  <2>2. CASE NthOf(K, k) < i
    BY <1>3, <2>1, <2>2
  <2>3. CASE i < NthOf(K, k)
    BY <1>4, <2>1, <2>3
  <2>4. QED
    BY <2>1, <2>2, <2>3
<1>6. QED
  BY <1>2, <1>5

-----------------------------------------------------------------------------
(* Pictures and assets.                                                    *)

(* removeObject: leaves elements of the array, all of them others than the *)
(* one removed, and no more of them than there were.                       *)
LEMMA RemoveFacts ==
    ASSUME NEW S, NEW s \in Seq(S), NEW p
    PROVE  /\ removeObject(s, p) \in Seq(S)
           /\ Len(removeObject(s, p)) = Cardinality(Kept(s, p))
           /\ \A k \in DOMAIN removeObject(s, p) : removeObject(s, p)[k] # p
           /\ \A i \in DOMAIN s : s[i] = p => Len(removeObject(s, p)) < Len(s)
<1> DEFINE n == Len(s)
           K == Kept(s, p)
           m == Cardinality(K)
<1>1. n \in Nat /\ DOMAIN s = 1..n
  OBVIOUS
<1>2. K \in SUBSET (1..n)
  BY <1>1 DEF Kept
<1>3. m \in Nat /\ \A k \in 1..m : NthOf(K, k) \in K
  BY <1>1, <1>2, RankFacts, NthFacts
<1>4. \A k \in 1..m : s[NthOf(K, k)] \in S /\ s[NthOf(K, k)] # p
  BY <1>1, <1>2, <1>3 DEF Kept
<1>5. removeObject(s, p) \in [1..m -> S]
  BY <1>4 DEF removeObject
<1>6. removeObject(s, p) \in Seq(S) /\ Len(removeObject(s, p)) = m
  BY <1>3, <1>5
<1>7. \A k \in DOMAIN removeObject(s, p) : removeObject(s, p)[k] # p
  BY <1>4 DEF removeObject
<1>8. ASSUME NEW i \in DOMAIN s, s[i] = p PROVE m < n
  <2>1. K \in SUBSET ((1..n) \ {i})
    BY <1>2, <1>8 DEF Kept
  <2>2. IsFiniteSet((1..n) \ {i}) /\ Cardinality((1..n) \ {i}) = n - 1
    BY <1>1, <1>8, NthButOne
  <2>3. m <= n - 1
    BY <2>1, <2>2, FS_Subset
  <2>4. QED
    BY <1>1, <1>3, <2>3
<1>9. QED
  BY <1>6, <1>7, <1>8

(* removeObjectAtIndex: leaves the elements of the array but one.          *)
LEMMA AtIndexFacts ==
    ASSUME NEW S, NEW s \in Seq(S), NEW i \in DOMAIN s
    PROVE  /\ removeObjectAtIndex(s, i) \in Seq(S)
           /\ Len(removeObjectAtIndex(s, i)) = Len(s) - 1
<1>1. Len(s) - 1 \in Nat /\ i \in 1..Len(s)
  OBVIOUS
<1>2. removeObjectAtIndex(s, i) \in [1..(Len(s) - 1) -> S]
  BY <1>1 DEF removeObjectAtIndex
<1>3. QED
  BY <1>1, <1>2

(* Of an element that is there once, both take the same.                   *)
LEMMA RemoveOnlyOne ==
    ASSUME NEW S, NEW s \in Seq(S), NEW i \in DOMAIN s,
           \A j \in DOMAIN s \ {i} : s[j] # s[i]
    PROVE  removeObject(s, s[i]) = removeObjectAtIndex(s, i)
<1> DEFINE n == Len(s)
<1>1. n \in Nat /\ DOMAIN s = 1..n /\ i \in 1..n
  OBVIOUS
<1>2. Kept(s, s[i]) = (1..n) \ {i}
  BY <1>1 DEF Kept
<1>3. /\ Cardinality(Kept(s, s[i])) = n - 1
      /\ \A k \in 1..(n - 1) : NthOf(Kept(s, s[i]), k) = IF k < i THEN k ELSE k + 1
  <2>1. n \in Nat /\ i \in 1..n
    BY <1>1
  <2> HIDE DEF n
  <2>2. /\ Cardinality((1..n) \ {i}) = n - 1
        /\ \A k \in 1..(n - 1) : NthOf((1..n) \ {i}, k) = IF k < i THEN k ELSE k + 1
    BY <2>1, NthButOne, Zenon
  <2>3. QED
    BY <1>2, <2>2, Zenon
<1>4. \A k \in 1..(n - 1) : s[NthOf(Kept(s, s[i]), k)] = IF k < i THEN s[k] ELSE s[k + 1]
  BY <1>3
<1>5. QED
  BY <1>3, <1>4 DEF removeObject, removeObjectAtIndex

LEMMA PicturesFacts ==
    ASSUME NEW a \in Seq(Asset)
    PROVE  PicturesOf(a) \in Seq(Picture) /\ Len(PicturesOf(a)) = Len(a)
<1>1. Len(a) \in Nat /\ DOMAIN a = 1..Len(a)
  OBVIOUS
<1>2. PicturesOf(a) \in [1..Len(a) -> Picture]
  BY <1>1, FeedAssumption DEF PicturesOf
<1>3. QED
  BY <1>1, <1>2

LEMMA ChoiceType ==
    ASSUME NEW a \in Choice
    PROVE  a \in Seq(Asset)
<1>1. PICK n \in 0..MaxImagesCount : a \in [1..n -> Asset]
  BY DEF Choice
<1>2. n \in Nat
  BY FeedAssumption
<1>3. QED
  BY <1>1, <1>2

(* There is an asset for every picture shown.                              *)
FewerPictures == Len(imageArray) <= Len(pubPicAssetArr)

(* Until a deletion took two pictures, the assets are those of the         *)
(* pictures.                                                               *)
Matched == ~twins => imageArray = PicturesOf(pubPicAssetArr)

FeedInv == FeedTypeOK /\ FewerPictures /\ Matched

(* A page made anew has no pictures.                                       *)
LEMMA FeedStarts ==
    /\ FeedInit => FeedInv
    /\ feedDidLoad => FeedInv'
<1>1. PicturesOf(<<>>) = <<>> /\ <<>> \in Seq(Picture) /\ <<>> \in Seq(Asset)
  BY DEF PicturesOf
<1>2. 0 \in 0..MaxComplaints /\ Len(<<>>) <= Len(<<>>)
  BY FeedAssumption
<1>3. QED
  BY <1>1, <1>2 DEF FeedInit, feedDidLoad, FeedInv, FeedTypeOK, FewerPictures, Matched

(* A deletion takes one asset and at least one picture, the same one if    *)
(* there is only one; its index is an index of the assets.                 *)
LEMMA DeletionKeeps ==
    ASSUME FeedInv, NEW i \in DOMAIN imageArray, detImgButton(i)
    PROVE  FeedInv' /\ ~deletionRaises(i)
<1>1. /\ imageArray \in Seq(Picture) /\ pubPicAssetArr \in Seq(Asset)
      /\ Len(imageArray) \in Nat /\ Len(pubPicAssetArr) \in Nat
      /\ i \in 1..Len(imageArray)
  BY DEF FeedInv, FeedTypeOK
<1>2. i \in DOMAIN pubPicAssetArr
  BY <1>1 DEF FeedInv, FewerPictures
<1>3. /\ imageArray' \in Seq(Picture)
      /\ Len(imageArray') < Len(imageArray)
  BY <1>1, RemoveFacts DEF detImgButton
<1>4. /\ pubPicAssetArr' \in Seq(Asset)
      /\ Len(pubPicAssetArr') = Len(pubPicAssetArr) - 1
  BY <1>1, <1>2, AtIndexFacts DEF detImgButton
<1>5. FeedTypeOK'
  BY <1>3, <1>4 DEF FeedInv, FeedTypeOK, detImgButton
<1>6. FewerPictures'
  <2>1. Len(imageArray') \in Nat
    BY <1>3
  <2>2. QED
    BY <1>1, <1>3, <1>4, <2>1 DEF FeedInv, FewerPictures
<1>7. Matched'
  <2> SUFFICES ASSUME ~twins' PROVE imageArray' = PicturesOf(pubPicAssetArr')
    BY DEF Matched
  <2>1. /\ ~twins
        /\ \A j \in DOMAIN imageArray \ {i} : imageArray[j] # imageArray[i]
    BY DEF detImgButton, FeedInv, FeedTypeOK
  <2>2. imageArray' = removeObjectAtIndex(imageArray, i)
    BY <1>1, <2>1, RemoveOnlyOne DEF detImgButton
  <2>3. imageArray = PicturesOf(pubPicAssetArr)
    BY <2>1 DEF FeedInv, Matched
  <2> DEFINE n == Len(pubPicAssetArr)
  <2>4. /\ Len(imageArray) = n /\ DOMAIN pubPicAssetArr = 1..n
        /\ \A j \in 1..n : imageArray[j] = content[pubPicAssetArr[j]]
    BY <1>1, <2>3, PicturesFacts DEF PicturesOf
  <2>5. PicturesOf(pubPicAssetArr')
           = [j \in 1..(n - 1) |->
                content[IF j < i THEN pubPicAssetArr[j] ELSE pubPicAssetArr[j + 1]]]
    BY DEF PicturesOf, detImgButton, removeObjectAtIndex
  <2>6. \A j \in 1..(n - 1) :
           (IF j < i THEN imageArray[j] ELSE imageArray[j + 1])
              = content[IF j < i THEN pubPicAssetArr[j] ELSE pubPicAssetArr[j + 1]]
    BY <1>1, <2>4
  <2>7. QED
    BY <2>2, <2>4, <2>5, <2>6 DEF removeObjectAtIndex
<1>8. QED
  BY <1>2, <1>5, <1>6, <1>7 DEF FeedInv, deletionRaises

(* The other touches of the page: a choice brings pictures and assets      *)
(* together, the rest leaves both alone.                                   *)
LEMMA ComplaintKeeps ==
    ASSUME FeedInv, \/ chousePiack \/ \E a \in Choice : didFinishPicking(a)
                    \/ pickingCancelled \/ sureButtonClick \/ complaintFailed
                    \/ \E i \in DOMAIN imageArray : showBigImage(i)
    PROVE  FeedInv'
<1>1. ASSUME NEW a \in Choice, didFinishPicking(a) PROVE FeedInv'
  <2>1. a \in Seq(Asset)
    BY ChoiceType
  <2>2. PicturesOf(a) \in Seq(Picture) /\ Len(PicturesOf(a)) = Len(a) /\ Len(a) \in Nat
    BY <2>1, PicturesFacts
  <2>3. /\ imageArray' = PicturesOf(a) /\ pubPicAssetArr' = a
        /\ srcStringArray' = PicturesOf(a)
        /\ picking' = FALSE /\ twins' = FALSE /\ UNCHANGED complaints
    BY <1>1 DEF didFinishPicking
  <2>4. FeedTypeOK'
    BY <2>1, <2>2, <2>3 DEF FeedInv, FeedTypeOK
  <2>5. FewerPictures' /\ Matched'
    BY <2>2, <2>3 DEF FewerPictures, Matched
  <2>6. QED
    BY <2>4, <2>5 DEF FeedInv
<1>2. ASSUME UNCHANGED <<imageArray, pubPicAssetArr, srcStringArray, twins>>,
             picking' \in BOOLEAN, complaints' \in 0..MaxComplaints
      PROVE  FeedInv'
  BY <1>2 DEF FeedInv, FeedTypeOK, FewerPictures, Matched
<1>3. CASE chousePiack \/ pickingCancelled \/ \E i \in DOMAIN imageArray : showBigImage(i)
  BY <1>2, <1>3
     DEF chousePiack, pickingCancelled, showBigImage, feedVars, FeedInv, FeedTypeOK
<1>4. CASE sureButtonClick \/ complaintFailed
  <2>1. complaints' \in 0..MaxComplaints
    BY <1>4, FeedAssumption DEF sureButtonClick, complaintFailed, FeedInv, FeedTypeOK
  <2>2. QED
    BY <1>2, <1>4, <2>1 DEF sureButtonClick, complaintFailed, FeedInv, FeedTypeOK
<1>5. QED
  BY <1>1, <1>3, <1>4

-----------------------------------------------------------------------------
(* The bank card and the applicant.                                        *)

(* Every entry that the literal takes has been looked at.                  *)
LEMMA SubmittedIsChecked == Submitted \subseteq Checked /\ Checked \subseteq Entry
BY DEF Submitted, Checked, Entry

(* A button that can be pressed stands over entries that are there.        *)
BankReady == bankNext => bankText["code"] # "nil"

InfoReady ==
    infoNext => /\ \A e \in Submitted : entry[e] # "nil"
                /\ custAddr # "nil" /\ workAddr # "nil"

(* The text of a cell was typed in a row it served, the controller's two   *)
(* fields are of cells that served their rows, and a cell in a row of an   *)
(* address serves it.                                                      *)
TextOfOwnRow ==
    \A c \in Cell : bottomTextFiled[c] # "" => bottomTextFiled[c] \in served[c]

FieldsServe ==
    /\ houseAddressTextFile # NoCell => "house" \in served[houseAddressTextFile]
    /\ workAddressTextFile # NoCell => "work" \in served[workAddressTextFile]

RowsServed == \A r \in AddressRow : cellAt[r] # NoCell => r \in served[cellAt[r]]

InfoInv == InfoTypeOK /\ InfoReady /\ TextOfOwnRow /\ FieldsServe /\ RowsServed /\ OwnAddress

BankInv == BankTypeOK /\ BankReady

LEMMA BankStarts ==
    /\ BankInit => BankInv
    /\ bankDidLoad => BankInv'
BY DEF BankInit, bankDidLoad, BankInv, BankTypeOK, BankReady, BankField, Text

(* An edit of the phone or the code looks at both; one of the card leaves  *)
(* the button and the code alone.                                          *)
LEMMA BankEditKeeps ==
    ASSUME BankInv, NEW b \in BankField, NEW t \in {"", "text"}, textChangeCLick(b, t)
    PROVE  BankInv'
<1>1. /\ bankText' = [bankText EXCEPT ![b] = t]
      /\ bankNext' = IF b \in {"phone", "code"} THEN Complete(bankText') ELSE bankNext
      /\ UNCHANGED bankSent
  BY DEF textChangeCLick
<1>2. Complete(bankText') \in BOOLEAN
  BY DEF Complete
<1>3. BankTypeOK'
  BY <1>1, <1>2 DEF BankInv, BankTypeOK, Text
<1>4. BankReady'
  <2>1. CASE b \in {"phone", "code"}
    BY <1>1, <2>1 DEF BankReady, Complete, IsNil, BankField
  <2>2. CASE b = "card"
    BY <1>1, <2>2 DEF BankInv, BankReady, BankTypeOK, BankField
  <2>3. QED
    BY <2>1, <2>2 DEF BankField
<1>5. QED
  BY <1>3, <1>4 DEF BankInv

LEMMA InfoStarts ==
    /\ InfoInit => InfoInv
    /\ infoDidLoad => InfoInv'
<1> USE DEF InfoInv, InfoReady, TextOfOwnRow, FieldsServe, RowsServed, OwnAddress,
        AddressRow, Row, Address
<1>1. InfoInit => InfoInv
  <2> SUFFICES ASSUME InfoInit PROVE InfoInv
    OBVIOUS
  <2>1. InfoTypeOK
    BY DEF InfoInit, InfoTypeOK, NoEntry
  <2>2. QED
    BY <2>1 DEF InfoInit
<1>2. infoDidLoad => InfoInv'
  <2> SUFFICES ASSUME infoDidLoad PROVE InfoInv'
    OBVIOUS
  <2>1. InfoTypeOK'
    BY DEF infoDidLoad, InfoTypeOK, NoEntry
  <2>2. QED
    BY <2>1 DEF infoDidLoad
<1>3. QED
  BY <1>1, <1>2

(* A cell that comes into a row's view serves it from then on.             *)
LEMMA CellKeeps ==
    ASSUME InfoInv, NEW r \in Row, cellForRow(r)
    PROVE  InfoInv'
<1>1. PICK c \in Cell :
          /\ cellAt' = [cellAt EXCEPT ![r] = c]
          /\ servesAddress(r, c)
          /\ served' = [served EXCEPT ![c] = @ \cup ({r} \cap AddressRow)]
  BY DEF cellForRow
<1>2. UNCHANGED <<entry, bottomTextFiled, custAddr, workAddr, infoNext>>
  BY DEF cellForRow
<1>3. /\ served' \in [Cell -> SUBSET AddressRow]
      /\ \A d \in Cell : served[d] \subseteq served'[d]
      /\ r \in AddressRow => r \in served'[c]
  BY <1>1 DEF InfoInv, InfoTypeOK
<1>4. houseAddressTextFile' \in Cell \cup {NoCell} /\ workAddressTextFile' \in Cell \cup {NoCell}
  BY <1>1 DEF servesAddress, InfoInv, InfoTypeOK
<1>5. InfoTypeOK'
  BY <1>1, <1>2, <1>3, <1>4 DEF InfoInv, InfoTypeOK
<1>6. TextOfOwnRow' /\ InfoReady'
  BY <1>2, <1>3 DEF InfoInv, TextOfOwnRow, InfoReady
<1>7. FieldsServe'
  BY <1>1, <1>3 DEF InfoInv, InfoTypeOK, FieldsServe, servesAddress, AddressRow
<1>8. RowsServed'
  BY <1>1, <1>3 DEF InfoInv, InfoTypeOK, RowsServed, Row
<1>9. OwnAddress'
  <2>1. \A d \in Cell : served[d] = AddressRow => served'[d] = AddressRow
    BY <1>3
  <2>2. QED
    BY <1>2, <2>1 DEF InfoInv, OwnAddress
<1>10. QED
  BY <1>5, <1>6, <1>7, <1>8, <1>9 DEF InfoInv

(* A text typed in a row is typed in the cell that serves it.              *)
LEMMA TypeAddressKeeps ==
    ASSUME InfoInv, NEW r \in Row, typeAddress(r)
    PROVE  InfoInv'
<1>1. PICK t \in {"", r} : bottomTextFiled' = [bottomTextFiled EXCEPT ![cellAt[r]] = t]
  BY DEF typeAddress
<1>2. /\ r \in AddressRow /\ cellAt[r] # NoCell
      /\ UNCHANGED <<entry, cellAt, houseAddressTextFile, workAddressTextFile,
                     custAddr, workAddr, infoNext, served>>
  BY DEF typeAddress
<1>3. cellAt[r] \in Cell /\ r \in served[cellAt[r]] /\ t \in Address
  BY <1>2 DEF InfoInv, InfoTypeOK, RowsServed, AddressRow, Address
<1>4. InfoTypeOK'
  BY <1>1, <1>2, <1>3 DEF InfoInv, InfoTypeOK
<1>5. TextOfOwnRow'
  BY <1>1, <1>2, <1>3 DEF InfoInv, InfoTypeOK, TextOfOwnRow
<1>6. InfoReady' /\ FieldsServe' /\ RowsServed' /\ OwnAddress'
  BY <1>2 DEF InfoInv, InfoReady, FieldsServe, RowsServed, OwnAddress
<1>7. QED
  BY <1>4, <1>5, <1>6 DEF InfoInv

(* The check takes each address from the field it holds for its row: a     *)
(* text of the other row is that of a cell that served both. It enables    *)
(* the button only over entries and addresses that are there.              *)
LEMMA CheckKeeps ==
    ASSUME InfoInv, entry' \in [Entry -> {"nil", "", "text"}], checkButtonEnble,
           cellAt' = cellAt \/ cellAt' = [r \in Row |-> NoCell],
           UNCHANGED <<bottomTextFiled, houseAddressTextFile, workAddressTextFile, served>>
    PROVE  InfoInv'
<1>1. /\ custAddr' = TextOf(houseAddressTextFile)
      /\ workAddr' = TextOf(workAddressTextFile)
      /\ infoNext' = /\ \A d \in Checked : entry'[d] = "text"
                     /\ custAddr' \notin {"nil", ""}
                     /\ workAddr' \notin {"nil", ""}
  BY DEF checkButtonEnble
<1>2. \A f \in Cell \cup {NoCell} : TextOf(f) \in Address \cup {"nil"}
  BY DEF TextOf, InfoInv, InfoTypeOK
<1>3. InfoTypeOK'
  BY <1>1, <1>2 DEF InfoInv, InfoTypeOK
<1>4. InfoReady'
  BY <1>1, SubmittedIsChecked DEF InfoReady
<1>5. TextOfOwnRow' /\ FieldsServe' /\ RowsServed'
  BY DEF InfoInv, TextOfOwnRow, FieldsServe, RowsServed, AddressRow, Row
<1>6. OwnAddress'
  <2>1. ASSUME custAddr' = "work" PROVE \E c \in Cell : served'[c] = AddressRow
    <3>1. /\ houseAddressTextFile \in Cell /\ houseAddressTextFile # NoCell
          /\ bottomTextFiled[houseAddressTextFile] = "work"
      BY <1>1, <2>1 DEF TextOf, InfoInv, InfoTypeOK
    <3>2. {"house", "work"} \subseteq served[houseAddressTextFile]
      BY <3>1 DEF InfoInv, FieldsServe, TextOfOwnRow
    <3>3. served[houseAddressTextFile] = AddressRow
      BY <3>1, <3>2 DEF InfoInv, InfoTypeOK, AddressRow
    <3>4. QED
      BY <3>1, <3>3
  <2>2. ASSUME workAddr' = "house" PROVE \E c \in Cell : served'[c] = AddressRow
    <3>1. /\ workAddressTextFile \in Cell /\ workAddressTextFile # NoCell
          /\ bottomTextFiled[workAddressTextFile] = "house"
      BY <1>1, <2>2 DEF TextOf, InfoInv, InfoTypeOK
    <3>2. {"house", "work"} \subseteq served[workAddressTextFile]
      BY <3>1 DEF InfoInv, FieldsServe, TextOfOwnRow
    <3>3. served[workAddressTextFile] = AddressRow
      BY <3>1, <3>2 DEF InfoInv, InfoTypeOK, AddressRow
    <3>4. QED
      BY <3>1, <3>3
  <2>3. QED
    BY <2>1, <2>2 DEF OwnAddress
<1>7. QED
  BY <1>3, <1>4, <1>5, <1>6 DEF InfoInv

(* All that may happen on the applicant's page.                            *)
LEMMA InfoKeeps ==
    ASSUME InfoInv, infoTouched
    PROVE  InfoInv'
<1>1. ASSUME NEW r \in Row, hideRow(r) PROVE InfoInv'
  <2>1. /\ cellAt' = [cellAt EXCEPT ![r] = NoCell]
        /\ UNCHANGED <<entry, bottomTextFiled, houseAddressTextFile, workAddressTextFile,
                       custAddr, workAddr, infoNext, served>>
    BY <1>1 DEF hideRow
  <2>2. InfoTypeOK' /\ RowsServed'
    BY <2>1 DEF InfoInv, InfoTypeOK, RowsServed, AddressRow, Row
  <2>3. InfoReady' /\ TextOfOwnRow' /\ FieldsServe' /\ OwnAddress'
    BY <2>1 DEF InfoInv, InfoReady, TextOfOwnRow, FieldsServe, OwnAddress
  <2>4. QED
    BY <2>2, <2>3 DEF InfoInv
<1>2. CASE didSelectRow
  <2>0. entry \in [Entry -> {"nil", "", "text"}]
    BY DEF InfoInv, InfoTypeOK
  <2>1. entry' \in [Entry -> {"nil", "", "text"}]
    <3>1. ASSUME NEW e \in Picked, entry' = [entry EXCEPT ![e] = "text"]
          PROVE  entry' \in [Entry -> {"nil", "", "text"}]
      BY <2>0, <3>1
    <3>2. ASSUME NEW c \in Contact, NEW name \in Given(c[1]), NEW mobile \in Given(c[2]),
                 entry' = [entry EXCEPT ![c[1]] = name, ![c[2]] = mobile]
          PROVE  entry' \in [Entry -> {"nil", "", "text"}]
      <4>1. name \in {"", "text"} /\ mobile \in {"", "text"}
        BY DEF Given
      <4>2. QED
        BY <2>0, <3>2, <4>1
    <3>3. QED
      BY <1>2, <3>1, <3>2 DEF didSelectRow
  <2>2. QED
    BY <1>2, <2>1, CheckKeeps DEF didSelectRow
<1>3. CASE textFieldShouldEndEditing
  <2>1. entry' \in [Entry -> {"nil", "", "text"}]
    BY <1>3 DEF textFieldShouldEndEditing, InfoInv, InfoTypeOK, Given
  <2>2. QED
    BY <1>3, <2>1, CheckKeeps DEF textFieldShouldEndEditing
<1>4. QED
  BY <1>1, <1>2, <1>3, CellKeeps, TypeAddressKeeps DEF infoTouched

-----------------------------------------------------------------------------
(* All the pages together.                                                 *)

(* The photographs' button goes by the photographs that are there.         *)
PhotosReady == photoNext = (photos = Side)

FormTypeOK ==
    /\ userId \in BOOLEAN
    /\ form \in {"none", "photos", "bank", "info", "complaint"}
    /\ photos \in SUBSET Side
    /\ ended \in {"no", "browser", "literal"}
    /\ ended = "literal" => ~userId

FormsInv == FormTypeOK /\ PhotosReady /\ BankInv /\ InfoInv /\ FeedInv

LEMMA BankStays ==
    ASSUME BankInv, UNCHANGED bankVars
    PROVE  BankInv'
BY DEF bankVars, BankInv, BankTypeOK, BankReady

LEMMA InfoStays ==
    ASSUME InfoInv, UNCHANGED infoVars
    PROVE  InfoInv'
<1>1. InfoTypeOK'
  BY DEF infoVars, InfoInv, InfoTypeOK
<1>2. QED
  BY <1>1 DEF infoVars, InfoInv, InfoReady, TextOfOwnRow, FieldsServe, RowsServed, OwnAddress

LEMMA FeedStays ==
    ASSUME FeedInv, UNCHANGED feedVars
    PROVE  FeedInv'
BY DEF feedVars, FeedInv, FeedTypeOK, FewerPictures, Matched

(* Sending from the bank card's page, or its answer, leaves the entries.   *)
LEMMA BankSendKeeps ==
    ASSUME BankInv, UNCHANGED <<bankText, bankNext>>, bankSent' \in BOOLEAN
    PROVE  BankInv'
BY DEF BankInv, BankTypeOK, BankReady

(* The invariant holds in every state: each page keeps its own part, and   *)
(* the ready buttons rule out a nil entry in any of the literals.          *)
THEOREM FormsInvHolds == Spec => []FormsInv
<1>1. Init => FormsInv
  <2> SUFFICES ASSUME Init PROVE FormsInv
    OBVIOUS
  <2>1. FormTypeOK /\ PhotosReady
    BY DEF Init, FormTypeOK, PhotosReady, Side
  <2>2. QED
    BY <2>1, BankStarts, InfoStarts, FeedStarts DEF Init, FormsInv
<1>2. FormsInv /\ [Next]_vars => FormsInv'
  <2> SUFFICES ASSUME FormsInv, [Next]_vars
               PROVE  FormsInv'
    OBVIOUS
  <2> USE DEF FormsInv
  <2>1. CASE openForm
    <3>1. FormTypeOK' /\ PhotosReady'
      BY <2>1 DEF openForm, FormTypeOK, PhotosReady
    <3>2. QED
      BY <2>1, <3>1, BankStays, InfoStays, FeedStays DEF openForm
  <2>2. CASE leaveForm \/ signInAgain
    <3>1. FormTypeOK' /\ PhotosReady'
      BY <2>2 DEF leaveForm, signInAgain, formsGone, FormTypeOK, PhotosReady, Side
    <3>2. QED
      BY <2>2, <3>1, BankStarts, InfoStarts, FeedStarts DEF leaveForm, signInAgain, formsGone
  <2>3. ASSUME NEW s \in Side, didFinishPickingMedia(s) PROVE FormsInv'
    <3>1. FormTypeOK' /\ PhotosReady'
      BY <2>3 DEF didFinishPickingMedia, FormTypeOK, PhotosReady
    <3>2. QED
      BY <2>3, <3>1, BankStays, InfoStays, FeedStays DEF didFinishPickingMedia
  <2>4. CASE useCusAuthInsert
    <3>1. ended' = ended
      BY <2>4 DEF useCusAuthInsert, EndsBy, PhotosReady
    <3>2. FormTypeOK' /\ PhotosReady'
      BY <2>4, <3>1 DEF useCusAuthInsert, FormTypeOK, PhotosReady
    <3>3. QED
      BY <2>4, <3>2, BankStays, InfoStays, FeedStays DEF useCusAuthInsert
  <2>5. ASSUME NEW b \in BankField, bankEdit(b) PROVE FormsInv'
    <3>1. FormTypeOK' /\ PhotosReady'
      BY <2>5 DEF bankEdit, formVars, FormTypeOK, PhotosReady
    <3>2. BankInv'
      BY <2>5, BankEditKeeps DEF bankEdit
    <3>3. QED
      BY <2>5, <3>1, <3>2, InfoStays, FeedStays DEF bankEdit
  <2>6. CASE bankNextTouched
    <3>1. bankLiteralRaises(userId) => ~userId
      BY <2>6 DEF bankNextTouched, bankNextButtonClick, bankLiteralRaises, BankInv, BankReady
    <3>2. FormTypeOK' /\ PhotosReady'
      BY <2>6, <3>1 DEF bankNextTouched, On, EndsBy, FormTypeOK, PhotosReady
    <3>3. BankInv'
      BY <2>6, BankSendKeeps DEF bankNextTouched, bankNextButtonClick
    <3>4. QED
      BY <2>6, <3>2, <3>3, InfoStays, FeedStays DEF bankNextTouched
  <2>7. CASE bankAnswered
    <3>1. FormTypeOK' /\ PhotosReady'
      BY <2>7 DEF bankAnswered, FormTypeOK, PhotosReady
    <3>2. BankInv'
      BY <2>7, BankSendKeeps DEF bankAnswered
    <3>3. QED
      BY <2>7, <3>1, <3>2, InfoStays, FeedStays DEF bankAnswered
  <2>8. CASE infoTouched
    <3>1. FormTypeOK' /\ PhotosReady'
      BY <2>8 DEF infoTouched, formVars, FormTypeOK, PhotosReady
    <3>2. InfoInv'
      BY <2>8, InfoKeeps
    <3>3. QED
      BY <2>8, <3>1, <3>2, BankStays, FeedStays DEF infoTouched
  <2>9. CASE infoNextButtonClick
    <3>1. infoLiteralRaises(userId) => ~userId
      BY <2>9 DEF infoNextButtonClick, infoLiteralRaises, InfoInv, InfoReady
    <3>2. FormTypeOK' /\ PhotosReady'
      BY <2>9, <3>1 DEF infoNextButtonClick, On, EndsBy, FormTypeOK, PhotosReady
    <3>3. QED
      BY <2>9, <3>2, BankStays, InfoStays, FeedStays DEF infoNextButtonClick
  <2>10. CASE backToBank
    <3>1. FormTypeOK' /\ PhotosReady'
      BY <2>10 DEF backToBank, FormTypeOK, PhotosReady
    <3>2. QED
      BY <2>10, <3>1, InfoStarts, BankStays, FeedStays DEF backToBank
  <2>11. CASE complaintTouched
    <3>1. FormTypeOK' /\ PhotosReady'
      BY <2>11 DEF complaintTouched, formVars, FormTypeOK, PhotosReady
    <3>2. FeedInv'
      BY <2>11, ComplaintKeeps DEF complaintTouched
    <3>3. QED
      BY <2>11, <3>1, <3>2, BankStays, InfoStays DEF complaintTouched
  <2>12. ASSUME NEW i \in DOMAIN imageArray, pictureTouched(i) PROVE FormsInv'
    <3>1. CASE detImgButton(i) /\ EndsBy("deletion", deletionRaises(i))
      <4>1. FeedInv' /\ ~deletionRaises(i)
        BY <3>1, DeletionKeeps
      <4>2. QED
        BY <2>12, <3>1, <4>1, BankStays, InfoStays
           DEF pictureTouched, EndsBy, FormTypeOK, PhotosReady
    <3>2. CASE showBigImage(i) /\ EndsBy("browser", browserRaises(i))
      <4>1. FeedInv'
        BY <3>2, ComplaintKeeps
      <4>2. QED
        BY <2>12, <3>2, <4>1, BankStays, InfoStays
           DEF pictureTouched, EndsBy, FormTypeOK, PhotosReady
    <3>3. QED
      BY <2>12, <3>1, <3>2 DEF pictureTouched
  <2>13. CASE UNCHANGED vars
    <3>1. FormTypeOK' /\ PhotosReady'
      BY <2>13 DEF vars, formVars, FormTypeOK, PhotosReady
    <3>2. QED
      BY <2>13, <3>1, BankStays, InfoStays, FeedStays DEF vars
  <2>14. CASE upload995 \/ nofiticationCLick
    <3>1. FormTypeOK' /\ PhotosReady'
      BY <2>14 DEF upload995, nofiticationCLick, On, EndsBy, FormTypeOK, PhotosReady
    <3>2. QED
      BY <2>14, <3>1, BankStays, InfoStays, FeedStays DEF upload995, nofiticationCLick
  <2>15. CASE complaintSent
    <3>1. FormTypeOK' /\ PhotosReady'
      BY <2>15 DEF complaintSent, On, EndsBy, FormTypeOK, PhotosReady
    <3>2. FeedInv'
      BY <2>15, ComplaintKeeps DEF complaintSent
    <3>3. QED
      BY <2>15, <3>1, <3>2, BankStays, InfoStays DEF complaintSent
  <2>16. QED
    BY <2>1, <2>2, <2>3, <2>4, <2>5, <2>6, <2>7, <2>8, <2>9, <2>10, <2>11, <2>12, <2>13,
       <2>14, <2>15 DEF Next
<1>3. QED
  BY <1>1, <1>2, PTL DEF Spec

(* The forms keep their types for any cells, photographs and limits.       *)
THEOREM TypeCorrect == Spec => []TypeOK
<1>1. FormsInv => TypeOK
  BY DEF FormsInv, FormTypeOK, PhotosReady, BankInv, InfoInv, FeedInv, TypeOK
<1>2. QED
  BY <1>1, FormsInvHolds, PTL

(* A literal ends the application only for a user who is signed out:       *)
(* nextButtonClick of the bank card's and the applicant's page,            *)
(* nofiticationCLick:, useCusAuthInsert, sureButtonClick.                  *)
THEOREM RaisesHolds == Spec => []RaisesOnlySignedOut
<1>1. FormsInv => RaisesOnlySignedOut
  BY DEF FormsInv, FormTypeOK, RaisesOnlySignedOut
<1>2. QED
  BY <1>1, FormsInvHolds, PTL

(* The addresses are mixed up only through a cell that served both rows,   *)
(* whatever the number of cells and their order.                           *)
THEOREM AddressHolds == Spec => []OwnAddress
<1>1. FormsInv => OwnAddress
  BY DEF FormsInv, InfoInv
<1>2. QED
  BY <1>1, FormsInvHolds, PTL

(* Pictures and assets agree, for any number of photographs, until a       *)
(* deletion took twins (detImgButton:).                                    *)
THEOREM AssetsHold == Spec => []AssetsMatchPictures
<1>1. FormsInv => AssetsMatchPictures
  BY DEF FormsInv, FeedInv, Matched, AssetsMatchPictures
<1>2. QED
  BY <1>1, FormsInvHolds, PTL

(* No deletion reaches beyond the assets, twins or not.                    *)
THEOREM DeletionHolds == Spec => []DeletionNeverEnds
<1>1. FormsInv => DeletionNeverEnds
  BY DEF FormsInv, FormTypeOK, DeletionNeverEnds
<1>2. QED
  BY <1>1, FormsInvHolds, PTL
=============================================================================
