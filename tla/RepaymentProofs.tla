--------------------------- MODULE RepaymentProofs ---------------------------
(* Theorems about Repayment, for every set of bills and cards and every    *)
(* number of repayments under way: its type invariant, what a repayment    *)
(* names and pays, the amount beneath an open sheet, and the sums added in *)
(* a float.                                                                *)
EXTENDS Repayment, FiniteSetTheorems, WellFoundedInduction, TLAPS

(* The amounts the screen can hold are amounts.                            *)
LEMMA AmountFacts ==
    /\ NoAmount \in Amount /\ Typed \in Amount
    /\ \A bills \in SUBSET Bill : SumOf(bills) \in Amount
    /\ \A bills \in SUBSET Bill : SumOf(bills) # Typed /\ SumOf(bills) # NoAmount
BY DEF NoAmount, Typed, SumOf, Amount

LEMMA NoRequestType == NoRequest \in Request
BY AmountFacts DEF NoRequest, Request, MaybeCard

(* The variables keep their types.                                         *)
THEOREM TypeCorrect == Spec => []TypeOK
<1>1. Init => TypeOK
  <2> SUFFICES ASSUME Init PROVE TypeOK
    OBVIOUS
  <2>1. req \in [Slot -> Request]
    BY NoRequestType DEF Init
  <2>2. moneyText \in Amount
    BY AmountFacts DEF Init
  <2>3. QED
    BY <2>1, <2>2 DEF Init, TypeOK, Sheet, MaybeCard
<1>2. TypeOK /\ [Next]_vars => TypeOK'
  <2> SUFFICES ASSUME TypeOK, [Next]_vars PROVE TypeOK'
    OBVIOUS
  <2> USE AmountFacts DEF TypeOK
  <2>1. CASE viewDidLoad
    <3>1. req' \in [Slot -> Request]
      BY <2>1, NoRequestType DEF viewDidLoad
    <3>2. moneyText' \in Amount
      BY <2>1 DEF viewDidLoad
    <3>3. QED
      BY <2>1, <3>1, <3>2 DEF viewDidLoad, Sheet, MaybeCard
  <2>2. CASE useGetRepayInsert
    <3>1. ASSUME NEW bills \in SUBSET Bill \ {{}}, NEW c \in Card, NEW b \in bills,
                 dataArray' = bills, dataDictt' = c, selectArray' = {b},
                 moneyText' = SumOf({b}), UNCHANGED crashed
          PROVE  TypeOK'
      <4>1. moneyText' \in Amount
        BY <3>1
      <4>2. QED
        BY <2>2, <3>1, <4>1 DEF useGetRepayInsert, MaybeCard
    <3>2. CASE UNCHANGED <<dataArray, selectArray, dataDictt, moneyText>> /\ crashed' \in BOOLEAN
      BY <2>2, <3>2 DEF useGetRepayInsert
    <3>3. QED
      BY <2>2, <3>1, <3>2 DEF useGetRepayInsert
  <2>3. CASE EditMoney
    BY <2>3 DEF EditMoney, list
  <2>4. ASSUME NEW b \in Bill, selectButtonClick(b) PROVE TypeOK'
    <3>1. selectArray' \subseteq Bill
      BY <2>4 DEF selectButtonClick, Toggled
    <3>2. moneyText' \in Amount
      BY <2>4, <3>1 DEF selectButtonClick
    <3>3. QED
      BY <2>4, <3>1, <3>2 DEF selectButtonClick
  <2>5. CASE sureButtonClick
    BY <2>5 DEF sureButtonClick, Sheet, list
  <2>6. CASE cancleButtonClick
    BY <2>6 DEF cancleButtonClick, Sheet, list
  <2>7. CASE selectBankViewClick
    BY <2>7 DEF selectBankViewClick, On, Top, list
  <2>8. ASSUME NEW c \in Card, notificationClick(c) PROVE TypeOK'
    BY <2>8 DEF notificationClick, popViewController, Top, Sheet, MaybeCard, list
  <2>9. ASSUME NEW s \in Slot, repayButClick(s) PROVE TypeOK'
    <3>1. bankView.card \in MaybeCard /\ bankView' \in Sheet
      BY <2>9 DEF repayButClick, Sheet
    <3>2. req' \in [Slot -> Request]
      <4>1. [sent |-> TRUE, bills |-> selectArray, amt |-> moneyText, card |-> dataDictt,
             chosen |-> bankView.card] \in Request
        BY <3>1 DEF Request
      <4>2. QED
        BY <2>9, <4>1 DEF repayButClick
    <3>3. QED
      BY <2>9, <3>1, <3>2 DEF repayButClick, list
  <2>10. ASSUME NEW s \in Slot, repayReply(s) PROVE TypeOK'
    <3>1. req' \in [Slot -> Request]
      BY <2>10, NoRequestType DEF repayReply
    <3>2. QED
      BY <2>10, <3>1 DEF repayReply, popViewController, Top, list
  <2>11. CASE backAction
    BY <2>11 DEF backAction, popViewController, Top, list
  <2>12. CASE UNCHANGED vars
    BY <2>12 DEF vars, list
  <2>13. QED
    BY <2>1, <2>2, <2>3, <2>4, <2>5, <2>6, <2>7, <2>8, <2>9, <2>10, <2>11, <2>12 DEF Next
<1>3. QED
  BY <1>1, <1>2, PTL DEF Spec

-----------------------------------------------------------------------------
(* The screen and the repayments sent from it, in every state.             *)
IInv == SelectionMatchesField /\ RequestPaysWhatItNames

THEOREM InvHolds == Spec => []IInv
<1> USE DEF IInv, SelectionMatchesField, RequestPaysWhatItNames, Loaded
<1>1. Init => IInv
  BY DEF Init, NoRequest
<1>2. TypeOK /\ IInv /\ [Next]_vars => IInv'
  <2> SUFFICES ASSUME TypeOK, IInv, [Next]_vars PROVE IInv'
    OBVIOUS
  <2>1. CASE viewDidLoad
    BY <2>1 DEF viewDidLoad, NoRequest
  <2>2. CASE useGetRepayInsert
    BY <2>2 DEF useGetRepayInsert
  <2>3. CASE EditMoney
    BY <2>3 DEF EditMoney, list
  <2>4. ASSUME NEW b \in Bill, selectButtonClick(b) PROVE IInv'
    <3>1. selectArray' # {}
      BY <2>4 DEF selectButtonClick, Toggled
    <3>2. QED
      BY <2>4, <3>1 DEF selectButtonClick
  <2>5. CASE sureButtonClick
    BY <2>5 DEF sureButtonClick, list
  <2>6. CASE cancleButtonClick
    BY <2>6 DEF cancleButtonClick, list
  <2>7. CASE selectBankViewClick
    BY <2>7 DEF selectBankViewClick, list
  <2>8. ASSUME NEW c \in Card, notificationClick(c) PROVE IInv'
    BY <2>8 DEF notificationClick, list
  <2>9. ASSUME NEW s \in Slot, repayButClick(s) PROVE IInv'
    <3>1. CASE Loaded
      <4>1. /\ req'[s].bills = selectArray /\ req'[s].amt = moneyText
            /\ req'[s].card = dataDictt /\ dataDictt \in Card
            /\ \A r \in Slot : r # s => req'[r] = req[r]
        BY <2>9, <3>1 DEF repayButClick, TypeOK, MaybeCard
      <4>2. RequestPaysWhatItNames'
        BY <3>1, <4>1
      <4>3. SelectionMatchesField'
        BY <2>9 DEF repayButClick, list
      <4>4. QED
        BY <4>2, <4>3
    <3>2. CASE ~Loaded
      BY <2>9, <3>2 DEF repayButClick, list
    <3>3. QED
      BY <3>1, <3>2
  <2>10. ASSUME NEW s \in Slot, repayReply(s) PROVE IInv'
    BY <2>10 DEF repayReply, NoRequest, TypeOK, list
  <2>11. CASE backAction
    BY <2>11 DEF backAction, list
  <2>12. CASE UNCHANGED vars
    BY <2>12 DEF vars, list
  <2>13. QED
    BY <2>1, <2>2, <2>3, <2>4, <2>5, <2>6, <2>7, <2>8, <2>9, <2>10, <2>11, <2>12 DEF Next
<1>3. QED
  BY <1>1, <1>2, TypeCorrect, PTL DEF Spec

(* A repayment names bills and a card, and pays their sum unless the       *)
(* amount was typed.                                                       *)
THEOREM PaysHolds == Spec => []RequestPaysWhatItNames
<1>1. IInv => RequestPaysWhatItNames
  BY DEF IInv
<1>2. QED
  BY <1>1, InvHolds, PTL

(* Once the list is there, something is selected and the field agrees.     *)
THEOREM SelectionHolds == Spec => []SelectionMatchesField
<1>1. IInv => SelectionMatchesField
  BY DEF IInv
<1>2. QED
  BY <1>1, InvHolds, PTL

(* Only the answer to the list changes the amount beneath an open sheet.   *)
THEOREM SheetHolds == Spec => AmountSettledUnderSheet
<1>1. [Next]_vars =>
        [(bankView.up /\ bankView'.up /\ moneyText' # moneyText) => (asked /\ ~asked')]_vars
  <2> SUFFICES ASSUME Next, bankView.up, bankView'.up, moneyText' # moneyText
               PROVE  asked /\ ~asked'
    OBVIOUS
  <2>1. ~viewDidLoad
    BY DEF viewDidLoad
  <2>2. ~EditMoney /\ \A b \in Bill : ~selectButtonClick(b)
    BY DEF EditMoney, selectButtonClick
  <2>3. /\ ~sureButtonClick /\ ~cancleButtonClick /\ ~selectBankViewClick /\ ~backAction
        /\ \A c \in Card : ~notificationClick(c)
        /\ \A s \in Slot : ~repayButClick(s) /\ ~repayReply(s)
    BY DEF sureButtonClick, cancleButtonClick, selectBankViewClick, backAction,
           notificationClick, repayButClick, repayReply
  <2>4. useGetRepayInsert
    BY <2>1, <2>2, <2>3 DEF Next
  <2>5. QED
    BY <2>4 DEF useGetRepayInsert
<1>2. QED
  BY <1>1, PTL DEF Spec, AmountSettledUnderSheet

-----------------------------------------------------------------------------
(* The roundings of getAllAmutMoney: what each conversion and addition may *)
(* be off by, and that four bills' errors do not add up to half a cent.    *)

(* A set of numbers that has the first and the next of each has them all:  *)
(* of those it lacks one would be the least.                               *)
LEMMA CountingUp ==
    ASSUME NEW Q, 0 \in Q, \A k \in Nat : k \in Q => k + 1 \in Q
    PROVE  Nat \subseteq Q
<1> SUFFICES ASSUME Nat \ Q # {} PROVE FALSE
  OBVIOUS
<1> DEFINE Below(k) == 1..k
           T == {Below(k) : k \in Nat \ Q}
           R == StrictSubsetOrdering(Nat)
<1>1. T \subseteq FiniteSubsetsOf(Nat) /\ T # {}
  <2>1. \A k \in Nat : Below(k) \in SUBSET Nat /\ IsFiniteSet(Below(k))
    BY FS_Interval
  <2>2. QED
    BY <2>1 DEF FiniteSubsetsOf
<1>2. IsWellFoundedOn(R, FiniteSubsetsOf(Nat))
  BY FS_StrictSubsetOrderingWellFounded
<1>3. PICK s \in T : \A t \in T : ~ (<<t, s>> \in R)
  <2> HIDE DEF T, R
  <2>1. QED
    BY <1>1, <1>2, WFMin
<1>4. PICK k \in Nat \ Q : s = Below(k)
  OBVIOUS
<1>5. k # 0 /\ k - 1 \in Nat
  BY <1>4
<1>6. k - 1 \notin Q
  BY <1>5
<1>7. Below(k - 1) \in T
  BY <1>5, <1>6
<1>8. <<Below(k - 1), Below(k)>> \in R
  <2>1. Below(k - 1) \in SUBSET Nat /\ Below(k) \in SUBSET Nat
    BY <1>5
  <2>2. Below(k - 1) \subseteq Below(k) /\ k \in Below(k) /\ k \notin Below(k - 1)
    BY <1>5
  <2>3. QED
    BY <2>1, <2>2 DEF StrictSubsetOrdering
<1>9. QED
  BY <1>3, <1>4, <1>7, <1>8

(* The function that AllMoney chooses exists: it obeys its own recursion.  *)
LEMMA AllMoneyEquation ==
    ASSUME NEW amts, Len(amts) \in Nat
    PROVE  AllMoney(amts) =
             [i \in 0..Len(amts) |->
                IF i = 0 THEN Zero ELSE Plus(AllMoney(amts)[i - 1], floatValue(amts[i]))]
<1> DEFINE n == Len(amts)
           Next1(s, i) == Plus(s, floatValue(amts[i]))
           Obeys(g, k) == g = [i \in 0..k |-> IF i = 0 THEN Zero ELSE Next1(g[i - 1], i)]
           Q == {k \in Nat : \E g : Obeys(g, k)}
<1> HIDE DEF Next1
<1>1. 0 \in Q
  <2>1. Obeys([i \in 0..0 |-> Zero], 0)
    OBVIOUS
  <2>2. QED
    BY <2>1
<1>2. ASSUME NEW k \in Nat, k \in Q PROVE k + 1 \in Q
  <2>1. PICK g : Obeys(g, k)
    BY <1>2
  <2> DEFINE h == [i \in 0..(k + 1) |-> IF i = k + 1 THEN Next1(g[k], i) ELSE g[i]]
  <2>2. \A i \in 0..k : h[i] = g[i]
    OBVIOUS
  <2>3. \A i \in 0..(k + 1) : h[i] = IF i = 0 THEN Zero ELSE Next1(h[i - 1], i)
    <3> SUFFICES ASSUME NEW i \in 0..(k + 1)
                 PROVE  h[i] = IF i = 0 THEN Zero ELSE Next1(h[i - 1], i)
      OBVIOUS
    <3>1. CASE i = k + 1
      <4>1. h[i] = Next1(g[k], i) /\ h[k] = g[k] /\ i - 1 = k /\ i # 0
        BY <3>1
      <4>2. QED
        BY <4>1
    <3>2. CASE i # k + 1
      <4>1. i \in 0..k
        BY <3>2
      <4>2. g[i] = IF i = 0 THEN Zero ELSE Next1(g[i - 1], i)
        BY <2>1, <4>1
      <4>3. i # 0 => h[i - 1] = g[i - 1]
        BY <2>2, <4>1
      <4>4. QED
        BY <2>2, <4>1, <4>2, <4>3
    <3>3. QED
      BY <3>1, <3>2
  <2>4. Obeys(h, k + 1)
    <3> DEFINE hh == [i \in 0..(k + 1) |-> IF i = 0 THEN Zero ELSE Next1(h[i - 1], i)]
    <3>1. h = hh
      BY <2>3
    <3>2. QED
      BY <3>1
  <2>5. \E g1 : Obeys(g1, k + 1)
    <3> HIDE DEF Obeys, h
    <3>1. QED
      BY <2>4
  <2>6. QED
    BY <2>5
<1>3. \E g : Obeys(g, n)
  <2>1. Nat \subseteq Q
    <3> HIDE DEF Q
    <3>1. QED
      BY <1>1, <1>2, CountingUp
  <2>2. QED
    BY <2>1
<1>4. AllMoney(amts) = CHOOSE g : Obeys(g, n)
  BY DEF AllMoney, Next1
<1>5. Obeys(AllMoney(amts), n)
  <2> HIDE DEF Obeys
  <2>1. QED
    BY <1>3, <1>4
<1>6. QED
  BY <1>5 DEF Next1

(* A greater factor makes the product greater by one of the other at least. *)
LEMMA TimesGrows ==
    ASSUME NEW a \in Int, NEW b \in Int, NEW d \in Nat, a < b
    PROVE  a * d + d <= b * d
<1>1. b - a - 1 \in Nat
  OBVIOUS
<1>2. (b - a - 1) * d \in Nat
  BY <1>1
<1>3. (b - a - 1) * d = b * d - a * d - d
  OBVIOUS
<1>4. a * d \in Int /\ b * d \in Int
  OBVIOUS
<1>5. QED
  BY <1>2, <1>3, <1>4

(* Rounding is off by half a unit at most.                                 *)
LEMMA NearestFacts ==
    ASSUME NEW n \in Nat, NEW d \in Nat \ {0}
    PROVE  /\ Nearest(n, d) \in Nat
           /\ 2 * (d * Nearest(n, d) - n) <= d
           /\ 2 * (n - d * Nearest(n, d)) <= d
<1> DEFINE q == n \div d
           r == n % d
<1>1. /\ q \in Nat /\ r \in 0..(d - 1)
      /\ n = d * q + r
  OBVIOUS
<1>2. d * q \in Nat /\ d * (q + 1) = d * q + d
  BY <1>1
<1>3. Nearest(n, d) = IF 2 * r > d \/ (2 * r = d /\ q % 2 = 1) THEN q + 1 ELSE q
  BY DEF Nearest
<1> HIDE DEF q, r
<1>4. CASE 2 * r > d
  BY <1>1, <1>2, <1>3, <1>4
<1>5. CASE 2 * r = d
  BY <1>1, <1>2, <1>3, <1>5
<1>6. CASE 2 * r < d
  BY <1>1, <1>2, <1>3, <1>6
<1>7. QED
  BY <1>1, <1>4, <1>5, <1>6

(* The same as one predicate, for the steps where SMT must not look at it. *)
IsNear(k, n, d) ==
    k \in Nat /\ 2 * (d * k - n) <= d /\ 2 * (n - d * k) <= d

LEMMA NearestIsNear == \A n \in Nat, d \in Nat \ {0} : IsNear(Nearest(n, d), n, d)
BY NearestFacts DEF IsNear

(* The floats of the sums, in units of 2^-30: none of them has finer parts. *)
Scale == 1073741824
Float == {x \in [m : Nat, d : Power] : 8388608 <= x.m}
Unit(x) == Scale \div x.d
Value(x) == x.m * Unit(x)

(* The powers of two: their quotients, and the one at the limit.           *)
LEMMA PowerFacts ==
    /\ \A p \in Power : p \in Nat \ {0} /\ p <= Scale
    /\ \A p \in Power : Scale \div p \in Power /\ p * (Scale \div p) = Scale
    /\ \A p \in Power : p < 4194304 => p <= 2097152
    /\ \A p \in Power : 2097152 < p /\ p < 8388608 => p = 4194304
BY SMT DEF Power, Scale

LEMMA PowerQuotient ==
    \A p, q \in Power : p <= q => /\ q \div p \in Power
                                  /\ p * (q \div p) = q
BY SMTT(60) DEF Power

(* A quotient is at least a exactly if the dividend is at least a times it. *)
LEMMA QuotientFacts ==
    ASSUME NEW n \in Nat, NEW p \in Nat \ {0}
    PROVE  /\ n \div p \in Nat
           /\ \A a \in Nat : a <= n \div p <=> a * p <= n
<1> DEFINE q == n \div p
           r == n % p
<1>1. q \in Nat /\ r \in 0..(p - 1) /\ n = q * p + r
  BY SMT
<1> HIDE DEF q, r
<1>2. ASSUME NEW a \in Nat PROVE a <= q <=> a * p <= n
  <2>1. a * p \in Nat /\ q * p \in Nat
    BY <1>1, SMT
  <2>2. CASE a < q
    BY <1>1, <2>1, <2>2, TimesGrows, SMT
  <2>3. CASE q < a
    BY <1>1, <2>1, <2>3, TimesGrows, SMT
  <2>4. QED
    BY <1>1, <2>1, <2>2, <2>3, SMT
<1>3. QED
  BY <1>1, <1>2, SMT DEF q

(* What it means that a quotient has 24 bits.                              *)
LEMMA QuotientIs24Bits ==
    ASSUME NEW n \in Nat, NEW p \in Nat \ {0}
    PROVE  Has24Bits(n \div p) <=> 8388608 * p <= n /\ n < 16777216 * p
<1> DEFINE q == n \div p
<1>1. q \in Nat /\ \A a \in Nat : a <= q <=> a * p <= n
  BY QuotientFacts, SMT
<1> HIDE DEF q
<1>2. 8388608 <= q <=> 8388608 * p <= n
  BY <1>1, SMT
<1>3. 16777216 <= q <=> 16777216 * p <= n
  BY <1>1, SMT
<1>4. Has24Bits(q) <=> 8388608 * p <= n /\ n < 16777216 * p
  BY <1>1, <1>2, <1>3, SMT DEF Has24Bits
<1>5. QED
  BY <1>4, SMT DEF q

(* An amount up to the limit becomes a float, off by 64 parts at most of   *)
(* 100 * 2^30 for each cent: half a unit of its last bit.                  *)
LEMMA FloatValueFacts ==
    ASSUME NEW c \in Nat \ {0}, c <= FloatLimit
    PROVE  /\ floatValue(c) \in Float
           /\ 100 * Value(floatValue(c)) - Scale * c <= 64 * c
           /\ Scale * c - 100 * Value(floatValue(c)) <= 64 * c
<1> DEFINE Fits(p) == Has24Bits((c * p) \div 100)
           d == CHOOSE p \in Power : Fits(p)
           n == c * d
           m == Nearest(n, 100)
           u == Scale \div d
           v == m * u
<1>1. ASSUME NEW p \in Power
      PROVE  Fits(p) <=> 838860800 <= c * p /\ c * p < 1677721600
  <2>1. c * p \in Nat
    BY PowerFacts, SMT
  <2>2. QED
    BY <2>1, QuotientIs24Bits, SMT
<1>2. \E p \in Power : 838860800 <= c * p /\ c * p < 1677721600
  BY SMTT(60) DEF Power, FloatLimit
<1>3. d \in Power /\ 838860800 <= n /\ n < 1677721600
  <2> HIDE DEF Fits
  <2>1. \E p \in Power : Fits(p)
    BY <1>1, <1>2, SMT
  <2>2. d \in Power /\ Fits(d)
    BY <2>1, SMT
  <2> HIDE DEF d
  <2>3. QED
    BY <1>1, <2>2, SMT
<1>4. floatValue(c) = [m |-> m, d |-> d]
  BY SMT DEF floatValue
<1> HIDE DEF Fits, d
<1>5. d \in Nat \ {0} /\ u \in Nat \ {0} /\ d * u = Scale
  BY <1>3, PowerFacts, SMT
<1>6. n \in Nat /\ n * u = c * Scale
  BY <1>5, SMT
<1> HIDE DEF n, u
<1>7. m \in Nat /\ 2 * (100 * m - n) <= 100 /\ 2 * (n - 100 * m) <= 100
  <2>1. 100 \in Nat \ {0}
    BY SMT
  <2>2. /\ Nearest(n, 100) \in Nat
        /\ 2 * (100 * Nearest(n, 100) - n) <= 100
        /\ 2 * (n - 100 * Nearest(n, 100)) <= 100
    BY <1>6, <2>1, NearestFacts, Zenon
  <2>3. QED
    BY <2>2, SMT
<1> HIDE DEF m
<1>8. m \in Nat /\ 8388608 <= m
  BY <1>3, <1>6, <1>7, SMT
<1>9. Value(floatValue(c)) = v
  BY <1>4, SMT DEF Value, Unit, u
<1>10. 838860800 * u <= n * u
  BY <1>3, <1>5, <1>6, SMT
<1>11. 100 * v - n * u <= 50 * u /\ n * u - 100 * v <= 50 * u
  <2>1. (100 * m - n) * u <= 50 * u /\ (n - 100 * m) * u <= 50 * u
    BY <1>5, <1>6, <1>7, SMT
  <2>2. /\ (100 * m - n) * u = 100 * v - n * u
        /\ (n - 100 * m) * u = n * u - 100 * v
    BY <1>5, <1>6, <1>7, SMT
  <2>3. QED
    BY <2>1, <2>2, SMT
<1>12. v \in Nat
  BY <1>5, <1>7, SMT
<1> HIDE DEF v
<1>13. /\ 100 * v - Scale * c <= 64 * c
       /\ Scale * c - 100 * v <= 64 * c
  <2>1. 838860800 * u <= 1073741824 * c
    BY <1>6, <1>10, SMT DEF Scale
  <2>2. 100 * v - 1073741824 * c <= 50 * u /\ 1073741824 * c - 100 * v <= 50 * u
    BY <1>6, <1>11, SMT DEF Scale
  <2>3. QED
    BY <1>5, <1>12, <2>1, <2>2, SMT DEF Scale
<1>14. floatValue(c) \in Float
  BY <1>3, <1>4, <1>8, SMT DEF Float
<1>15. QED
  BY <1>9, <1>13, <1>14, SMT

(* A float's denominator times its unit is 2^30.                           *)
LEMMA FloatFacts ==
    ASSUME NEW x \in Float
    PROVE  /\ x.m \in Nat /\ 8388608 <= x.m /\ x.d \in Power /\ x.d \in Nat \ {0}
           /\ Unit(x) \in Power /\ Unit(x) \in Nat \ {0} /\ x.d * Unit(x) = Scale
           /\ Value(x) \in Nat
<1>1. x.m \in Nat /\ 8388608 <= x.m /\ x.d \in Power
  BY SMT DEF Float
<1>2. Unit(x) \in Power /\ x.d * Unit(x) = Scale
  BY <1>1, PowerFacts, SMT DEF Unit
<1>3. x.d \in Nat \ {0} /\ Unit(x) \in Nat \ {0}
  BY <1>1, <1>2, PowerFacts, SMT
<1>4. QED
  BY <1>1, <1>2, <1>3, SMT DEF Value

(* Over a finer denominator q a float stands for the same value.           *)
LEMMA FinerFacts ==
    ASSUME NEW x \in Float, NEW q \in Power, x.d <= q
    PROVE  /\ x.m * (q \div x.d) \in Nat /\ x.m <= x.m * (q \div x.d)
           /\ x.m * (q \div x.d) * (Scale \div q) = Value(x)
<1> DEFINE a == x.d
           b == q \div a
           e == Scale \div q
           u == Unit(x)
           k == x.m
<1>1. /\ k \in Nat /\ a \in Nat \ {0} /\ u \in Nat \ {0}
      /\ a * u = Scale /\ Value(x) = k * u
  BY FloatFacts, SMT DEF Value
<1>2. b \in Nat \ {0} /\ a * b = q
  BY FloatFacts, PowerFacts, PowerQuotient, SMT
<1>3. q \in Nat \ {0} /\ e \in Nat \ {0} /\ q * e = Scale
  BY PowerFacts, SMT
<1> HIDE DEF a, b, e, u, k
<1>4. b * e = u
  <2>1. a * (b * e) = a * u
    BY <1>1, <1>2, <1>3, SMT
  <2>2. QED
    BY <1>1, <1>2, <1>3, <2>1, SMT
<1>5. k * b * e = k * u /\ k * b \in Nat /\ k <= k * b
  BY <1>1, <1>2, <1>3, <1>4, SMT
<1>6. QED
  BY <1>1, <1>5, SMT DEF a, b, e, u, k

(* A sum below 65536.00 becomes a float off by half a unit of its last bit *)
(* at most, and the unit is one that leaves the sum 24 bits.               *)
LEMMA PlusFacts ==
    ASSUME NEW x \in Float, NEW y \in Float, Value(x) + Value(y) < 70368744177664
    PROVE  LET z == Plus(x, y)
               v == Value(x) + Value(y)
           IN  /\ z \in Float
               /\ 2 * (Value(z) - v) <= Unit(z) /\ 2 * (v - Value(z)) <= Unit(z)
               /\ 8388608 * Unit(z) <= v /\ v < 16777216 * Unit(z)
<1> DEFINE d == IF x.d > y.d THEN x.d ELSE y.d
           n == x.m * (d \div x.d) + y.m * (d \div y.d)
           s == CHOOSE p \in Power : Has24Bits(n \div p)
           m == Nearest(n, s)
           z == [m |-> m, d |-> d \div s]
           u == Scale \div d
           v == Value(x) + Value(y)
           e == Unit(z)
<1>1. d \in Power /\ x.d <= d /\ y.d <= d
  BY FloatFacts, SMT
<1>2. Plus(x, y) = z
  <2>1. x # Zero
    BY FloatFacts, SMT DEF Zero
  <2>2. QED
    BY <2>1, SMT DEF Plus
<1> HIDE DEF d
<1>3. d \in Nat \ {0} /\ d <= Scale /\ u \in Nat \ {0} /\ d * u = Scale
  BY <1>1, PowerFacts, SMT
<1>4. n \in Nat /\ 8388608 <= n /\ n * u = v
  <2> DEFINE k == x.m * (d \div x.d)
             l == y.m * (d \div y.d)
  <2>1. k \in Nat /\ x.m <= k /\ k * u = Value(x)
    BY <1>1, FinerFacts, SMT
  <2>2. l \in Nat /\ k \in Nat /\ l * u = Value(y)
    BY <1>1, FinerFacts, SMT
  <2>3. x.m \in Nat /\ 8388608 <= x.m
    BY FloatFacts, SMT
  <2>4. n = k + l
    BY SMT
  <2> HIDE DEF k, l, n, u
  <2>5. QED
    BY <1>3, <2>1, <2>2, <2>3, <2>4, SMT
<1> HIDE DEF n, u
<1>5. v \in Nat /\ v < 70368744177664
  BY FloatFacts, SMT
<1> HIDE DEF v
<1>6. s \in Power /\ 8388608 * s <= n /\ n < 16777216 * s
  <2>1. n < 70368744177664
    BY <1>3, <1>4, <1>5, SMT
  <2>2. \E p \in Power : 8388608 * p <= n /\ n < 16777216 * p
    BY <1>4, <2>1, SMTT(60) DEF Power
  <2>3. \A p \in Power : Has24Bits(n \div p) <=> 8388608 * p <= n /\ n < 16777216 * p
    <3> SUFFICES ASSUME NEW p \in Power
                 PROVE  Has24Bits(n \div p) <=> 8388608 * p <= n /\ n < 16777216 * p
      BY SMT
    <3>1. p \in Nat \ {0}
      BY PowerFacts, SMT
    <3>2. QED
      BY <1>4, <3>1, QuotientIs24Bits, SMT
  <2> DEFINE Fits(p) == Has24Bits(n \div p)
  <2>4. s \in Power /\ Fits(s)
    <3>1. \E p \in Power : Fits(p)
      BY <2>2, <2>3, SMT
    <3> HIDE DEF Fits
    <3>2. s = CHOOSE p \in Power : Fits(p)
      BY SMT DEF Fits
    <3>3. QED
      BY <3>1, <3>2, SMT
  <2> HIDE DEF s
  <2>5. QED
    BY <2>3, <2>4, SMT
<1> HIDE DEF s
<1>7. s \in Nat \ {0}
  BY <1>6, PowerFacts, SMT
<1>8. s <= d
  <2>1. 8388608 * s * u <= v
    BY <1>3, <1>4, <1>6, <1>7, SMT
  <2>2. s * u <= 8388608
    BY <1>3, <1>5, <1>7, <2>1, SMT
  <2>3. s * u <= d * u
    <3>1. d * u = 1073741824
      BY <1>3, SMT DEF Scale
    <3>2. QED
      BY <1>3, <1>7, <2>2, <3>1, SMT
  <2>4. ~(d < s)
    <3>1. d < s => d * u + u <= s * u
      BY <1>3, <1>7, TimesGrows, SMT
    <3>2. s * u \in Nat /\ d * u \in Nat
      BY <1>3, <1>7, SMT
    <3>3. QED
      BY <1>3, <2>3, <3>1, <3>2, SMT
  <2>5. QED
    BY <1>3, <1>7, <2>4, SMT
<1>9. d \div s \in Power /\ s * (d \div s) = d
  BY <1>1, <1>6, <1>8, PowerQuotient, SMT
<1>10. /\ m \in Nat
       /\ 2 * (s * m - n) <= s /\ 2 * (n - s * m) <= s
  <2>1. n \in Nat
    BY <1>4, SMT
  <2>2. IsNear(m, n, s)
    BY <1>7, <2>1, NearestIsNear, SMT
  <2> HIDE DEF m
  <2>3. QED
    BY <2>2, SMT DEF IsNear
<1> HIDE DEF m
<1>11. 8388608 <= m
  <2>1. ~(m < 8388608)
    <3>1. m < 8388608 => m * s + s <= 8388608 * s
      BY <1>7, <1>10, TimesGrows, SMT
    <3>2. m * s = s * m /\ s * m \in Nat
      BY <1>7, <1>10, SMT
    <3>3. QED
      BY <1>4, <1>6, <1>7, <1>10, <3>1, <3>2, SMT
  <2>2. QED
    BY <1>10, <2>1, SMT
<1>12. z \in Float
  BY <1>9, <1>10, <1>11, SMT DEF Float
<1>13. e \in Nat \ {0} /\ (d \div s) * e = Scale /\ Value(z) = m * e
  BY <1>12, FloatFacts, SMT DEF Value
<1>14. e = s * u
  <2> DEFINE b == d \div s
  <2>1. b \in Nat \ {0} /\ s * b = d /\ b * e = Scale
    BY <1>9, <1>13, PowerFacts, SMT
  <2> HIDE DEF b, e
  <2>2. b * (s * u) = b * e
    BY <1>3, <1>7, <1>13, <2>1, SMT
  <2>3. QED
    BY <1>3, <1>7, <1>13, <2>1, <2>2, SMT
<1> HIDE DEF e, z
<1>15. 8388608 * e <= v /\ v < 16777216 * e
  BY <1>3, <1>4, <1>6, <1>7, <1>14, SMT
<1>16. 2 * (m * e - v) <= e /\ 2 * (v - m * e) <= e
  <2>1. (2 * (s * m - n)) * u <= s * u /\ (2 * (n - s * m)) * u <= s * u
    BY <1>3, <1>4, <1>7, <1>10, SMT
  <2>2. /\ (2 * (s * m - n)) * u = 2 * (m * (s * u) - n * u)
        /\ (2 * (n - s * m)) * u = 2 * (n * u - m * (s * u))
    BY <1>3, <1>4, <1>7, <1>10, SMT
  <2>3. QED
    BY <1>4, <1>14, <2>1, <2>2, SMT
<1>17. QED
  BY <1>2, <1>12, <1>13, <1>15, <1>16, SMT DEF v, e

(* x is within e, in parts 100 times as fine as those of Value, of t cents. *)
Within(x, t, e) ==
    /\ 100 * Value(x) - Scale * t <= e
    /\ Scale * t - 100 * Value(x) <= e

(* What the sum of k + 1 bills that come to t cents may be off by below    *)
(* the limit, and what any sum may be off by that is not above it.         *)
Bound(t, k) == 64 * t + k * 104857600
Most == 524288000

(* One bill more, in a sum of at most three so far: up to the limit the    *)
(* addition is off by 2^20 of the units of Value at most, and at the limit *)
(* itself, where the floats lie twice as far apart, by one unit.           *)
LEMMA OneMore ==
    ASSUME NEW x \in Float, NEW y \in Float, NEW t \in Nat, NEW c \in Nat, NEW k \in Nat,
           k <= 2, t + c <= FloatLimit,
           Within(x, t, Bound(t, k)),
           Within(y, c, 64 * c)
    PROVE  /\ Plus(x, y) \in Float
           /\ Within(Plus(x, y), t + c, Most)
           /\ t + c < FloatLimit =>
                 Within(Plus(x, y), t + c, Bound(t + c, k + 1))
<1> DEFINE z == Plus(x, y)
           v == Value(x) + Value(y)
           u == Unit(z)
           w == Value(z)
<1>1. Value(x) \in Nat /\ Value(y) \in Nat
  BY FloatFacts, SMT
<1>2. v \in Nat
  BY <1>1, SMT
<1>3. /\ 100 * v - 1073741824 * (t + c) <= 64 * (t + c) + k * 104857600
      /\ 1073741824 * (t + c) - 100 * v <= 64 * (t + c) + k * 104857600
  BY <1>1, SMT DEF Within, Scale, Bound
<1>4. t + c <= 3276800
  BY SMT DEF FloatLimit
<1>5. v < 70368744177664
  BY <1>2, <1>3, <1>4, SMT
<1>6. /\ z \in Float
      /\ 2 * (w - v) <= u /\ 2 * (v - w) <= u
      /\ 8388608 * u <= v /\ v < 16777216 * u
  BY <1>5, PlusFacts, SMT
<1> HIDE DEF v, z
<1>7. z.m \in Nat /\ u \in Power /\ u \in Nat \ {0} /\ w = z.m * u /\ w \in Nat
  BY <1>6, FloatFacts, SMT DEF Value
<1>8. u \in Int /\ v \in Int
  BY <1>2, <1>7, SMT
<1> HIDE DEF u, w
<1>9. CASE v < 35184372088832
  <2>1. u < 4194304
    BY <1>6, <1>9, <1>8, SMT
  <2>2. u <= 2097152
    BY <1>7, <2>1, PowerFacts, SMT
  <2>3. w - v <= 1048576 /\ v - w <= 1048576
    BY <1>2, <1>6, <1>7, <2>2, SMT
  <2>4. /\ 100 * w - 1073741824 * (t + c) <= 64 * (t + c) + (k + 1) * 104857600
        /\ 1073741824 * (t + c) - 100 * w <= 64 * (t + c) + (k + 1) * 104857600
    BY <1>2, <1>3, <1>7, <2>3, SMT
  <2>5. Within(z, t + c, Bound(t + c, k + 1))
    BY <2>4, SMT DEF Within, w, Scale, Bound
  <2>6. 64 * (t + c) + (k + 1) * 104857600 <= 524288000
    BY <1>4, SMT
  <2>7. Within(z, t + c, Most)
    BY <1>7, <2>4, <2>6, SMT DEF Within, w, Scale, Most
  <2>8. QED
    BY <1>6, <2>5, <2>7, SMT DEF z
<1>10. CASE 35184372088832 <= v
  <2>1. t + c = 3276800
    BY <1>2, <1>3, <1>4, <1>10, SMT
  <2>2. v <= 35184376283136
    BY <1>2, <1>3, <2>1, SMT
  <2>3. 2097152 < u /\ u < 8388608
    BY <1>6, <1>10, <1>8, <2>2, SMT
  <2>4. u = 4194304
    BY <1>7, <2>3, PowerFacts, SMT
  <2>5. w = 4194304 * z.m
    BY <1>7, <2>4, SMT
  <2>6. w - 35184372088832 <= 4194304 /\ 35184372088832 - w <= 4194304
    BY <1>2, <1>6, <1>7, <1>10, <2>2, <2>4, <2>5, SMT
  <2>7. Within(z, t + c, Most)
    BY <1>7, <2>1, <2>6, SMT DEF Within, w, Scale, Most
  <2>8. QED
    BY <1>6, <2>1, <2>7, SMT DEF z, FloatLimit
<1>11. QED
  BY <1>2, <1>9, <1>10, SMT

(* So does that of Totals.                                                 *)
LEMMA TotalsEquation ==
    ASSUME NEW amts, Len(amts) \in Nat
    PROVE  Totals(amts) =
             [i \in 0..Len(amts) |-> IF i = 0 THEN 0 ELSE Totals(amts)[i - 1] + amts[i]]
<1> DEFINE n == Len(amts)
           Next1(s, i) == s + amts[i]
           Obeys(g, k) == g = [i \in 0..k |-> IF i = 0 THEN 0 ELSE Next1(g[i - 1], i)]
           Q == {k \in Nat : \E g : Obeys(g, k)}
<1> HIDE DEF Next1
<1>1. 0 \in Q
  <2>1. Obeys([i \in 0..0 |-> 0], 0)
    OBVIOUS
  <2>2. QED
    BY <2>1
<1>2. ASSUME NEW k \in Nat, k \in Q PROVE k + 1 \in Q
  <2>1. PICK g : Obeys(g, k)
    BY <1>2
  <2> DEFINE h == [i \in 0..(k + 1) |-> IF i = k + 1 THEN Next1(g[k], i) ELSE g[i]]
  <2>2. \A i \in 0..k : h[i] = g[i]
    OBVIOUS
  <2>3. \A i \in 0..(k + 1) : h[i] = IF i = 0 THEN 0 ELSE Next1(h[i - 1], i)
    <3> SUFFICES ASSUME NEW i \in 0..(k + 1)
                 PROVE  h[i] = IF i = 0 THEN 0 ELSE Next1(h[i - 1], i)
      OBVIOUS
    <3>1. CASE i = k + 1
      <4>1. h[i] = Next1(g[k], i) /\ h[k] = g[k] /\ i - 1 = k /\ i # 0
        BY <3>1
      <4>2. QED
        BY <4>1
    <3>2. CASE i # k + 1
      <4>1. i \in 0..k
        BY <3>2
      <4>2. g[i] = IF i = 0 THEN 0 ELSE Next1(g[i - 1], i)
        BY <2>1, <4>1
      <4>3. i # 0 => h[i - 1] = g[i - 1]
        BY <2>2, <4>1
      <4>4. QED
        BY <2>2, <4>1, <4>2, <4>3
    <3>3. QED
      BY <3>1, <3>2
  <2>4. Obeys(h, k + 1)
    <3> DEFINE hh == [i \in 0..(k + 1) |-> IF i = 0 THEN 0 ELSE Next1(h[i - 1], i)]
    <3>1. h = hh
      BY <2>3
    <3>2. QED
      BY <3>1
  <2>5. \E g1 : Obeys(g1, k + 1)
    <3> HIDE DEF Obeys, h
    <3>1. QED
      BY <2>4
  <2>6. QED
    BY <2>5
<1>3. \E g : Obeys(g, n)
  <2>1. Nat \subseteq Q
    <3> HIDE DEF Q
    <3>1. QED
      BY <1>1, <1>2, CountingUp
  <2>2. QED
    BY <2>1
<1>4. Totals(amts) = CHOOSE g : Obeys(g, n)
  BY DEF Totals, Next1
<1>5. Obeys(Totals(amts), n)
  <2> HIDE DEF Obeys
  <2>1. QED
    BY <1>3, <1>4
<1>6. QED
  BY <1>5 DEF Next1

(* The running totals of positive amounts grow up to the last.             *)
LEMMA TotalsGrow ==
    ASSUME NEW n \in Nat, NEW amts \in [1..n -> Nat \ {0}]
    PROVE  /\ Totals(amts)[0] = 0
           /\ \A i \in 1..n : Totals(amts)[i] = Totals(amts)[i - 1] + amts[i]
           /\ \A i \in 0..n : Totals(amts)[i] \in Nat
           /\ \A i \in 0..n : i < n => Totals(amts)[i] < Totals(amts)[n]
<1> DEFINE T == Totals(amts)
<1>1. Len(amts) = n
  OBVIOUS
<1>2. T[0] = 0 /\ \A i \in 1..n : T[i] = T[i - 1] + amts[i]
  BY <1>1, TotalsEquation
<1> HIDE DEF T
<1>3. \A i \in 0..n : T[i] \in Nat
  <2> DEFINE Q == {k \in Nat : k <= n => T[k] \in Nat}
  <2>1. 0 \in Q
    BY <1>2
  <2>2. ASSUME NEW k \in Nat, k \in Q PROVE k + 1 \in Q
    BY <1>2, <2>2
  <2>3. Nat \subseteq Q
    <3> HIDE DEF Q
    <3>1. QED
      BY <2>1, <2>2, CountingUp
  <2>4. QED
    BY <2>3
<1>4. \A i \in 0..n : i < n => T[i] < T[n]
  <2> DEFINE Q == {k \in Nat : k <= n => \A i \in 0..n : i < k => T[i] < T[k]}
  <2>1. 0 \in Q
    OBVIOUS
  <2>2. ASSUME NEW k \in Nat, k \in Q PROVE k + 1 \in Q
    <3> SUFFICES ASSUME k + 1 <= n, NEW i \in 0..n, i < k + 1 PROVE T[i] < T[k + 1]
      OBVIOUS
    <3>1. T[i] \in Nat /\ T[k] \in Nat
      BY <1>3
    <3>2. T[k + 1] = T[k] + amts[k + 1] /\ amts[k + 1] \in Nat \ {0}
      BY <1>2
    <3>3. i = k \/ T[i] < T[k]
      BY <2>2
    <3>4. QED
      BY <3>1, <3>2, <3>3
  <2>3. Nat \subseteq Q
    <3> HIDE DEF Q
    <3>1. QED
      BY <2>1, <2>2, CountingUp
  <2>4. QED
    BY <2>3
<1>5. QED
  BY <1>2, <1>3, <1>4 DEF T

(* After each of at most four bills the running sum is a float and near    *)
(* the running total.                                                      *)
LEMMA AllMoneyIsNear ==
    ASSUME NEW n \in Nat, n <= BillLimit, NEW amts \in [1..n -> Nat \ {0}],
           Total(amts) <= FloatLimit
    PROVE  \A i \in 1..n : /\ AllMoney(amts)[i] \in Float
                           /\ Within(AllMoney(amts)[i], Totals(amts)[i], Most)
<1> DEFINE T == Totals(amts)
           M == AllMoney(amts)
           Near(i) == /\ M[i] \in Float
                      /\ Within(M[i], T[i], Most)
                      /\ T[i] < FloatLimit => Within(M[i], T[i], Bound(T[i], i - 1))
           Q == {k \in Nat : k + 1 <= n => Near(k + 1)}
<1>1. /\ T[0] = 0
      /\ \A i \in 1..n : T[i] = T[i - 1] + amts[i]
      /\ \A i \in 0..n : T[i] \in Nat
      /\ \A i \in 0..n : i < n => T[i] < T[n]
  BY TotalsGrow, Zenon
<1>2. T[n] <= FloatLimit
  BY SMT DEF Total
<1>3. M[0] = Zero /\ \A i \in 1..n : M[i] = Plus(M[i - 1], floatValue(amts[i]))
  BY AllMoneyEquation, SMT
<1> HIDE DEF T, M
<1>4. \A i \in 1..n : amts[i] \in Nat \ {0} /\ amts[i] <= FloatLimit
  <2> SUFFICES ASSUME NEW i \in 1..n PROVE amts[i] \in Nat \ {0} /\ amts[i] <= FloatLimit
    BY SMT
  <2>1. T[i] = T[i - 1] + amts[i] /\ T[i - 1] \in Nat /\ T[i] \in Nat /\ T[n] \in Nat
    BY <1>1, SMT
  <2>2. i = n \/ T[i] < T[n]
    BY <1>1, SMT
  <2>3. QED
    BY <1>2, <2>1, <2>2, SMT DEF FloatLimit
<1>5. \A i \in 1..n : /\ floatValue(amts[i]) \in Float
                      /\ Within(floatValue(amts[i]), amts[i], 64 * amts[i])
  BY <1>4, FloatValueFacts, SMT DEF Within
<1>6. 0 \in Q
  <2> SUFFICES ASSUME 1 <= n PROVE Near(1)
    BY SMT
  <2>1. M[1] = floatValue(amts[1]) /\ T[1] = amts[1]
    <3>1. M[1] = Plus(M[0], floatValue(amts[1]))
      BY <1>3, SMT
    <3>2. T[1] = T[0] + amts[1]
      BY <1>1, SMT
    <3>3. QED
      BY <1>1, <1>3, <3>1, <3>2, SMT DEF Plus
  <2>2. amts[1] \in Nat /\ 64 * amts[1] <= 524288000
    BY <1>4, SMT DEF FloatLimit
  <2>3. M[1] \in Float /\ Within(M[1], T[1], 64 * T[1])
    BY <1>5, <2>1, SMT
  <2>4. Within(M[1], T[1], Most)
    <3>1. Value(M[1]) \in Nat
      BY <2>3, FloatFacts, SMT
    <3>2. QED
      BY <2>1, <2>2, <2>3, <3>1, SMT DEF Within, Scale, Most
  <2>5. Bound(T[1], 1 - 1) = 64 * T[1]
    BY <2>1, <2>2, SMT DEF Bound
  <2>6. QED
    BY <2>3, <2>4, <2>5, SMT
<1>7. ASSUME NEW k \in Nat, k \in Q PROVE k + 1 \in Q
  <2> SUFFICES ASSUME k + 2 <= n PROVE Near(k + 2)
    BY SMT
  <2> DEFINE x == M[k + 1]
             y == floatValue(amts[k + 2])
             t == T[k + 1]
             c == amts[k + 2]
  <2>1. k <= 2 /\ k + 1 \in 0..n /\ k + 2 \in 1..n
    BY SMT DEF BillLimit
  <2>2. M[k + 2] = Plus(x, y) /\ T[k + 2] = t + c
    <3>1. (k + 2) - 1 = k + 1
      BY SMT
    <3>2. QED
      BY <1>1, <1>3, <2>1, <3>1, SMT
  <2>3. t \in Nat /\ c \in Nat /\ t < FloatLimit /\ t + c <= FloatLimit
    <3>1. t \in Nat /\ c \in Nat /\ t < T[n] /\ T[k + 2] \in Nat /\ T[n] \in Nat
      BY <1>1, <1>4, <2>1, SMT
    <3>2. k + 2 = n \/ T[k + 2] < T[n]
      BY <1>1, <2>1, SMT
    <3>3. QED
      BY <1>2, <2>2, <3>1, <3>2, SMT DEF FloatLimit
  <2>4. x \in Float /\ Within(x, t, Bound(t, k))
    <3>1. Near(k + 1)
      BY <1>7, <2>1, SMT
    <3>2. (k + 1) - 1 = k
      BY SMT
    <3>3. QED
      BY <2>3, <3>1, <3>2, SMT
  <2>5. y \in Float /\ Within(y, c, 64 * c)
    BY <1>5, <2>1, SMT
  <2> HIDE DEF x, y, t, c
  <2>6. /\ Plus(x, y) \in Float
        /\ Within(Plus(x, y), t + c, Most)
        /\ t + c < FloatLimit => Within(Plus(x, y), t + c, Bound(t + c, k + 1))
    BY <2>1, <2>3, <2>4, <2>5, OneMore, Zenon
  <2>7. (k + 2) - 1 = k + 1
    BY SMT
  <2>8. QED
    BY <2>2, <2>6, <2>7, SMT
<1>8. Nat \subseteq Q
  <2> HIDE DEF Q
  <2>1. QED
    BY <1>6, <1>7, CountingUp, Zenon
<1>9. \A i \in 1..n : Near(i)
  <2> SUFFICES ASSUME NEW i \in 1..n PROVE Near(i)
    BY SMT
  <2>1. i - 1 \in Nat /\ (i - 1) + 1 = i
    BY SMT
  <2> HIDE DEF Near
  <2>2. i - 1 \in Q
    <3> HIDE DEF Q
    <3>1. QED
      BY <1>8, <2>1, SMT
  <2>3. QED
    BY <2>1, <2>2, SMT
<1>10. QED
  BY <1>9, SMT DEF M, T

(* %.2f is right about every float within 0.4883 cents of the amount.      *)
THEOREM PrintedHolds ==
    ASSUME NEW x \in Float, NEW c \in Nat, Within(x, c, Most)
    PROVE  Printed(x) = c
<1> DEFINE d == x.d
           n == 100 * x.m
           p == Nearest(n, d)
           u == Unit(x)
           w == Value(x)
<1>1. /\ d \in Nat \ {0} /\ u \in Nat \ {0} /\ d * u = 1073741824
      /\ n \in Nat /\ w \in Nat /\ n * u = 100 * w
  BY FloatFacts, SMT DEF Value, Scale
<1>2. Printed(x) = p
  BY SMT DEF Printed
<1>3. 100 * w - 1073741824 * c <= 524288000 /\ 1073741824 * c - 100 * w <= 524288000
  BY SMT DEF Within, Scale, Most
<1> HIDE DEF d, n, u, w
<1>4. IsNear(p, n, d)
  BY <1>1, NearestIsNear, SMT
<1> HIDE DEF p
<1>5. p \in Nat /\ 2 * (d * p - n) <= d /\ 2 * (n - d * p) <= d
  BY <1>4, SMT DEF IsNear
<1>6. (2 * (d * p - n)) * u <= d * u /\ (2 * (n - d * p)) * u <= d * u
  BY <1>1, <1>5, SMT
<1>7. /\ (2 * (d * p - n)) * u = 2 * (p * (d * u) - n * u)
      /\ (2 * (n - d * p)) * u = 2 * (n * u - p * (d * u))
  BY <1>1, <1>5, SMT
<1>8. /\ 2 * (p * 1073741824 - 100 * w) <= 1073741824
      /\ 2 * (100 * w - p * 1073741824) <= 1073741824
  BY <1>1, <1>6, <1>7, SMT
<1>9. p = c
  BY <1>1, <1>3, <1>5, <1>8, SMT
<1>10. QED
  BY <1>2, <1>9, SMT

(* getAllAmutMoney of at most four amounts that come to 32768.00 or less   *)
(* prints what they come to.                                               *)
THEOREM SumsHold ==
    ASSUME NEW n \in Nat, n <= BillLimit, NEW amts \in [1..n -> Nat \ {0}],
           Total(amts) <= FloatLimit
    PROVE  getAllAmutMoney(amts) = Total(amts)
<1>1. Len(amts) = n
  BY SMT
<1>2. Totals(amts)[n] \in Nat
  BY TotalsGrow, SMT
<1>3. CASE n = 0
  <2>1. AllMoney(amts)[0] = Zero /\ Totals(amts)[0] = 0
    BY <1>1, AllMoneyEquation, TotalsGrow, SMT
  <2>2. Printed(Zero) = 0
    BY SMT DEF Printed, Zero, Nearest
  <2>3. QED
    BY <1>1, <1>3, <2>1, <2>2, SMT DEF getAllAmutMoney, Total
<1>4. CASE n # 0
  <2>1. /\ AllMoney(amts)[n] \in Float
        /\ Within(AllMoney(amts)[n], Totals(amts)[n], Most)
    BY <1>4, AllMoneyIsNear, SMT
  <2>2. Printed(AllMoney(amts)[n]) = Totals(amts)[n]
    BY <1>2, <2>1, PrintedHolds, SMT
  <2>3. QED
    BY <1>1, <2>2, SMT DEF getAllAmutMoney, Total
<1>5. QED
  BY <1>3, <1>4, SMT

(* So it is with every set of bills in every order.                        *)
LEMMA AllSumToTheCent == \A S \in SUBSET Bill : SumsToTheCent[S]
<1> SUFFICES ASSUME NEW S \in SUBSET Bill, NEW dueAmt \in Due, NEW o \in Orders(S),
                    Cardinality(S) <= BillLimit,
                    Total([i \in DOMAIN o |-> dueAmt[o[i]]]) <= FloatLimit
             PROVE  getAllAmutMoney([i \in DOMAIN o |-> dueAmt[o[i]]])
                      = Total([i \in DOMAIN o |-> dueAmt[o[i]]])
  BY SMT DEF SumsToTheCent
<1> DEFINE amts == [i \in DOMAIN o |-> dueAmt[o[i]]]
           n == Cardinality(S)
<1>1. n \in Nat
  BY DueAssumption, FS_Subset, FS_CardinalityType
<1>2. o \in [1..n -> S] /\ dueAmt \in [Bill -> Nat \ {0}]
  BY DueAssumption, SMT DEF Orders
<1>3. amts \in [1..n -> Nat \ {0}]
  BY <1>2, SMT
<1> HIDE DEF amts, n
<1>4. n <= BillLimit /\ Total(amts) <= FloatLimit
  BY SMT DEF amts, n
<1>5. getAllAmutMoney(amts) = Total(amts)
  BY <1>1, <1>3, <1>4, SumsHold, SMT
<1>6. QED
  BY <1>5, SMT DEF amts

(* Whatever bills there are and whatever they come to, a repayment of four *)
(* bills or fewer that come to 32768.00 at most asks for their sum to the  *)
(* cent, in whatever order they were selected.                             *)
THEOREM CentsHold == Spec => []SumToTheCent
<1>1. TypeOK => SumToTheCent
  <2> SUFFICES ASSUME TypeOK, NEW s \in Slot PROVE SumsToTheCent[req[s].bills]
    BY DEF SumToTheCent
  <2>1. req[s].bills \in SUBSET Bill
    BY DEF TypeOK, Request
  <2>2. QED
    BY <2>1, AllSumToTheCent
<1>2. QED
  BY <1>1, TypeCorrect, PTL
=============================================================================
