---------------------------- MODULE RepayAmount -----------------------------
(***************************************************************************)
(* getAllAmutMoney of the repayment page: the bills' amounts, decimal      *)
(* strings, are added one by one in a float and printed with two decimals. *)
(* A float is a significand of 24 bits over a power of two, and every      *)
(* conversion and addition rounds to the nearest one, halves to even.      *)
(***************************************************************************)
EXTENDS Integers, Sequences, FiniteSets

CONSTANTS
    Bill,  \* the bills
    Due    \* what they may come to: functions from bills to cents

ASSUME DueAssumption ==
    /\ IsFiniteSet(Bill)
    /\ Due \subseteq [Bill -> Nat \ {0}]

\* The integer nearest to n/d, an even one if two are as near.
Nearest(n, d) ==
    LET q == n \div d
        r == n % d
    IN IF 2 * r > d \/ (2 * r = d /\ q % 2 = 1) THEN q + 1 ELSE q

\* The powers of two up to 2^30.
Power ==
    {1, 2, 4, 8, 16, 32, 64, 128, 256, 512, 1024, 2048, 4096, 8192, 16384, 32768,
     65536, 131072, 262144, 524288, 1048576, 2097152, 4194304, 8388608, 16777216,
     33554432, 67108864, 134217728, 268435456, 536870912, 1073741824}

\* A significand: 2^23 or more, below 2^24.
Has24Bits(k) == 8388608 <= k /\ k < 16777216

\* The float x is x.m / x.d.
Zero == [m |-> 0, d |-> 1]

\* floatValue of an amount of c cents, at most 131072.00.
floatValue(c) ==
    LET d == CHOOSE p \in Power : Has24Bits((c * p) \div 100)
    IN [m |-> Nearest(c * d, 100), d |-> d]

\* The sum of two floats: exact over the finer of the two denominators,
\* then rounded to 24 bits again.
Plus(x, y) ==
    IF x = Zero THEN y
    ELSE LET d == IF x.d > y.d THEN x.d ELSE y.d
             n == x.m * (d \div x.d) + y.m * (d \div y.d)
             s == CHOOSE p \in Power : Has24Bits(n \div p)
         IN [m |-> Nearest(n, s), d |-> d \div s]

\* Mutated form of Printed: the cents are cut off.
PrintedCut(x) == (100 * x.m) \div x.d

\* %.2f of a float, in cents.
Printed(x) == Nearest(100 * x.m, x.d)

\* The variable allMoney, after each of the amounts.
AllMoney(amts) ==
    LET sum[i \in 0..Len(amts)] ==
            IF i = 0 THEN Zero ELSE Plus(sum[i - 1], floatValue(amts[i]))
    IN sum

getAllAmutMoney(amts) == Printed(AllMoney(amts)[Len(amts)])

\* What the amounts come to.
Totals(amts) ==
    LET sum[i \in 0..Len(amts)] == IF i = 0 THEN 0 ELSE sum[i - 1] + amts[i]
    IN sum

Total(amts) == Totals(amts)[Len(amts)]

\* The orders in which the bills of S may have been selected.
Orders(S) ==
    {o \in [1..Cardinality(S) -> S] : \A i, j \in DOMAIN o : o[i] = o[j] => i = j}

\* Up to 32768.00 the floats lie at most 1/512 apart: the roundings of four
\* bills and of their sums do not add up to half a cent. Of five they may
\* (18053.71, 3317.12, 2115.37, 2377.37 and 5854.12 come to 31717.69 and print
\* 31717.70), and of three beyond the limit (8371.85, 25308.95 and 1248.33
\* come to 34929.13 and print 34929.12).
FloatLimit == 3276800
BillLimit == 4

SumsToTheCent ==
    [S \in SUBSET Bill |->
        \A dueAmt \in Due, o \in Orders(S) :
            LET amts == [i \in DOMAIN o |-> dueAmt[o[i]]]
            IN (Cardinality(S) <= BillLimit /\ Total(amts) <= FloatLimit)
                   => getAllAmutMoney(amts) = Total(amts)]
=============================================================================
