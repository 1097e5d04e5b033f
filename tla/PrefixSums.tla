----------------------------- MODULE PrefixSums -----------------------------
(***************************************************************************)
(* Facts about integers that the proofs about the sums of the vector and   *)
(* matrix statements rest on: induction, the recursion of a loop that adds *)
(* up, and remainders.                                                     *)
(***************************************************************************)
EXTENDS Integers, WellFoundedInduction, TLAPS

---------------------------------------------------------------------------
(* Induction, stated for sets so that it can be cited for any of them.     *)

(* A set of naturals has a least element.                                  *)
LEMMA LeastElement ==
  ASSUME NEW S \in SUBSET Nat, S # {}
  PROVE  \E x \in S : \A y \in S : x <= y
<1> DEFINE R == OpToRel(<, Nat)
<1>1. ASSUME NEW x \in S, NEW y \in S, y < x PROVE <<y, x>> \in R
  BY <1>1 DEF OpToRel
<1>2. IsWellFoundedOn(R, Nat)
  BY NatLessThanWellFounded
<1> HIDE DEF R
<1>3. PICK x \in S : \A y \in S : ~(<<y, x>> \in R)
  BY <1>2, WFMin
<1>4. \A y \in S : ~(y < x)
  BY <1>1, <1>3
<1> QED
  BY <1>4

(* A set with zero and the successor of each of its elements has them all. *)
LEMMA SetInduction ==
  ASSUME NEW S \in SUBSET Nat, 0 \in S, \A n \in S : n + 1 \in S
  PROVE  \A n \in Nat : n \in S
<1> SUFFICES ASSUME Nat \ S # {} PROVE FALSE
  OBVIOUS
<1>1. PICK x \in Nat \ S : \A y \in Nat \ S : x <= y
  BY LeastElement
<1>2. x - 1 \in S
  BY <1>1
<1>3. (x - 1) + 1 \in S
  BY <1>2
<1> QED
  BY <1>3

(* Two sequences of values agree on an interval if they agree where it     *)
(* begins and each step preserves that.                                    *)
LEMMA Agree ==
  ASSUME NEW f, NEW g, NEW lo \in Int, NEW hi \in Int,
         f[lo] = g[lo],
         \A k \in lo + 1 .. hi : f[k - 1] = g[k - 1] => f[k] = g[k]
  PROVE  \A k \in lo .. hi : f[k] = g[k]
<1> DEFINE S == {d \in Nat : lo + d <= hi => f[lo + d] = g[lo + d]}
<1>1. 0 \in S
  OBVIOUS
<1>2. ASSUME NEW d \in S PROVE d + 1 \in S
  <2> SUFFICES ASSUME lo + (d + 1) <= hi
               PROVE  f[lo + (d + 1)] = g[lo + (d + 1)]
    OBVIOUS
  <2> DEFINE k == lo + (d + 1)
  <2>1. k \in lo + 1 .. hi /\ k - 1 = lo + d
    OBVIOUS
  <2>2. f[k - 1] = g[k - 1]
    BY <2>1
  <2> HIDE DEF k
  <2>3. f[k] = g[k]
    BY <2>1, <2>2
  <2> QED
    BY <2>3 DEF k
<1>3. S \in SUBSET Nat
  OBVIOUS
<1> HIDE DEF S
<1>4. \A d \in Nat : d \in S
  BY <1>1, <1>2, <1>3, SetInduction
<1> SUFFICES ASSUME NEW k \in lo .. hi PROVE f[k] = g[k]
  OBVIOUS
<1>5. k - lo \in Nat /\ lo + (k - lo) = k
  OBVIOUS
<1>6. k - lo \in S
  BY <1>4, <1>5
<1> QED
  BY <1>5, <1>6 DEF S

(* The same from zero on.                                                  *)
LEMMA AgreeFromZero ==
  ASSUME NEW f, NEW g, NEW hi \in Nat, f[0] = g[0],
         \A k \in 1 .. hi : f[k - 1] = g[k - 1] => f[k] = g[k]
  PROVE  f[hi] = g[hi]
<1>1. PICK lo \in Int : lo = 0
  OBVIOUS
<1>2. f[lo] = g[lo]
  BY <1>1
<1>3. \A k \in lo + 1 .. hi : f[k - 1] = g[k - 1] => f[k] = g[k]
  BY <1>1
<1>4. \A k \in lo .. hi : f[k] = g[k]
  BY <1>2, <1>3, Agree
<1> QED
  BY <1>1, <1>4

(* The running sums of n terms.                                            *)
IsRunningSum(sum, t, n) ==
  /\ sum \in [0 .. n -> Int]
  /\ sum[0] = 0
  /\ \A k \in 1 .. n : sum[k] = sum[k - 1] + t[k - 1]

(* Any n integers have running sums.                                       *)
LEMMA RunningSumExists ==
  ASSUME NEW n \in Nat, NEW t, \A j \in 0 .. n - 1 : t[j] \in Int
  PROVE  \E sum : IsRunningSum(sum, t, n)
<1> DEFINE S == {d \in Nat : d <= n => \E sum : IsRunningSum(sum, t, d)}
<1>1. 0 \in S
  <2>1. IsRunningSum([k \in 0 .. 0 |-> 0], t, 0)
    BY DEF IsRunningSum
  <2> QED
    BY <2>1
<1>2. ASSUME NEW d \in S PROVE d + 1 \in S
  <2> SUFFICES ASSUME d + 1 <= n
               PROVE  \E sum : IsRunningSum(sum, t, d + 1)
    OBVIOUS
  <2>1. PICK sum : IsRunningSum(sum, t, d)
    OBVIOUS
  <2> DEFINE more == [k \in 0 .. d + 1 |->
                        IF k = d + 1 THEN sum[d] + t[d] ELSE sum[k]]
  <2>2. t[d] \in Int /\ sum[d] \in Int
    BY <2>1 DEF IsRunningSum
  <2>3. more \in [0 .. d + 1 -> Int]
    BY <2>1, <2>2 DEF IsRunningSum
  <2>4. more[0] = 0
    BY <2>1 DEF IsRunningSum
  <2>5. ASSUME NEW k \in 1 .. d + 1
        PROVE  more[k] = more[k - 1] + t[k - 1]
    <3>1. CASE k = d + 1
      BY <3>1
    <3>2. CASE k # d + 1
      BY <2>1, <3>2 DEF IsRunningSum
    <3> QED
      BY <3>1, <3>2
  <2> HIDE DEF more
  <2>6. IsRunningSum(more, t, d + 1)
    BY <2>3, <2>4, <2>5 DEF IsRunningSum
  <2> QED
    BY <2>6
<1>3. S \in SUBSET Nat
  OBVIOUS
<1> HIDE DEF S
<1>4. n \in S
  BY <1>1, <1>2, <1>3, SetInduction
<1> QED
  BY <1>4 DEF S

---------------------------------------------------------------------------
(* Remainders.                                                             *)

(* A number has one quotient and one remainder.                            *)
LEMMA UniqueDivision ==
  ASSUME NEW m \in Nat \ {0}, NEW q \in Int, NEW p \in Int,
         NEW r \in 0 .. m - 1, NEW s \in 0 .. m - 1,
         q * m + r = p * m + s
  PROVE  q = p /\ r = s
<1>1. ASSUME NEW x \in Int, NEW y \in Int,
             NEW v \in 0 .. m - 1, NEW w \in 0 .. m - 1,
             x * m + v = y * m + w
      PROVE  ~(x < y)
  <2> SUFFICES ASSUME x < y PROVE FALSE
    OBVIOUS
  <2>1. PICK d \in Nat : y = x + 1 + d
    <3>1. y - x - 1 \in Nat /\ y = x + 1 + (y - x - 1)
      OBVIOUS
    <3> QED
      BY <3>1
  <2>2. y * m = x * m + m + d * m
    BY <2>1
  <2>3. d * m >= 0
    BY <2>1
  <2>4. x * m \in Int /\ y * m \in Int /\ d * m \in Int
    BY <2>1
  <2> QED
    BY <1>1, <2>2, <2>3, <2>4
<1>2. ~(q < p)
  BY <1>1
<1>3. ~(p < q)
  BY <1>1
<1> QED
  BY <1>2, <1>3

(* Quotient and remainder.                                                 *)
LEMMA Division ==
  ASSUME NEW a \in Int, NEW m \in Nat \ {0}
  PROVE  /\ a \div m \in Int /\ a % m \in 0 .. m - 1
         /\ a = (a \div m) * m + (a % m)
  OBVIOUS

(* Adding a multiple of the modulus changes no remainder.                  *)
LEMMA SameRemainder ==
  ASSUME NEW a \in Int, NEW q \in Int, NEW m \in Nat \ {0}
  PROVE  (a + q * m) % m = a % m
<1> DEFINE b == a + q * m
<1>1. b \in Int
  OBVIOUS
<1>2. a = (a \div m) * m + (a % m) /\ b = (b \div m) * m + (b % m)
  BY <1>1, Division
<1>3. /\ a \div m \in Int /\ b \div m \in Int
      /\ a % m \in 0 .. m - 1 /\ b % m \in 0 .. m - 1
  BY <1>1, Division
<1>4. (a \div m + q) * m = (a \div m) * m + q * m
  BY <1>3
<1>5. (a \div m + q) * m + (a % m) = (b \div m) * m + (b % m)
  BY <1>2, <1>3, <1>4
<1>6. a \div m + q \in Int
  BY <1>3
<1> HIDE DEF b
<1>7. a % m = b % m
  BY <1>3, <1>5, <1>6, UniqueDivision
<1> QED
  BY <1>7 DEF b

(* A remainder may be taken of a part of a sum first.                      *)
LEMMA RemainderOfSum ==
  ASSUME NEW a \in Int, NEW b \in Int, NEW m \in Nat \ {0}
  PROVE  ((a % m) + b) % m = (a + b) % m
<1> DEFINE q == a \div m
           r == a % m
<1>1. q \in Int /\ r \in Int /\ a = q * m + r
  BY Division
<1> HIDE DEF q, r
<1>2. (r + b) + q * m = a + b /\ r + b \in Int
  BY <1>1
<1>3. ((r + b) + q * m) % m = (r + b) % m
  BY <1>1, <1>2, SameRemainder
<1> QED
  BY <1>2, <1>3 DEF r

(* A remainder may be taken of both parts of a sum first.                  *)
LEMMA RemainderOfSums ==
  ASSUME NEW a \in Int, NEW b \in Int, NEW m \in Nat \ {0}
  PROVE  ((a % m) + (b % m)) % m = (a + b) % m
<1> DEFINE s == b % m
<1>1. s \in Int
  BY Division
<1>2. ((b % m) + a) % m = (b + a) % m
  BY RemainderOfSum
<1> HIDE DEF s
<1>3. ((a % m) + s) % m = (a + s) % m
  BY <1>1, RemainderOfSum
<1>4. a + s = s + a /\ a + b = b + a
  BY <1>1
<1> QED
  BY <1>2, <1>3, <1>4 DEF s

---------------------------------------------------------------------------
(* A remainder as a signed number.                                         *)
TwosComplement(v, m) ==
  LET w == v % m IN IF 2 * w < m THEN w ELSE w - m

(* The signed number has the same remainder.                               *)
LEMMA TwosComplementFacts ==
  ASSUME NEW v \in Int, NEW m \in Nat \ {0}
  PROVE  TwosComplement(v, m) \in Int /\ TwosComplement(v, m) % m = v % m
<1> DEFINE w == v % m
<1>1. w \in 0 .. m - 1
  BY Division
<1> HIDE DEF w
<1>2. w % m = w
  <2>1. w \in Int /\ w = (w \div m) * m + (w % m) /\ w \div m \in Int
        /\ w % m \in 0 .. m - 1
    BY <1>1, Division
  <2>2. 0 * m + w = (w \div m) * m + (w % m)
    BY <1>1, <2>1
  <2> QED
    BY <1>1, <2>1, <2>2, UniqueDivision
<1>3. (w - m) % m = w
  <2>1. (w - m) + 1 * m = w /\ w - m \in Int
    BY <1>1
  <2>2. ((w - m) + 1 * m) % m = (w - m) % m
    BY <2>1, SameRemainder
  <2> QED
    BY <1>2, <2>1, <2>2
<1>4. TwosComplement(v, m) = IF 2 * w < m THEN w ELSE w - m
  BY DEF TwosComplement, w
<1> QED
  BY <1>1, <1>2, <1>3, <1>4 DEF w

(* A sum may be wrapped on the way.                                        *)
LEMMA TwosComplementOfSum ==
  ASSUME NEW a \in Int, NEW b \in Int, NEW m \in Nat \ {0}
  PROVE  /\ TwosComplement((a % m) + b, m) = TwosComplement(a + b, m)
         /\ TwosComplement(TwosComplement(a, m) + b, m) = TwosComplement(a + b, m)
<1> DEFINE e == TwosComplement(a, m)
<1>1. e \in Int /\ e % m = a % m
  BY TwosComplementFacts
<1> HIDE DEF e
<1>2. ((a % m) + b) % m = (a + b) % m
  BY RemainderOfSum
<1>3. ((e % m) + b) % m = (e + b) % m
  BY <1>1, RemainderOfSum
<1>4. (e + b) % m = (a + b) % m
  BY <1>1, <1>2, <1>3
<1> QED
  BY <1>2, <1>4 DEF TwosComplement, e

(* Wrapping twice is wrapping once.                                        *)
LEMMA TwosComplementAgain ==
  ASSUME NEW a \in Int, NEW m \in Nat \ {0}
  PROVE  /\ TwosComplement(a % m, m) = TwosComplement(a, m)
         /\ TwosComplement(TwosComplement(a, m), m) = TwosComplement(a, m)
<1>1. (a % m) % m = a % m
  <2> DEFINE w == a % m
  <2>1. w \in 0 .. m - 1
    BY Division
  <2> HIDE DEF w
  <2>2. /\ w \div m \in Int /\ w % m \in 0 .. m - 1
        /\ w = (w \div m) * m + (w % m)
    BY <2>1, Division
  <2>3. 0 * m + w = (w \div m) * m + (w % m)
    BY <2>1, <2>2
  <2> QED
    BY <2>1, <2>2, <2>3, UniqueDivision DEF w
<1>2. TwosComplement(a, m) % m = a % m
  BY TwosComplementFacts
<1> QED
  BY <1>1, <1>2 DEF TwosComplement
=============================================================================
