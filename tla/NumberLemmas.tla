---------------------------- MODULE NumberLemmas ----------------------------
(***************************************************************************)
(* Facts about numbers that the proofs of the components need: least and   *)
(* greatest elements, quotients and remainders.                            *)
(***************************************************************************)
EXTENDS Integers, NaturalsInduction, WellFoundedInduction, TLAPS

\* The order of the natural numbers, as a relation.
Less == {p \in Nat \X Nat : p[1] < p[2]}

(* Any set of natural numbers has a least one.                             *)
LEMMA LeastNat ==
    ASSUME NEW S \in SUBSET Nat, S # {}
    PROVE  \E x \in S : \A y \in S : x <= y
<1>1. IsWellFoundedOn(Less, Nat)
  <2>1. Less = OpToRel(<, Nat)
    BY DEF Less, OpToRel
  <2>. QED  BY <2>1, NatLessThanWellFounded
<1>2. PICK x \in S : \A y \in S : ~ (<<y, x>> \in Less)
  BY <1>1, WFMin
<1>3. ASSUME NEW y \in S  PROVE x <= y
  <2>1. <<y, x>> \in Nat \X Nat
    OBVIOUS
  <2>2. ~ (<<y, x>>[1] < <<y, x>>[2])
    BY <1>2, <2>1 DEF Less
  <2>. QED  BY <2>2
<1>. QED  BY <1>3

(* So has a set of integers that is bounded below.                         *)
LEMMA LeastOf ==
    ASSUME NEW b \in Nat, NEW S, \A x \in S : x \in Int /\ - b <= x, S # {}
    PROVE  \E x \in S : \A y \in S : x <= y
<1>. DEFINE shifted == {x + b : x \in S}
<1>1. shifted \in SUBSET Nat /\ shifted # {}
  OBVIOUS
<1>2. PICK z \in shifted : \A y \in shifted : z <= y
  BY <1>1, LeastNat
<1>3. PICK x \in S : z = x + b
  OBVIOUS
<1>4. ASSUME NEW y \in S  PROVE x <= y
  <2>1. z <= y + b
    BY <1>2
  <2>. QED  BY <1>3, <2>1
<1>. QED  BY <1>4

(* A set of integers that is bounded above has a greatest one.             *)
LEMMA GreatestOf ==
    ASSUME NEW b \in Nat, NEW S, \A x \in S : x \in Int /\ x <= b, S # {}
    PROVE  \E x \in S : \A y \in S : y <= x
<1>. DEFINE mirrored == {- x : x \in S}
<1>1. (\A x \in mirrored : x \in Int /\ - b <= x) /\ mirrored # {}
  OBVIOUS
<1>2. PICK z \in mirrored : \A y \in mirrored : z <= y
  BY <1>1, LeastOf
<1>3. PICK x \in S : z = - x
  OBVIOUS
<1>4. ASSUME NEW y \in S  PROVE y <= x
  <2>1. z <= - y
    BY <1>2
  <2>. QED  BY <1>3, <2>1
<1>. QED  BY <1>4

-----------------------------------------------------------------------------
LEMMA ProductGrows ==
    ASSUME NEW b \in Nat, NEW x \in Int, NEW y \in Int, x <= y
    PROVE  x * b <= y * b
BY Z3

LEMMA QuotientOfProduct ==
    ASSUME NEW a \in Nat, NEW b \in Nat \ {0}
    PROVE  (a * b) \div b = a
<1>1. a * b \in Nat /\ (a * b) % b = 0 /\ (a * b) \div b \in Nat
  OBVIOUS
<1>. QED  BY <1>1

LEMMA WholeUnits ==
    ASSUME NEW n \in Nat, NEW u \in Nat \ {0}, n % u = 0
    PROVE  \E k \in Nat : n = k * u
<1>1. n = u * (n \div u) + (n % u) /\ n \div u \in Nat
  OBVIOUS
<1>2. n = (n \div u) * u
  BY <1>1
<1>. QED  BY <1>1, <1>2

(* A quotient of naturals is a natural, and no larger.                     *)
LEMMA QuotientNat ==
    ASSUME NEW n \in Nat, NEW b \in Nat \ {0}
    PROVE  n \div b \in Nat /\ n \div b <= n
<1>1. n = b * (n \div b) + (n % b) /\ n \div b \in Nat /\ n % b \in Nat
  OBVIOUS
<1>2. ASSUME NEW q \in Nat PROVE q <= b * q
  <2>1. 1 * q <= b * q
    BY ProductGrows
  <2>. QED  BY <2>1
<1>. QED  BY <1>1, <1>2

LEMMA DivMod ==
    ASSUME NEW n \in Nat, NEW b \in Nat \ {0}
    PROVE  /\ n = (n \div b) * b + (n % b)
           /\ n % b \in 0..(b - 1)
           /\ n \div b \in Int
BY Z3

(* A quotient and a remainder make one number, and are made by it only.    *)
LEMMA DivUnique ==
    ASSUME NEW b \in Nat \ {0}, NEW q \in Nat, NEW r \in 0..(b - 1)
    PROVE  (q * b + r) \div b = q /\ (q * b + r) % b = r
<1>. DEFINE n == q * b + r
            d == n \div b
            m == n % b
<1>1. n \in Nat /\ q * b \in Int
  BY Z3
<1>2. n = d * b + m /\ m \in 0..(b - 1) /\ d \in Int /\ d * b \in Int
  BY <1>1, DivMod
<1>3. /\ q + 1 <= d => q * b + b <= d * b
      /\ d + 1 <= q => d * b + b <= q * b
  <2>1. /\ q + 1 <= d => (q + 1) * b <= d * b
        /\ d + 1 <= q => (d + 1) * b <= q * b
    BY <1>2, ProductGrows
  <2>2. (q + 1) * b = q * b + b /\ (d + 1) * b = d * b + b
    BY <1>2, Z3
  <2>. QED  BY <2>1, <2>2
<1>4. ~ (q + 1 <= d) /\ ~ (d + 1 <= q)
  BY <1>1, <1>2, <1>3
<1>. HIDE DEF d, m
<1>5. d = q
  BY <1>2, <1>4
<1>6. m = r
  BY <1>1, <1>2, <1>5
<1>. QED  BY <1>5, <1>6 DEF d, m
=============================================================================
