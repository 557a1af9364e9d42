----------------------------- MODULE OrderLemmas -----------------------------
(* Facts about Min and Max of FiniteSetsExt and about remainders that the     *)
(* proofs of several components rest on.                                      *)
EXTENDS Integers, FiniteSetsExt, WellFoundedInduction, TLAPS

\* A set of naturals that is not empty has a least element, which Min returns.
LEMMA MinIsLeast ==
    ASSUME NEW S, S \subseteq Nat, S # {}
    PROVE  Min(S) \in S /\ \A y \in S : Min(S) <= y
<1> DEFINE R == OpToRel(<, Nat)
<1>1. IsWellFoundedOn(R, Nat)
  BY NatLessThanWellFounded
<1>2. \A x, y \in Nat : <<x, y>> \in R <=> x < y
  BY DEF OpToRel
<1> HIDE DEF R
<1>3. PICK x \in S : \A y \in S : ~(<<y, x>> \in R)
  BY <1>1, WFMin
<1>4. ASSUME NEW y \in S PROVE x <= y
  <2>1. x \in Nat /\ y \in Nat /\ ~(<<y, x>> \in R)
    BY <1>3
  <2>2. ~(y < x)
    BY <1>2, <2>1
  <2> QED BY <2>1, <2>2
<1> QED BY <1>4 DEF Min

\* A set of naturals up to n that is not empty has a greatest element, which Max
\* returns.
LEMMA MaxIsGreatest ==
    ASSUME NEW n \in Nat, NEW S, S \subseteq 0..n, S # {}
    PROVE  Max(S) \in S /\ \A y \in S : y <= Max(S)
<1>1. PICK T : T = {n - x : x \in S}
  OBVIOUS
<1>2. T \subseteq Nat /\ T # {}
  <2>1. \A x \in S : n - x \in Nat
    OBVIOUS
  <2>2. T # {}
    BY <1>1
  <2> QED BY <1>1, <2>1, <2>2
<1>3. PICK x \in S : Min(T) = n - x
  BY <1>1, <1>2, MinIsLeast
<1>4. ASSUME NEW y \in S PROVE x >= y
  <2>1. n - y \in T
    BY <1>1
  <2>2. n - x <= n - y
    BY <1>2, <1>3, <2>1, MinIsLeast
  <2> QED BY <2>2
<1>5. PICK z : z = Max(S)
  OBVIOUS
<1>6. z \in S /\ \A y \in S : z >= y
  BY <1>4, <1>5 DEF Max
<1> QED BY <1>5, <1>6

\* Max of two naturals.
LEMMA MaxOfTwo ==
    ASSUME NEW a \in Nat, NEW b \in Nat
    PROVE  Max({a, b}) = IF a <= b THEN b ELSE a
BY DEF Max

\* The two meta pages take turns.
LEMMA Parity ==
    ASSUME NEW n \in Nat
    PROVE  n % 2 \in 0..1 /\ (n + 1) % 2 \in 0..1 /\ (n + 1) % 2 = 1 - (n % 2) /\ (n + 2) % 2 = n % 2
OBVIOUS
=============================================================================
