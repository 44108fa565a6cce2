---------------------------- MODULE SetInduction ----------------------------
(***************************************************************************)
(* Induction over the natural numbers, stated with sets.                   *)
(***************************************************************************)
EXTENDS Integers, WellFoundedInduction, TLAPS

(* A set of natural numbers that is not empty has a least member. *)
LEMMA LeastMember ==
    ASSUME NEW S \in SUBSET Nat, S # {}
    PROVE  \E m \in S : \A n \in S : m <= n
<1> DEFINE R == OpToRel(<, Nat)
<1>1. IsWellFoundedOn(R, Nat)
  BY NatLessThanWellFounded
<1> HIDE DEF R
<1>2. PICK m \in S : \A n \in S : ~ (<<n, m>> \in R)
  BY <1>1, WFMin
<1>3. \A n \in S : n < m => <<n, m>> \in R
  BY DEF R, OpToRel
<1>4. \A n \in S : ~ (n < m)
  BY <1>2, <1>3, Zenon
<1>5. \A n \in S : m <= n
  BY <1>4
<1> QED
  BY <1>5

(* A set that has 0 and with each number the next has every natural number. *)
LEMMA Induction ==
    ASSUME NEW S, 0 \in S, \A n \in Nat : n \in S => n + 1 \in S
    PROVE  Nat \subseteq S
<1> SUFFICES ASSUME Nat \ S # {} PROVE FALSE
  OBVIOUS
<1>1. PICK m \in Nat \ S : \A n \in Nat \ S : m <= n
  BY LeastMember
<1>2. m # 0 /\ m - 1 \in Nat
  BY <1>1
<1>3. m - 1 \in S
  BY <1>1, <1>2
<1> QED
  BY <1>1, <1>2, <1>3

(* A set of numbers from 1 to n that is not empty has a greatest member. *)
LEMMA GreatestMember ==
    ASSUME NEW n \in Nat, NEW S \in SUBSET (1..n), S # {}
    PROVE  \E m \in S : \A k \in S : k <= m
<1> DEFINE T == {j \in Nat : n - j \in S}
<1>1. PICK m0 \in S : TRUE
  OBVIOUS
<1>2. m0 \in 1..n
  OBVIOUS
<1>3. n - m0 \in Nat /\ n - (n - m0) = m0
  BY <1>2
<1>4. n - m0 \in T
  BY <1>1, <1>3
<1>5. PICK j \in T : \A k \in T : j <= k
  <2> HIDE DEF T
  <2>1. T \in SUBSET Nat
    BY DEF T
  <2> QED
    BY <1>4, <2>1, LeastMember
<1>6. ASSUME NEW k \in S PROVE k <= n - j
  <2>1. k \in 1..n
    OBVIOUS
  <2>2. n - k \in Nat /\ n - (n - k) = k
    BY <2>1
  <2>3. n - k \in T
    BY <2>2
  <2>4. j <= n - k
    BY <1>5, <2>3
  <2> QED
    BY <2>1, <2>4
<1> QED
  BY <1>5, <1>6
=============================================================================
