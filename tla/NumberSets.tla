------------------------------ MODULE NumberSets ------------------------------
(***************************************************************************)
(* Least and largest members of sets of numbers: latest runs, newest       *)
(* snapshots, latest days, and least counterexamples, which the proofs use *)
(* in the place of an induction.                                           *)
(***************************************************************************)
EXTENDS FiniteSetsExt, FiniteSetTheorems, WellFoundedInduction, TLAPS

(* Induction on the natural numbers, in the form the provers can use       *)
LEMMA LeastNumber ==
    ASSUME NEW T \in SUBSET Nat, T # {}
    PROVE  \E n \in T : \A m \in T : n <= m
<1>1. PICK n \in T : \A m \in T : ~(<<m, n>> \in OpToRel(<, Nat))
  BY NatLessThanWellFounded, WFMin
<1>2. \A m \in T : ~(m < n)
  BY <1>1 DEF OpToRel
<1>. QED  BY <1>2

(* The smallest set without a largest member would have more than one, and *)
(* without one of them it would have a largest.                            *)
LEMMA FiniteSetsHaveMaxima ==
    ASSUME NEW S \in SUBSET Nat, IsFiniteSet(S), S # {}
    PROVE  \E x \in S : \A y \in S : x >= y
<1> DEFINE HasMax(R) == \E x \in R : \A y \in R : x >= y
           T == {n \in Nat : \E R \in SUBSET S :
                    R # {} /\ Cardinality(R) = n /\ ~HasMax(R)}
<1>. SUFFICES ASSUME ~HasMax(S) PROVE FALSE
  OBVIOUS
<1>0. \A R \in SUBSET S : IsFiniteSet(R) /\ Cardinality(R) \in Nat
  BY FS_Subset, FS_CardinalityType
<1>1. Cardinality(S) \in T
  BY <1>0
<1>2. PICK n \in T : \A m \in T : n <= m
  <2>1. T \in SUBSET Nat /\ T # {}
    BY <1>1
  <2>. HIDE DEF T
  <2>. QED  BY <2>1, LeastNumber
<1>3. PICK R \in SUBSET S : R # {} /\ Cardinality(R) = n /\ ~HasMax(R)
  BY <1>2
<1>4. PICK x \in R : TRUE
  BY <1>3
<1>5. Cardinality(R \ {x}) = n - 1 /\ Cardinality(R \ {x}) \in Nat
  BY <1>0, <1>3, <1>4, FS_RemoveElement
<1>6. n \in Nat /\ ~(n <= n - 1)
  BY <1>2
<1>7. HasMax(R \ {x}) \/ R \ {x} = {}
  <2>1. R \ {x} \in SUBSET S
    OBVIOUS
  <2>2. n - 1 \notin T
    <3>. HIDE DEF T
    <3>. QED  BY <1>2, <1>6
  <2>. QED  BY <1>5, <2>1, <2>2
<1>8. CASE R \ {x} = {}
  <2>1. \A y \in R : y = x
    BY <1>8
  <2>. QED  BY <1>3, <1>4, <2>1
<1>9. CASE HasMax(R \ {x})
  <2>1. PICK m \in R \ {x} : \A y \in R \ {x} : m >= y
    BY <1>9
  <2>2. m \in Nat /\ x \in Nat /\ \A y \in R : y \in Nat
    BY <1>4, <2>1
  <2>3. CASE m >= x
    BY <1>3, <2>1, <2>3
  <2>4. CASE x >= m
    <3>1. \A y \in R : x >= y
      BY <2>1, <2>2, <2>4
    <3>. QED  BY <1>3, <1>4, <3>1
  <2>. QED  BY <2>2, <2>3, <2>4
<1>. QED  BY <1>7, <1>8, <1>9

LEMMA MaxIsOneOf ==
    ASSUME NEW S \in SUBSET Nat, IsFiniteSet(S), S # {}
    PROVE  Max(S) \in S
BY FiniteSetsHaveMaxima DEF Max

LEMMA MinIsOneOf ==
    ASSUME NEW S \in SUBSET Nat, S # {}
    PROVE  Min(S) \in S
<1>1. \E x \in S : \A y \in S : x <= y
  BY LeastNumber
<1>. QED  BY <1>1 DEF Min
=============================================================================
