----------------------------- MODULE NaturalsFacts -----------------------------
(***************************************************************************)
(* Induction over the natural numbers in a form that first-order provers   *)
(* can use: as a fact about sets, from the well-foundedness of <.          *)
(***************************************************************************)
EXTENDS Naturals, WellFoundedInduction, TLAPS

Less == OpToRel(<, Nat)

\* A set of numbers that is not empty has a least one.
LEMMA LeastNatural ==
  ASSUME NEW T, T \subseteq Nat, T # {}
  PROVE  \E x \in T : \A y \in T : x <= y
  <1>1. IsWellFoundedOn(Less, Nat)
    BY NatLessThanWellFounded DEF Less
  <1>2. \A x, y \in Nat : <<x, y>> \in Less <=> x < y
    BY DEF OpToRel, Less
  <1>3. PICK x \in T : \A y \in T : ~(<<y, x>> \in Less)
    BY <1>1, WFMin
  <1>4. ASSUME NEW y \in T PROVE x <= y
    <2>1. x \in Nat /\ y \in Nat /\ ~(<<y, x>> \in Less)
      BY <1>3
    <2>2. ~(y < x)
      BY <1>2, <2>1
    <2>3. QED
      BY <2>1, <2>2
  <1>5. QED
    BY <1>4

\* A set with 0 and the successors of its elements has all numbers.
LEMMA Induction ==
  ASSUME NEW S \in SUBSET Nat, 0 \in S, \A n \in S : n + 1 \in S
  PROVE  S = Nat
  <1>1. SUFFICES ASSUME Nat \ S # {} PROVE FALSE
    OBVIOUS
  <1>2. PICK x \in Nat \ S : \A y \in Nat \ S : x <= y
    BY <1>1, LeastNatural
  <1>3. x - 1 \in Nat /\ x - 1 \in S /\ (x - 1) + 1 = x
    BY <1>2
  <1>4. QED
    BY <1>2, <1>3
================================================================================
