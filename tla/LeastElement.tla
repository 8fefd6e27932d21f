----------------------------- MODULE LeastElement -----------------------------
(* A fact about the natural numbers that several proofs need.                *)
EXTENDS WellFoundedInduction, TLAPS

\* A nonempty set of natural numbers has a least element.
LEMMA Least ==
  ASSUME NEW T \in SUBSET Nat, T # {}
  PROVE  \E k \in T : \A j \in T : k <= j
  <1> DEFINE Below == {p \in Nat \X Nat : p[1] < p[2]}
  <1>1. IsWellFoundedOn(Below, Nat)
    <2>1. OpToRel(<, Nat) = Below
      BY DEF OpToRel
    <2>2. QED  BY <2>1, NatLessThanWellFounded
  <1>2. \E k \in T : \A j \in T : <<j, k>> \notin Below
    <2> HIDE DEF Below
    <2>1. QED  BY <1>1, WFMin
  <1>3. PICK k \in T : \A j \in T : <<j, k>> \notin Below
    BY <1>2
  <1>4. ASSUME NEW j \in T PROVE k <= j
    <2>1. <<j, k>> \notin Below /\ j \in Nat /\ k \in Nat
      BY <1>3
    <2>2. <<j, k>> \in Nat \X Nat /\ <<j, k>>[1] = j /\ <<j, k>>[2] = k
      BY <2>1
    <2>3. ~(j < k)
      BY <2>1, <2>2
    <2>4. QED  BY <2>1, <2>3
  <1>5. QED  BY <1>4
===============================================================================
