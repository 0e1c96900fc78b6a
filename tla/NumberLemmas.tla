----------------------------- MODULE NumberLemmas -----------------------------
(***************************************************************************)
(* Facts about sets of natural numbers that proofs about data rest on: the  *)
(* least element, hence induction over a set, and what Min and Max choose.  *)
(***************************************************************************)
EXTENDS Integers, FiniteSetsExt, FiniteSetTheorems, TLAPS

\* A set of numbers has a least one: < is well founded.
LEMMA LeastExists ==
  ASSUME NEW T \in SUBSET Nat, T # {}
  PROVE  \E x \in T : \A y \in T : x <= y
  <1>. DEFINE R == {p \in Nat \X Nat : p[1] < p[2]}
  <1>1. IsWellFoundedOn(R, Nat)
    <2>1. OpToRel(<, Nat) = R
      BY DEF OpToRel
    <2>. QED  BY <2>1, NatLessThanWellFounded
  <1>2. PICK x \in T : \A y \in T : <<y, x>> \notin R
    BY <1>1, WFMin
  <1>3. ASSUME NEW y \in T PROVE x <= y
    <2>1. x \in Nat /\ y \in Nat /\ ~(y < x)
      BY <1>2
    <2>. QED  BY <2>1
  <1>. QED  BY <1>3

\* A property of numbers is the set of those that have it.
LEMMA SetInduction ==
  ASSUME NEW T, 0 \in T, \A k \in Nat : k \in T => k + 1 \in T
  PROVE  Nat \subseteq T
  <1>. SUFFICES ASSUME Nat \ T # {} PROVE FALSE
    OBVIOUS
  <1>1. PICK m \in Nat \ T : \A k \in Nat \ T : m <= k
    BY LeastExists
  <1>2. m # 0 /\ m - 1 \in Nat /\ (m - 1) + 1 = m /\ ~(m <= m - 1)
    OBVIOUS
  <1>. QED  BY <1>1, <1>2

\* Min and Max choose the least and the greatest number.
LEMMA MinIsLeast ==
  ASSUME NEW T \in SUBSET Nat, T # {}
  PROVE  Min(T) \in T /\ \A y \in T : Min(T) <= y
  BY LeastExists DEF Min

LEMMA MinUnique ==
  ASSUME NEW T \in SUBSET Nat, NEW m \in T, \A y \in T : m <= y
  PROVE  Min(T) = m
  <1>1. Min(T) \in T /\ Min(T) <= m /\ m <= Min(T)
    BY MinIsLeast
  <1>2. Min(T) \in Nat /\ m \in Nat
    BY <1>1
  <1>. QED  BY <1>1, <1>2

LEMMA MaxIsGreatest ==
  ASSUME NEW T \in SUBSET Nat, T # {}, NEW n \in Nat, \A y \in T : y <= n
  PROVE  Max(T) \in T /\ \A y \in T : Max(T) >= y
  <1>. DEFINE U == {m \in Nat : \A y \in T : y <= m}
  <1>1. n \in U /\ U \in SUBSET Nat
    OBVIOUS
  <1>2. PICK m \in U : \A k \in U : m <= k
    BY <1>1, LeastExists
  <1>3. m \in T
    <2>. SUFFICES ASSUME m \notin T PROVE FALSE
      OBVIOUS
    <2>1. \A y \in T : y <= m /\ y # m /\ y \in Nat
      OBVIOUS
    <2>2. m - 1 \in U
      <3>1. PICK y \in T : TRUE
        OBVIOUS
      <3>2. m \in Nat /\ y \in Nat /\ y <= m /\ y # m
        BY <2>1
      <3>3. m - 1 \in Nat /\ \A k \in T : k <= m - 1
        BY <2>1, <3>2
      <3>. QED  BY <3>3
    <2>3. m <= m - 1 /\ m \in Nat
      BY <1>2, <2>2
    <2>. QED  BY <2>3
  <1>. QED  BY <1>3 DEF Max

\* The greatest of the first k numbers that are left when the later ones are not.
LEMMA LastOfInitial ==
  ASSUME NEW k \in Nat \ {0}, NEW s \in SUBSET (1 .. k), k \in s
  PROVE  Max(s) = k
  <1>1. \A y \in s : y \in Int /\ k >= y
    OBVIOUS
  <1>2. \A x \in s : (\A y \in s : x >= y) => x = k
    BY <1>1
  <1>. QED  BY <1>1, <1>2 DEF Max

===============================================================================
