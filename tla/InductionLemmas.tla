---------------------------- MODULE InductionLemmas ----------------------------
(***************************************************************************)
(* Induction over data, for the proofs about the lists that the model      *)
(* keeps.  The induction theorems of the library take an operator as a     *)
(* parameter, which no prover here can instantiate; stated of a set of     *)
(* numbers they need none.                                                 *)
(***************************************************************************)
EXTENDS Integers, Sequences, WellFoundedInduction, TLAPS

\* Numbers are well founded: a set of them has a least element.
LEMMA Smallest ==
    ASSUME NEW T, T \subseteq Nat, T # {}
    PROVE  \E x \in T : \A y \in T : x <= y
<1>1. PICK x \in T : \A y \in T : ~(<<y, x>> \in OpToRel(<, Nat))
  BY NatLessThanWellFounded, WFMin, Zenon
<1>2. \A y \in T : ~(y < x)
  BY <1>1 DEF OpToRel
<1> QED BY <1>2

\* A set of numbers that holds 0, and with each number the next one up to L.
LEMMA Climbing ==
    ASSUME NEW L \in Nat, NEW T, 0 \in T, \A n \in 0 .. L - 1 : n \in T => n + 1 \in T
    PROVE  0 .. L \subseteq T
<1> DEFINE Missing == {n \in 0 .. L : n \notin T}
<1> SUFFICES ASSUME Missing # {} PROVE FALSE
  OBVIOUS
<1>1. Missing \subseteq Nat
  OBVIOUS
<1>2. PICK m \in Missing : \A y \in Missing : m <= y
  BY <1>1, Smallest
<1>3. m # 0 /\ m \in 0 .. L
  BY <1>2
<1>4. m - 1 \in 0 .. L - 1 /\ m - 1 \notin Missing /\ (m - 1) + 1 = m
  BY <1>2, <1>3
<1> QED BY <1>4

\* The values of a recursive function over 0 .. L.
Solves(k, base, step, m) ==
    k[0] = base /\ \A n \in 1 .. m : k[n] = step[<<k[n - 1], n>>]

LEMMA Recursion ==
    ASSUME NEW V, NEW base \in V, NEW L \in Nat, NEW step \in [V \X (1 .. L) -> V]
    PROVE  \E k \in [0 .. L -> V] : Solves(k, base, step, L)
<1> DEFINE T == {m \in 0 .. L : \E k \in [0 .. L -> V] : Solves(k, base, step, m)}
<1>1. 0 \in T
  <2>1. Solves([n \in 0 .. L |-> base], base, step, 0)
    BY DEF Solves
  <2>2. [n \in 0 .. L |-> base] \in [0 .. L -> V]
    OBVIOUS
  <2> QED BY <2>1, <2>2
<1>2. ASSUME NEW m \in 0 .. L - 1, m \in T PROVE m + 1 \in T
  <2>1. PICK k \in [0 .. L -> V] : Solves(k, base, step, m)
    BY <1>2
  <2> DEFINE v == step[<<k[m], m + 1>>]
             next == [k EXCEPT ![m + 1] = v]
  <2>2. v \in V
    <3>1. <<k[m], m + 1>> \in V \X (1 .. L)
      OBVIOUS
    <3> QED BY <3>1
  <2> HIDE DEF v
  <2>3. next \in [0 .. L -> V] /\ next[m + 1] = v /\ \A n \in 0 .. m : next[n] = k[n]
    BY <2>2
  <2> HIDE DEF next
  <2>4. \A n \in 1 .. m + 1 : next[n] = step[<<next[n - 1], n>>]
    <3>1. ASSUME NEW n \in 1 .. m PROVE next[n] = step[<<next[n - 1], n>>]
      BY <2>1, <2>3 DEF Solves
    <3>2. next[m + 1] = step[<<next[(m + 1) - 1], m + 1>>]
      <4>1. (m + 1) - 1 = m /\ m \in 0 .. m
        OBVIOUS
      <4> QED BY <4>1, <2>3 DEF v
    <3>3. \A n \in 1 .. m + 1 : n \in 1 .. m \/ n = m + 1
      OBVIOUS
    <3> QED BY <3>1, <3>2, <3>3
  <2>5. Solves(next, base, step, m + 1)
    BY <2>1, <2>3, <2>4 DEF Solves
  <2> QED BY <2>3, <2>5
<1> HIDE DEF T
<1>3. L \in T
  BY <1>1, <1>2, Climbing
<1> QED BY <1>3 DEF T

=============================================================================
