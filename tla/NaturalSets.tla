----------------------------- MODULE NaturalSets -----------------------------
(***************************************************************************)
(* Sets of natural numbers: their least and greatest elements, and         *)
(* induction in the form of a set that contains 0 and with each number the *)
(* next one.  The proofs about recursive functions rest on them.           *)
(***************************************************************************)
EXTENDS Integers, FiniteSetsExt, WellFoundedInduction, TLAPS

\* Time for each prover, for slower machines than the one the proofs were written on.
USE SMTT(60), ZenonT(60)

\* The natural numbers are well founded.
LEMMA LeastElement ==
  ASSUME NEW S, S \subseteq Nat, S # {}
  PROVE  \E n \in S : \A m \in S : n <= m
<1>1. PICK n \in S : \A m \in S : ~ (<<m, n>> \in OpToRel(<, Nat))
  BY WFMin, NatLessThanWellFounded
<1>2. \A m \in S : ~ (m < n)
  BY <1>1 DEF OpToRel
<1>3. n \in Nat /\ \A m \in S : m \in Nat
  OBVIOUS
<1> QED BY <1>2, <1>3

\* Induction over the natural numbers.
LEMMA SetInduction ==
  ASSUME NEW S, 0 \in S, \A n \in Nat : n \in S => n + 1 \in S
  PROVE  Nat \subseteq S
<1> SUFFICES ASSUME Nat \ S # {} PROVE FALSE
  OBVIOUS
<1>1. PICK n \in Nat \ S : \A m \in Nat \ S : n <= m
  BY LeastElement
<1>2. n # 0 /\ n - 1 \in Nat
  BY <1>1
<1>3. n - 1 \in S
  BY <1>1, <1>2
<1> QED BY <1>1, <1>2, <1>3

\* Values computed one from the other, n times.
Stepwise(w, n, Some, first, step) ==
  /\ w \in [0..n -> Some] /\ w[0] = first
  /\ \A i \in 1..n : w[i] = step[i][w[i - 1]]

Steps(n, Some, step) == n \in Nat /\ step \in [1..n -> [Some -> Some]]

LEMMA StepwiseExists ==
  ASSUME NEW n, NEW Some, NEW first \in Some, NEW step, Steps(n, Some, step)
  PROVE  \E w : Stepwise(w, n, Some, first, step)
<1> USE DEF Steps
<1> DEFINE Solves(w, m) == /\ w \in [0..m -> Some] /\ w[0] = first
                           /\ \A i \in 1..m : w[i] = step[i][w[i - 1]]
           S == {m \in Nat : m <= n => \E w : Solves(w, m)}
<1>1. 0 \in S
  <2> DEFINE v == [i \in 0..0 |-> first]
  <2>1. v \in [0..0 -> Some] /\ v[0] = first /\ 1..0 = {}
    OBVIOUS
  <2> HIDE DEF v
  <2>2. Solves(v, 0)
    BY <2>1
  <2> QED BY <2>2
<1>2. ASSUME NEW m \in Nat, m \in S
      PROVE  m + 1 \in S
  <2> SUFFICES ASSUME m + 1 <= n PROVE \E w : Solves(w, m + 1)
    OBVIOUS
  <2>1. PICK w : Solves(w, m)
    BY <1>2
  <2> DEFINE v == [i \in 0..m + 1 |-> IF i = m + 1 THEN step[m + 1][w[m]] ELSE w[i]]
  <2>2. step[m + 1] \in [Some -> Some] /\ w[m] \in Some
    BY <2>1
  <2>3. step[m + 1][w[m]] \in Some /\ \A i \in 0..m : w[i] \in Some
    BY <2>1, <2>2
  <2>4. v \in [0..m + 1 -> Some]
    BY <2>3
  <2>5. v[m + 1] = step[m + 1][w[m]] /\ \A i \in 0..m : v[i] = w[i]
    OBVIOUS
  <2> HIDE DEF v
  <2>6. ASSUME NEW i \in 1..m + 1
        PROVE  v[i] = step[i][v[i - 1]]
    <3>1. CASE i = m + 1
      <4>1. i - 1 = m /\ m \in 0..m
        BY <3>1
      <4> QED BY <2>5, <3>1, <4>1
    <3>2. CASE i \in 1..m
      <4>1. i - 1 \in 0..m /\ i \in 0..m
        BY <3>2
      <4> QED BY <2>1, <2>5, <3>2, <4>1
    <3> QED BY <3>1, <3>2
  <2>7. v[0] = first
    BY <2>1, <2>5
  <2>8. Solves(v, m + 1)
    BY <2>4, <2>6, <2>7
  <2> QED BY <2>8
<1>3. n \in S
  <2> HIDE DEF S
  <2> QED BY <1>1, <1>2, SetInduction
<1>4. PICK w : Solves(w, n)
  BY <1>3
<1> QED BY <1>4 DEF Stepwise

\* Min is the least element.
LEMMA MinIsLeast ==
  ASSUME NEW S, S \subseteq Nat, S # {}
  PROVE  Min(S) \in S /\ \A n \in S : Min(S) <= n
BY LeastElement DEF Min

\* Max is the greatest element, if there is a bound.
LEMMA MaxIsGreatest ==
  ASSUME NEW S, NEW bound \in Nat, S \subseteq 0..bound, S # {}
  PROVE  Max(S) \in S /\ \A n \in S : n <= Max(S)
<1> DEFINE Below == {bound - n : n \in S}
<1>1. Below \subseteq Nat /\ Below # {}
  <2>1. \A n \in S : n \in Nat /\ bound - n \in Nat
    OBVIOUS
  <2> QED BY <2>1
<1>2. PICK least \in Below : \A m \in Below : least <= m
  <2> HIDE DEF Below
  <2> QED BY <1>1, LeastElement
<1>3. PICK top \in S : least = bound - top
  OBVIOUS
<1>4. \A n \in S : top >= n
  <2> SUFFICES ASSUME NEW n \in S PROVE top >= n
    OBVIOUS
  <2>1. bound - n \in Below
    OBVIOUS
  <2>2. bound - top <= bound - n
    BY <1>2, <1>3, <2>1
  <2> QED BY <2>2
<1>5. Max(S) \in S /\ \A n \in S : Max(S) >= n
  BY <1>3, <1>4 DEF Max
<1> QED BY <1>5
==============================================================================
