------------------------------ MODULE Iteration ------------------------------
(***************************************************************************)
(* Counting to a number, for proofs about the recursive functions of the     *)
(* models: what holds at zero and goes on holds at every number, and a       *)
(* function may be defined by its first value and what follows from one.    *)
(***************************************************************************)
EXTENDS Integers, WellFoundedInduction, TLAPS

\* A set of natural numbers has a least member.
LEMMA Least ==
  ASSUME NEW T, T \subseteq Nat, T # {}
  PROVE  \E m \in T : \A k \in T : m <= k
  <1>1. \E m \in T : \A k \in T : ~(k < m)
    <2> DEFINE R == OpToRel(<, Nat)
    <2>1. IsWellFoundedOn(R, Nat)
      BY NatLessThanWellFounded
    <2>2. \A j, k \in Nat : j < k => <<j, k>> \in R
      BY DEF OpToRel
    <2> HIDE DEF R
    <2>3. PICK m \in T : \A k \in T : ~(<<k, m>> \in R)
      BY <2>1, WFMin
    <2>4. QED
      BY <2>2, <2>3, Zenon
  <1>2. PICK m \in T : \A k \in T : ~(k < m)
    BY <1>1
  <1>3. QED
    BY <1>2

\* A set of numbers that holds zero and with every number below n the next one.
LEMMA Counting ==
  ASSUME NEW n \in Nat, NEW T, 0 \in T, \A i \in 0..n - 1 : i \in T => i + 1 \in T
  PROVE  \A i \in 0..n : i \in T
<1> DEFINE Out == {i \in 0..n : i \notin T}
<1>1. SUFFICES ASSUME Out # {}
               PROVE  FALSE
  OBVIOUS
<1>2. Out \subseteq Nat
  OBVIOUS
<1>3. PICK m \in Out : \A k \in Out : m <= k
  BY <1>1, <1>2, Least
<1>4. m \in 1..n
  OBVIOUS
<1>5. m - 1 \notin Out
  BY <1>3, <1>4
<1>6. QED
  BY <1>3, <1>4, <1>5

\* f begins with a and goes on with what step makes of the last value.
Iterates(f, V, n, a, step) ==
  f \in [0..n -> V] /\ f[0] = a /\ \A i \in 1..n : f[i] = step[<<f[i - 1], i>>]

\* A function may be defined by what it is at zero and how it goes on.
LEMMA IterationExists ==
  ASSUME NEW n \in Nat, NEW V, NEW a \in V, NEW step \in [V \X (1..n) -> V]
  PROVE  \E f : Iterates(f, V, n, a, step)
<1> DEFINE IsPart(f, m) == Iterates(f, V, m, a, step)
           T == {m \in 0..n : \E f : IsPart(f, m)}
<1>1. 0 \in T
  <2>1. IsPart([i \in 0..0 |-> a], 0)
    BY DEF Iterates
  <2>2. 0 \in 0..n
    OBVIOUS
  <2> HIDE DEF IsPart
  <2>3. QED
    BY <2>1, <2>2
<1>2. ASSUME NEW m \in 0..n - 1, m \in T
      PROVE  m + 1 \in T
  <2>1. PICK f : IsPart(f, m)
    BY <1>2
  <2> DEFINE g == [i \in 0..m + 1 |-> IF i = m + 1 THEN step[<<f[m], m + 1>>] ELSE f[i]]
  <2>2. step[<<f[m], m + 1>>] \in V
    <3>1. f[m] \in V /\ m + 1 \in 1..n
      BY <2>1 DEF Iterates
    <3>2. QED
      BY <3>1
  <2>3. g \in [0..m + 1 -> V]
    BY <2>1, <2>2 DEF Iterates
  <2>4. g[0] = a
    BY <2>1 DEF Iterates
  <2>5. ASSUME NEW i \in 1..m + 1
        PROVE  g[i] = step[<<g[i - 1], i>>]
    <3>1. CASE i = m + 1
      <4>1. g[m + 1] = step[<<f[m], m + 1>>]
        OBVIOUS
      <4>2. g[m] = f[m]
        OBVIOUS
      <4>3. i - 1 = m
        BY <3>1
      <4>4. QED
        BY <3>1, <4>1, <4>2, <4>3, Zenon
    <3>2. CASE i # m + 1
      <4>1. i \in 1..m /\ i - 1 \in 0..m
        BY <3>2
      <4>2. f[i] = step[<<f[i - 1], i>>]
        BY <2>1, <4>1 DEF Iterates
      <4>3. g[i] = f[i] /\ g[i - 1] = f[i - 1]
        BY <3>2, <4>1
      <4>4. QED
        BY <4>2, <4>3, Zenon
    <3>3. QED
      BY <3>1, <3>2
  <2>6. IsPart(g, m + 1)
    BY <2>3, <2>4, <2>5 DEF Iterates
  <2> HIDE DEF IsPart
  <2>7. QED
    BY <2>6
<1>3. n \in T
  <2> HIDE DEF T
  <2>1. QED
    BY <1>1, <1>2, Counting
<1>4. QED
  BY <1>3

=============================================================================
