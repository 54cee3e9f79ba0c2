----------------------------- MODULE Induction -----------------------------
(***************************************************************************)
(* Induction over the natural numbers and iteration, stated with sets and  *)
(* functions instead of operators so that they can be cited with any       *)
(* property: the set of the numbers that have it.                          *)
(***************************************************************************)
EXTENDS Integers, Sequences, FiniteSetTheorems, TLAPS

\* A non-empty set of natural numbers has a least element: the intervals from 0
\* to its members are finite sets, and their inclusion is well-founded.
LEMMA LeastElement ==
    ASSUME NEW T \in SUBSET Nat, T # {}
    PROVE  \E n \in T : \A m \in T : n <= m
<1> DEFINE W == {0 .. n : n \in T}
<1>1. W \subseteq FiniteSubsetsOf(Nat)
  <2> SUFFICES ASSUME NEW n \in T PROVE 0 .. n \in FiniteSubsetsOf(Nat)
    OBVIOUS
  <2>1. IsFiniteSet(0 .. n)
    BY FS_Interval
  <2> QED BY <2>1 DEF FiniteSubsetsOf
<1>2. W # {}
  OBVIOUS
<1>3. IsWellFoundedOn(StrictSubsetOrdering(Nat), FiniteSubsetsOf(Nat))
  BY FS_StrictSubsetOrderingWellFounded
<1> HIDE DEF W
<1>4. PICK x \in W : \A y \in W : ~(<<y, x>> \in StrictSubsetOrdering(Nat))
  BY <1>1, <1>2, <1>3, WFMin
<1> USE DEF W
<1>5. PICK n \in T : x = 0 .. n
  BY <1>4
<1>6. ASSUME NEW m \in T, m < n PROVE FALSE
  <2>1. 0 .. m \in W
    BY <1>6
  <2>2. 0 .. m \subseteq 0 .. n /\ 0 .. m # 0 .. n
    BY <1>6
  <2>3. 0 .. m \in SUBSET Nat /\ 0 .. n \in SUBSET Nat
    OBVIOUS
  <2>4. <<0 .. m, 0 .. n>> \in StrictSubsetOrdering(Nat)
    BY <2>2, <2>3 DEF StrictSubsetOrdering
  <2> QED BY <2>1, <2>4, <1>4, <1>5
<1> QED BY <1>6

\* Induction: a set with 0 and the successor of each of its numbers has them all.
LEMMA SetInduction ==
    ASSUME NEW S, 0 \in S, \A n \in Nat : n \in S => n + 1 \in S
    PROVE  Nat \subseteq S
<1> SUFFICES ASSUME Nat \ S # {} PROVE FALSE
  OBVIOUS
<1>1. PICK n \in Nat \ S : \A m \in Nat \ S : n <= m
  BY LeastElement
<1>2. n # 0
  BY <1>1
<1>3. n - 1 \in Nat /\ n - 1 \in S
  BY <1>1, <1>2
<1> QED BY <1>1, <1>3

\* Iteration: functions that are applied one after the other have a sequence of values.
IsRun(f, S, s0, h, m) ==
    f \in [0 .. m -> S] /\ f[0] = s0 /\ \A k \in 1 .. m : f[k] = h[k][f[k - 1]]

LEMMA Iteration ==
    ASSUME NEW S, NEW s0 \in S, NEW h \in [Nat -> [S -> S]], NEW m \in Nat
    PROVE  \E f : IsRun(f, S, s0, h, m)
<1> DEFINE Runs(f, n) == f[0] = s0 /\ \A k \in 1 .. n : f[k] = h[k][f[k - 1]]
           N == {n \in Nat : \E f \in [0 .. n -> S] : Runs(f, n)}
<1>1. 0 \in N
  <2>1. Runs([k \in 0 .. 0 |-> s0], 0) /\ [k \in 0 .. 0 |-> s0] \in [0 .. 0 -> S]
    OBVIOUS
  <2> QED BY <2>1
<1>2. ASSUME NEW n \in Nat, n \in N PROVE n + 1 \in N
  <2>1. PICK f \in [0 .. n -> S] : Runs(f, n)
    BY <1>2
  <2> DEFINE g == [k \in 0 .. n + 1 |-> IF k <= n THEN f[k] ELSE h[n + 1][f[n]]]
  <2>2. h[n + 1][f[n]] \in S
    BY <2>1
  <2>3. g \in [0 .. n + 1 -> S]
    BY <2>2
  <2>4. g[0] = s0
    BY <2>1
  <2>5. ASSUME NEW k \in 1 .. n + 1 PROVE g[k] = h[k][g[k - 1]]
    <3>1. CASE k <= n
      BY <2>1, <3>1
    <3>2. CASE k = n + 1
      BY <3>2
    <3> QED BY <3>1, <3>2
  <2> HIDE DEF g
  <2>6. Runs(g, n + 1) /\ n + 1 \in Nat
    BY <2>4, <2>5
  <2> QED BY <2>3, <2>6
<1> HIDE DEF N
<1>3. m \in N
  BY <1>1, <1>2, SetInduction
<1> QED BY <1>3 DEF N, IsRun

\* The first n values of f, and that they differ.
Listed(f, n) == {f[i] : i \in 1 .. n}
Different(f, n) == \A i, j \in 1 .. n : f[i] = f[j] => i = j

\* As many different elements as indices.
LEMMA CountRange ==
    ASSUME NEW n \in Nat, NEW f, Different(f, n)
    PROVE  IsFiniteSet(Listed(f, n)) /\ Cardinality(Listed(f, n)) = n
<1> DEFINE T == {f[i] : i \in 1 .. n}
           g == [i \in 1 .. n |-> f[i]]
<1>1. g \in Bijection(1 .. n, T)
  BY DEF Bijection, Injection, Surjection, IsInjective, Different
<1>2. ExistsBijection(1 .. n, T)
  BY <1>1 DEF ExistsBijection
<1> QED BY <1>2, FS_CountingElements, FS_NatBijection DEF Listed
=============================================================================
