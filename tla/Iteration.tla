------------------------------ MODULE Iteration ------------------------------
(***************************************************************************)
(* Induction and primitive recursion over 0..m, stated for sets and        *)
(* functions so that they can be cited by name: an inductive statement is  *)
(* passed as the set of indices for which it holds, the step of a loop as  *)
(* a function.                                                             *)
(***************************************************************************)
EXTENDS Integers, TLAPS, WellFoundedInduction

\* Every non-empty set of naturals has a least element.
LEMMA LeastNatural ==
  ASSUME NEW T, T \subseteq Nat, T # {}
  PROVE  \E k \in T : \A j \in T : k <= j
<1>1. PICK k \in T : \A j \in T : ~ (<<j, k>> \in OpToRel(<, Nat))
  BY NatLessThanWellFounded, WFMin
<1>2. \A j \in T : ~ (j < k)
  BY <1>1 DEF OpToRel
<1> QED BY <1>2

\* Induction over 0..m for the index set T.
LEMMA UpTo ==
  ASSUME NEW m \in Nat, NEW T, 0 \in T,
         \A i \in 1..m : i - 1 \in T => i \in T
  PROVE  \A i \in 0..m : i \in T
<1> DEFINE C == {i \in 0..m : i \notin T}
<1>1. C = {}
  <2> SUFFICES ASSUME C # {} PROVE FALSE
    OBVIOUS
  <2>1. PICK k \in C : \A j \in C : k <= j
    <3>1. C \subseteq Nat
      OBVIOUS
    <3> HIDE DEF C
    <3> QED BY <3>1, LeastNatural
  <2>2. k \in 1..m /\ k - 1 \in 0..m
    OBVIOUS
  <2>3. k - 1 \in T
    BY <2>1, <2>2
  <2> QED BY <2>2, <2>3
<1> QED BY <1>1

\* The steps of a loop of m turns over values of X, and its run from x0.
LoopStep(m, X) == [(1..m) \X X -> X]
IsRun(f, m, x0, F) == f[0] = x0 /\ \A i \in 1..m : f[i] = F[<<i, f[i - 1]>>]

\* A loop of m turns over values of X has a run.
LEMMA LoopHasRun ==
  ASSUME NEW m \in Nat, NEW X, NEW x0 \in X, NEW F \in LoopStep(m, X)
  PROVE  \E f \in [0..m -> X] : IsRun(f, m, x0, F)
<1>0. F \in [(1..m) \X X -> X]
  BY DEF LoopStep
<1> DEFINE Run(k, f) == f[0] = x0 /\ \A i \in 1..k : f[i] = F[<<i, f[i - 1]>>]
           T == {k \in 0..m : \E f \in [0..k -> X] : Run(k, f)}
<1>1. 0 \in T
  <2> DEFINE f == [i \in 0..0 |-> x0]
  <2>1. f \in [0..0 -> X] /\ Run(0, f)
    OBVIOUS
  <2> HIDE DEF f
  <2> QED BY <2>1
<1>2. ASSUME NEW k \in 1..m, k - 1 \in T PROVE k \in T
  <2>1. PICK f \in [0..(k - 1) -> X] : Run(k - 1, f)
    BY <1>2
  <2> DEFINE h == [i \in 0..k |-> IF i = k THEN F[<<k, f[k - 1]>>] ELSE f[i]]
  <2>2. h \in [0..k -> X]
    BY <1>0
  <2>3. \A i \in 1..k : h[i] = F[<<i, h[i - 1]>>]
    <3> TAKE i \in 1..k
    <3>1. h[i - 1] = f[i - 1]
      OBVIOUS
    <3>2. CASE i = k
      <4>1. h[k] = F[<<k, f[k - 1]>>]
        OBVIOUS
      <4> QED BY <3>1, <3>2, <4>1
    <3>3. CASE i # k
      BY <2>1, <3>1, <3>3
    <3> QED BY <3>2, <3>3
  <2>4. h[0] = x0
    BY <2>1
  <2> HIDE DEF h
  <2> QED BY <2>2, <2>3, <2>4
<1>3. m \in T
  <2> HIDE DEF T
  <2> QED BY <1>1, <1>2, UpTo
<1> QED BY <1>3 DEF IsRun
=============================================================================
