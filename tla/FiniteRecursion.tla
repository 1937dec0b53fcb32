-------------------------- MODULE FiniteRecursion ---------------------------
(***************************************************************************)
(* Induction, and the existence of recursive functions, over 0 .. n.  The  *)
(* statements are about sets and functions, where those of the library are *)
(* about operators, so that every prover can use them.  They rest on the   *)
(* well-foundedness of < on the natural numbers.                           *)
(***************************************************************************)
EXTENDS Integers, WellFoundedInduction, TLAPS

(* Induction over the natural numbers, for a set instead of a predicate.   *)
LEMMA Induct ==
  ASSUME NEW S \in SUBSET Nat, 0 \in S, \A n \in S : n + 1 \in S
  PROVE  S = Nat
  <1> DEFINE T == Nat \ S
             R == OpToRel(<, Nat)
  <1> SUFFICES ASSUME T # {} PROVE FALSE
    OBVIOUS
  <1>1. \E x \in T : \A y \in T : ~ (<<y, x>> \in R)
    <2>1. IsWellFoundedOn(R, Nat)
      BY NatLessThanWellFounded
    <2>2. T \subseteq Nat
      OBVIOUS
    <2> HIDE DEF T, R
    <2>3. QED
      BY <2>1, <2>2, WFMin
  <1>2. PICK x \in T : \A y \in T : ~ (<<y, x>> \in R)
    BY <1>1
  <1>3. x \in Nat /\ x # 0
    OBVIOUS
  <1>4. x - 1 \in Nat /\ x = (x - 1) + 1 /\ x - 1 < x
    BY <1>3
  <1>5. x - 1 \notin T
    BY <1>2, <1>3, <1>4 DEF OpToRel
  <1>6. QED
    BY <1>3, <1>4, <1>5

(* The same, over an interval. *)
LEMMA InductUpTo ==
  ASSUME NEW n \in Nat, NEW S, 0 \in S, \A k \in 1 .. n : k - 1 \in S => k \in S
  PROVE  \A k \in 0 .. n : k \in S
  <1> DEFINE T == {k \in Nat : k <= n => k \in S}
  <1>1. 0 \in T
    OBVIOUS
  <1>2. ASSUME NEW k \in T PROVE k + 1 \in T
    <2>1. k + 1 <= n => k + 1 \in 1 .. n /\ (k + 1) - 1 = k
      OBVIOUS
    <2>2. QED
      BY <2>1
  <1>3. T \in SUBSET Nat
    OBVIOUS
  <1>4. T = Nat
    <2> HIDE DEF T
    <2>1. QED
      BY <1>1, <1>2, <1>3, Induct
  <1>5. QED
    BY <1>4

(* A recursive function over 0 .. n with values in V exists. *)
IsIteration(f, n, start, step) ==
  f[0] = start /\ \A i \in 1 .. n : f[i] = step[<<i, f[i - 1]>>]

(* Any step function on a range is iterated by some function. *)
LEMMA Iteration ==
  ASSUME NEW n \in Nat, NEW V, NEW start \in V, NEW step \in [(1 .. n) \X V -> V]
  PROVE  \E f \in [0 .. n -> V] : IsIteration(f, n, start, step)
  <1> DEFINE S == {k \in Nat : k <= n =>
                     \E f \in [0 .. k -> V] : IsIteration(f, k, start, step)}
  <1>1. 0 \in S
    <2>1. [i \in 0 .. 0 |-> start] \in [0 .. 0 -> V]
      OBVIOUS
    <2>2. IsIteration([i \in 0 .. 0 |-> start], 0, start, step)
      BY DEF IsIteration
    <2>3. QED
      BY <2>1, <2>2
  <1>2. ASSUME NEW k \in S PROVE k + 1 \in S
    <2> SUFFICES ASSUME k + 1 <= n
                 PROVE  \E f \in [0 .. k + 1 -> V] : IsIteration(f, k + 1, start, step)
      OBVIOUS
    <2>1. PICK f \in [0 .. k -> V] : IsIteration(f, k, start, step)
      OBVIOUS
    <2> DEFINE g == [i \in 0 .. k + 1 |-> IF i = k + 1 THEN step[<<k + 1, f[k]>>] ELSE f[i]]
    <2>2. step[<<k + 1, f[k]>>] \in V
      <3>1. k + 1 \in 1 .. n /\ f[k] \in V
        OBVIOUS
      <3>2. <<k + 1, f[k]>> \in (1 .. n) \X V
        BY <3>1
      <3>3. QED
        BY <3>2
    <2>3. g \in [0 .. k + 1 -> V]
      BY <2>2
    <2>4. IsIteration(g, k + 1, start, step)
      <3>1. g[0] = start /\ g[k + 1] = step[<<k + 1, f[k]>>] /\ g[k] = f[k]
        BY <2>1 DEF IsIteration
      <3>2. \A i \in 1 .. k : g[i] = f[i] /\ g[i - 1] = f[i - 1]
        OBVIOUS
      <3> HIDE DEF g
      <3>3. \A i \in 1 .. k : g[i] = step[<<i, g[i - 1]>>]
        BY <2>1, <3>2 DEF IsIteration
      <3>4. k + 1 - 1 = k /\ \A i \in 1 .. k + 1 : i = k + 1 \/ i \in 1 .. k
        OBVIOUS
      <3>5. ASSUME NEW i \in 1 .. k + 1 PROVE g[i] = step[<<i, g[i - 1]>>]
        <4>1. CASE i = k + 1
          <5>1. i - 1 = k
            BY <4>1
          <5>2. QED
            BY <3>1, <4>1, <5>1, Zenon
        <4>2. CASE i \in 1 .. k
          BY <3>3, <4>2
        <4>3. QED
          BY <3>4, <4>1, <4>2
      <3>6. QED
        BY <3>1, <3>5 DEF IsIteration
    <2>5. QED
      BY <2>3, <2>4
  <1>3. S = Nat
    <2>1. S \in SUBSET Nat
      OBVIOUS
    <2> HIDE DEF S
    <2>2. QED
      BY <1>1, <1>2, <2>1, Induct
  <1>4. QED
    BY <1>3
=============================================================================
