----------------------------- MODULE Recursion -----------------------------
(***************************************************************************)
(* Facts about recursion over the natural numbers, stated with sets and    *)
(* functions instead of predicates and operators.                          *)
(***************************************************************************)
EXTENDS Integers, FiniteSets, FiniteSetTheorems, TLAPS

\* Induction: a set that has 0, and with n also n + 1, has every number.
\* If it had not m, then n |-> n + 1 would map the members of 0 .. m that it
\* has into those without 0, one fewer: a contradiction to the pigeonhole
\* principle.
LEMMA NatInductionSet ==
  ASSUME NEW T, 0 \in T, \A n \in Nat : n \in T => n + 1 \in T
  PROVE  Nat \subseteq T
<1> SUFFICES ASSUME NEW m \in Nat, m \notin T PROVE FALSE
  OBVIOUS
<1> DEFINE S == {n \in 0 .. m : n \in T}
<1> DEFINE U == S \ {0}
<1> DEFINE f == [n \in S |-> n + 1]
<1>1. IsFiniteSet(0 .. m)
  BY FS_Interval
<1>2. IsFiniteSet(S)
  BY <1>1, FS_Subset
<1>3. 0 \in S
  OBVIOUS
<1>4. IsFiniteSet(U) /\ Cardinality(U) = Cardinality(S) - 1
  BY <1>2, <1>3, FS_RemoveElement
<1>5. Cardinality(S) \in Nat
  BY <1>2, FS_CardinalityType
<1>6. f \in [S -> U]
  OBVIOUS
<1> HIDE DEF S, U, f
<1>7. \E x, y \in S : x # y /\ f[x] = f[y]
  BY <1>2, <1>4, <1>5, <1>6, FS_PigeonHole
<1> QED
  BY <1>7 DEF f, S

\* The functions on 0 .. n that a start value and a step define.
Recursive(V, v0, step, n) ==
  {f \in [0 .. n -> V] : f[0] = v0 /\ \A i \in 1 .. n : f[i] = step[<<i, f[i - 1]>>]}

\* Recursion: there is such a function.
LEMMA PrefixRecursion ==
  ASSUME NEW V, NEW v0 \in V, NEW step \in [Nat \X V -> V], NEW n \in Nat
  PROVE  Recursive(V, v0, step, n) # {}
<1> DEFINE Rec(k) == {f \in [0 .. k -> V] :
                        /\ f[0] = v0
                        /\ \A i \in 1 .. k : f[i] = step[<<i, f[i - 1]>>]}
<1> DEFINE T == {k \in Nat : Rec(k) # {}}
<1>1. 0 \in T
  <2> DEFINE f == [i \in 0 .. 0 |-> v0]
  <2>1. f \in Rec(0)
    OBVIOUS
  <2> QED
    BY <2>1
<1>2. ASSUME NEW k \in Nat, k \in T PROVE k + 1 \in T
  <2>1. PICK f \in [0 .. k -> V] :
          f[0] = v0 /\ \A i \in 1 .. k : f[i] = step[<<i, f[i - 1]>>]
    BY <1>2
  <2> HIDE DEF T
  <2> DEFINE last == step[<<k + 1, f[k]>>]
  <2> DEFINE g == [i \in 0 .. k + 1 |-> IF i = k + 1 THEN last ELSE f[i]]
  <2>2. f[k] \in V
    OBVIOUS
  <2>3. last \in V
    BY <2>2
  <2> HIDE DEF last
  <2>4. g \in [0 .. k + 1 -> V]
    BY <2>3
  <2>5. g[0] = v0
    BY <2>1
  <2>6. ASSUME NEW i \in 1 .. k + 1 PROVE g[i] = step[<<i, g[i - 1]>>]
    <3>1. CASE i = k + 1
      <4>1. g[i] = last /\ g[i - 1] = f[k]
        BY <3>1
      <4> QED
        BY <4>1, <3>1 DEF last
    <3>2. CASE i \in 1 .. k
      <4>1. g[i] = f[i] /\ g[i - 1] = f[i - 1]
        BY <3>2
      <4> QED
        BY <4>1, <2>1, <3>2
    <3> QED
      BY <3>1, <3>2
  <2> HIDE DEF g
  <2>7. g \in Rec(k + 1)
    BY <2>4, <2>5, <2>6
  <2> QED
    BY <2>7 DEF T
<1> HIDE DEF T
<1>3. Nat \subseteq T
  BY <1>1, <1>2, NatInductionSet
<1>4. Rec(n) # {}
  BY <1>3 DEF T
<1> QED
  BY <1>4 DEF Recursive
=============================================================================
