----------------------------- MODULE Iteration ------------------------------
(***************************************************************************)
(* Loops: a value goes through a step for each element of a sequence.  A   *)
(* model that has a loop instantiates Step; what holds of any loop is      *)
(* proved here once.                                                       *)
(***************************************************************************)
EXTENDS Integers, Sequences, TLAPS, WellFoundedInduction

CONSTANT Step(_, _)   \* the value after one more element

\* The value after all elements of q.
All(base, q) ==
  LET after[k \in 0..Len(q)] == IF k = 0 THEN base ELSE Step(after[k - 1], q[k])
  IN after[Len(q)]

\* What is true at the start and stays true from each number to the next is
\* true up to the end.
LEMMA Upward ==
  ASSUME NEW n \in Nat, NEW T,
         0 \in T,
         \A k \in 1..n : k - 1 \in T => k \in T
  PROVE  0..n \subseteq T
<1> DEFINE R == OpToRel(<, Nat)
           Bad == {k \in Nat : k <= n /\ k \notin T}
<1> SUFFICES ASSUME Bad # {} PROVE FALSE
  OBVIOUS
<1>1. PICK x \in Bad : \A y \in Bad : ~(<<y, x>> \in R)
  <2>1. Bad \subseteq Nat
    OBVIOUS
  <2> HIDE DEF Bad, R
  <2> QED BY <2>1, NatLessThanWellFounded, WFMin DEF R
<1>2. \A y \in Bad : ~(y < x)
  BY <1>1 DEF OpToRel
<1>3. x \in 1..n /\ x - 1 \in 0..n /\ x - 1 < x
  OBVIOUS
<1>4. x - 1 \in Bad
  BY <1>3
<1> HIDE DEF Bad
<1> QED BY <1>2, <1>3, <1>4

\* A loop goes from value to value, one step for each element.
LEMMA Trace ==
  ASSUME NEW base, NEW q, Len(q) \in Nat
  PROVE  \E after : /\ after[0] = base /\ after[Len(q)] = All(base, q)
                    /\ \A k \in 1..Len(q) : after[k] = Step(after[k - 1], q[k])
<1> DEFINE n == Len(q)
<1>0. n \in Nat
  OBVIOUS
<1> HIDE DEF n
<1> DEFINE Ran(m, h) == h = [k \in 0..m |-> IF k = 0 THEN base ELSE Step(h[k - 1], q[k])]
           T == {m \in 0..n : \E h : Ran(m, h)}
<1>1. 0 \in T
  <2> DEFINE h == [k \in 0..0 |-> base]
  <2>1. Ran(0, h)
    OBVIOUS
  <2> HIDE DEF h, Ran
  <2> QED BY <1>0, <2>1
<1>2. ASSUME NEW m \in 1..n, m - 1 \in T
      PROVE  m \in T
  <2>1. PICK h : Ran(m - 1, h)
    BY <1>2
  <2>2. m \in 0..n
    BY <1>0
  <2>3. \A k \in 0..m - 1 : h[k] = IF k = 0 THEN base ELSE Step(h[k - 1], q[k])
    BY <2>1
  <2> DEFINE g == [k \in 0..m |-> IF k = m THEN Step(h[m - 1], q[m]) ELSE h[k]]
  <2>4. \A k \in 0..m : g[k] = IF k = 0 THEN base ELSE Step(g[k - 1], q[k])
    <3> TAKE k \in 0..m
    <3>1. CASE k = m
      <4>1. g[k] = Step(h[m - 1], q[m]) /\ m - 1 \in 0..m /\ m - 1 # m /\ m # 0
        BY <3>1
      <4>2. g[m - 1] = h[m - 1]
        BY <4>1
      <4> HIDE DEF g
      <4> QED BY <3>1, <4>1, <4>2
    <3>2. CASE k # m /\ k # 0
      <4>1. k \in 0..m - 1 /\ k - 1 \in 0..m /\ k - 1 # m
        BY <3>2
      <4>2. g[k] = h[k] /\ g[k - 1] = h[k - 1]
        BY <3>2, <4>1
      <4> HIDE DEF g
      <4> QED BY <2>3, <3>2, <4>1, <4>2
    <3>3. CASE k = 0
      <4>1. k \in 0..m - 1 /\ k # m
        BY <3>3
      <4>2. g[k] = h[k]
        BY <4>1
      <4> HIDE DEF g
      <4> QED BY <2>3, <3>3, <4>1, <4>2
    <3> QED BY <3>1, <3>2, <3>3
  <2>5. g = [k \in 0..m |-> g[k]]
    OBVIOUS
  <2> HIDE DEF g
  <2>6. Ran(m, g)
    BY <2>4, <2>5
  <2> QED BY <2>2, <2>6
<1> HIDE DEF Ran
<1>3. PICK h : Ran(n, h)
  <2> HIDE DEF T
  <2>1. n \in T
    BY <1>0, <1>1, <1>2, Upward
  <2> QED BY <2>1 DEF T
<1> DEFINE after == CHOOSE a : a = [k \in 0..n |-> IF k = 0 THEN base ELSE Step(a[k - 1], q[k])]
<1>4. after = [k \in 0..n |-> IF k = 0 THEN base ELSE Step(after[k - 1], q[k])]
  BY <1>3 DEF Ran
<1>5. All(base, q) = after[n]
  BY DEF All, n
<1> HIDE DEF after
<1>6. \A k \in 0..n : after[k] = IF k = 0 THEN base ELSE Step(after[k - 1], q[k])
  BY <1>4
<1>7. after[0] = base /\ \A k \in 1..n : after[k] = Step(after[k - 1], q[k])
  BY <1>0, <1>6
<1> QED BY <1>5, <1>7 DEF n
=============================================================================
