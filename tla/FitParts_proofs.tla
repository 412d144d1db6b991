-------------------------- MODULE FitParts_proofs --------------------------
(***************************************************************************)
(* Proofs about two parts of a fit: the containers of its items, and the   *)
(* simulator of its reactive armor hardeners (RAHs), for any containers,   *)
(* items, types and fits, and any hardeners, ships and damage profiles.    *)
(*                                                                         *)
(* Containers.  Lemmas say what the operations on lists do to what a list  *)
(* holds; one lemma says what a move of items in and out of one container  *)
(* does to the invariant; the step theorem then has one case per call.     *)
(*                                                                         *)
(* Hardeners.  RahInv says that results that are kept are those which a    *)
(* walk through the ticks of a simulation ends with, that the maps of the  *)
(* hardeners still keep every value the walk has rested on, and that a     *)
(* simulation under way has made a walk so far.  Lemmas say which changes  *)
(* leave a walk as it is; one lemma has the case of each action; the last  *)
(* ones show that a walk which has ended is the run from scratch.          *)
(***************************************************************************)
EXTENDS ItemContainers, RahSimulation, TLAPS, SequenceTheorems, FiniteSetTheorems,
        WellFoundedInduction

Cell == Items \cup {None}

\* No item twice; what is held; no empty position at the end.
Single(q) == \A m, n \in 1..Len(q) : q[m] = q[n] /\ q[m] # None => m = n
Held(q) == ToSet(q) \ {None}
Tidy(q) == q # <<>> => q[Len(q)] # None

-----------------------------------------------------------------------------
(* Operations on lists.                                                    *)

LEMMA MaxOfTwo ==
  ASSUME NEW n \in Int
  PROVE  /\ n <= 0 => Max({0, n}) = 0
         /\ n > 0 => Max({0, n}) = n
<1>1. CASE n <= 0
  <2>1. \A x \in {0, n} : (\A y \in {0, n} : x >= y) <=> x = 0
    BY <1>1
  <2> QED BY <1>1, <2>1 DEF Max
<1>2. CASE n > 0
  <2>1. \A x \in {0, n} : (\A y \in {0, n} : x >= y) <=> x = n
    BY <1>2
  <2> QED BY <1>2, <2>1 DEF Max
<1> QED BY <1>1, <1>2

\* The maximum of a set of naturals that has a bound is in the set.
LEMMA MaxInSet ==
  ASSUME NEW b \in Nat, NEW S \in SUBSET (0..b), S # {}
  PROVE  /\ Max(S) \in S
         /\ \A y \in S : Max(S) >= y
<1> DEFINE R == OpToRel(<, Nat)
           T == {n \in Nat : n <= b /\ b - n \in S}
<1>1. T # {}
  <2>1. PICK x \in S : TRUE
    OBVIOUS
  <2>2. b - x \in T
    BY <2>1
  <2> QED BY <2>2
<1>2. PICK x \in T : \A y \in T : ~(<<y, x>> \in R)
  <2>1. T \subseteq Nat
    OBVIOUS
  <2> HIDE DEF T, R
  <2> QED BY <1>1, <2>1, NatLessThanWellFounded, WFMin DEF R
<1>3. \A y \in T : ~(y < x)
  BY <1>2 DEF OpToRel
<1>4. x \in Nat /\ b - x \in S /\ S \subseteq Int
  OBVIOUS
<1>5. ASSUME NEW y \in S PROVE b - x >= y
  <2>1. y \in 0..b /\ b - y \in Nat /\ b - y <= b /\ b - (b - y) = y
    OBVIOUS
  <2>2. b - y \in T
    BY <2>1
  <2>3. ~(b - y < x)
    BY <1>3, <2>2
  <2> QED BY <2>1, <2>3
<1> HIDE DEF T
<1>6. ASSUME NEW z \in S, \A y \in S : z >= y PROVE z = b - x
  <2>1. z >= b - x /\ b - x >= z
    BY <1>4, <1>5, <1>6
  <2> QED BY <1>4, <2>1
<1> QED BY <1>4, <1>5, <1>6 DEF Max

\* Allocation adds empty positions up to the length asked for.
LEMMA AllocatedList ==
  ASSUME NEW q \in Seq(Cell), NEW k \in Nat
  PROVE  LET a == Allocated(q, k)
         IN /\ a \in Seq(Cell)
            /\ Len(a) = IF k > Len(q) THEN k ELSE Len(q)
            /\ \A n \in 1..Len(a) : a[n] = IF n <= Len(q) THEN q[n] ELSE None
<1> DEFINE m == Max({0, k - Len(q)})
           e == [n \in 1..m |-> None]
<1>1. Len(q) \in Nat
  BY LenProperties
<1>2. m \in Nat /\ m = IF k > Len(q) THEN k - Len(q) ELSE 0
  BY <1>1, MaxOfTwo, k - Len(q) \in Int
<1> HIDE DEF m
<1>3. e \in Seq(Cell) /\ Len(e) = m /\ \A n \in 1..m : e[n] = None
  BY <1>2 DEF Cell
<1> HIDE DEF e
<1>4. /\ q \o e \in Seq(Cell) /\ Len(q \o e) = Len(q) + Len(e)
      /\ \A n \in 1..Len(q) + Len(e) :
           (q \o e)[n] = IF n <= Len(q) THEN q[n] ELSE e[n - Len(q)]
  BY <1>3, ConcatProperties
<1>5. Allocated(q, k) = q \o e
  BY DEF Allocated, e, m
<1> QED BY <1>1, <1>2, <1>3, <1>4, <1>5

\* Trimming cuts off the empty positions at the end, and those only.
LEMMA TrimmedList ==
  ASSUME NEW q \in Seq(Cell)
  PROVE  LET t == Trimmed(q)
         IN /\ t \in Seq(Cell) /\ Len(t) <= Len(q) /\ Tidy(t)
            /\ \A n \in 1..Len(t) : t[n] = q[n]
            /\ \A n \in 1..Len(q) : n > Len(t) => q[n] = None
<1> DEFINE S == {0} \cup {n \in DOMAIN q : q[n] # None}
           m == Max(S)
<1>1. Len(q) \in Nat /\ DOMAIN q = 1..Len(q) /\ \A n \in 1..Len(q) : q[n] \in Cell
  BY LenProperties, ElementOfSeq
<1>2. S \in SUBSET (0..Len(q)) /\ S # {}
  BY <1>1
<1> HIDE DEF S
<1>3. m \in S /\ \A y \in S : m >= y
  BY <1>1, <1>2, MaxInSet
<1> HIDE DEF m
<1>4. m \in 0..Len(q) /\ (m # 0 => q[m] # None)
  BY <1>2, <1>3 DEF S
<1>5. /\ SubSeq(q, 1, m) \in Seq(Cell) /\ Len(SubSeq(q, 1, m)) = m
      /\ \A n \in 1..m : SubSeq(q, 1, m)[n] = q[n]
  <2>1. \A n \in 1..m : q[n] \in Cell
    BY <1>1, <1>4
  <2>2. m \in Int /\ 1 \in Int
    BY <1>4
  <2> QED BY <1>4, <2>1, <2>2, SubSeqProperties
<1>6. ASSUME NEW n \in 1..Len(q), n > m PROVE q[n] = None
  BY <1>1, <1>3, <1>4, <1>6 DEF S
<1>7. Trimmed(q) = SubSeq(q, 1, m)
  BY DEF Trimmed, m, S
<1>8. Tidy(SubSeq(q, 1, m))
  BY <1>4, <1>5, EmptySeq DEF Tidy
<1> QED BY <1>1, <1>4, <1>5, <1>6, <1>7, <1>8

LEMMA InsertedList ==
  ASSUME NEW q \in Seq(Cell), NEW p \in 1..Len(q) + 1, NEW v \in Cell
  PROVE  LET a == InsertAt(q, p, v)
         IN /\ a \in Seq(Cell) /\ Len(a) = Len(q) + 1
            /\ \A n \in 1..Len(q) + 1 :
                 a[n] = IF n < p THEN q[n] ELSE IF n = p THEN v ELSE q[n - 1]
<1> DEFINE x == SubSeq(q, 1, p - 1)
           z == SubSeq(q, p, Len(q))
<1>1. Len(q) \in Nat /\ \A n \in 1..Len(q) : q[n] \in Cell
  BY LenProperties, ElementOfSeq
<1>2. /\ x \in Seq(Cell) /\ Len(x) = p - 1
      /\ \A n \in 1..p - 1 : x[n] = q[n]
  <2>1. \A n \in 1..p - 1 : q[n] \in Cell
    BY <1>1
  <2> QED BY <1>1, <2>1, SubSeqProperties, p - 1 \in Int
<1>3. /\ z \in Seq(Cell) /\ Len(z) = Len(q) - p + 1
      /\ \A n \in 1..Len(q) - p + 1 : z[n] = q[p + n - 1]
  <2>1. \A n \in p..Len(q) : q[n] \in Cell
    BY <1>1
  <2> QED BY <1>1, <2>1, SubSeqProperties
<1> HIDE DEF x, z
<1> DEFINE w == <<v>>
<1>4. w \in Seq(Cell) /\ Len(w) = 1 /\ w[1] = v
  OBVIOUS
<1> HIDE DEF w
<1>5. /\ x \o w \in Seq(Cell) /\ Len(x \o w) = p
      /\ \A n \in 1..p : (x \o w)[n] = IF n < p THEN q[n] ELSE v
  <2>1. /\ x \o w \in Seq(Cell) /\ Len(x \o w) = Len(x) + Len(w)
        /\ \A n \in 1..Len(x) + Len(w) :
             (x \o w)[n] = IF n <= Len(x) THEN x[n] ELSE w[n - Len(x)]
    BY <1>2, <1>4, ConcatProperties
  <2>2. ASSUME NEW n \in 1..p PROVE (x \o w)[n] = IF n < p THEN q[n] ELSE v
    <3>1. n \in 1..Len(x) + Len(w)
      BY <1>1, <1>2, <1>4
    <3>2. CASE n < p
      BY <1>1, <1>2, <2>1, <3>1, <3>2
    <3>3. CASE n = p
      <4>1. n - Len(x) = 1 /\ ~(n <= Len(x))
        BY <1>1, <1>2, <3>3
      <4> QED BY <1>4, <2>1, <3>1, <3>3, <4>1
    <3>4. n < p \/ n = p
      BY <1>1
    <3>5. n = p => ~(n < p)
      BY <1>1
    <3> QED BY <3>2, <3>3, <3>4, <3>5
  <2> QED BY <1>1, <1>2, <1>4, <2>1, <2>2
<1> DEFINE y == x \o w
<1> HIDE DEF y
<1>6. /\ y \o z \in Seq(Cell) /\ Len(y \o z) = Len(y) + Len(z)
      /\ \A n \in 1..Len(y) + Len(z) :
           (y \o z)[n] = IF n <= Len(y) THEN y[n] ELSE z[n - Len(y)]
  <2>1. y \in Seq(Cell)
    BY <1>5 DEF y
  <2> QED BY <1>3, <2>1, ConcatProperties
<1>7. InsertAt(q, p, v) = y \o z
  BY DEF InsertAt, w, x, y, z
<1>8. Len(y) = p /\ \A n \in 1..p : y[n] = IF n < p THEN q[n] ELSE v
  BY <1>5 DEF y
<1>9. ASSUME NEW n \in 1..Len(q) + 1
      PROVE  (y \o z)[n] = IF n < p THEN q[n] ELSE IF n = p THEN v ELSE q[n - 1]
  <2>1. CASE n <= p
    BY <1>1, <1>3, <1>6, <1>8, <2>1
  <2>2. CASE n > p
    <3>1. n - p \in 1..Len(q) - p + 1 /\ p + (n - p) - 1 = n - 1
      BY <1>1, <2>2
    <3>2. n \in 1..Len(y) + Len(z) /\ ~(n <= Len(y))
      BY <1>1, <1>3, <1>8, <2>2
    <3>3. (y \o z)[n] = z[n - p]
      BY <1>6, <1>8, <3>2
    <3>4. z[n - p] = q[n - 1]
      BY <1>3, <3>1
    <3> QED BY <1>1, <2>2, <3>3, <3>4
  <2>3. n <= p \/ n > p
    BY <1>1
  <2> QED BY <2>1, <2>2, <2>3
<1> QED BY <1>1, <1>3, <1>6, <1>7, <1>8, <1>9

LEMMA RemovedList ==
  ASSUME NEW q \in Seq(Cell), NEW p \in 1..Len(q)
  PROVE  LET a == RemoveAt(q, p)
         IN /\ a \in Seq(Cell) /\ Len(a) = Len(q) - 1
            /\ \A n \in 1..Len(q) - 1 : a[n] = IF n < p THEN q[n] ELSE q[n + 1]
<1> DEFINE x == SubSeq(q, 1, p - 1)
           z == SubSeq(q, p + 1, Len(q))
<1>1. Len(q) \in Nat /\ \A n \in 1..Len(q) : q[n] \in Cell
  BY LenProperties, ElementOfSeq
<1>2. /\ x \in Seq(Cell) /\ Len(x) = p - 1
      /\ \A n \in 1..p - 1 : x[n] = q[n]
  <2>1. \A n \in 1..p - 1 : q[n] \in Cell
    BY <1>1
  <2> QED BY <1>1, <2>1, SubSeqProperties, p - 1 \in Int
<1>3. /\ z \in Seq(Cell) /\ Len(z) = Len(q) - p
      /\ \A n \in 1..Len(q) - p : z[n] = q[p + n]
  <2>1. \A n \in p + 1..Len(q) : q[n] \in Cell
    BY <1>1
  <2>2. /\ z \in Seq(Cell) /\ Len(z) = IF p + 1 <= Len(q) THEN Len(q) - (p + 1) + 1 ELSE 0
        /\ \A n \in 1..Len(q) - (p + 1) + 1 : z[n] = q[p + 1 + n - 1]
    BY <1>1, <2>1, SubSeqProperties, p + 1 \in Int
  <2> HIDE DEF z
  <2> QED BY <1>1, <2>2
<1> HIDE DEF x, z
<1>4. /\ x \o z \in Seq(Cell) /\ Len(x \o z) = Len(x) + Len(z)
      /\ \A n \in 1..Len(x) + Len(z) :
           (x \o z)[n] = IF n <= Len(x) THEN x[n] ELSE z[n - Len(x)]
  BY <1>2, <1>3, ConcatProperties
<1>5. RemoveAt(q, p) = x \o z
  BY DEF RemoveAt, x, z
<1>6. ASSUME NEW n \in 1..Len(q) - 1
      PROVE  (x \o z)[n] = IF n < p THEN q[n] ELSE q[n + 1]
  <2>1. n \in 1..Len(x) + Len(z) /\ (n <= Len(x) <=> n < p)
    BY <1>1, <1>2, <1>3
  <2>2. CASE n < p
    BY <1>1, <1>2, <1>4, <2>1, <2>2
  <2>3. CASE n >= p
    <3>1. n - (p - 1) \in 1..Len(q) - p /\ p + (n - (p - 1)) = n + 1
      BY <1>1, <2>3
    <3>2. (x \o z)[n] = z[n - (p - 1)]
      BY <1>1, <1>2, <1>4, <2>1, <2>3
    <3>3. ~(n < p) /\ z[n - (p - 1)] = q[n + 1]
      BY <1>1, <1>3, <2>3, <3>1
    <3> QED BY <3>2, <3>3
  <2>4. n < p \/ n >= p
    BY <1>1
  <2> QED BY <2>2, <2>3, <2>4
<1>7. Len(x \o z) = Len(q) - 1
  BY <1>1, <1>2, <1>3, <1>4
<1> QED BY <1>4, <1>5, <1>6, <1>7

LEMMA AppendedList ==
  ASSUME NEW q \in Seq(Cell), NEW v \in Cell
  PROVE  LET a == Append(q, v)
         IN /\ a \in Seq(Cell) /\ Len(a) = Len(q) + 1
            /\ \A n \in 1..Len(q) + 1 : a[n] = IF n <= Len(q) THEN q[n] ELSE v
<1>1. Len(q) \in Nat
  BY LenProperties
<1> QED BY <1>1, AppendProperties

\* Only the list itself can be had by trimming it with empty positions added.
LEMMA TrimmedBack ==
  ASSUME NEW q \in Seq(Cell), Tidy(q), NEW a \in Seq(Cell), Len(q) <= Len(a),
         \A n \in 1..Len(a) : a[n] = IF n <= Len(q) THEN q[n] ELSE None
  PROVE  Trimmed(a) = q
<1> DEFINE t == Trimmed(a)
<1>1. Len(q) \in Nat /\ Len(a) \in Nat
  BY LenProperties
<1>2. /\ t \in Seq(Cell) /\ Len(t) <= Len(a) /\ Tidy(t)
      /\ \A n \in 1..Len(t) : t[n] = a[n]
      /\ \A n \in 1..Len(a) : n > Len(t) => a[n] = None
  BY TrimmedList
<1> HIDE DEF t
<1>3. Len(t) \in Nat
  BY <1>2, LenProperties
<1>4. ~(Len(t) < Len(q))
  <2> SUFFICES ASSUME Len(t) < Len(q) PROVE FALSE
    OBVIOUS
  <2>1. Len(q) \in 1..Len(a) /\ Len(q) > Len(t) /\ q # <<>>
    BY <1>1, <1>3, EmptySeq
  <2>2. a[Len(q)] = None /\ a[Len(q)] = q[Len(q)]
    BY <1>1, <1>2, <2>1
  <2> QED BY <2>1, <2>2 DEF Tidy
<1>5. ~(Len(t) > Len(q))
  <2> SUFFICES ASSUME Len(t) > Len(q) PROVE FALSE
    OBVIOUS
  <2>1. Len(t) \in 1..Len(a) /\ t # <<>> /\ ~(Len(t) <= Len(q))
    BY <1>1, <1>2, <1>3, EmptySeq
  <2>2. t[Len(t)] = None
    BY <1>2, <1>3, <2>1
  <2> QED BY <1>2, <2>1, <2>2 DEF Tidy
<1>6. Len(t) = Len(q)
  BY <1>1, <1>3, <1>4, <1>5
<1>7. \A n \in 1..Len(t) : t[n] = q[n]
  BY <1>1, <1>2, <1>6
<1>8. t = q
  BY <1>2, <1>6, <1>7, SeqEqual
<1> QED BY <1>8 DEF t

-----------------------------------------------------------------------------
(* What lists hold.                                                        *)

LEMMA HeldItems ==
  ASSUME NEW q \in Seq(Cell)
  PROVE  /\ Held(q) \subseteq Items
         /\ \A i \in Items : i \in Held(q) <=> \E n \in 1..Len(q) : q[n] = i
<1>1. DOMAIN q = 1..Len(q) /\ \A n \in 1..Len(q) : q[n] \in Cell
  BY LenProperties, ElementOfSeq
<1>2. None \notin Items
  BY ContainersAssumption
<1> QED BY <1>1, <1>2 DEF Held, ToSet, Cell

LEMMA HeldAllocated ==
  ASSUME NEW q \in Seq(Cell), NEW k \in Nat
  PROVE  /\ Held(Allocated(q, k)) = Held(q)
         /\ Single(q) => Single(Allocated(q, k))
<1> DEFINE a == Allocated(q, k)
<1>1. Len(q) \in Nat
  BY LenProperties
<1>2. /\ a \in Seq(Cell) /\ Len(a) = IF k > Len(q) THEN k ELSE Len(q)
      /\ \A n \in 1..Len(a) : a[n] = IF n <= Len(q) THEN q[n] ELSE None
  BY AllocatedList
<1> HIDE DEF a
<1>3. Len(a) \in Nat /\ Len(q) <= Len(a)
  BY <1>1, <1>2
<1>4. None \notin Items
  BY ContainersAssumption
<1>5. \A i \in Items : (\E n \in 1..Len(a) : a[n] = i) <=> (\E n \in 1..Len(q) : q[n] = i)
  BY <1>1, <1>2, <1>3, <1>4
<1>6. Held(a) = Held(q)
  BY <1>2, <1>5, HeldItems
<1>7. Single(q) => Single(a)
  BY <1>1, <1>2, <1>3 DEF Single
<1> QED BY <1>6, <1>7 DEF a

LEMMA HeldTrimmed ==
  ASSUME NEW q \in Seq(Cell)
  PROVE  /\ Held(Trimmed(q)) = Held(q)
         /\ Single(q) => Single(Trimmed(q))
<1> DEFINE t == Trimmed(q)
<1>1. /\ t \in Seq(Cell) /\ Len(t) <= Len(q)
      /\ \A n \in 1..Len(t) : t[n] = q[n]
      /\ \A n \in 1..Len(q) : n > Len(t) => q[n] = None
  BY TrimmedList
<1> HIDE DEF t
<1>2. Len(q) \in Nat /\ Len(t) \in Nat /\ None \notin Items
  BY <1>1, LenProperties, ContainersAssumption
<1>3. \A i \in Items : (\E n \in 1..Len(t) : t[n] = i) <=> (\E n \in 1..Len(q) : q[n] = i)
  BY <1>1, <1>2
<1>4. Held(t) = Held(q)
  BY <1>1, <1>3, HeldItems
<1>5. Single(q) => Single(t)
  BY <1>1, <1>2 DEF Single
<1> QED BY <1>4, <1>5 DEF t

\* An item or an empty position pushed in between the others.
LEMMA HeldInserted ==
  ASSUME NEW q \in Seq(Cell), NEW p \in 1..Len(q) + 1, NEW v \in Cell, v \notin Held(q)
  PROVE  /\ Held(InsertAt(q, p, v)) = Held(q) \cup ({v} \ {None})
         /\ Single(q) => Single(InsertAt(q, p, v))
<1> DEFINE a == InsertAt(q, p, v)
<1>1. /\ a \in Seq(Cell) /\ Len(a) = Len(q) + 1
      /\ \A n \in 1..Len(q) + 1 : a[n] = IF n < p THEN q[n] ELSE IF n = p THEN v ELSE q[n - 1]
  BY InsertedList
<1> HIDE DEF a
<1>2. Len(q) \in Nat /\ p \in Nat /\ None \notin Items
  BY LenProperties, ContainersAssumption
<1>3. ASSUME NEW i \in Items
      PROVE  (\E n \in 1..Len(a) : a[n] = i) <=> ((\E n \in 1..Len(q) : q[n] = i) \/ i = v)
  <2>1. ASSUME NEW n \in 1..Len(a), a[n] = i PROVE (\E m \in 1..Len(q) : q[m] = i) \/ i = v
    <3>1. n \in 1..Len(q) + 1
      BY <1>1
    <3>2. CASE n < p
      BY <1>1, <1>2, <2>1, <3>1, <3>2
    <3>3. CASE n > p
      <4>1. n - 1 \in 1..Len(q) /\ a[n] = q[n - 1]
        BY <1>1, <1>2, <3>1, <3>3
      <4> QED BY <2>1, <4>1
    <3>4. CASE n = p
      BY <1>1, <1>2, <2>1, <3>1, <3>4
    <3> QED BY <1>2, <3>2, <3>3, <3>4
  <2>2. ASSUME NEW m \in 1..Len(q), q[m] = i PROVE \E n \in 1..Len(a) : a[n] = i
    <3>1. CASE m < p
      BY <1>1, <1>2, <2>2, <3>1
    <3>2. CASE ~(m < p)
      <4>1. m + 1 \in 1..Len(q) + 1 /\ ~(m + 1 < p) /\ m + 1 # p /\ (m + 1) - 1 = m
        BY <1>2, <3>2
      <4>2. a[m + 1] = q[m]
        BY <1>1, <4>1
      <4> QED BY <1>1, <2>2, <4>1, <4>2
    <3> QED BY <3>1, <3>2
  <2>3. a[p] = v /\ p \in 1..Len(a)
    BY <1>1, <1>2
  <2> QED BY <2>1, <2>2, <2>3
<1>4. Held(a) = Held(q) \cup ({v} \ {None})
  <2>1. Held(a) \subseteq Items /\ \A i \in Items : i \in Held(a) <=> \E n \in 1..Len(a) : a[n] = i
    BY <1>1, HeldItems
  <2>2. Held(q) \subseteq Items /\ \A i \in Items : i \in Held(q) <=> \E n \in 1..Len(q) : q[n] = i
    BY HeldItems
  <2>3. {v} \ {None} \subseteq Items /\ (v \in Items => v # None)
    BY <1>2 DEF Cell
  <2>4. \A i \in Items : i \in Held(a) <=> i \in Held(q) \/ i = v
    BY <1>3, <2>1, <2>2
  <2> QED BY <2>1, <2>2, <2>3, <2>4
<1>5. ASSUME Single(q) PROVE Single(a)
  <2>1. \A n \in 1..Len(q) : v # None => q[n] # v
    BY HeldItems DEF Cell
  <2>2. SUFFICES ASSUME NEW m \in 1..Len(a), NEW n \in 1..Len(a), a[m] = a[n], a[m] # None
                 PROVE  m = n
    BY DEF Single
  <2> DEFINE old(k) == IF k < p THEN k ELSE k - 1
  <2>3. ASSUME NEW k \in 1..Len(a), k # p PROVE old(k) \in 1..Len(q) /\ a[k] = q[old(k)]
    BY <1>1, <1>2, <2>3
  <2>4. CASE m = p
    BY <1>1, <1>2, <2>1, <2>2, <2>3, <2>4
  <2>5. CASE n = p
    BY <1>1, <1>2, <2>1, <2>2, <2>3, <2>5
  <2>6. CASE m # p /\ n # p
    <3>1. old(m) = old(n)
      BY <1>5, <2>2, <2>3, <2>6 DEF Single
    <3> QED BY <1>1, <1>2, <2>6, <3>1
  <2> QED BY <2>4, <2>5, <2>6
<1> QED BY <1>4, <1>5 DEF a

\* One position of a list gets another cell.
ReplacedAs(a, q, p, v) ==
  /\ a \in Seq(Cell) /\ Len(a) = Len(q)
  /\ \A n \in 1..Len(q) : a[n] = IF n = p THEN v ELSE q[n]

LEMMA ReplacedList ==
  ASSUME NEW q \in Seq(Cell), NEW p \in 1..Len(q), NEW v \in Cell
  PROVE  ReplacedAs(ReplaceAt(q, p, v), q, p, v)
BY ExceptSeq DEF ReplaceAt, ReplacedAs

\* Emptied, or given what the list did not hold, it loses just what was there.
LEMMA HeldReplaced ==
  ASSUME NEW q \in Seq(Cell), NEW p \in 1..Len(q), NEW v \in Cell,
         Single(q), v = None \/ v \notin Held(q)
  PROVE  LET a == ReplaceAt(q, p, v)
         IN /\ a \in Seq(Cell) /\ Len(a) = Len(q)
            /\ \A n \in 1..Len(q) : a[n] = IF n = p THEN v ELSE q[n]
            /\ Held(a) = (Held(q) \ {q[p]}) \cup ({v} \ {None})
            /\ Single(a)
<1> DEFINE a == ReplaceAt(q, p, v)
<1>1. /\ a \in Seq(Cell) /\ Len(a) = Len(q)
      /\ \A n \in 1..Len(q) : a[n] = IF n = p THEN v ELSE q[n]
  BY ExceptSeq DEF ReplaceAt
<1> HIDE DEF a
<1>2. Len(q) \in Nat /\ p \in Nat /\ None \notin Items
  BY LenProperties, ContainersAssumption
<1>3. Held(a) \subseteq Items /\ \A i \in Items : i \in Held(a) <=> \E n \in 1..Len(a) : a[n] = i
  BY <1>1, HeldItems
<1>4. Held(q) \subseteq Items /\ \A i \in Items : i \in Held(q) <=> \E n \in 1..Len(q) : q[n] = i
  BY HeldItems
<1>5. \A n \in 1..Len(q) : v # None => q[n] # v
  BY <1>4 DEF Cell
<1>6. ASSUME NEW i \in Items
      PROVE  i \in Held(a) <=> (i \in Held(q) /\ i # q[p]) \/ i = v
  <2>1. ASSUME NEW n \in 1..Len(q), a[n] = i PROVE (i \in Held(q) /\ i # q[p]) \/ i = v
    <3>1. CASE n = p
      BY <1>1, <2>1, <3>1
    <3>2. CASE n # p
      BY <1>1, <1>2, <1>4, <2>1, <3>2 DEF Single
    <3> QED BY <3>1, <3>2
  <2>2. ASSUME i \in Held(q), i # q[p] PROVE \E n \in 1..Len(a) : a[n] = i
    BY <1>1, <1>4, <2>2
  <2>3. a[p] = v /\ p \in 1..Len(a)
    BY <1>1
  <2> QED BY <1>1, <1>3, <2>1, <2>2, <2>3
<1>7. {v} \ {None} \subseteq Items /\ (v \in Items => v # None)
  BY <1>2 DEF Cell
<1>8. Held(a) = (Held(q) \ {q[p]}) \cup ({v} \ {None})
  BY <1>3, <1>4, <1>6, <1>7
<1>9. Single(a)
  BY <1>1, <1>2, <1>5 DEF Single
<1> QED BY <1>1, <1>8, <1>9 DEF a

LEMMA HeldRemoved ==
  ASSUME NEW q \in Seq(Cell), NEW p \in 1..Len(q), Single(q)
  PROVE  LET a == RemoveAt(q, p)
         IN Held(a) = Held(q) \ {q[p]} /\ Single(a)
<1> DEFINE a == RemoveAt(q, p)
<1>1. /\ a \in Seq(Cell) /\ Len(a) = Len(q) - 1
      /\ \A n \in 1..Len(q) - 1 : a[n] = IF n < p THEN q[n] ELSE q[n + 1]
  BY RemovedList
<1> HIDE DEF a
<1>2. Len(q) \in Nat /\ p \in Nat /\ None \notin Items
  BY LenProperties, ContainersAssumption
<1>3. Held(a) \subseteq Items /\ \A i \in Items : i \in Held(a) <=> \E n \in 1..Len(a) : a[n] = i
  BY <1>1, HeldItems
<1>4. Held(q) \subseteq Items /\ \A i \in Items : i \in Held(q) <=> \E n \in 1..Len(q) : q[n] = i
  BY HeldItems
<1> DEFINE from(n) == IF n < p THEN n ELSE n + 1
<1>5. ASSUME NEW n \in 1..Len(a)
      PROVE  from(n) \in 1..Len(q) /\ from(n) # p /\ a[n] = q[from(n)]
  BY <1>1, <1>2
<1>6. ASSUME NEW m \in 1..Len(q), m # p PROVE \E n \in 1..Len(a) : a[n] = q[m]
  <2>1. CASE m < p
    <3>1. m \in 1..Len(a) /\ a[m] = q[m]
      BY <1>1, <1>2, <2>1
    <3> QED BY <3>1
  <2>2. CASE m > p
    <3>1. m - 1 \in 1..Len(a) /\ ~(m - 1 < p) /\ (m - 1) + 1 = m
      BY <1>1, <1>2, <2>2
    <3>2. a[m - 1] = q[m]
      BY <1>1, <3>1
    <3> QED BY <3>1, <3>2
  <2> QED BY <1>2, <1>6, <2>1, <2>2
<1>7. ASSUME NEW i \in Items PROVE i \in Held(a) <=> i \in Held(q) /\ i # q[p]
  <2>1. ASSUME NEW n \in 1..Len(a), a[n] = i PROVE i \in Held(q) /\ i # q[p]
    <3>1. q[from(n)] = i /\ from(n) \in 1..Len(q) /\ from(n) # p
      BY <1>5, <2>1
    <3> HIDE DEF from
    <3>2. i # q[p]
      BY <1>2, <3>1 DEF Single
    <3> QED BY <1>4, <3>1, <3>2
  <2>2. ASSUME i \in Held(q), i # q[p] PROVE \E n \in 1..Len(a) : a[n] = i
    BY <1>4, <1>6, <2>2
  <2> QED BY <1>3, <2>1, <2>2
<1>8. Held(a) = Held(q) \ {q[p]}
  BY <1>3, <1>4, <1>7
<1>9. Single(a)
  <2> SUFFICES ASSUME NEW m \in 1..Len(a), NEW n \in 1..Len(a), a[m] = a[n], a[m] # None
               PROVE  m = n
    BY DEF Single
  <2>1. from(m) = from(n)
    <3> HIDE DEF from
    <3> QED BY <1>5 DEF Single
  <2> QED BY <1>1, <1>2, <2>1
<1> QED BY <1>8, <1>9 DEF a

-----------------------------------------------------------------------------
(* The inductive invariant.                                                *)

\* What a container holds.
In(c) == IF c \in Lists THEN Held(list[c])
         ELSE IF c \in Sets \cup UniqueSets THEN set[c]
         ELSE {slot[c]} \ {None}

Shapes ==
  /\ list \in [Lists -> Seq(Cell)]
  /\ \A l \in Lists : Len(list[l]) <= MaxLen /\ Tidy(list[l]) /\ Single(list[l])
  /\ set \in [Sets \cup UniqueSets -> SUBSET Items]
  /\ DOMAIN byType = UniqueSets
  /\ slot \in [Slots -> Cell]
  /\ container \in [Items -> Containers \cup {None}]
  /\ outcome \in {"ok", "raised"}

\* A container holds just the items that refer to it.
Placed == \A c \in Containers : In(c) = {i \in Items : container[i] = c}

\* A TypeUniqueItemSet knows its items by their types.
Typed ==
  \A u \in UniqueSets :
    /\ DOMAIN byType[u] = {TypeId[i] : i \in set[u]}
    /\ \A i \in set[u] : byType[u][TypeId[i]] = i

IInv == Shapes /\ Placed /\ Typed /\ AnnouncedTrue

Undone == outcome' = "raised" => UNCHANGED <<contents, container, announced>>

\* Under the invariant an item refuses another container just if it has one.
LEMMA AssignedWhenHeld ==
  ASSUME IInv, NEW i \in Items, NEW c \in Containers, NEW inside, i \in inside
  PROVE  Assigned(i, c, inside) <=> container[i] # None
<1> DEFINE d == container[i]
<1>1. CASE d = None
  BY <1>1 DEF Assigned
<1>2. CASE d # None
  <2>1. d \in Containers /\ i \in In(d)
    BY <1>2 DEF IInv, Shapes, Placed
  <2>2. CASE d = c
    BY <1>2, <2>2 DEF Assigned
  <2>3. CASE d # c /\ d \in Lists
    <3>1. i \in ToSet(list[d])
      BY <2>1, <2>3 DEF In, Held
    <3> QED BY <1>2, <2>3, <3>1 DEF Assigned
  <2>4. CASE d # c /\ d \notin Lists
    BY <1>2, <2>1, <2>4 DEF Assigned, In
  <2> QED BY <2>2, <2>3, <2>4
<1> QED BY <1>1, <1>2

\* Items leave a container and enter it; one list is changed and nothing else.
Transfer(c, gone, new) ==
  /\ container' = [i \in Items |-> IF i \in new THEN c
                                   ELSE IF i \in gone THEN None ELSE container[i]]
  /\ announced' = (announced \ {<<FitOf[c], i>> : i \in gone})
                     \cup {<<FitOf[c], i>> : i \in new}

ListBecomes(l, q) ==
  list' = [list EXCEPT ![l] = q] /\ UNCHANGED <<set, byType, slot>>

\* Items that leave one container, and items that nothing holds that enter it.
LEMMA Moved ==
  ASSUME IInv, NEW c \in Containers, NEW gone \in SUBSET In(c), NEW new \in SUBSET Items,
         \A i \in new : container[i] = None \/ i \in gone,
         In(c)' = (In(c) \ gone) \cup new,
         \A d \in Containers \ {c} : In(d)' = In(d),
         Transfer(c, gone, new)
  PROVE  container' \in [Items -> Containers \cup {None}] /\ Placed' /\ AnnouncedTrue'
<1> USE DEF Transfer
<1>1. container' \in [Items -> Containers \cup {None}]
  BY DEF IInv, Shapes
<1>2. None \notin Containers
  BY ContainersAssumption
<1>3. \A i \in gone : i \in Items /\ container[i] = c
  BY DEF IInv, Placed
<1>4. Placed'
  <2> SUFFICES ASSUME NEW d \in Containers
               PROVE  In(d)' = {i \in Items : container'[i] = d}
    BY DEF Placed
  <2>1. In(d) = {i \in Items : container[i] = d}
    BY DEF IInv, Placed
  <2>2. CASE d = c
    BY <1>2, <1>3, <2>1, <2>2
  <2>3. CASE d # c
    BY <1>2, <1>3, <2>1, <2>3
  <2> QED BY <2>2, <2>3
<1>5. AnnouncedTrue'
  <2>1. announced = {<<FitOf[container[i]], i>> : i \in {j \in Items : container[j] # None}}
    BY DEF IInv, AnnouncedTrue
  <2>2. ASSUME NEW x \in announced'
        PROVE  \E i \in Items : container'[i] # None /\ x = <<FitOf[container'[i]], i>>
    <3>1. CASE \E i \in new : x = <<FitOf[c], i>>
      BY <1>2, <3>1
    <3>2. CASE ~ \E i \in new : x = <<FitOf[c], i>>
      <4>1. x \in announced /\ x \notin {<<FitOf[c], i>> : i \in gone}
        BY <3>2
      <4>2. PICK i \in Items : container[i] # None /\ x = <<FitOf[container[i]], i>>
        BY <2>1, <4>1
      <4>3. i \notin gone
        BY <1>3, <4>1, <4>2
      <4>4. i \notin new
        BY <4>2, <4>3
      <4> QED BY <4>2, <4>3, <4>4
    <3> QED BY <3>1, <3>2
  <2>3. ASSUME NEW i \in Items, container'[i] # None
        PROVE  <<FitOf[container'[i]], i>> \in announced'
    <3>1. CASE i \in new
      BY <3>1
    <3>2. CASE i \notin new
      <4>1. i \notin gone /\ container'[i] = container[i]
        BY <2>3, <3>2
      <4>2. <<FitOf[container[i]], i>> \in announced
        BY <2>1, <2>3, <4>1
      <4>3. <<FitOf[container[i]], i>> \notin {<<FitOf[c], j>> : j \in gone}
        BY <4>1
      <4> QED BY <4>1, <4>2, <4>3
    <3> QED BY <3>1, <3>2
  <2> QED BY <2>2, <2>3 DEF AnnouncedTrue
<1> QED BY <1>1, <1>4, <1>5

\* The containers other than c hold what they held when nothing but c is changed.
LEMMA ListOnly ==
  ASSUME IInv, NEW l \in Lists, NEW q, ListBecomes(l, q)
  PROVE  /\ In(l)' = Held(q) /\ In(l) = Held(list[l])
         /\ \A d \in Containers \ {l} : In(d)' = In(d)
  BY DEF IInv, Shapes, In, ListBecomes

LEMMA ListMoved ==
  ASSUME IInv, NEW l \in Lists, NEW q \in Seq(Cell), ListBecomes(l, q),
         Len(q) <= MaxLen, Tidy(q), Single(q),
         NEW gone \in SUBSET Held(list[l]), NEW new \in SUBSET Items,
         \A i \in new : container[i] = None \/ i \in gone,
         Held(q) = (Held(list[l]) \ gone) \cup new,
         Transfer(l, gone, new),
         outcome' \in {"ok", "raised"}
  PROVE  IInv'
<1>1. /\ In(l)' = Held(q) /\ In(l) = Held(list[l])
      /\ \A d \in Containers \ {l} : In(d)' = In(d)
  BY ListOnly
<1>2. l \in Containers
  BY DEF Containers
<1>3. container' \in [Items -> Containers \cup {None}] /\ Placed' /\ AnnouncedTrue'
  BY <1>1, <1>2, Moved
<1>4. Shapes'
  BY <1>3 DEF IInv, Shapes, ListBecomes
<1>5. Typed'
  BY DEF IInv, Typed, ListBecomes
<1> QED BY <1>3, <1>4, <1>5 DEF IInv

LEMMA Unmoved ==
  ASSUME IInv, UNCHANGED <<contents, container, announced>>, outcome' \in {"ok", "raised"}
  PROVE  IInv'
BY DEF IInv, Shapes, Placed, Typed, AnnouncedTrue, In, contents

-----------------------------------------------------------------------------
(* The calls on lists.                                                     *)

LEMMA TryKeeps ==
  ASSUME IInv, NEW l \in Lists, NEW i \in Items, NEW tried \in Seq(Cell), NEW undone,
         i \in ToSet(tried),
         container[i] = None =>
           /\ Tidy(tried) /\ Single(tried)
           /\ Held(tried) = Held(list[l]) \cup {i},
         Assigned(i, l, ToSet(tried)) => undone = list[l],
         Try(l, i, tried, undone)
  PROVE  IInv' /\ Undone
<1>1. l \in Containers
  BY DEF Containers
<1>2. CASE Assigned(i, l, ToSet(tried))
  <2>1. list' = [list EXCEPT ![l] = list[l]] /\ Raises /\ UNCHANGED <<set, byType, slot>>
    BY <1>2 DEF Try
  <2>2. UNCHANGED <<contents, container, announced>> /\ outcome' = "raised"
    BY <2>1 DEF Raises, contents, IInv, Shapes
  <2> QED BY <2>2, Unmoved DEF Undone
<1>3. CASE ~Assigned(i, l, ToSet(tried))
  <2>1. container[i] = None
    BY <1>1, <1>3, AssignedWhenHeld
  <2>2. /\ list' = [list EXCEPT ![l] = tried] /\ Attach(i, l) /\ outcome' = "ok"
        /\ UNCHANGED <<set, byType, slot>> /\ Len(tried) <= MaxLen
    BY <1>3 DEF Try
  <2> DEFINE gone == {}
             new == {i}
  <2>3. Transfer(l, gone, new) /\ ListBecomes(l, tried)
    BY <2>2 DEF Attach, IInv, Shapes, Transfer, ListBecomes
  <2>4. /\ \A j \in new : container[j] = None \/ j \in gone
        /\ gone \in SUBSET Held(list[l]) /\ new \in SUBSET Items
    BY <2>1
  <2>5. Held(tried) = (Held(list[l]) \ gone) \cup new
    BY <2>1
  <2>6. IInv'
    <3>1. outcome' \in {"ok", "raised"} /\ Tidy(tried) /\ Single(tried)
      BY <2>1, <2>2
    <3> HIDE DEF gone, new
    <3> QED BY <2>2, <2>3, <2>4, <2>5, <3>1, ListMoved
  <2>7. Undone
    BY <2>2 DEF Undone
  <2> QED BY <2>6, <2>7
<1> QED BY <1>2, <1>3

\* What the invariant says of one list, and of an item that is in no container.
LEMMA ListShape ==
  ASSUME IInv, NEW l \in Lists
  PROVE  /\ list[l] \in Seq(Cell) /\ Len(list[l]) \in Nat /\ Len(list[l]) <= MaxLen
         /\ Tidy(list[l]) /\ Single(list[l])
         /\ \A i \in Items : container[i] = None => i \notin Held(list[l])
<1>1. l \in Containers /\ None \notin Containers
  BY ContainersAssumption DEF Containers
<1>2. list[l] \in Seq(Cell) /\ Len(list[l]) \in Nat
  BY LenProperties DEF IInv, Shapes
<1>3. \A i \in Items : i \in Held(list[l]) => container[i] = l
  BY <1>1 DEF IInv, Placed, In
<1> QED BY <1>1, <1>2, <1>3 DEF IInv, Shapes

LEMMA InSet ==
  ASSUME NEW q \in Seq(Cell), NEW n \in 1..Len(q)
  PROVE  q[n] \in ToSet(q)
BY LenProperties DEF ToSet

LEMMA Append_Keeps ==
  ASSUME IInv, NEW l \in Lists, NEW i \in Items, Append_(l, i)
  PROVE  IInv' /\ Undone
<1> DEFINE q == list[l]
           a == Append(q, i)
<1>1. /\ q \in Seq(Cell) /\ Len(q) \in Nat /\ Single(q)
      /\ container[i] = None => i \notin Held(q)
  BY ListShape
<1> HIDE DEF q
<1>2. i \in Cell /\ i # None
  BY ContainersAssumption DEF Cell
<1>3. /\ a \in Seq(Cell) /\ Len(a) = Len(q) + 1
      /\ \A n \in 1..Len(q) + 1 : a[n] = IF n <= Len(q) THEN q[n] ELSE i
  BY <1>1, <1>2, AppendedList
<1> HIDE DEF a
<1>4. Len(a) \in 1..Len(a) /\ a[Len(a)] = i
  BY <1>1, <1>3
<1>5. Tidy(a) /\ i \in ToSet(a)
  BY <1>2, <1>3, <1>4, InSet DEF Tidy
<1>6. Held(q) \subseteq Items /\ \A j \in Items : j \in Held(q) <=> \E n \in 1..Len(q) : q[n] = j
  BY <1>1, HeldItems
<1>7. Held(a) \subseteq Items /\ \A j \in Items : j \in Held(a) <=> \E n \in 1..Len(a) : a[n] = j
  BY <1>3, HeldItems
<1>8. ASSUME NEW j \in Items PROVE j \in Held(a) <=> j \in Held(q) \/ j = i
  <2>1. ASSUME NEW n \in 1..Len(a), a[n] = j PROVE j \in Held(q) \/ j = i
    BY <1>1, <1>3, <1>6, <2>1
  <2>2. ASSUME NEW n \in 1..Len(q), q[n] = j PROVE \E m \in 1..Len(a) : a[m] = j
    BY <1>1, <1>3, <2>2
  <2> QED BY <1>4, <1>6, <1>7, <2>1, <2>2
<1>9. Held(a) = Held(q) \cup {i}
  BY <1>6, <1>7, <1>8
<1>10. ASSUME container[i] = None PROVE Single(a)
  <2>1. \A n \in 1..Len(q) : q[n] # i
    BY <1>1, <1>6, <1>10
  <2> QED BY <1>1, <1>3, <2>1 DEF Single
<1>11. Try(l, i, a, q)
  BY DEF Append_, a, q
<1> QED BY <1>3, <1>5, <1>9, <1>10, <1>11, TryKeeps DEF q

\* Removing what was inserted gives the list back.
LEMMA InsertedRemoved ==
  ASSUME NEW q \in Seq(Cell), NEW p \in 1..Len(q) + 1, NEW v \in Cell
  PROVE  RemoveAt(InsertAt(q, p, v), p) = q
<1> DEFINE a == InsertAt(q, p, v)
           b == RemoveAt(a, p)
<1>1. Len(q) \in Nat
  BY LenProperties
<1>2. /\ a \in Seq(Cell) /\ Len(a) = Len(q) + 1
      /\ \A n \in 1..Len(q) + 1 : a[n] = IF n < p THEN q[n] ELSE IF n = p THEN v ELSE q[n - 1]
  BY InsertedList
<1> HIDE DEF a
<1>3. /\ b \in Seq(Cell) /\ Len(b) = Len(a) - 1
      /\ \A n \in 1..Len(a) - 1 : b[n] = IF n < p THEN a[n] ELSE a[n + 1]
  BY <1>2, RemovedList
<1> HIDE DEF b
<1>4. ASSUME NEW n \in 1..Len(q) PROVE b[n] = q[n]
  <2>1. CASE n < p
    BY <1>1, <1>2, <1>3, <2>1
  <2>2. CASE ~(n < p)
    <3>1. n + 1 \in 1..Len(q) + 1 /\ ~(n + 1 < p) /\ n + 1 # p /\ (n + 1) - 1 = n
      BY <1>1, <2>2
    <3> QED BY <1>1, <1>2, <1>3, <2>2, <3>1
  <2> QED BY <2>1, <2>2
<1>5. b = q
  BY <1>1, <1>2, <1>3, <1>4, SeqEqual
<1> QED BY <1>5 DEF a, b

\* An item put in a list at a position that is its last, or into one that is tidy.
LEMMA InsertedTry ==
  ASSUME NEW q \in Seq(Cell), NEW p \in 1..Len(q) + 1, NEW i \in Items,
         p = Len(q) + 1 \/ q[Len(q)] # None
  PROVE  Tidy(InsertAt(q, p, i)) /\ i \in ToSet(InsertAt(q, p, i))
<1> DEFINE a == InsertAt(q, p, i)
<1>1. Len(q) \in Nat /\ i \in Cell /\ i # None
  BY LenProperties, ContainersAssumption DEF Cell
<1>2. /\ a \in Seq(Cell) /\ Len(a) = Len(q) + 1
      /\ \A n \in 1..Len(q) + 1 : a[n] = IF n < p THEN q[n] ELSE IF n = p THEN i ELSE q[n - 1]
  BY <1>1, InsertedList
<1> HIDE DEF a
<1>3. a[p] = i /\ p \in 1..Len(a)
  BY <1>1, <1>2
<1>4. i \in ToSet(a)
  BY <1>2, <1>3, InSet
<1>5. a[Len(a)] # None
  <2>1. CASE p = Len(q) + 1
    BY <1>1, <1>2, <1>3, <2>1
  <2>2. CASE p # Len(q) + 1
    <3>1. Len(a) \in 1..Len(q) + 1 /\ ~(Len(a) < p) /\ Len(a) # p /\ Len(a) - 1 = Len(q)
      BY <1>1, <1>2, <2>2
    <3> QED BY <1>2, <2>2, <3>1
  <2> QED BY <2>1, <2>2
<1> QED BY <1>4, <1>5 DEF a, Tidy

LEMMA InsertKeeps ==
  ASSUME IInv, NEW l \in Lists, NEW k \in Nat, NEW i \in Items, Insert(l, k, i)
  PROVE  IInv' /\ Undone
<1> DEFINE q == list[l]
           r == Allocated(q, k)
           a == InsertAt(r, k + 1, i)
           u == Trimmed(RemoveAt(a, k + 1))
<1>1. /\ q \in Seq(Cell) /\ Len(q) \in Nat /\ Tidy(q) /\ Single(q)
      /\ container[i] = None => i \notin Held(q)
  BY ListShape
<1>2. i \in Cell /\ i # None
  BY ContainersAssumption DEF Cell
<1>3. Try(l, i, a, u)
  BY DEF Insert
<1> HIDE DEF q
<1>4. /\ r \in Seq(Cell) /\ Len(r) = IF k > Len(q) THEN k ELSE Len(q)
      /\ \A n \in 1..Len(r) : r[n] = IF n <= Len(q) THEN q[n] ELSE None
      /\ Held(r) = Held(q) /\ Single(r)
  BY <1>1, AllocatedList, HeldAllocated
<1> HIDE DEF r
<1>5. k + 1 \in 1..Len(r) + 1 /\ Len(q) <= Len(r) /\ Len(r) \in Nat
  BY <1>1, <1>4
<1>6. k + 1 = Len(r) + 1 \/ r[Len(r)] # None
  <2> SUFFICES ASSUME k # Len(r) PROVE r[Len(r)] # None
    BY <1>5
  <2>1. Len(r) = Len(q) /\ Len(r) \in 1..Len(r)
    BY <1>1, <1>4, <1>5
  <2>2. q # <<>>
    BY <1>5, <2>1, EmptySeq
  <2> QED BY <1>1, <1>4, <2>1, <2>2 DEF Tidy
<1>7. a \in Seq(Cell) /\ Tidy(a) /\ i \in ToSet(a)
  BY <1>2, <1>4, <1>5, <1>6, InsertedTry, InsertedList
<1>8. container[i] = None => Single(a) /\ Held(a) = Held(q) \cup {i}
  BY <1>1, <1>2, <1>4, <1>5, HeldInserted
<1>9. u = q
  <2>1. RemoveAt(a, k + 1) = r
    BY <1>2, <1>4, <1>5, InsertedRemoved
  <2>2. Trimmed(r) = q
    BY <1>1, <1>4, <1>5, TrimmedBack
  <2> QED BY <2>1, <2>2
<1> HIDE DEF a, u
<1> QED BY <1>3, <1>7, <1>8, <1>9, TryKeeps DEF q

LEMMA InsertBackKeeps ==
  ASSUME IInv, ~Careless, NEW l \in Lists, NEW k \in Nat \ {0}, NEW i \in Items,
         InsertBack(l, k, i)
  PROVE  IInv' /\ Undone
<1> DEFINE q == list[l]
           p == Max({0, Len(q) - k}) + 1
           a == InsertAt(q, p, i)
           u == IF k > Len(a) THEN a ELSE Trimmed(RemoveAt(a, Len(a) - k + 1))
<1>1. /\ q \in Seq(Cell) /\ Len(q) \in Nat /\ Tidy(q) /\ Single(q)
      /\ container[i] = None => i \notin Held(q)
  BY ListShape
<1>2. i \in Cell /\ i # None
  BY ContainersAssumption DEF Cell
<1>3. Try(l, i, a, u) /\ ~Assigned(i, l, ToSet(a))
  BY DEF InsertBack
<1> HIDE DEF q
<1>4. p = (IF Len(q) - k > 0 THEN Len(q) - k + 1 ELSE 1)
  BY <1>1, MaxOfTwo, Len(q) - k \in Int
<1> HIDE DEF p
<1>5. p \in 1..Len(q) + 1 /\ (p = Len(q) + 1 \/ Len(q) # 0)
  BY <1>1, <1>4
<1>6. p = Len(q) + 1 \/ q[Len(q)] # None
  BY <1>1, <1>5, EmptySeq DEF Tidy
<1>7. a \in Seq(Cell) /\ Tidy(a) /\ i \in ToSet(a)
  BY <1>1, <1>2, <1>5, <1>6, InsertedTry, InsertedList
<1>8. container[i] = None => Single(a) /\ Held(a) = Held(q) \cup {i}
  BY <1>1, <1>2, <1>5, HeldInserted
<1> HIDE DEF a, u
<1> QED BY <1>3, <1>7, <1>8, TryKeeps DEF q

LEMMA InsertNoneKeeps ==
  ASSUME IInv, NEW l \in Lists, NEW k \in Nat, InsertNone(l, k)
  PROVE  IInv' /\ Undone
<1> DEFINE q == list[l]
           r == Allocated(q, k)
           a == InsertAt(r, k + 1, None)
           t == Trimmed(a)
<1>1. q \in Seq(Cell) /\ Len(q) \in Nat /\ Single(q)
  BY ListShape
<1>2. None \in Cell /\ MaxLen \in Nat
  BY ContainersAssumption DEF Cell
<1>3. /\ Len(r) < MaxLen /\ outcome' = "ok"
      /\ ListBecomes(l, t) /\ UNCHANGED <<container, announced>>
  BY DEF InsertNone, ListBecomes
<1> HIDE DEF q
<1>4. /\ r \in Seq(Cell) /\ Len(r) = IF k > Len(q) THEN k ELSE Len(q)
      /\ Held(r) = Held(q) /\ Single(r)
  BY <1>1, AllocatedList, HeldAllocated
<1> HIDE DEF r
<1>5. k + 1 \in 1..Len(r) + 1 /\ Len(r) \in Nat /\ None \notin Held(r)
  BY <1>1, <1>4 DEF Held
<1>6. a \in Seq(Cell) /\ Len(a) = Len(r) + 1
  BY <1>2, <1>4, <1>5, InsertedList
<1>7. Single(a) /\ Held(a) = Held(q)
  <2>1. Single(a) /\ Held(a) = Held(r) \cup ({None} \ {None})
    BY <1>2, <1>4, <1>5, HeldInserted
  <2> HIDE DEF a
  <2> QED BY <1>4, <2>1
<1> HIDE DEF a
<1>8. /\ t \in Seq(Cell) /\ Len(t) <= Len(a) /\ Tidy(t)
      /\ Single(t) /\ Held(t) = Held(q)
  BY <1>6, <1>7, TrimmedList, HeldTrimmed
<1> HIDE DEF t
<1>9. Len(t) <= MaxLen
  BY <1>2, <1>3, <1>5, <1>6, <1>8, LenProperties
<1> DEFINE gone == {}
           new == {}
<1>10. Transfer(l, gone, new)
  BY <1>3 DEF Transfer, IInv, Shapes
<1>11. /\ gone \in SUBSET Held(list[l]) /\ new \in SUBSET Items
       /\ \A i \in new : container[i] = None \/ i \in gone
       /\ Held(t) = (Held(list[l]) \ gone) \cup new
  BY <1>8 DEF q
<1> HIDE DEF gone, new
<1>12. IInv'
  <2>1. outcome' \in {"ok", "raised"}
    BY <1>3
  <2> QED BY <1>3, <1>8, <1>9, <1>10, <1>11, <2>1, ListMoved
<1> QED BY <1>3, <1>12 DEF Undone

LEMMA PlaceKeeps ==
  ASSUME IInv, NEW l \in Lists, NEW k \in Nat, NEW i \in Items, Place(l, k, i)
  PROVE  IInv' /\ Undone
<1> DEFINE q == list[l]
           r == Allocated(q, k + 1)
           a == ReplaceAt(r, k + 1, i)
           u == Trimmed(r)
<1>1. /\ q \in Seq(Cell) /\ Len(q) \in Nat /\ Tidy(q) /\ Single(q)
      /\ container[i] = None => i \notin Held(q)
  BY ListShape
<1>2. i \in Cell /\ i # None /\ k + 1 \in Nat
  BY ContainersAssumption DEF Cell
<1>3. r[k + 1] = None /\ Try(l, i, a, u)
  BY DEF Place
<1> HIDE DEF q
<1>4. /\ r \in Seq(Cell) /\ Len(r) = IF k + 1 > Len(q) THEN k + 1 ELSE Len(q)
      /\ \A n \in 1..Len(r) : r[n] = IF n <= Len(q) THEN q[n] ELSE None
      /\ Held(r) = Held(q) /\ Single(r)
  BY <1>1, <1>2, AllocatedList, HeldAllocated
<1> HIDE DEF r
<1>5. k + 1 \in 1..Len(r) /\ Len(q) <= Len(r) /\ Len(r) \in Nat
  BY <1>1, <1>4
<1>6. u = q
  BY <1>1, <1>4, <1>5, TrimmedBack
<1> HIDE DEF u
<1>7. ReplacedAs(a, r, k + 1, i)
  BY <1>2, <1>4, <1>5, ReplacedList
<1> HIDE DEF a
<1>8. i \in ToSet(a)
  BY <1>5, <1>7, InSet DEF ReplacedAs
<1>9. Tidy(a)
  <2>1. CASE k + 1 = Len(r)
    BY <1>2, <1>5, <1>7, <2>1 DEF Tidy, ReplacedAs
  <2>2. CASE k + 1 # Len(r)
    <3>1. Len(r) = Len(q) /\ Len(r) \in 1..Len(r) /\ Len(a) = Len(r) /\ q # <<>>
      BY <1>1, <1>4, <1>5, <1>7, <2>2, EmptySeq DEF ReplacedAs
    <3>2. a[Len(r)] = q[Len(q)]
      BY <1>4, <1>7, <2>2, <3>1 DEF ReplacedAs
    <3> QED BY <1>1, <3>1, <3>2 DEF Tidy
  <2> QED BY <2>1, <2>2
<1>10. ASSUME container[i] = None PROVE Single(a) /\ Held(a) = Held(q) \cup {i}
  <2>1. Single(a) /\ Held(a) = (Held(r) \ {r[k + 1]}) \cup ({i} \ {None})
    BY <1>1, <1>2, <1>4, <1>5, <1>10, HeldReplaced DEF a
  <2> QED BY <1>2, <1>3, <1>4, <2>1 DEF Held
<1> QED BY <1>3, <1>6, <1>7, <1>8, <1>9, <1>10, TryKeeps DEF q, ReplacedAs

\* The first free position is one that is empty, or the one after the last.
LEMMA FirstFreePosition ==
  ASSUME NEW q \in Seq(Cell)
  PROVE  /\ FirstFree(q) \in 1..Len(q) + 1
         /\ FirstFree(q) <= Len(q) => q[FirstFree(q)] = None
<1> DEFINE S == {n \in DOMAIN q : q[n] = None} \cup {Len(q) + 1}
           R == OpToRel(<, Nat)
<1>1. Len(q) \in Nat /\ DOMAIN q = 1..Len(q)
  BY LenProperties
<1>2. S \subseteq Nat /\ S # {}
  BY <1>1
<1>3. \A n \in S : n \in 1..Len(q) + 1 /\ (n <= Len(q) => q[n] = None)
  BY <1>1
<1>4. FirstFree(q) = Min(S)
  BY DEF FirstFree
<1> HIDE DEF S
<1>5. PICK x \in S : \A y \in S : ~(<<y, x>> \in R)
  <2> HIDE DEF R
  <2> QED BY <1>2, NatLessThanWellFounded, WFMin DEF R
<1>6. \A y \in S : ~(y < x)
  BY <1>2, <1>5 DEF OpToRel
<1> HIDE DEF R
<1>7. x \in Nat /\ \A y \in S : x <= y
  BY <1>2, <1>6
<1>8. ASSUME NEW z \in S, \A y \in S : z <= y PROVE z = x
  <2>1. z <= x /\ x <= z /\ z \in Nat
    BY <1>2, <1>7, <1>8
  <2> QED BY <1>7, <2>1
<1>9. Min(S) = x
  BY <1>7, <1>8 DEF Min
<1> QED BY <1>3, <1>4, <1>9

LEMMA EquipKeeps ==
  ASSUME IInv, NEW l \in Lists, NEW i \in Items, Equip(l, i)
  PROVE  IInv' /\ Undone
<1> DEFINE q == list[l]
           p == FirstFree(q)
           r == Allocated(q, p)
           a == ReplaceAt(r, p, i)
           b == ReplaceAt(r, p, None)
           u == Trimmed(b)
<1>1. /\ q \in Seq(Cell) /\ Len(q) \in Nat /\ Tidy(q) /\ Single(q)
      /\ container[i] = None => i \notin Held(q)
  BY ListShape
<1>2. i \in Cell /\ i # None /\ None \in Cell
  BY ContainersAssumption DEF Cell
<1>3. Try(l, i, a, u)
  BY DEF Equip
<1> HIDE DEF q
<1>4. p \in 1..Len(q) + 1 /\ (p <= Len(q) => q[p] = None)
  BY <1>1, FirstFreePosition
<1> HIDE DEF p
<1>5. p \in Nat
  BY <1>1, <1>4
<1>6. /\ r \in Seq(Cell) /\ Len(r) = IF p > Len(q) THEN p ELSE Len(q)
      /\ \A n \in 1..Len(r) : r[n] = IF n <= Len(q) THEN q[n] ELSE None
      /\ Held(r) = Held(q) /\ Single(r)
  BY <1>1, <1>5, AllocatedList, HeldAllocated
<1> HIDE DEF r
<1>7. p \in 1..Len(r) /\ Len(q) <= Len(r) /\ Len(r) \in Nat /\ r[p] = None
  BY <1>1, <1>4, <1>6
<1>8. ReplacedAs(a, r, p, i) /\ ReplacedAs(b, r, p, None)
  BY <1>2, <1>6, <1>7, ReplacedList
<1>9. ASSUME container[i] = None PROVE Single(a) /\ Held(a) = Held(q) \cup {i}
  <2>1. Single(a) /\ Held(a) = (Held(r) \ {r[p]}) \cup ({i} \ {None})
    BY <1>1, <1>2, <1>6, <1>7, <1>9, HeldReplaced
  <2> HIDE DEF a
  <2> QED BY <1>2, <1>6, <1>7, <2>1 DEF Held
<1> HIDE DEF a, b
<1>10. u = q
  <2>1. b \in Seq(Cell) /\ Len(q) <= Len(b)
    BY <1>7, <1>8 DEF ReplacedAs
  <2>2. \A n \in 1..Len(b) : b[n] = IF n <= Len(q) THEN q[n] ELSE None
    BY <1>6, <1>7, <1>8 DEF ReplacedAs
  <2> QED BY <1>1, <2>1, <2>2, TrimmedBack
<1> HIDE DEF u
<1>11. i \in ToSet(a)
  BY <1>7, <1>8, InSet DEF ReplacedAs
<1>12. Tidy(a)
  <2>1. CASE p = Len(r)
    BY <1>2, <1>7, <1>8, <2>1 DEF Tidy, ReplacedAs
  <2>2. CASE p # Len(r)
    <3>1. Len(r) = Len(q) /\ Len(r) \in 1..Len(r) /\ Len(a) = Len(r) /\ q # <<>>
      BY <1>1, <1>6, <1>7, <1>8, <2>2, EmptySeq DEF ReplacedAs
    <3>2. a[Len(r)] = q[Len(q)]
      BY <1>6, <1>8, <2>2, <3>1 DEF ReplacedAs
    <3> QED BY <1>1, <3>1, <3>2 DEF Tidy
  <2> QED BY <2>1, <2>2
<1> QED BY <1>3, <1>8, <1>9, <1>10, <1>11, <1>12, TryKeeps DEF q, ReplacedAs

\* A list becomes another that holds one item less, or the same items.
LEMMA TakenOut ==
  ASSUME IInv, NEW l \in Lists, NEW n \in 1..Len(list[l]), NEW q \in Seq(Cell),
         ListBecomes(l, q), Len(q) <= MaxLen, Tidy(q), Single(q),
         Held(q) = Held(list[l]) \ {list[l][n]},
         IF list[l][n] = None THEN UNCHANGED <<container, announced>>
                              ELSE Detach(list[l][n]),
         outcome' = "ok"
  PROVE  IInv' /\ Undone
<1> DEFINE i == list[l][n]
           gone == {i} \ {None}
           new == {}
<1>1. i \in Cell /\ l \in Containers
  BY ElementOfSeq DEF IInv, Shapes, Containers
<1>2. gone \subseteq Held(list[l])
  BY InSet DEF IInv, Shapes, Held
<1>3. \A j \in gone : j \in Items /\ container[j] = l
  BY <1>1, <1>2 DEF IInv, Placed, In
<1>4. Transfer(l, gone, new)
  <2>1. CASE i = None
    BY <2>1 DEF Transfer, IInv, Shapes
  <2>2. CASE i # None
    <3>1. Detach(i) /\ i \in Items /\ container[i] = l /\ gone = {i}
      BY <1>3, <2>2
    <3> HIDE DEF i, gone
    <3>2. container' = [j \in Items |-> IF j \in new THEN l
                                       ELSE IF j \in gone THEN None ELSE container[j]]
      BY <3>1 DEF Detach, IInv, Shapes
    <3>3. announced' = announced \ {<<FitOf[l], i>>}
      BY <3>1 DEF Detach
    <3>4. {<<FitOf[l], j>> : j \in gone} = {<<FitOf[l], i>>}
      BY <3>1
    <3>5. {<<FitOf[l], j>> : j \in new} = {}
      OBVIOUS
    <3> HIDE DEF new
    <3> QED BY <3>2, <3>3, <3>4, <3>5 DEF Transfer
  <2> QED BY <2>1, <2>2
<1>5. /\ new \in SUBSET Items /\ \A j \in new : container[j] = None \/ j \in gone
      /\ Held(q) = (Held(list[l]) \ gone) \cup new
  BY DEF Held
<1>6. outcome' \in {"ok", "raised"}
  OBVIOUS
<1> HIDE DEF gone, new
<1>7. IInv'
  BY <1>2, <1>4, <1>5, <1>6, ListMoved
<1> QED BY <1>7 DEF Undone

LEMMA RemoveFromKeeps ==
  ASSUME IInv, NEW l \in Lists, NEW n \in Nat, RemoveFrom(l, n)
  PROVE  IInv' /\ Undone
<1> DEFINE q == list[l]
           a == RemoveAt(q, n)
           t == Trimmed(a)
<1>1. q \in Seq(Cell) /\ Len(q) \in Nat /\ Len(q) <= MaxLen /\ Single(q) /\ MaxLen \in Nat
  BY ListShape, ContainersAssumption
<1>2. /\ ListBecomes(l, t) /\ outcome' = "ok"
      /\ IF q[n] = None THEN UNCHANGED <<container, announced>> ELSE Detach(q[n])
  BY DEF RemoveFrom, ListBecomes
<1>3. n \in 1..Len(q)
  BY <1>1, LenProperties DEF RemoveFrom
<1> HIDE DEF q
<1>4. a \in Seq(Cell) /\ Len(a) = Len(q) - 1 /\ Single(a) /\ Held(a) = Held(q) \ {q[n]}
  BY <1>1, <1>3, RemovedList, HeldRemoved
<1> HIDE DEF a
<1>5. t \in Seq(Cell) /\ Len(t) <= Len(a) /\ Tidy(t) /\ Single(t) /\ Held(t) = Held(a)
  BY <1>4, TrimmedList, HeldTrimmed
<1> HIDE DEF t
<1>6. Len(t) <= MaxLen
  BY <1>1, <1>4, <1>5, LenProperties
<1> QED BY <1>2, <1>3, <1>4, <1>5, <1>6, TakenOut DEF q

LEMMA FreeKeeps ==
  ASSUME IInv, NEW l \in Lists, NEW n \in Nat, Free(l, n)
  PROVE  IInv' /\ Undone
<1> DEFINE q == list[l]
           a == ReplaceAt(q, n, None)
           t == Trimmed(a)
<1>1. q \in Seq(Cell) /\ Len(q) \in Nat /\ Len(q) <= MaxLen /\ Single(q) /\ MaxLen \in Nat
  BY ListShape, ContainersAssumption
<1>2. ListBecomes(l, t) /\ outcome' = "ok" /\ q[n] # None /\ Detach(q[n])
  BY DEF Free, ListBecomes
<1>3. n \in 1..Len(q) /\ None \in Cell
  BY <1>1, LenProperties DEF Free, Cell
<1> HIDE DEF q
<1>4. a \in Seq(Cell) /\ Len(a) = Len(q) /\ Single(a) /\ Held(a) = (Held(q) \ {q[n]}) \cup ({None} \ {None})
  BY <1>1, <1>3, HeldReplaced
<1> HIDE DEF a
<1>5. t \in Seq(Cell) /\ Len(t) <= Len(a) /\ Tidy(t) /\ Single(t) /\ Held(t) = Held(a)
  BY <1>4, TrimmedList, HeldTrimmed
<1> HIDE DEF t
<1>6. Len(t) <= MaxLen
  BY <1>1, <1>4, <1>5, LenProperties
<1>7. Held(t) = Held(q) \ {q[n]}
  BY <1>4, <1>5
<1> QED BY <1>2, <1>3, <1>5, <1>6, <1>7, TakenOut DEF q

\* All the items of a container are let go of.
LEMMA AllGone ==
  ASSUME IInv, NEW c \in Containers, DetachAll(In(c))
  PROVE  Transfer(c, In(c), {}) /\ outcome' = "ok"
<1>1. \A i \in In(c) : i \in Items /\ container[i] = c
  BY DEF IInv, Placed
<1>2. {<<FitOf[container[i]], i>> : i \in In(c)} = {<<FitOf[c], i>> : i \in In(c)}
  BY <1>1
<1> QED BY <1>2 DEF DetachAll, Transfer

LEMMA ClearListKeeps ==
  ASSUME IInv, NEW l \in Lists, ClearList(l)
  PROVE  IInv' /\ Undone
<1> DEFINE q == <<>>
           gone == Held(list[l])
           new == {}
<1>1. l \in Containers /\ In(l) = gone
  BY DEF Containers, In
<1>2. ListBecomes(l, q) /\ DetachAll(gone)
  BY DEF ClearList, ListBecomes, Held
<1>3. Transfer(l, gone, new) /\ outcome' = "ok"
  BY <1>1, <1>2, AllGone
<1>4. q \in Seq(Cell) /\ Len(q) = 0 /\ Tidy(q) /\ Single(q) /\ Held(q) = {}
  BY EmptySeq DEF Tidy, Single, Held, ToSet
<1>5. Len(q) <= MaxLen /\ outcome' \in {"ok", "raised"}
  BY <1>3, <1>4, ContainersAssumption
<1>6. /\ Held(q) = (Held(list[l]) \ gone) \cup new /\ gone \in SUBSET Held(list[l])
      /\ new \in SUBSET Items /\ \A j \in new : container[j] = None \/ j \in gone
  BY <1>4
<1> HIDE DEF q, gone, new
<1>7. IInv'
  BY <1>2, <1>3, <1>4, <1>5, <1>6, ListMoved
<1> QED BY <1>3, <1>7 DEF Undone

-----------------------------------------------------------------------------
(* The calls on sets.                                                      *)

SetBecomes(s, S) ==
  set' = [set EXCEPT ![s] = S] /\ UNCHANGED <<list, slot>>

LEMMA SetMoved ==
  ASSUME IInv, NEW s \in Sets \cup UniqueSets, NEW S \in SUBSET Items, SetBecomes(s, S),
         Typed', DOMAIN byType' = UniqueSets,
         NEW gone \in SUBSET set[s], NEW new \in SUBSET Items,
         \A i \in new : container[i] = None \/ i \in gone,
         S = (set[s] \ gone) \cup new,
         Transfer(s, gone, new),
         outcome' \in {"ok", "raised"}
  PROVE  IInv'
<1>1. s \in Containers /\ s \notin Lists
  BY ContainersAssumption DEF Containers
<1>2. In(s)' = S /\ In(s) = set[s]
  BY <1>1 DEF IInv, Shapes, In, SetBecomes
<1>3. \A c \in Containers \ {s} : In(c)' = In(c)
  BY DEF IInv, Shapes, In, SetBecomes
<1>4. In(s)' = (In(s) \ gone) \cup new /\ gone \in SUBSET In(s)
  BY <1>2
<1>5. container' \in [Items -> Containers \cup {None}] /\ Placed' /\ AnnouncedTrue'
  BY <1>1, <1>3, <1>4, Moved
<1>6. Shapes'
  BY <1>5 DEF IInv, Shapes, SetBecomes
<1> QED BY <1>5, <1>6 DEF IInv

\* An item that the set does not hold, added: it is held by then, or nothing is
\* changed.
LEMMA SetAddKeeps ==
  ASSUME IInv, NEW s \in Sets \cup UniqueSets, NEW i \in Items, i \notin set[s],
         SetAdd(s, i), UNCHANGED <<list, slot>>,
         outcome' = "raised" => byType' = byType,
         outcome' = "ok" /\ set' = [set EXCEPT ![s] = @ \cup {i}] =>
           Typed' /\ DOMAIN byType' = UniqueSets
  PROVE  IInv' /\ Undone
<1>1. s \in Containers
  BY DEF Containers
<1>2. Assigned(i, s, set[s] \cup {i}) <=> container[i] # None
  BY <1>1, AssignedWhenHeld
<1>3. CASE container[i] # None
  <2>1. set' = [set EXCEPT ![s] = @ \ {i}] /\ Raises
    BY <1>2, <1>3 DEF SetAdd
  <2>2. set' = set
    BY <2>1 DEF IInv, Shapes
  <2>3. UNCHANGED <<contents, container, announced>> /\ outcome' = "raised"
    BY <2>1, <2>2 DEF Raises, contents
  <2> QED BY <2>3, Unmoved DEF Undone
<1>4. CASE container[i] = None
  <2> DEFINE S == set[s] \cup {i}
             gone == {}
             new == {i}
  <2>1. set' = [set EXCEPT ![s] = @ \cup {i}] /\ Attach(i, s) /\ outcome' = "ok"
    BY <1>2, <1>4 DEF SetAdd
  <2>2. SetBecomes(s, S) /\ S \in SUBSET Items
    BY <2>1 DEF SetBecomes, IInv, Shapes
  <2>3. Transfer(s, gone, new)
    BY <2>1 DEF Attach, IInv, Shapes, Transfer
  <2>4. /\ gone \in SUBSET set[s] /\ new \in SUBSET Items
        /\ \A j \in new : container[j] = None \/ j \in gone
        /\ S = (set[s] \ gone) \cup new
    BY <1>4
  <2>5. Typed' /\ DOMAIN byType' = UniqueSets /\ outcome' \in {"ok", "raised"}
    BY <2>1
  <2> HIDE DEF S, gone, new
  <2>6. IInv'
    BY <2>2, <2>3, <2>4, <2>5, SetMoved
  <2> QED BY <2>1, <2>6 DEF Undone
<1> QED BY <1>3, <1>4

LEMMA AddKeeps ==
  ASSUME IInv, ~Careless, NEW s \in Sets \cup UniqueSets, NEW i \in Items, Add(s, i)
  PROVE  IInv' /\ Undone
<1>1. s \in Sets /\ i \notin set[s] /\ SetAdd(s, i) /\ UNCHANGED <<list, byType, slot>>
  BY DEF Add
<1>2. ASSUME set' = [set EXCEPT ![s] = @ \cup {i}] PROVE Typed' /\ DOMAIN byType' = UniqueSets
  <2>1. \A u \in UniqueSets : u # s
    BY <1>1, ContainersAssumption
  <2>2. \A u \in UniqueSets : set'[u] = set[u]
    BY <1>2, <2>1 DEF IInv, Shapes
  <2> QED BY <1>1, <2>2 DEF IInv, Shapes, Typed
<1> QED BY <1>1, <1>2, SetAddKeeps

LEMMA AddUniqueKeeps ==
  ASSUME IInv, NEW s \in Sets \cup UniqueSets, NEW i \in Items, AddUnique(s, i)
  PROVE  IInv' /\ Undone
<1>1. /\ s \in UniqueSets /\ TypeId[i] \notin DOMAIN byType[s] /\ SetAdd(s, i)
      /\ UNCHANGED <<list, slot>>
  BY DEF AddUnique
<1>2. i \notin set[s]
  BY <1>1 DEF IInv, Typed
<1>3. outcome' = "raised" => byType' = byType
  BY DEF AddUnique
<1>4. ASSUME outcome' = "ok", set' = [set EXCEPT ![s] = @ \cup {i}]
      PROVE  Typed' /\ DOMAIN byType' = UniqueSets
  <2> DEFINE f == [t \in DOMAIN byType[s] \cup {TypeId[i]} |->
                     IF t = TypeId[i] THEN i ELSE byType[s][t]]
  <2>1. byType' = [byType EXCEPT ![s] = f]
    BY <1>4 DEF AddUnique
  <2>2. DOMAIN byType = UniqueSets
    BY DEF IInv, Shapes
  <2>3. DOMAIN byType[s] = {TypeId[j] : j \in set[s]}
        /\ \A j \in set[s] : byType[s][TypeId[j]] = j
    BY <1>1 DEF IInv, Typed
  <2>4. set'[s] = set[s] \cup {i} /\ \A u \in UniqueSets \ {s} : set'[u] = set[u]
    BY <1>1, <1>4 DEF IInv, Shapes
  <2>5. DOMAIN f = {TypeId[j] : j \in set'[s]}
    BY <2>3, <2>4
  <2>6. \A j \in set'[s] : f[TypeId[j]] = j
    BY <1>1, <2>3, <2>4
  <2> HIDE DEF f
  <2>7. byType'[s] = f /\ \A u \in UniqueSets \ {s} : byType'[u] = byType[u]
    BY <1>1, <2>1, <2>2
  <2>8. Typed'
    BY <2>4, <2>5, <2>6, <2>7 DEF IInv, Typed
  <2> QED BY <2>1, <2>2, <2>8
<1> QED BY <1>1, <1>2, <1>3, <1>4, SetAddKeeps

\* Items leave a set, and a TypeUniqueItemSet forgets their types.
LEMMA TypesForgotten ==
  ASSUME IInv, NEW s \in Sets \cup UniqueSets, NEW S \in SUBSET set[s], SetBecomes(s, S),
         NEW f, DOMAIN f = {TypeId[j] : j \in S},
         s \in UniqueSets => \A j \in S : f[TypeId[j]] = byType[s][TypeId[j]],
         byType' = IF s \in Sets THEN byType ELSE [byType EXCEPT ![s] = f]
  PROVE  Typed' /\ DOMAIN byType' = UniqueSets
<1>1. DOMAIN byType = UniqueSets /\ Sets \cap UniqueSets = {}
  BY ContainersAssumption DEF IInv, Shapes
<1>2. set'[s] = S /\ \A u \in UniqueSets \ {s} : set'[u] = set[u]
  BY DEF IInv, Shapes, SetBecomes
<1>3. CASE s \in Sets
  <2>1. \A u \in UniqueSets : set'[u] = set[u]
    BY <1>1, <1>2, <1>3
  <2> QED BY <1>1, <1>3, <2>1 DEF IInv, Typed
<1>4. CASE s \notin Sets
  <2>1. s \in UniqueSets /\ byType' = [byType EXCEPT ![s] = f]
    BY <1>4
  <2>2. byType'[s] = f /\ \A u \in UniqueSets \ {s} : byType'[u] = byType[u]
    BY <1>1, <2>1
  <2>3. \A j \in S : f[TypeId[j]] = j
    BY <2>1 DEF IInv, Typed
  <2> QED BY <1>1, <1>2, <2>1, <2>2, <2>3 DEF IInv, Typed
<1> QED BY <1>3, <1>4

LEMMA DiscardKeeps ==
  ASSUME IInv, NEW s \in Sets \cup UniqueSets, NEW i \in Items, Discard(s, i)
  PROVE  IInv' /\ Undone
<1> DEFINE S == set[s] \ {i}
           f == [t \in DOMAIN byType[s] \ {TypeId[i]} |-> byType[s][t]]
           gone == {i}
           new == {}
<1>1. /\ i \in set[s] /\ SetBecomes(s, S) /\ Detach(i) /\ outcome' = "ok"
      /\ byType' = IF s \in Sets THEN byType ELSE [byType EXCEPT ![s] = f]
  BY DEF Discard, SetBecomes
<1>2. container[i] = s /\ S \in SUBSET Items
  BY <1>1, ContainersAssumption DEF IInv, Placed, In, Containers, Shapes
<1>3. Typed' /\ DOMAIN byType' = UniqueSets
  <2>1. CASE s \in Sets
    <3>1. \A u \in UniqueSets : set'[u] = set[u]
      BY <1>1, <2>1, ContainersAssumption DEF SetBecomes, IInv, Shapes
    <3> QED BY <1>1, <2>1, <3>1 DEF IInv, Typed, Shapes
  <2>2. CASE s \notin Sets
    <3>1. DOMAIN byType[s] = {TypeId[j] : j \in set[s]}
          /\ \A j \in set[s] : byType[s][TypeId[j]] = j
      BY <2>2 DEF IInv, Typed
    <3>2. \A j \in set[s] : TypeId[j] = TypeId[i] => j = i
      BY <1>1, <3>1
    <3>3. DOMAIN f = {TypeId[j] : j \in S}
      BY <3>1, <3>2
    <3>4. \A j \in S : f[TypeId[j]] = byType[s][TypeId[j]]
      BY <3>1, <3>2
    <3>5. S \in SUBSET set[s]
      OBVIOUS
    <3> HIDE DEF f, S
    <3> QED BY <1>1, <3>3, <3>4, <3>5, TypesForgotten
  <2> QED BY <2>1, <2>2
<1>4. Transfer(s, gone, new)
  BY <1>1, <1>2 DEF Detach, Transfer, IInv, Shapes
<1>5. /\ gone \in SUBSET set[s] /\ new \in SUBSET Items
      /\ \A j \in new : container[j] = None \/ j \in gone
      /\ S = (set[s] \ gone) \cup new /\ outcome' \in {"ok", "raised"}
  BY <1>1
<1> HIDE DEF S, f, gone, new
<1>6. IInv'
  BY <1>1, <1>2, <1>3, <1>4, <1>5, SetMoved
<1> QED BY <1>1, <1>6 DEF Undone

LEMMA ClearSetKeeps ==
  ASSUME IInv, NEW s \in Sets \cup UniqueSets, ClearSet(s)
  PROVE  IInv' /\ Undone
<1> DEFINE S == {}
           f == <<>>
           gone == set[s]
           new == {}
<1>1. s \in Containers /\ In(s) = gone /\ gone \subseteq Items
  BY ContainersAssumption DEF Containers, In, IInv, Shapes
<1>2. /\ SetBecomes(s, S) /\ DetachAll(gone)
      /\ byType' = IF s \in Sets THEN byType ELSE [byType EXCEPT ![s] = f]
  BY DEF ClearSet, SetBecomes
<1>3. Transfer(s, gone, new) /\ outcome' = "ok"
  BY <1>1, <1>2, AllGone
<1>4. Typed' /\ DOMAIN byType' = UniqueSets
  <2>1. DOMAIN f = {TypeId[j] : j \in S} /\ S \in SUBSET set[s]
    OBVIOUS
  <2>2. \A j \in S : f[TypeId[j]] = byType[s][TypeId[j]]
    OBVIOUS
  <2> HIDE DEF S, f
  <2> QED BY <1>2, <2>1, <2>2, TypesForgotten
<1>5. /\ gone \in SUBSET set[s] /\ new \in SUBSET Items /\ S \in SUBSET Items
      /\ \A j \in new : container[j] = None \/ j \in gone
      /\ S = (set[s] \ gone) \cup new /\ outcome' \in {"ok", "raised"}
  BY <1>3
<1> HIDE DEF S, f, gone, new
<1>6. IInv'
  BY <1>2, <1>3, <1>4, <1>5, SetMoved
<1> QED BY <1>3, <1>6 DEF Undone

-----------------------------------------------------------------------------
(* The call on a descriptor.                                               *)

LEMMA AssignKeeps ==
  ASSUME IInv, NEW d \in Slots, NEW new \in Cell, Assign(d, new)
  PROVE  IInv' /\ Undone
<1> DEFINE old == slot[d]
           gone == {old} \ {None}
           in == {new} \ {None}
<1>1. /\ d \in Containers /\ d \notin Lists /\ d \notin Sets \cup UniqueSets
      /\ None \notin Items /\ old \in Cell
  BY ContainersAssumption DEF Containers, IInv, Shapes
<1>2. In(d) = gone
  BY <1>1 DEF In
<1>a. /\ container \in [Items -> Containers \cup {None}] /\ slot \in [Slots -> Cell]
      /\ old # None => old \in Items /\ container[old] = d /\ <<FitOf[d], old>> \in announced
  <2>1. /\ container \in [Items -> Containers \cup {None}] /\ slot \in [Slots -> Cell]
    BY DEF IInv, Shapes
  <2>2. old # None => old \in Items /\ old \in In(d)
    BY <1>1, <1>2 DEF Cell
  <2>3. old # None => container[old] = d
    BY <1>1, <2>2 DEF IInv, Placed
  <2>4. old # None => <<FitOf[d], old>> \in announced
    <3> HIDE DEF old
    <3>1. d # None
      BY <1>1, ContainersAssumption DEF Containers
    <3>2. announced = {<<FitOf[container[i]], i>> : i \in {j \in Items : container[j] # None}}
      BY DEF IInv, AnnouncedTrue
    <3> QED BY <2>2, <2>3, <3>1, <3>2
  <2> QED BY <2>1, <2>2, <2>3, <2>4
<1>b. LET off == Off([container |-> container, announced |-> announced], old)
      IN /\ off.container = [i \in Items |-> IF i = old THEN None ELSE container[i]]
         /\ off.announced = announced \ {<<FitOf[d], old>>}
  <2>1. CASE old = None
    <3>1. <<FitOf[d], None>> \notin announced
      BY <1>1 DEF IInv, AnnouncedTrue
    <3>2. container = [i \in Items |-> IF i = old THEN None ELSE container[i]]
      BY <1>1, <1>a, <2>1
    <3> HIDE DEF old
    <3> QED BY <2>1, <3>1, <3>2 DEF Off
  <2>2. CASE old # None
    <3>1. container[old] = d /\ old \in Items
      BY <1>a, <2>2
    <3>2. [container EXCEPT ![old] = None] = [i \in Items |-> IF i = old THEN None ELSE container[i]]
      BY <1>a, <3>1
    <3> HIDE DEF old
    <3> QED BY <2>2, <3>1, <3>2 DEF Off
  <2> QED BY <2>1, <2>2
<1>3. CASE Refused(d, new)
  <2>1. LET off == Off([container |-> container, announced |-> announced], old)
        IN /\ outcome' = "raised" /\ slot' = [slot EXCEPT ![d] = old]
           /\ container' = On(off, old, d).container /\ announced' = On(off, old, d).announced
           /\ UNCHANGED <<list, set, byType>>
    BY <1>3 DEF Assign
  <2>2. slot' = slot
    BY <1>a, <2>1
  <2>3. container' = container /\ announced' = announced
    <3>1. CASE old = None
      BY <2>1, <3>1 DEF On, Off
    <3>2. CASE old # None
      <4>1. old \in Items /\ container[old] = d /\ <<FitOf[d], old>> \in announced
        BY <1>a, <3>2
      <4> HIDE DEF old
      <4>2. /\ container' = [[i \in Items |-> IF i = old THEN None ELSE container[i]] EXCEPT ![old] = d]
            /\ announced' = (announced \ {<<FitOf[d], old>>}) \cup {<<FitOf[d], old>>}
        BY <1>b, <2>1, <3>2 DEF On
      <4>3. container' = [i \in Items |-> container[i]]
        BY <4>1, <4>2
      <4> QED BY <1>a, <4>1, <4>2, <4>3
    <3> QED BY <3>1, <3>2
  <2>4. UNCHANGED <<contents, container, announced>> /\ outcome' = "raised"
    BY <2>1, <2>2, <2>3 DEF contents
  <2> QED BY <2>4, Unmoved DEF Undone
<1>4. CASE ~Refused(d, new)
  <2>1. /\ outcome' = "ok" /\ slot' = [slot EXCEPT ![d] = new]
        /\ container' = [i \in Items |-> IF i = new THEN d
                           ELSE IF i = old THEN None ELSE container[i]]
        /\ announced' = (announced \ {<<FitOf[d], old>>}) \cup
                          (IF new = None THEN {} ELSE {<<FitOf[d], new>>})
        /\ UNCHANGED <<list, set, byType>>
    <3>1. LET off == Off([container |-> container, announced |-> announced], old)
          IN /\ outcome' = "ok" /\ slot' = [slot EXCEPT ![d] = new]
             /\ container' = On(off, new, d).container /\ announced' = On(off, new, d).announced
             /\ UNCHANGED <<list, set, byType>>
      BY <1>4 DEF Assign
    <3>2. CASE new = None
      <4>1. \A i \in Items : i # new
        BY <1>1, <3>2
      <4> HIDE DEF old
      <4> QED BY <1>b, <3>1, <3>2, <4>1 DEF On
    <3>3. CASE new # None
      <4> HIDE DEF old
      <4>1. /\ container' = [[i \in Items |-> IF i = old THEN None ELSE container[i]] EXCEPT ![new] = d]
            /\ announced' = (announced \ {<<FitOf[d], old>>}) \cup {<<FitOf[d], new>>}
        BY <1>b, <3>1, <3>3 DEF On
      <4>2. container' = [i \in Items |-> IF i = new THEN d
                            ELSE IF i = old THEN None ELSE container[i]]
        BY <4>1
      <4> QED BY <3>1, <3>3, <4>1, <4>2
    <3> QED BY <3>2, <3>3
  <2>2. \A i \in in : container[i] = None \/ i \in gone
    <3> SUFFICES ASSUME new # None, new # old PROVE container[new] = None
      OBVIOUS
    <3>1. ~Assigned(new, d, {new}) /\ new \in Items
      BY <1>4 DEF Cell, Refused
    <3>2. new \in {new}
      OBVIOUS
    <3> QED BY <1>1, <3>1, <3>2, AssignedWhenHeld
  <2>3. In(d)' = in /\ \A c \in Containers \ {d} : In(c)' = In(c)
    BY <1>1, <2>1 DEF In, IInv, Shapes
  <2>4. Transfer(d, gone, in)
    <3>1. container' = [i \in Items |-> IF i \in in THEN d
                          ELSE IF i \in gone THEN None ELSE container[i]]
      BY <1>1, <2>1
    <3>2. (IF new = None THEN {} ELSE {<<FitOf[d], new>>}) = {<<FitOf[d], i>> : i \in in}
      OBVIOUS
    <3>3. announced \ {<<FitOf[d], old>>} = announced \ {<<FitOf[d], i>> : i \in gone}
      <4>1. CASE old = None
        <5>1. <<FitOf[d], None>> \notin announced
          BY <1>1 DEF IInv, AnnouncedTrue
        <5>2. {<<FitOf[d], i>> : i \in gone} = {}
          BY <4>1
        <5> QED BY <4>1, <5>1, <5>2
      <4>2. CASE old # None
        <5>1. gone = {old}
          BY <4>2
        <5> HIDE DEF gone, old
        <5> QED BY <5>1
      <4> QED BY <4>1, <4>2
    <3> HIDE DEF gone, in
    <3> QED BY <2>1, <3>1, <3>2, <3>3 DEF Transfer
  <2>5. in \in SUBSET Items /\ gone \in SUBSET In(d) /\ In(d)' = (In(d) \ gone) \cup in
    BY <1>2, <2>3 DEF Cell
  <2> HIDE DEF gone, in
  <2>6. container' \in [Items -> Containers \cup {None}] /\ Placed' /\ AnnouncedTrue'
    BY <1>1, <2>2, <2>3, <2>4, <2>5, Moved
  <2>7. slot' \in [Slots -> Cell]
    BY <2>1 DEF IInv, Shapes
  <2>8. Shapes'
    BY <2>1, <2>6, <2>7 DEF IInv, Shapes
  <2>9. Typed'
    BY <2>1 DEF IInv, Typed
  <2> QED BY <2>1, <2>6, <2>8, <2>9 DEF IInv, Undone
<1> QED BY <1>3, <1>4

-----------------------------------------------------------------------------
(* All calls, and what the invariant implies.                              *)

LEMMA InitIInv == Init => IInv
<1> SUFFICES ASSUME Init PROVE IInv
  OBVIOUS
<1>1. <<>> \in Seq(Cell) /\ Len(<<>>) = 0 /\ Tidy(<<>>) /\ Single(<<>>) /\ Held(<<>>) = {}
  BY EmptySeq DEF Tidy, Single, Held, ToSet
<1>2. Shapes
  BY <1>1, ContainersAssumption DEF Init, Shapes, Cell
<1>3. Placed
  <2>1. \A c \in Containers : c # None /\ In(c) = {}
    BY <1>1, ContainersAssumption DEF Init, In, Containers
  <2> QED BY <2>1 DEF Init, Placed
<1>4. Typed
  BY DEF Init, Typed
<1>5. AnnouncedTrue
  BY DEF Init, AnnouncedTrue
<1> QED BY <1>2, <1>3, <1>4, <1>5 DEF IInv

LEMMA ListCallKeeps ==
  ASSUME IInv, ~Careless, NEW l \in Lists, ListCall(l)
  PROVE  IInv' /\ Undone
<1>1. Accepts[l] \subseteq Items /\ MaxIndex \in Nat /\ MaxLen \in Nat
  BY ContainersAssumption DEF Containers
<1>2. ASSUME NEW i \in Accepts[l], Append_(l, i) PROVE IInv' /\ Undone
  BY <1>1, <1>2, Append_Keeps
<1>3. ASSUME NEW i \in Accepts[l], Equip(l, i) PROVE IInv' /\ Undone
  BY <1>1, <1>3, EquipKeeps
<1>4. ASSUME NEW i \in Accepts[l], NEW k \in 0..MaxIndex, Insert(l, k, i) PROVE IInv' /\ Undone
  BY <1>1, <1>4, InsertKeeps
<1>5. ASSUME NEW i \in Accepts[l], NEW k \in 0..MaxIndex, Place(l, k, i) PROVE IInv' /\ Undone
  BY <1>1, <1>5, PlaceKeeps
<1>6. ASSUME NEW i \in Accepts[l], NEW k \in 1..MaxIndex, InsertBack(l, k, i)
      PROVE  IInv' /\ Undone
  <2>1. k \in Nat \ {0} /\ i \in Items
    BY <1>1
  <2> QED BY <1>6, <2>1, InsertBackKeeps
<1>7. ASSUME NEW k \in 0..MaxIndex, InsertNone(l, k) PROVE IInv' /\ Undone
  BY <1>1, <1>7, InsertNoneKeeps
<1>8. ASSUME NEW n \in 1..MaxLen, RemoveFrom(l, n) PROVE IInv' /\ Undone
  BY <1>1, <1>8, RemoveFromKeeps
<1>9. ASSUME NEW n \in 1..MaxLen, Free(l, n) PROVE IInv' /\ Undone
  BY <1>1, <1>9, FreeKeeps
<1>10. CASE ClearList(l)
  BY <1>10, ClearListKeeps
<1> QED BY <1>2, <1>3, <1>4, <1>5, <1>6, <1>7, <1>8, <1>9, <1>10 DEF ListCall

LEMMA SetCallKeeps ==
  ASSUME IInv, ~Careless, NEW s \in Sets \cup UniqueSets, SetCall(s)
  PROVE  IInv' /\ Undone
<1>1. Accepts[s] \subseteq Items
  BY ContainersAssumption DEF Containers
<1>2. ASSUME NEW i \in Accepts[s], Add(s, i) PROVE IInv' /\ Undone
  BY <1>1, <1>2, AddKeeps
<1>3. ASSUME NEW i \in Accepts[s], AddUnique(s, i) PROVE IInv' /\ Undone
  BY <1>1, <1>3, AddUniqueKeeps
<1>4. ASSUME NEW i \in Accepts[s], Discard(s, i) PROVE IInv' /\ Undone
  BY <1>1, <1>4, DiscardKeeps
<1>5. CASE ClearSet(s)
  BY <1>5, ClearSetKeeps
<1> QED BY <1>2, <1>3, <1>4, <1>5 DEF SetCall

\* A call keeps the invariant, and one that raises changes nothing.
THEOREM StepIInv ==
  ASSUME ~Careless, IInv, [Next]_vars
  PROVE  IInv' /\ (vars' # vars => Undone)
<1>1. CASE UNCHANGED vars
  <2>1. UNCHANGED <<contents, container, announced>> /\ outcome' \in {"ok", "raised"}
    BY <1>1 DEF vars, IInv, Shapes
  <2> QED BY <1>1, <2>1, Unmoved
<1>2. ASSUME NEW l \in Lists, ListCall(l) PROVE IInv' /\ Undone
  BY <1>2, ListCallKeeps
<1>3. ASSUME NEW s \in Sets \cup UniqueSets, SetCall(s) PROVE IInv' /\ Undone
  BY <1>3, SetCallKeeps
<1>4. ASSUME NEW d \in Slots, NEW new \in Accepts[d] \cup {None}, Assign(d, new)
      PROVE  IInv' /\ Undone
  <2>1. new \in Cell
    BY ContainersAssumption DEF Containers, Cell
  <2> QED BY <1>4, <2>1, AssignKeeps
<1> QED BY <1>1, <1>2, <1>3, <1>4 DEF Next

LEMMA TypeImplied == IInv => TypeOK
<1> SUFFICES ASSUME IInv PROVE TypeOK
  OBVIOUS
<1>1. ASSUME NEW l \in Lists
      PROVE  /\ list[l] \in Seq(Items \cup {None}) /\ Len(list[l]) <= MaxLen
             /\ list[l] # <<>> => Last(list[l]) # None
  BY ListShape DEF Last, Tidy, Cell
<1> QED BY <1>1 DEF IInv, Shapes, TypeOK, Cell

\* An item that refers to a container has one place, in it; another has none.
LEMMA OnePlace ==
  ASSUME IInv, NEW i \in Items
  PROVE  IF container[i] = None THEN Places(i) = {}
         ELSE \E x : Places(i) = {<<container[i], x>>}
<1> DEFINE c == container[i]
           InLists == {p \in Lists \X (1..MaxLen) :
                         p[2] \in DOMAIN list[p[1]] /\ list[p[1]][p[2]] = i}
           InSets == {<<s, 0>> : s \in {t \in DOMAIN set : i \in set[t]}}
           InSlots == {<<d, 0>> : d \in {e \in Slots : slot[e] = i}}
<1>1. Places(i) = InLists \cup InSets \cup InSlots
  BY DEF Places
<1>2. /\ None \notin Items \cup Containers /\ Containers = Lists \cup Sets \cup UniqueSets \cup Slots
      /\ Lists \cap (Sets \cup UniqueSets) = {} /\ (Lists \cup Sets \cup UniqueSets) \cap Slots = {}
  BY ContainersAssumption DEF Containers
<1>3. \A d \in Containers : i \in In(d) <=> c = d
  BY DEF IInv, Placed
<1>4. ASSUME NEW p \in InLists PROVE p[1] = c /\ p = <<c, p[2]>> /\ c \in Lists
  <2>1. p \in Lists \X (1..MaxLen) /\ p[2] \in DOMAIN list[p[1]] /\ list[p[1]][p[2]] = i
    OBVIOUS
  <2>2. p[1] \in Lists /\ p = <<p[1], p[2]>>
    BY <2>1
  <2>3. i \in In(p[1])
    BY <1>2, <2>1, <2>2 DEF In, Held, ToSet
  <2> QED BY <1>2, <1>3, <2>2, <2>3
<1>5. ASSUME NEW p \in InSets PROVE p = <<c, 0>> /\ c \in Sets \cup UniqueSets
  <2>1. PICK s \in DOMAIN set : i \in set[s] /\ p = <<s, 0>>
    OBVIOUS
  <2>2. s \in Sets \cup UniqueSets /\ s \notin Lists
    BY <1>2 DEF IInv, Shapes
  <2> QED BY <1>2, <1>3, <2>1, <2>2 DEF In
<1>6. ASSUME NEW p \in InSlots PROVE p = <<c, 0>> /\ c \in Slots
  BY <1>2, <1>3 DEF In
<1>7. CASE c = None
  BY <1>1, <1>2, <1>4, <1>5, <1>6, <1>7
<1>8. CASE c \in Lists
  <2>1. i \in Held(list[c]) /\ list[c] \in Seq(Cell) /\ Single(list[c]) /\ Len(list[c]) <= MaxLen
        /\ Len(list[c]) \in Nat
    BY <1>2, <1>3, <1>8, ListShape DEF In
  <2>2. PICK n \in 1..Len(list[c]) : list[c][n] = i
    BY <2>1, HeldItems
  <2>3. DOMAIN list[c] = 1..Len(list[c]) /\ n \in 1..MaxLen
    BY <2>1, LenProperties, ContainersAssumption
  <2>4. <<c, n>> \in InLists
    BY <1>8, <2>2, <2>3
  <2>5. ASSUME NEW p \in InLists PROVE p = <<c, n>>
    <3>1. p[1] = c /\ p = <<c, p[2]>> /\ p[2] \in DOMAIN list[p[1]] /\ list[p[1]][p[2]] = i
      BY <1>4
    <3> HIDE DEF InLists
    <3>2. p[2] \in 1..Len(list[c]) /\ list[c][p[2]] = i
      BY <2>3, <3>1
    <3>3. p[2] = n
      BY <1>2, <2>1, <2>2, <3>2 DEF Single
    <3> QED BY <3>1, <3>3
  <2>6. InSets = {} /\ InSlots = {}
    BY <1>2, <1>5, <1>6, <1>8
  <2> HIDE DEF InLists, InSets, InSlots
  <2>7. Places(i) = {<<c, n>>}
    BY <1>1, <2>4, <2>5, <2>6
  <2> QED BY <1>2, <1>8, <2>7
<1>9. CASE c \in Sets \cup UniqueSets
  <2>1. i \in set[c] /\ c \in DOMAIN set
    BY <1>2, <1>3, <1>9 DEF In, IInv, Shapes
  <2>2. <<c, 0>> \in InSets
    BY <2>1
  <2>3. InLists = {} /\ InSlots = {}
    BY <1>2, <1>4, <1>6, <1>9
  <2> HIDE DEF InLists, InSets, InSlots
  <2>4. Places(i) = {<<c, 0>>}
    BY <1>1, <1>5, <2>2, <2>3
  <2> QED BY <1>2, <1>9, <2>4
<1>10. CASE c \in Slots
  <2>1. slot[c] = i
    BY <1>2, <1>3, <1>10 DEF In
  <2>2. <<c, 0>> \in InSlots
    BY <1>10, <2>1
  <2>3. InLists = {} /\ InSets = {}
    BY <1>2, <1>4, <1>5, <1>10
  <2> HIDE DEF InLists, InSets, InSlots
  <2>4. Places(i) = {<<c, 0>>}
    BY <1>1, <1>6, <2>2, <2>3
  <2> QED BY <1>2, <1>10, <2>4
<1>11. c = None \/ c \in Containers
  BY DEF IInv, Shapes
<1> QED BY <1>2, <1>7, <1>8, <1>9, <1>10, <1>11

LEMMA HeldImplied == IInv => HeldTrue
<1> SUFFICES ASSUME IInv PROVE HeldTrue
  OBVIOUS
<1>1. ASSUME NEW i \in Items
      PROVE  /\ Cardinality(Places(i)) = IF container[i] = None THEN 0 ELSE 1
             /\ \A p \in Places(i) : p[1] = container[i]
  <2>1. CASE container[i] = None
    BY <2>1, OnePlace, FS_EmptySet
  <2>2. CASE container[i] # None
    <3>1. PICK x : Places(i) = {<<container[i], x>>}
      BY <2>2, OnePlace
    <3>2. Cardinality(Places(i)) = 1
      BY <3>1, FS_Singleton
    <3> QED BY <2>2, <3>1, <3>2
  <2> QED BY <2>1, <2>2
<1>2. ASSUME NEW u \in UniqueSets
      PROVE  /\ DOMAIN byType[u] = {TypeId[i] : i \in set[u]}
             /\ \A t \in DOMAIN byType[u] :
                  byType[u][t] \in set[u] /\ TypeId[byType[u][t]] = t
  <2>1. /\ DOMAIN byType[u] = {TypeId[i] : i \in set[u]}
        /\ \A i \in set[u] : byType[u][TypeId[i]] = i
    BY DEF IInv, Typed
  <2> QED BY <2>1
<1> QED BY <1>1, <1>2 DEF HeldTrue

\* The invariant holds throughout.
LEMMA Always ==
  ASSUME ~Careless
  PROVE  Spec => []IInv
<1>1. IInv /\ [Next]_vars => IInv'
  BY StepIInv
<1> QED BY <1>1, InitIInv, PTL DEF Spec

-----------------------------------------------------------------------------
\* No list ends in an empty position, whatever was inserted, freed or taken back.
THEOREM ListsTidy ==
  ASSUME ~Careless
  PROVE  Spec => []TypeOK
BY Always, TypeImplied, PTL

\* An item is in the one place it refers to and nowhere else, also after
\* additions that failed, and is given out by its type if it is in a set of skills.
THEOREM ItemsHeldOnce ==
  ASSUME ~Careless
  PROVE  Spec => []HeldTrue
BY Always, HeldImplied, PTL

\* The fits' subscribers were told of just the items that the fits hold.
THEOREM ItemsAnnounced ==
  ASSUME ~Careless
  PROVE  Spec => []AnnouncedTrue
<1>1. IInv => AnnouncedTrue
  BY DEF IInv
<1> QED BY <1>1, Always, PTL

\* A call that raises leaves all containers, the items and the announced as they were.
THEOREM RefusalsUndone ==
  ASSUME ~Careless
  PROVE  Spec => RaisesUndone
<1>1. IInv /\ [Next]_vars =>
        [outcome' = "raised" => UNCHANGED <<contents, container, announced>>]_vars
  BY StepIInv DEF Undone
<1> QED BY <1>1, Always, PTL DEF Spec, RaisesUndone

-----------------------------------------------------------------------------
(* Hardeners.                                                               *)

Reso == [Attrs -> Int]

-----------------------------------------------------------------------------
(* Ticks.                                                                  *)

StateOf(st) == TickState(st.cycling, st.resos)
Following(st) == Ticked(st, st.resos, FreshHull(st.resos))

Proper(s) ==
  /\ s.cycling \in [DOMAIN data -> Nat] /\ s.resos \in [DOMAIN data -> Reso]
  /\ \A r \in DOMAIN data : s.cycling[r] < get_duration(r)

\* The ticks up to the h-th of a simulation of the RAHs there are.
Walk(st, h) ==
  /\ st[1] = Start
  /\ \A n \in 1..h - 1 : st[n + 1] = Following(st[n])
  /\ \A n \in 1..h : Proper(st[n])

\* None of them before the h-th lets the simulation end.
Going(st, h) ==
  /\ \A n \in 1..h - 1 : /\ ~Unroundable(st[n].resos)
                         /\ \A r \in cycled(st[n]) : ShiftAmount[r] # NoAttr
  /\ \A i, n \in 1..h - 1 : StateOf(st[i]) = StateOf(st[n]) => i = n

\* The maps of the RAHs keep what they rest on.
Seen(st, h) ==
  /\ (DOMAIN data) \X Attrs \subseteq cached
  /\ \A n \in 1..h - 1 : \A r \in cycled(st[n]) : <<r, "shift">> \in cached
  /\ h > 1 /\ Cardinality(DOMAIN data) > 1 => (DOMAIN data) \X {"duration"} \subseteq cached

\* The h-th does not raise, and is like none before.
New(st, h) ==
  /\ ~Unroundable(st[h].resos)
  /\ \A i \in 1..h - 1 : StateOf(st[i]) # StateOf(st[h])

States(st, h) == [n \in 1..h |-> StateOf(st[n])]
Loop(st, h) == {i \in 1..h - 1 : StateOf(st[i]) = StateOf(st[h])}

\* How a simulation ends, and with what.
EndsUnroundable(st, h) ==
  Unroundable(st[h].resos) /\ data = Unsimulated
EndsShiftless(st, h) ==
  /\ New(st, h) /\ h < MaxTicks
  /\ \E r \in cycled(st[h]) : ShiftAmount[r] = NoAttr
  /\ Cardinality(DOMAIN data) > 1 => (DOMAIN data) \X {"duration"} \subseteq cached
  /\ data = Unsimulated
EndsInLoop(st, h) ==
  /\ ~Unroundable(st[h].resos)
  /\ Loop(st, h) # {}
  /\ data = Averaged(SubSeq(States(st, h - 1), Min(Loop(st, h)), h - 1), st[h].resos)
EndsExhausted(st, h) ==
  /\ New(st, h) /\ h = MaxTicks
  /\ \/ /\ Unestimable = {}
        /\ (DOMAIN data) \X {"shift"} \subseteq cached
        /\ data = Averaged(Adapted(States(st, h)), st[h].resos)
     \/ /\ \E r \in Unestimable : ShiftAmount[r] = NoAttr \/ <<r, "shift">> \in cached
        /\ data = Unsimulated

\* The results are those of a simulation.
Settled ==
  \/ /\ ship = NoShip /\ data = Unsimulated
     /\ (DOMAIN data) \X Attrs \subseteq cached
  \/ /\ ship # NoShip
     /\ \E h \in 1..MaxTicks : \E st :
          /\ Walk(st, h) /\ Going(st, h) /\ Seen(st, h)
          /\ \/ EndsUnroundable(st, h) \/ EndsShiftless(st, h)
             \/ EndsInLoop(st, h) \/ EndsExhausted(st, h)

\* A simulation that has made h ticks.
UnderWay(h) ==
  /\ (DOMAIN data) \X Attrs \subseteq cached
  /\ h = 0 => sim = Begun /\ data = Unsimulated
  /\ h > 0 => \E st :
       /\ Walk(st, h) /\ Going(st, h) /\ Seen(st, h) /\ New(st, h)
       /\ sim.history = States(st, h)
       /\ sim.cycling = st[h].cycling /\ sim.damage = st[h].damage /\ data = st[h].resos

Filled == \A r \in DOMAIN data : data[r] \in Reso

RahShape ==
  /\ ship \in Ships \cup {NoShip}
  /\ default_dmg \in Profiles /\ rah_dmg \in Profiles \cup {NoProfile}
  /\ tweaks \subseteq Cells
  /\ DOMAIN data \subseteq Rahs /\ data = [r \in DOMAIN data |-> data[r]]
  /\ Filled \/ \A r \in DOMAIN data : data[r] = Nothing
  /\ DOMAIN shipCache \subseteq Attrs
  /\ ship = NoShip => shipCache = Nothing
  /\ running \in BOOLEAN /\ strayed \in BOOLEAN

RahStage ==
  /\ ~running => sim = Idle /\ reader = <<>>
  /\ running => /\ Filled /\ ~strayed /\ DOMAIN data # {}
                /\ reader[1] = "ship" => ship # NoShip /\ reader[2] \in Attrs
  /\ running /\ sim # Idle =>
       ship # NoShip /\ \E h \in 0..MaxTicks - 1 : UnderWay(h)
  /\ running /\ sim = Idle => Settled
  /\ ~running /\ ~strayed /\ Kept => Settled

RahHull ==
  \A a \in DOMAIN shipCache : Filled /\ shipCache[a] = ShipValue(a, data)

RahInv == RahShape /\ RahStage /\ RahHull
-----------------------------------------------------------------------------
(* Constants and small facts.                                              *)

\* What other modifiers do leaves resonances, shifts and cycle times numbers in their ranges.
LEMMA RahNumbers ==
  ASSUME tweaks \subseteq Cells, NEW r \in Rahs
  PROVE  /\ \A a \in Attrs : Own(r, a) \in Int
         /\ Shift(r) \in Nat
         /\ get_duration(r) \in Nat \ {0}
<1>1. ASSUME NEW cell \in Cells
      PROVE  Change[cell] \in Int
  BY <1>1, RahAssumption DEF RahAssumption
<1>2. \A a \in Attrs : Own(r, a) \in Int
  <2> TAKE a \in Attrs
  <2>1. RahReso[r][a] \in Int
    BY RahAssumption DEF RahAssumption
  <2> QED BY <1>1, <2>1 DEF Own, Modified
<1>3. Shift(r) \in Nat
  <2>1. ShiftAmount[r] = NoAttr \/ ShiftAmount[r] \in Nat
    BY RahAssumption DEF RahAssumption
  <2>2. ASSUME <<r, "shift">> \in tweaks, ShiftAmount[r] # NoAttr
        PROVE  ShiftAmount[r] + Change[<<r, "shift">>] >= 0
    BY <2>2, RahAssumption DEF RahAssumption
  <2> QED BY <1>1, <2>1, <2>2 DEF Shift, Modified
<1>4. get_duration(r) \in Nat \ {0}
  <2>1. Duration[r] \in Nat \ {0}
    BY RahAssumption DEF RahAssumption
  <2>2. CASE <<r, "duration">> \in tweaks
    <3>1. <<r, "duration">> \in Cells
      BY <2>2
    <3>2. Duration[r] + Change[<<r, "duration">>] > 0
      BY <3>1, RahAssumption DEF RahAssumption
    <3> QED BY <1>1, <2>1, <2>2, <3>1, <3>2 DEF get_duration, Modified
  <2>3. CASE <<r, "duration">> \notin tweaks
    BY <2>1, <2>3 DEF get_duration, Modified
  <2> QED BY <2>2, <2>3
<1> QED BY <1>2, <1>3, <1>4

Numbers ==
  tweaks \subseteq Cells =>
    \A r \in Rahs : /\ \A a \in Attrs : Own(r, a) \in Int
                    /\ Shift(r) \in Nat
                    /\ get_duration(r) \in Nat \ {0}
\* The same as a formula, for the values of now, and for those after a step.
LEMMA NumbersNow == Numbers
BY RahNumbers DEF Numbers
LEMMA NumbersNext == Numbers'
BY NumbersNow, PTL

\* A set of numbers has a least one.
LEMMA LeastMember ==
  ASSUME NEW S, S # {}, S \subseteq Nat
  PROVE  Min(S) \in S /\ \A x \in S : Min(S) <= x
<1>1. \E R : IsWellFoundedOn(R, Nat) /\ \A x, y \in Nat : x < y => <<x, y>> \in R
  <2> DEFINE R == OpToRel(<, Nat)
  <2>1. IsWellFoundedOn(R, Nat)
    BY NatLessThanWellFounded
  <2>2. \A x, y \in Nat : x < y => <<x, y>> \in R
    BY DEF OpToRel
  <2> HIDE DEF R
  <2> QED BY <2>1, <2>2
<1>2. PICK R : IsWellFoundedOn(R, Nat) /\ \A x, y \in Nat : x < y => <<x, y>> \in R
  BY <1>1
<1>3. \E m \in S : \A x \in S : ~(<<x, m>> \in R)
  <2>1. IsWellFoundedOn(R, Nat)
    BY <1>2
  <2> QED BY ONLY <2>1, WFMin, S # {}, S \subseteq Nat
<1>4. PICK m \in S : \A x \in S : ~(<<x, m>> \in R)
  BY <1>3
<1>5. ASSUME NEW x \in S PROVE m <= x
  <2>1. x \in Nat /\ m \in Nat /\ ~(<<x, m>> \in R)
    BY <1>4
  <2>2. ~(x < m)
    BY ONLY <1>2, <2>1
  <2> QED BY ONLY <2>1, <2>2
<1> QED BY <1>5 DEF Min

\* The lesser of two numbers is one of them.
LEMMA LesserOfTwo ==
  ASSUME NEW x \in Int, NEW y \in Int
  PROVE  Min({x, y}) \in {x, y} /\ Min({x, y}) <= x /\ Min({x, y}) <= y
<1>1. \E m \in {x, y} : \A n \in {x, y} : m <= n
  OBVIOUS
<1> QED BY <1>1 DEF Min

\* Some RAH is the next to end its cycle.
LEMMA SomeCycled ==
  ASSUME NEW s, DOMAIN s.cycling # {}, s.cycling \in [DOMAIN s.cycling -> Nat],
         \A r \in DOMAIN s.cycling : /\ get_duration(r) \in Nat
                                    /\ s.cycling[r] < get_duration(r)
  PROVE  /\ cycled(s) # {} /\ cycled(s) \subseteq DOMAIN s.cycling
         /\ time_passed(s) \in Nat \ {0}
         /\ \A r \in DOMAIN s.cycling \ cycled(s) :
              s.cycling[r] + time_passed(s) < get_duration(r)
<1> DEFINE D == DOMAIN s.cycling
           S == {get_duration(r) - s.cycling[r] : r \in D}
<1>1. time_passed(s) = Min(S)
  BY DEF time_passed
<1>2. \A r \in D : s.cycling[r] \in Nat /\ get_duration(r) \in Nat
                 /\ get_duration(r) - s.cycling[r] \in Nat \ {0}
  OBVIOUS
<1>3. S # {} /\ S \subseteq Nat \ {0}
  BY <1>2
<1> HIDE DEF S
<1>4. Min(S) \in S /\ \A x \in S : Min(S) <= x
  BY <1>3, LeastMember
<1>5. PICK r \in D : Min(S) = get_duration(r) - s.cycling[r]
  BY <1>4 DEF S
<1>6. cycled(s) = {q \in D : s.cycling[q] + Min(S) = get_duration(q)}
  BY <1>1 DEF cycled
<1>7. r \in cycled(s)
  BY <1>2, <1>5, <1>6
<1>8. ASSUME NEW q \in D \ cycled(s)
      PROVE  s.cycling[q] + Min(S) < get_duration(q)
  <2>1. Min(S) <= get_duration(q) - s.cycling[q]
    BY <1>4 DEF S
  <2>2. s.cycling[q] + Min(S) # get_duration(q)
    BY <1>6, <1>8
  <2>3. Min(S) \in Nat
    BY <1>3, <1>4
  <2> QED BY <1>2, <2>1, <2>2, <2>3
<1> QED BY <1>1, <1>3, <1>4, <1>6, <1>7, <1>8

-----------------------------------------------------------------------------
(* The steps of a simulation yield numbers.                                *)


\* There are four resonances.
LEMMA FourAttrs == IsFiniteSet(Attrs) /\ Cardinality(Attrs) = 4
<1>1. IsFiniteSet({}) /\ Cardinality({}) = 0
  BY FS_EmptySet
<1>2. IsFiniteSet({"em"}) /\ Cardinality({"em"}) = 1
  BY FS_Singleton
<1>3. IsFiniteSet({"em", "expl"}) /\ Cardinality({"em", "expl"}) = 2
  BY <1>2, FS_AddElement, {"em", "expl"} = {"em"} \cup {"expl"}, "expl" \notin {"em"}
<1>4. IsFiniteSet({"em", "expl", "kin"}) /\ Cardinality({"em", "expl", "kin"}) = 3
  BY <1>3, FS_AddElement, {"em", "expl", "kin"} = {"em", "expl"} \cup {"kin"},
     "kin" \notin {"em", "expl"}
<1> QED BY <1>4, FS_AddElement, Attrs = {"em", "expl", "kin"} \cup {"therm"},
           "therm" \notin {"em", "expl", "kin"} DEF Attrs

\* A total of resonances is a number.
LEMMA TotalNumber ==
  ASSUME NEW resos \in Reso
  PROVE  Total(resos) \in Int
<1>1. resos["em"] \in Int /\ resos["expl"] \in Int /\ resos["kin"] \in Int /\ resos["therm"] \in Int
  BY DEF Reso, Attrs
<1> QED BY <1>1 DEF Total

\* Adaptation makes resonances of resonances, whatever was received.
LEMMA NextNumbers ==
  ASSUME NEW current \in Reso, NEW received, NEW shift \in Int
  PROVE  next_resos(current, received, shift) \in Reso
<1>0. Unit \in Int
  BY RahAssumption DEF RahAssumption
<1> DEFINE unhurt == Cardinality({a \in Attrs : received[a] = 0})
           donors == IF unhurt > 2 THEN unhurt ELSE 2
           before(i, j) == \/ received[res_attr_ids[i]] < received[res_attr_ids[j]]
                           \/ received[res_attr_ids[i]] = received[res_attr_ids[j]] /\ i < j
           rank(i) == Cardinality({j \in 1..4 : before(j, i)})
           giving == {res_attr_ids[i] : i \in {j \in 1..4 : rank(j) < donors}}
           give(a) == Min({Unit - current[a], shift})
           donated == Total([a \in Attrs |-> IF a \in giving THEN give(a) ELSE 0])
           next == [a \in Attrs |-> IF a \in giving THEN current[a] + give(a)
                                       ELSE current[a] - share(donated, 4 - donors)]
<1>1. next_resos(current, received, shift) = next
  BY DEF next_resos
<1>2. \A a \in Attrs : current[a] \in Int /\ give(a) \in Int
  <2> TAKE a \in Attrs
  <2>1. current[a] \in Int
    BY DEF Reso
  <2>2. Unit - current[a] \in Int
    BY <1>0, <2>1
  <2>3. Min({Unit - current[a], shift}) \in {Unit - current[a], shift}
    BY <2>2, LesserOfTwo
  <2> QED BY <2>1, <2>2, <2>3
<1>3. unhurt \in 0..4 /\ (unhurt = 4 => \A a \in Attrs : received[a] = 0)
  <2>1. IsFiniteSet(Attrs) /\ Cardinality(Attrs) = 4
    BY FourAttrs
  <2>2. {a \in Attrs : received[a] = 0} \subseteq Attrs
    OBVIOUS
  <2> HIDE DEF Attrs
  <2>3. unhurt \in Nat /\ unhurt <= 4
    BY <2>1, <2>2, FS_Subset, FS_CardinalityType
  <2>4. unhurt = 4 => {a \in Attrs : received[a] = 0} = Attrs
    BY <2>1, <2>2, FS_Subset
  <2> HIDE DEF unhurt
  <2> QED BY <2>3, <2>4
<1>4. donors \in 2..4 /\ (donors = 4 => \A a \in Attrs : received[a] = 0)
  BY <1>3
<1>5. donors = 4 => giving = Attrs
  <2>0. Attrs = {res_attr_ids[i] : i \in 1..4}
    BY DEF Attrs, res_attr_ids
  <2> HIDE DEF before, donors
  <2> SUFFICES ASSUME donors = 4, NEW j \in 1..4
               PROVE  rank(j) < 4
    <3> HIDE DEF rank
    <3> QED BY <2>0
  <2> USE DEF before
  <2>1. \A i \in 1..4 : received[res_attr_ids[i]] = 0
    BY <1>4 DEF Attrs, res_attr_ids
  <2>2. {i \in 1..4 : before(i, j)} \subseteq (1..4) \ {j}
    BY <2>1
  <2>3. IsFiniteSet(1..4) /\ Cardinality(1..4) = 4
    <3>1. 1 \in Int /\ 4 \in Int /\ ~(1 > 4) /\ 4 - 1 + 1 = 4
      OBVIOUS
    <3> QED BY <3>1, FS_Interval
  <2>4. IsFiniteSet((1..4) \ {j}) /\ Cardinality((1..4) \ {j}) = 3
    <3> DEFINE S == 1..4
    <3>1. IsFiniteSet(S) /\ Cardinality(S) = 4 /\ j \in S
      BY <2>3
    <3> HIDE DEF S
    <3>2. IsFiniteSet(S \ {j}) /\ Cardinality(S \ {j}) = 4 - 1
      BY ONLY <3>1, FS_RemoveElement
    <3> QED BY ONLY <3>2, 4 - 1 = 3 DEF S
  <2> DEFINE ahead == {i \in 1..4 : before(i, j)}
             rest == (1..4) \ {j}
  <2> HIDE DEF before
  <2>5. ahead \subseteq rest /\ IsFiniteSet(rest) /\ Cardinality(rest) = 3
    BY <2>2, <2>4
  <2> HIDE DEF ahead, rest
  <2>6. Cardinality(ahead) \in Nat /\ Cardinality(ahead) <= 3
    BY <2>5, FS_Subset, FS_CardinalityType
  <2>7. Cardinality(ahead) < 4
    BY <2>6
  <2> QED BY <2>7 DEF ahead
<1> HIDE DEF giving, give, donors
<1>6. donated \in Int
  <2>1. [a \in Attrs |-> IF a \in giving THEN give(a) ELSE 0] \in Reso
    BY <1>2 DEF Reso
  <2> QED BY <2>1, TotalNumber
<1>7. donors < 4 => share(donated, 4 - donors) \in Int
  BY <1>4, <1>6 DEF share
<1>8. next \in Reso
  <2>1. ASSUME NEW a \in Attrs
        PROVE  (IF a \in giving THEN current[a] + give(a)
                ELSE current[a] - share(donated, 4 - donors)) \in Int
    <3>1. CASE a \in giving
      <4>1. current[a] + give(a) \in Int
        BY <1>2
      <4> QED BY <3>1, <4>1
    <3>2. CASE a \notin giving
      <4>1. donors < 4
        BY <1>4, <1>5, <3>2
      <4>2. share(donated, 4 - donors) \in Int
        BY <1>7, <4>1
      <4>3. current[a] - share(donated, 4 - donors) \in Int
        BY <1>2, <4>2
      <4> QED BY <3>2, <4>3
    <3> QED BY <3>1, <3>2
  <2> QED BY <2>1 DEF Reso
<1> QED BY <1>1, <1>8

\* Sums of resonances are resonances.
LEMMA SumNumbers ==
  ASSUME NEW q, Len(q) \in Nat, \A k \in 1..Len(q) : q[k] \in Reso
  PROVE  Sums!All(Zero, q) \in Reso
<1>2. PICK passed : /\ passed[0] = Zero /\ passed[Len(q)] = Sums!All(Zero, q)
                   /\ \A k \in 1..Len(q) : passed[k] = Plus(passed[k - 1], q[k])
  BY Sums!Trace, Z3
<1> DEFINE n == Len(q)
           T == {k \in 0..n : passed[k] \in Reso}
<1>3. 0 \in T
  BY <1>2 DEF Zero, Reso
<1>4. \A k \in 1..n : k - 1 \in T => k \in T
  <2> SUFFICES ASSUME NEW k \in 1..n, passed[k - 1] \in Reso
               PROVE  passed[k] \in Reso
    OBVIOUS
  <2>1. passed[k] = [a \in Attrs |-> passed[k - 1][a] + q[k][a]]
    BY <1>2 DEF Plus
  <2>2. q[k] \in Reso
    OBVIOUS
  <2> QED BY <2>1, <2>2 DEF Reso
<1>5. n \in Nat
  OBVIOUS
<1> HIDE DEF T, n
<1>6. 0..n \subseteq T
  BY <1>3, <1>4, <1>5, Sums!Upward
<1>7. n \in T
  BY <1>5, <1>6
<1> QED BY <1>2, <1>7 DEF T, n

\* Averages are numbers where states and present resonances are.
LEMMA AveragedNumbers ==
  ASSUME NEW states, NEW present, NEW k \in Nat, DOMAIN states = 1..k,
         \A i \in 1..k : \A r \in DOMAIN present : states[i][r].resos \in Reso,
         \A r \in DOMAIN present : present[r] \in Reso
  PROVE  Averaged(states, present) \in [DOMAIN present -> Reso]
<1> SUFFICES ASSUME NEW r \in DOMAIN present,
                    \E i \in DOMAIN states : states[i][r].cycling = 0
             PROVE  avg_resos(states, r) \in Reso
  BY DEF Averaged
<1> DEFINE used == {i \in DOMAIN states : states[i][r].cycling = 0}
           q == [i \in DOMAIN states |-> IF i \in used THEN states[i][r].resos ELSE Zero]
           sum == Sums!All(Zero, q)
           count == Cardinality(used)
<1>1. avg_resos(states, r) = [a \in Attrs |-> sum[a] \div count]
  BY DEF avg_resos
<1>2. count \in Nat \ {0}
  <2>1. used \subseteq 1..k /\ used # {}
    OBVIOUS
  <2>2. IsFiniteSet(1..k)
    <3>1. 1 \in Int /\ k \in Int
      OBVIOUS
    <3> QED BY <3>1, FS_Interval
  <2> HIDE DEF used
  <2>3. IsFiniteSet(used)
    BY <2>1, <2>2, FS_Subset
  <2> QED BY <2>1, <2>3, FS_CardinalityType, FS_EmptySet
<1>3. sum \in Reso
  <2>1. Zero \in Reso
    BY DEF Zero, Reso
  <2>2. Len(q) = k /\ \A i \in 1..k : q[i] \in Reso
    <3> HIDE DEF used
    <3> QED BY <2>1
  <2> HIDE DEF q
  <2> QED BY <2>2, SumNumbers
<1> HIDE DEF sum, count
<1> QED BY <1>1, <1>2, <1>3 DEF Reso

\* The next tick of RAHs that have resonances and are within their cycles.
LEMMA TickedNumbers ==
  ASSUME tweaks \subseteq Cells, DOMAIN data \subseteq Rahs, DOMAIN data # {},
         NEW s, Proper(s)
  PROVE  Proper(Following(s)) /\ cycled(s) # {} /\ cycled(s) \subseteq DOMAIN data
<1> DEFINE D == DOMAIN data
           resos == s.resos
           hulls == FreshHull(resos)
           next == Following(s)
<1>0. /\ D \subseteq Rahs /\ D # {} /\ s.cycling \in [D -> Nat] /\ resos \in [D -> Reso]
      /\ \A r \in D : s.cycling[r] < get_duration(r)
      /\ next = Ticked(s, resos, hulls)
  BY DEF Proper, Following
<1> HIDE DEF D, resos, hulls, next
<1>1. \A r \in D : Shift(r) \in Int /\ get_duration(r) \in Nat \ {0}
  BY <1>0, NumbersNow DEF Numbers
<1>2. /\ cycled(s) # {} /\ cycled(s) \subseteq D
      /\ time_passed(s) \in Nat \ {0}
      /\ \A r \in D \ cycled(s) : s.cycling[r] + time_passed(s) < get_duration(r)
  BY <1>0, <1>1, SomeCycled
<1>3. DOMAIN resos = D
  BY <1>0
<1>4. next.cycling = [r \in D |-> IF r \in cycled(s) THEN 0
                                  ELSE s.cycling[r] + time_passed(s)]
  BY <1>0, <1>3 DEF Ticked
<1>5. /\ next.cycling \in [D -> Nat]
      /\ \A r \in D : next.cycling[r] < get_duration(r)
  <2> SUFFICES ASSUME NEW r \in D
               PROVE  next.cycling[r] \in Nat /\ next.cycling[r] < get_duration(r)
    BY <1>4
  <2>1. next.cycling[r] = IF r \in cycled(s) THEN 0 ELSE s.cycling[r] + time_passed(s)
    BY <1>4
  <2>2. s.cycling[r] \in Nat /\ time_passed(s) \in Nat /\ get_duration(r) \in Nat \ {0}
    BY <1>0, <1>1, <1>2
  <2>3. r \notin cycled(s) => s.cycling[r] + time_passed(s) < get_duration(r)
    BY <1>2
  <2> QED BY ONLY <2>1, <2>2, <2>3
<1>6. next.resos \in [D -> Reso]
  <2> DEFINE dealt == [r \in D |-> [a \in Attrs |->
                  s.damage[r][a] + incoming_dmg[a] * hulls[a] * time_passed(s)]]
             new(r) == next_resos(resos[r], dealt[r], Shift(r))
  <2>1. next.resos = [r \in D |-> IF r \in cycled(s) THEN new(r) ELSE resos[r]]
    BY <1>0, <1>3 DEF Ticked
  <2>2. \A r \in D : new(r) \in Reso
    <3> HIDE DEF dealt
    <3> QED BY <1>0, <1>1, NextNumbers
  <2> HIDE DEF new
  <2> QED BY <1>0, <2>1, <2>2
<1> QED BY <1>2, <1>5, <1>6 DEF Proper, D, next

\* What an adaptation period leaves of a history is an end of it.
LEMMA AdaptedPart ==
  ASSUME NEW history, NEW h \in Nat \ {0}, Len(history) = h
  PROVE  \E m \in 1..h : Adapted(history) = SubSeq(history, m, h)
<1> DEFINE initial == initial_adaptation_ticks(history)
<1>1. initial \in Nat
  <2> DEFINE slowest == CHOOSE r \in Slowest(DOMAIN history[1]) : TRUE
             needed == Ceil(exhaustion_cycles(slowest) * 3, 2)
             ended == {n \in 2..Len(history) :
               Cardinality({i \in 2..n : history[i][slowest].cycling = 0}) >= needed}
  <2>1. initial = IF needed = 0 THEN 0 ELSE IF ended = {} THEN Len(history)
                                            ELSE Min(ended) - 1
    BY DEF initial_adaptation_ticks
  <2>2. ended \subseteq Nat \ {0}
    OBVIOUS
  <2> HIDE DEF ended, needed
  <2>3. ended # {} => Min(ended) \in Nat \ {0}
    BY <2>2, LeastMember
  <2> HIDE DEF initial
  <2> QED BY <2>1, <2>3
<1> DEFINE ignored == Min({initial, h \div 2})
<1>2. ignored \in {initial, h \div 2} /\ ignored <= h \div 2
  <2>1. h \div 2 \in Nat
    OBVIOUS
  <2> HIDE DEF initial
  <2>2. initial \in Int /\ h \div 2 \in Int
    BY <1>1, <2>1
  <2> QED BY <2>2, LesserOfTwo
<1>3. Adapted(history) = SubSeq(history, ignored + 1, h)
  BY DEF Adapted
<1> HIDE DEF ignored, initial
<1>4. ignored + 1 \in 1..h
  BY <1>1, <1>2
<1> QED BY <1>3, <1>4
-----------------------------------------------------------------------------
(* What becomes of these values when something changes.                    *)

\* A value that rests on one cell changes only with this cell.
LEMMA OwnSame ==
  ASSUME NEW r, NEW a, <<r, a>> \in tweaks' <=> <<r, a>> \in tweaks
  PROVE  Own(r, a)' = Own(r, a)
BY DEF Own, Modified

LEMMA ShiftSame ==
  ASSUME NEW r, <<r, "shift">> \in tweaks' <=> <<r, "shift">> \in tweaks
  PROVE  Shift(r)' = Shift(r)
BY DEF Shift, Modified

LEMMA DurationSame ==
  ASSUME NEW r, <<r, "duration">> \in tweaks' <=> <<r, "duration">> \in tweaks
  PROVE  get_duration(r)' = get_duration(r)
BY DEF get_duration, Modified

\* Cycles to exhaustion rest on the resonances of a RAH and its shift.
LEMMA CyclesSame ==
  ASSUME NEW r, \A a \in Attrs : <<r, a>> \in tweaks' <=> <<r, a>> \in tweaks,
         Shift(r)' = Shift(r)
  PROVE  exhaustion_cycles(r)' = exhaustion_cycles(r)
<1> DEFINE S == {Ceil(Unit - Own(r, a), Shift(r)) : a \in Attrs}
<1>1. \A a \in Attrs : Own(r, a)' = Own(r, a)
  BY OwnSame
<1>2. S' = S
  BY <1>1
<1>3. exhaustion_cycles(r) = Max(S) /\ exhaustion_cycles(r)' = Max(S')
  BY DEF exhaustion_cycles
<1> HIDE DEF S
<1> QED BY <1>2, <1>3

\* A resonance of the ship rests on the ship, its cell and the RAHs' resonances.
LEMMA ShipSame ==
  ASSUME NEW a, NEW given, ship' = ship, <<"ship", a>> \in tweaks' <=> <<"ship", a>> \in tweaks
  PROVE  ShipValue(a, given)' = ShipValue(a, given)
BY DEF ShipValue, Modified

LEMMA HullSame ==
  ASSUME NEW given, ship' = ship,
         \A a \in Attrs : <<"ship", a>> \in tweaks' <=> <<"ship", a>> \in tweaks
  PROVE  FreshHull(given)' = FreshHull(given)
<1>1. \A a \in Attrs : ShipValue(a, given)' = ShipValue(a, given)
  BY ShipSame
<1> QED BY <1>1 DEF FreshHull

\* What RAHs start with rests on their own resonances.
LEMMA UnsimulatedSame ==
  ASSUME DOMAIN data' = DOMAIN data,
         \A r \in DOMAIN data, a \in Attrs : Own(r, a)' = Own(r, a)
  PROVE  Unsimulated' = Unsimulated /\ Start' = Start
BY DEF Unsimulated, Start, Begun

\* When a cycle ends rests on the cycle times.
LEMMA CycledSame ==
  ASSUME NEW s, \A r \in DOMAIN s.cycling : get_duration(r)' = get_duration(r)
  PROVE  cycled(s)' = cycled(s) /\ time_passed(s)' = time_passed(s)
<1>1. time_passed(s)' = time_passed(s)
  BY DEF time_passed
<1> QED BY <1>1 DEF cycled

\* The next tick rests on damage, cycle times and the shifts of those that end a cycle.
LEMMA TickedSame ==
  ASSUME NEW s, NEW resos, NEW hulls, incoming_dmg' = incoming_dmg,
         \A r \in DOMAIN s.cycling : get_duration(r)' = get_duration(r),
         \A r \in cycled(s) : Shift(r)' = Shift(r)
  PROVE  Ticked(s, resos, hulls)' = Ticked(s, resos, hulls)
<1>1. cycled(s)' = cycled(s) /\ time_passed(s)' = time_passed(s)
  BY CycledSame
<1> QED BY <1>1 DEF Ticked
-----------------------------------------------------------------------------
(* The ship's resonances are numbers.                                      *)

\* SetToSeq goes through a finite set.
LEMMA SetInSeq ==
  ASSUME NEW S, IsFiniteSet(S)
  PROVE  Cardinality(S) \in Nat /\ SetToSeq(S) \in [1..Cardinality(S) -> S]
<1> DEFINE n == Cardinality(S)
<1>1. n \in Nat /\ ExistsBijection(1..n, S)
  BY FS_CardinalityType
<1>2. \E f \in [1..n -> S] : IsInjective(f)
  BY <1>1 DEF ExistsBijection, Bijection, Injection
<1> QED BY <1>1, <1>2 DEF SetToSeq

\* A product of resonances is a number.
LEMMA ProductNumber ==
  ASSUME Unit \in Nat \ {0}, NEW q, Len(q) \in Nat, \A k \in 1..Len(q) : q[k] \in Int
  PROVE  Product!All(Unit, q) \in Int
<1>1. PICK passed : /\ passed[0] = Unit /\ passed[Len(q)] = Product!All(Unit, q)
                    /\ \A k \in 1..Len(q) : passed[k] = Multiplied(passed[k - 1], q[k])
  BY Product!Trace, Z3
<1> DEFINE n == Len(q)
           T == {k \in 0..n : passed[k] \in Int}
<1>2. 0 \in T
  BY <1>1
<1>3. \A k \in 1..n : k - 1 \in T => k \in T
  <2> SUFFICES ASSUME NEW k \in 1..n, passed[k - 1] \in Int
               PROVE  passed[k] \in Int
    OBVIOUS
  <2>1. passed[k - 1] * q[k] \in Int
    OBVIOUS
  <2> DEFINE p == passed[k - 1] * q[k]
  <2> HIDE DEF p
  <2>2. p \div Unit \in Int
    BY <2>1 DEF p
  <2>3. passed[k] = p \div Unit
    BY <1>1 DEF p, Multiplied
  <2> QED BY <2>2, <2>3
<1>4. n \in Nat
  OBVIOUS
<1> HIDE DEF T, n
<1>5. 0..n \subseteq T
  BY <1>2, <1>3, <1>4, Product!Upward
<1>6. n \in T
  BY <1>4, <1>5
<1> QED BY <1>1, <1>6 DEF T, n

\* Penalizing numbers gives a number.
LEMMA PenalizedNumber ==
  ASSUME NEW mults, NEW n \in Nat, n <= Cardinality(Rahs),
         mults \in [1..n -> Int]
  PROVE  penalize_values(mults) \in Int
<1>1. Unit \in Nat \ {0} /\ PenaltyUnit \in Nat \ {0} /\ Penalty \in [1..Cardinality(Rahs) -> Int]
  BY RahAssumption DEF RahAssumption
<1> DEFINE stronger(i) == {j \in DOMAIN mults : \/ mults[j] < mults[i]
                                                \/ mults[j] = mults[i] /\ j < i}
           rank(i) == Cardinality(stronger(i)) + 1
           factors == [i \in DOMAIN mults |-> Unit + ((mults[i] * Penalty[rank(i)]) \div PenaltyUnit)]
<1>2. \A i \in 1..n : rank(i) \in 1..Cardinality(Rahs)
  <2> TAKE i \in 1..n
  <2> DEFINE I == 1..n
             ahead == stronger(i)
             rest == I \ {i}
  <2>1. ahead \subseteq rest
    OBVIOUS
  <2>2. IsFiniteSet(I) /\ Cardinality(I) = n /\ i \in I
    <3>1. 1 \in Int /\ n \in Int /\ ~(1 > n) /\ n - 1 + 1 = n
      OBVIOUS
    <3> QED BY <3>1, FS_Interval
  <2> HIDE DEF I, ahead
  <2>3. IsFiniteSet(rest) /\ Cardinality(rest) = n - 1
    BY <2>2, FS_RemoveElement
  <2> HIDE DEF rest
  <2>4. Cardinality(ahead) \in Nat /\ Cardinality(ahead) <= Cardinality(rest)
    BY <2>1, <2>3, FS_Subset, FS_CardinalityType
  <2>5. Cardinality(Rahs) \in Nat
    BY FS_CardinalityType, RahAssumption DEF RahAssumption
  <2>6. Cardinality(ahead) + 1 \in 1..Cardinality(Rahs)
    BY <2>3, <2>4, <2>5
  <2> QED BY <2>6 DEF ahead
<1>3. \A i \in 1..n : factors[i] \in Int
  <2> TAKE i \in 1..n
  <2> HIDE DEF rank
  <2>1. Penalty[rank(i)] \in Int /\ mults[i] \in Int
    BY <1>1, <1>2
  <2>2. mults[i] * Penalty[rank(i)] \in Int
    BY <2>1
  <2> DEFINE p == mults[i] * Penalty[rank(i)]
  <2> HIDE DEF p
  <2>3. p \div PenaltyUnit \in Int
    BY <1>1, <2>2 DEF p
  <2>4. factors[i] = Unit + (p \div PenaltyUnit)
    BY DEF p
  <2> QED BY <1>1, <2>3, <2>4
<1>4. penalize_values(mults) = Product!All(Unit, factors)
  BY DEF penalize_values
<1>5. Len(factors) = n
  OBVIOUS
<1> HIDE DEF factors
<1>6. \A k \in 1..Len(factors) : factors[k] \in Int
  BY <1>3, <1>5
<1>7. Product!All(Unit, factors) \in Int
  BY <1>1, <1>5, <1>6, ProductNumber
<1> QED BY <1>4, <1>7

\* A resonance of the ship is a number.
LEMMA ShipNumber ==
  ASSUME ship \in Ships, tweaks \subseteq Cells, NEW a \in Attrs,
         NEW given, DOMAIN given \subseteq Rahs, \A r \in DOMAIN given : given[r] \in Reso
  PROVE  ShipValue(a, given) \in Int
<1> DEFINE base == Modified(<<"ship", a>>, ShipReso[ship][a])
           affectors == SetToSeq(DOMAIN given)
           mults == [i \in DOMAIN affectors |-> given[affectors[i]][a] - Unit]
           n == Cardinality(DOMAIN given)
<1>0. Unit \in Nat \ {0}
  BY RahAssumption DEF RahAssumption
<1>1. base \in Int
  <2>1. ShipReso[ship][a] \in Int
    BY RahAssumption DEF RahAssumption
  <2>2. <<"ship", a>> \in tweaks => Change[<<"ship", a>>] \in Int
    BY RahAssumption DEF RahAssumption
  <2> QED BY <2>1, <2>2 DEF Modified
<1>2. n \in Nat /\ n <= Cardinality(Rahs) /\ affectors \in [1..n -> DOMAIN given]
  BY FS_Subset, SetInSeq, RahAssumption DEF RahAssumption
<1>3. mults \in [1..n -> Int]
  <2>1. DOMAIN affectors = 1..n /\ \A i \in 1..n : affectors[i] \in DOMAIN given
    BY <1>2
  <2> HIDE DEF affectors, n
  <2>2. \A i \in 1..n : given[affectors[i]][a] \in Int
    BY <2>1 DEF Reso
  <2> QED BY <1>0, <2>1, <2>2
<1>4. ShipValue(a, given) = (base * penalize_values(mults)) \div Unit
  BY DEF ShipValue
<1> HIDE DEF base, mults, n
<1>5. penalize_values(mults) \in Int
  BY <1>2, <1>3, PenalizedNumber
<1> DEFINE p == base * penalize_values(mults)
<1>6. p \in Int
  BY <1>1, <1>5
<1> HIDE DEF p
<1>7. p \div Unit \in Int
  BY <1>0, <1>6
<1> QED BY <1>4, <1>7 DEF p
-----------------------------------------------------------------------------
(* A simulation of a single RAH, which ends a cycle at every tick: how     *)
(* long that takes scales the damage of all types alike.                   *)

\* Donors and recipients rest on the order of what was received, and on what was not.
LEMMA NextOrder ==
  ASSUME NEW current, NEW shift, NEW p, NEW q,
         \A a \in Attrs : p[a] = 0 <=> q[a] = 0,
         \A a, b \in Attrs : (p[a] < p[b] <=> q[a] < q[b]) /\ (p[a] = p[b] <=> q[a] = q[b])
  PROVE  next_resos(current, p, shift) = next_resos(current, q, shift)
<1> DEFINE unhurt(f) == Cardinality({a \in Attrs : f[a] = 0})
           before(f, i, j) == \/ f[res_attr_ids[i]] < f[res_attr_ids[j]]
                              \/ f[res_attr_ids[i]] = f[res_attr_ids[j]] /\ i < j
           rank(f, i) == Cardinality({j \in 1..4 : before(f, j, i)})
           donors(f) == IF unhurt(f) > 2 THEN unhurt(f) ELSE 2
           giving(f) == {res_attr_ids[i] : i \in {j \in 1..4 : rank(f, j) < donors(f)}}
           give(a) == Min({Unit - current[a], shift})
           donated(g) == Total([a \in Attrs |-> IF a \in g THEN give(a) ELSE 0])
           next(g, d) == [a \in Attrs |-> IF a \in g THEN current[a] + give(a)
                                          ELSE current[a] - share(donated(g), 4 - d)]
<1>1. \A f : next_resos(current, f, shift) = next(giving(f), donors(f))
  BY DEF next_resos
<1>2. unhurt(p) = unhurt(q)
  <2>1. {a \in Attrs : p[a] = 0} = {a \in Attrs : q[a] = 0}
    OBVIOUS
  <2> QED BY <2>1
<1>3. \A i, j \in 1..4 : before(p, i, j) <=> before(q, i, j)
  <2>1. \A i \in 1..4 : res_attr_ids[i] \in Attrs
    BY DEF res_attr_ids, Attrs
  <2> QED BY <2>1
<1>4. \A i \in 1..4 : rank(p, i) = rank(q, i)
  <2> TAKE i \in 1..4
  <2> HIDE DEF before
  <2>1. {j \in 1..4 : before(p, j, i)} = {j \in 1..4 : before(q, j, i)}
    BY <1>3
  <2> QED BY <2>1
<1>5. donors(p) = donors(q)
  BY <1>2
<1> HIDE DEF rank, donors
<1>6. {j \in 1..4 : rank(p, j) < donors(p)} = {j \in 1..4 : rank(q, j) < donors(q)}
  BY <1>4, <1>5
<1>7. giving(p) = giving(q)
  BY <1>6
<1> HIDE DEF giving, next
<1> QED BY <1>1, <1>5, <1>7

\* Factors do not change the order of numbers, nor which is zero.
LEMMA Scaled ==
  ASSUME NEW x \in Int, NEW y \in Int, NEW d \in Nat \ {0}
  PROVE  (x * d < y * d <=> x < y) /\ (x * d = y * d <=> x = y) /\ (x * d = 0 <=> x = 0)
<1>1. x < y => x * d < y * d
  OBVIOUS
<1>2. y < x => y * d < x * d
  OBVIOUS
<1>3. x * d \in Int /\ y * d \in Int
  OBVIOUS
<1>4. x = y => x * d = y * d
  OBVIOUS
<1>5. x > 0 => x * d > 0
  OBVIOUS
<1>6. x < 0 => x * d < 0
  OBVIOUS
<1>7. x = 0 => x * d = 0
  OBVIOUS
<1> QED BY <1>1, <1>2, <1>3, <1>4, <1>5, <1>6, <1>7

\* The cycle of the only RAH.
LEMMA SoleCycle ==
  ASSUME NEW r, NEW s, s.cycling = [q \in {r} |-> 0], get_duration(r) \in Nat \ {0}
  PROVE  time_passed(s) = get_duration(r) /\ cycled(s) = {r}
<1>1. {get_duration(q) - s.cycling[q] : q \in {r}} = {get_duration(r)}
  OBVIOUS
<1>2. DOMAIN s.cycling = {r}
  OBVIOUS
<1>3. time_passed(s) = Min({get_duration(r)})
  BY <1>1, <1>2 DEF time_passed
<1>4. Min({get_duration(r)}) = get_duration(r)
  <2>1. Min({get_duration(r)}) \in {get_duration(r)}
    BY LeastMember
  <2> QED BY <2>1
<1>5. cycled(s) = {r}
  <2>1. s.cycling[r] = 0 /\ 0 + get_duration(r) = get_duration(r)
    OBVIOUS
  <2> QED BY <1>2, <1>3, <1>4, <2>1 DEF cycled
<1> QED BY <1>3, <1>4, <1>5

SoleCycles ==
  \A r, s : s.cycling = [q \in {r} |-> 0] /\ get_duration(r) \in Nat \ {0} => cycled(s) = {r}
LEMMA SoleCyclesNext == SoleCycles'
<1>1. SoleCycles
  BY SoleCycle DEF SoleCycles
<1> QED BY <1>1, PTL

Dealt(hulls, d) == [a \in Attrs |-> incoming_dmg[a] * hulls[a] * d]
SoleAt(r, s, hulls, resos) ==
  /\ s.cycling = [q \in {r} |-> 0] /\ s.damage = [q \in {r} |-> Zero]
  /\ get_duration(r) \in Nat \ {0} /\ incoming_dmg \in Reso
  /\ hulls \in Reso /\ DOMAIN resos = {r}
SoleThen(r, s, hulls, resos) ==
  /\ cycled(s) = {r}
  /\ Ticked(s, resos, hulls).cycling = [q \in {r} |-> 0]
  /\ Ticked(s, resos, hulls).damage = [q \in {r} |-> Zero]
  /\ Ticked(s, resos, hulls).resos =
       [q \in {r} |-> next_resos(resos[q], Dealt(hulls, get_duration(r)), Shift(q))]
SoleTick ==
  \A r, s, hulls, resos : SoleAt(r, s, hulls, resos) => SoleThen(r, s, hulls, resos)

\* Each tick of the only RAH is one cycle, and yields what the damage of it makes of the resonances.
LEMMA SoleTicks == SoleTick
<1> SUFFICES ASSUME NEW r, NEW s, NEW hulls, NEW resos,
                    /\ s.cycling = [q \in {r} |-> 0] /\ s.damage = [q \in {r} |-> Zero]
                    /\ get_duration(r) \in Nat \ {0} /\ incoming_dmg \in Reso
                    /\ hulls \in Reso /\ DOMAIN resos = {r}
             PROVE  /\ cycled(s) = {r}
                    /\ Ticked(s, resos, hulls).cycling = [q \in {r} |-> 0]
                    /\ Ticked(s, resos, hulls).damage = [q \in {r} |-> Zero]
                    /\ Ticked(s, resos, hulls).resos =
                         [q \in {r} |-> next_resos(resos[q], Dealt(hulls, get_duration(r)), Shift(q))]
  BY DEF SoleTick, SoleAt, SoleThen
<1>1. time_passed(s) = get_duration(r) /\ cycled(s) = {r}
  BY SoleCycle
<1> DEFINE dealt == Dealt(hulls, get_duration(r))
           all == [q \in {r} |-> [a \in Attrs |->
                     s.damage[q][a] + incoming_dmg[a] * hulls[a] * get_duration(r)]]
<1>2. all[r] = dealt
  <2>1. \A a \in Attrs : incoming_dmg[a] \in Int /\ hulls[a] \in Int
    BY DEF Reso
  <2>2. \A a \in Attrs : incoming_dmg[a] * hulls[a] * get_duration(r) \in Int
    BY <2>1
  <2>3. \A a \in Attrs : s.damage[r][a] = 0
    BY DEF Zero
  <2>4. \A a \in Attrs : s.damage[r][a] + incoming_dmg[a] * hulls[a] * get_duration(r)
                           = incoming_dmg[a] * hulls[a] * get_duration(r)
    <3> TAKE a \in Attrs
    <3> DEFINE x == incoming_dmg[a] * hulls[a] * get_duration(r)
    <3>1. x \in Int /\ s.damage[r][a] = 0
      BY <2>2, <2>3
    <3> HIDE DEF x
    <3>2. 0 + x = x
      BY <3>1
    <3> QED BY <3>1, <3>2 DEF x
  <2> QED BY <2>4 DEF Dealt
<1>3. Ticked(s, resos, hulls) =
        [cycling |-> [q \in {r} |-> IF q \in {r} THEN 0 ELSE s.cycling[q] + get_duration(r)],
         damage |-> [q \in {r} |-> IF q \in {r} THEN Zero ELSE all[q]],
         resos |-> [q \in {r} |-> IF q \in {r} THEN next_resos(resos[q], all[q], Shift(q))
                                  ELSE resos[q]]]
  BY <1>1 DEF Ticked
<1> HIDE DEF all, dealt
<1>4. /\ Ticked(s, resos, hulls).cycling = [q \in {r} |-> 0]
      /\ Ticked(s, resos, hulls).damage = [q \in {r} |-> Zero]
      /\ Ticked(s, resos, hulls).resos = [q \in {r} |-> next_resos(resos[q], dealt, Shift(q))]
  BY <1>2, <1>3
<1> QED BY <1>1, <1>4 DEF dealt

LEMMA SoleTicksNext == SoleTick'
BY SoleTicks, PTL

\* Another cycle time of the only RAH makes no other next tick.
LEMMA SoleFollowing ==
  ASSUME NEW r, NEW s, s.cycling = [q \in {r} |-> 0], s.damage = [q \in {r} |-> Zero],
         s.resos \in [{r} -> Reso],
         get_duration(r) \in Nat \ {0}, get_duration(r)' \in Nat \ {0},
         incoming_dmg \in Reso, incoming_dmg' = incoming_dmg, Shift(r)' = Shift(r),
         FreshHull(s.resos) \in Reso, FreshHull(s.resos)' = FreshHull(s.resos)
  PROVE  /\ Following(s).cycling = [q \in {r} |-> 0]
         /\ Following(s).damage = [q \in {r} |-> Zero]
         /\ cycled(s) = {r} /\ cycled(s)' = {r}
         /\ Following(s)' = Following(s)
<1> DEFINE h == FreshHull(s.resos)
           dealt == Dealt(h, get_duration(r))
           other == Dealt(h, get_duration(r))'
           f == Following(s)
<1>0. DOMAIN s.resos = {r} /\ h \in Reso
  OBVIOUS
<1>1. /\ f.cycling = [q \in {r} |-> 0] /\ f.damage = [q \in {r} |-> Zero] /\ cycled(s) = {r}
      /\ f.resos = [q \in {r} |-> next_resos(s.resos[q], dealt, Shift(q))]
  <2>1. Following(s) = Ticked(s, s.resos, h)
    BY DEF Following
  <2> HIDE DEF h
  <2>2. /\ cycled(s) = {r}
        /\ Ticked(s, s.resos, h).cycling = [q \in {r} |-> 0]
        /\ Ticked(s, s.resos, h).damage = [q \in {r} |-> Zero]
        /\ Ticked(s, s.resos, h).resos = [q \in {r} |-> next_resos(s.resos[q], dealt, Shift(q))]
    <3>1. PICK o : o = s.resos
      OBVIOUS
    <3>2. SoleAt(r, s, h, o)
      BY <1>0, <3>1 DEF SoleAt
    <3>3. SoleThen(r, s, h, o)
      BY <3>2, SoleTicks DEF SoleTick
    <3> QED BY <3>1, <3>3 DEF SoleThen
  <2> QED BY <2>1, <2>2
<1>2. /\ f'.cycling = [q \in {r} |-> 0] /\ f'.damage = [q \in {r} |-> Zero] /\ cycled(s)' = {r}
      /\ f'.resos = [q \in {r} |-> next_resos(s.resos[q], other, Shift(q)')]
  <2>1. PICK g : g = h
    OBVIOUS
  <2>2. Following(s)' = Ticked(s, s.resos, g)' /\ other = Dealt(g, get_duration(r))'
    BY <2>1 DEF Following, Dealt
  <2>3. /\ cycled(s)' = {r}
        /\ Ticked(s, s.resos, g)'.cycling = [q \in {r} |-> 0]
        /\ Ticked(s, s.resos, g)'.damage = [q \in {r} |-> Zero]
        /\ Ticked(s, s.resos, g)'.resos
             = [q \in {r} |-> next_resos(s.resos[q], Dealt(g, get_duration(r))', Shift(q)')]
    <3>1. PICK o : o = s.resos
      OBVIOUS
    <3>2. SoleAt(r, s, g, o)'
      BY <1>0, <2>1, <3>1 DEF SoleAt
    <3>3. SoleThen(r, s, g, o)'
      BY <3>2, SoleTicksNext DEF SoleTick
    <3> QED BY <3>1, <3>3 DEF SoleThen
  <2> QED BY <2>2, <2>3
<1>3. next_resos(s.resos[r], other, Shift(r)') = next_resos(s.resos[r], dealt, Shift(r))
  <2>1. \A a \in Attrs : incoming_dmg[a] \in Int /\ h[a] \in Int
    BY <1>0 DEF Reso
  <2> DEFINE x == [a \in Attrs |-> incoming_dmg[a] * h[a]]
             d == get_duration(r)
             e == get_duration(r)'
  <2>2. \A a \in Attrs : x[a] \in Int
    BY <2>1
  <2>3. \A a \in Attrs : dealt[a] = x[a] * d /\ other[a] = x[a] * e
    BY DEF Dealt
  <2>4. d \in Nat \ {0} /\ e \in Nat \ {0}
    OBVIOUS
  <2> HIDE DEF x, d, e, dealt, other
  <2>5. \A a \in Attrs : other[a] = 0 <=> dealt[a] = 0
    BY <2>2, <2>3, <2>4, Scaled
  <2>6. \A a, b \in Attrs : /\ other[a] < other[b] <=> dealt[a] < dealt[b]
                            /\ other[a] = other[b] <=> dealt[a] = dealt[b]
    BY <2>2, <2>3, <2>4, Scaled
  <2> QED BY <2>5, <2>6, NextOrder
<1>4. f'.resos = f.resos
  <2> HIDE DEF dealt, other, f, h
  <2>1. \A q \in {r} : next_resos(s.resos[q], other, Shift(q)') = next_resos(s.resos[q], dealt, Shift(q))
    BY <1>3
  <2> QED BY <1>1, <1>2, <2>1
<1>5. f = [cycling |-> f.cycling, damage |-> f.damage, resos |-> f.resos]
  BY DEF Following, Ticked
<1>6. f' = [cycling |-> f'.cycling, damage |-> f'.damage, resos |-> f'.resos]
  BY DEF Following, Ticked
<1>7. f' = f
  <2> HIDE DEF f
  <2> QED BY <1>1, <1>2, <1>4, <1>5, <1>6
<1> QED BY <1>1, <1>2, <1>7

\* The ship's resonances are numbers, and so is the damage it takes.
LEMMA HullNumbers ==
  ASSUME ship \in Ships, tweaks \subseteq Cells,
         NEW given, DOMAIN given \subseteq Rahs, \A r \in DOMAIN given : given[r] \in Reso
  PROVE  FreshHull(given) \in Reso
<1>1. \A a \in Attrs : ShipValue(a, given) \in Int
  BY ShipNumber
<1> QED BY <1>1 DEF FreshHull, Reso

LEMMA DamageNumbers ==
  ASSUME default_dmg \in Profiles, rah_dmg \in Profiles \cup {NoProfile}
  PROVE  incoming_dmg \in Reso
BY RahAssumption DEF RahAssumption, incoming_dmg, Reso

\* Every tick of the only RAH begins with a cycle.
LEMMA SoleWalk ==
  ASSUME tweaks \subseteq Cells, ship \in Ships, incoming_dmg \in Reso,
         NEW r \in Rahs, DOMAIN data = {r},
         NEW h \in Nat \ {0}, NEW st, Walk(st, h)
  PROVE  \A n \in 1..h : /\ st[n].cycling = [q \in {r} |-> 0]
                         /\ st[n].damage = [q \in {r} |-> Zero]
                         /\ FreshHull(st[n].resos) \in Reso
<1> DEFINE Sole(s) == /\ s.cycling = [q \in {r} |-> 0]
                      /\ s.damage = [q \in {r} |-> Zero]
           T == {k \in 0..h - 1 : Sole(st[k + 1])}
<1>1. get_duration(r) \in Nat \ {0}
  BY NumbersNow DEF Numbers
<1>2. \A n \in 1..h : st[n].resos \in [{r} -> Reso] /\ FreshHull(st[n].resos) \in Reso
  <2> TAKE n \in 1..h
  <2>1. st[n].resos \in [{r} -> Reso]
    BY DEF Walk, Proper
  <2>2. DOMAIN st[n].resos = {r} /\ st[n].resos[r] \in Reso
    BY <2>1
  <2> QED BY <2>1, <2>2, HullNumbers
<1>3. 0 \in T
  <2>1. st[1] = Start
    BY DEF Walk, Proper
  <2>2. Sole(Start)
    BY DEF Start, Begun
  <2> QED BY <2>1, <2>2
<1>4. \A k \in 1..h - 1 : k - 1 \in T => k \in T
  <2> SUFFICES ASSUME NEW k \in 1..h - 1, Sole(st[k])
               PROVE  Sole(st[k + 1])
    OBVIOUS
  <2>1. st[k + 1] = Ticked(st[k], st[k].resos, FreshHull(st[k].resos)) /\ k \in 1..h
    BY DEF Walk, Proper, Following
  <2>2. DOMAIN st[k].resos = {r} /\ FreshHull(st[k].resos) \in Reso
    BY <1>2, <2>1
  <2>3. PICK g : g = FreshHull(st[k].resos)
    OBVIOUS
  <2>4. PICK s : s = st[k]
    OBVIOUS
  <2>5. /\ s.cycling = [q \in {r} |-> 0] /\ s.damage = [q \in {r} |-> Zero]
        /\ get_duration(r) \in Nat \ {0} /\ incoming_dmg \in Reso
        /\ g \in Reso /\ DOMAIN s.resos = {r}
    BY <1>1, <2>2, <2>3, <2>4
  <2>6. /\ cycled(s) = {r}
        /\ Ticked(s, s.resos, g).cycling = [q \in {r} |-> 0]
        /\ Ticked(s, s.resos, g).damage = [q \in {r} |-> Zero]
        /\ Ticked(s, s.resos, g).resos
             = [q \in {r} |-> next_resos(s.resos[q], Dealt(g, get_duration(r)), Shift(q))]
    <3>1. PICK o : o = s.resos
      OBVIOUS
    <3>2. SoleAt(r, s, g, o)
      BY <2>5, <3>1 DEF SoleAt
    <3>3. SoleThen(r, s, g, o)
      BY <3>2, SoleTicks DEF SoleTick
    <3> QED BY <3>1, <3>3 DEF SoleThen
  <2> QED BY <2>1, <2>3, <2>4, <2>6
<1> HIDE DEF T
<1>5. 0..h - 1 \subseteq T
  <2>1. h - 1 \in Nat
    OBVIOUS
  <2> QED BY <1>3, <1>4, <2>1, Ticks!Upward
<1>6. \A n \in 1..h : Sole(st[n])
  <2> TAKE n \in 1..h
  <2>1. n - 1 \in T /\ n - 1 + 1 = n
    BY <1>5
  <2> QED BY <2>1 DEF T
<1> QED BY <1>2, <1>6

-----------------------------------------------------------------------------
(* The adaptation period.                                                  *)

\* Among finitely many numbers is a greatest.
LEMMA SomeGreatest ==
  ASSUME NEW D, IsFiniteSet(D), D # {}, NEW f, \A r \in D : f[r] \in Int
  PROVE  \E r \in D : \A q \in D : f[r] >= f[q]
<1>1. PICK n \in Nat : ExistsBijection(1..n, D)
  BY FS_NatBijection
<1>2. PICK b : b \in [1..n -> D] /\ \A r \in D : \E i \in 1..n : b[i] = r
  BY <1>1 DEF ExistsBijection, Bijection, Injection, Surjection
<1> DEFINE T == {k \in 0..n : k = 0 \/ \E i \in 1..k : \A j \in 1..k : f[b[i]] >= f[b[j]]}
<1>3. 0 \in T
  OBVIOUS
<1>4. \A k \in 1..n : k - 1 \in T => k \in T
  <2> SUFFICES ASSUME NEW k \in 1..n,
                      k - 1 = 0 \/ \E i \in 1..(k - 1) : \A j \in 1..(k - 1) : f[b[i]] >= f[b[j]]
               PROVE  \E i \in 1..k : \A j \in 1..k : f[b[i]] >= f[b[j]]
    <3> TAKE k \in 1..n
    <3> HAVE k - 1 \in T
    <3>1. k - 1 = 0 \/ \E i \in 1..(k - 1) : \A j \in 1..(k - 1) : f[b[i]] >= f[b[j]]
      OBVIOUS
    <3>2. \E i \in 1..k : \A j \in 1..k : f[b[i]] >= f[b[j]]
      BY <3>1
    <3>3. k \in 0..n
      OBVIOUS
    <3> QED BY <3>2, <3>3
  <2>1. \A j \in 1..k : f[b[j]] \in Int
    BY <1>2
  <2>2. CASE k = 1
    BY <2>1, <2>2
  <2>3. CASE k # 1
    <3>1. PICK i \in 1..(k - 1) : \A j \in 1..(k - 1) : f[b[i]] >= f[b[j]]
      <4>1. k - 1 # 0
        BY <2>3
      <4> QED BY <4>1
    <3>2. \A j \in 1..k : j = k \/ j \in 1..(k - 1)
      OBVIOUS
    <3>3. CASE f[b[i]] >= f[b[k]]
      BY <3>1, <3>2, <3>3
    <3>4. CASE ~(f[b[i]] >= f[b[k]])
      <4>1. \A j \in 1..k : f[b[k]] >= f[b[j]]
        <5> TAKE j \in 1..k
        <5>1. f[b[i]] \in Int /\ f[b[j]] \in Int /\ f[b[k]] \in Int
          BY <2>1, <3>1
        <5>2. j = k \/ f[b[i]] >= f[b[j]]
          BY <3>1, <3>2
        <5> QED BY <3>4, <5>1, <5>2
      <4> QED BY <4>1
    <3> QED BY <3>3, <3>4
  <2> QED BY <2>2, <2>3
<1>5. n # 0
  BY <1>2
<1>6. n \in T
  <2> HIDE DEF T
  <2>1. 0..n \subseteq T
    BY <1>3, <1>4, Ticks!Upward
  <2> QED BY <2>1
<1>7. PICK i \in 1..n : \A j \in 1..n : f[b[i]] >= f[b[j]]
  BY <1>5, <1>6
<1> QED BY <1>2, <1>7

\* RAHs whose shifts are positive take some number of cycles.
LEMMA CyclesNumber ==
  ASSUME tweaks \subseteq Cells, NEW r \in Rahs, Shift(r) # 0
  PROVE  exhaustion_cycles(r) \in Int
<1> DEFINE S == {Ceil(Unit - Own(r, a), Shift(r)) : a \in Attrs}
<1>1. Shift(r) \in Nat \ {0} /\ \A a \in Attrs : Own(r, a) \in Int
  BY NumbersNow DEF Numbers
<1>2. \A a \in Attrs : Ceil(Unit - Own(r, a), Shift(r)) \in Int
  <2> TAKE a \in Attrs
  <2>1. Unit \in Int /\ Own(r, a) \in Int
    BY <1>1, RahAssumption DEF RahAssumption
  <2>2. Unit - Own(r, a) + Shift(r) - 1 \in Int
    BY <1>1, <2>1
  <2> DEFINE x == Unit - Own(r, a) + Shift(r) - 1
  <2> HIDE DEF x
  <2>3. x \div Shift(r) \in Int
    BY <1>1, <2>2 DEF x
  <2> QED BY <2>3 DEF Ceil, x
<1>3. IsFiniteSet(S)
  <2> DEFINE f == [a \in Attrs |-> Ceil(Unit - Own(r, a), Shift(r))]
             I == {f[a] : a \in Attrs}
  <2>1. f \in Surjection(Attrs, I)
    BY DEF Surjection
  <2>2. IsFiniteSet(Attrs)
    BY FourAttrs
  <2>3. S = I
    OBVIOUS
  <2> HIDE DEF f, I, S
  <2>4. IsFiniteSet(I)
    BY <2>1, <2>2, FS_Surjection
  <2> QED BY <2>3, <2>4
<1>4. S # {} /\ S \subseteq Int
  BY <1>2 DEF Attrs
<1> HIDE DEF S
<1> DEFINE f == [x \in S |-> x]
<1>5. \E x \in S : \A y \in S : f[x] >= f[y]
  <2>1. \A x \in S : f[x] \in Int
    BY <1>4
  <2> HIDE DEF f
  <2> QED BY <1>3, <1>4, <2>1, SomeGreatest
<1>6. \E x \in S : \A y \in S : x >= y
  BY <1>5
<1>7. Max(S) \in S
  BY <1>6 DEF Max
<1> QED BY <1>4, <1>7 DEF exhaustion_cycles, S

\* Some RAH takes longest to exhaust what it can give.
LEMMA SomeSlowest ==
  ASSUME tweaks \subseteq Cells, NEW D \in SUBSET Rahs, D # {}, \A r \in D : Shift(r) # 0
  PROVE  Slowest(D) # {}
<1> DEFINE f == [r \in D |-> exhaustion_cycles(r) * get_duration(r)]
<1>1. \A r \in D : f[r] \in Int
  <2> TAKE r \in D
  <2>1. exhaustion_cycles(r) \in Int /\ get_duration(r) \in Int
    BY CyclesNumber, NumbersNow DEF Numbers
  <2> QED BY <2>1
<1>2. IsFiniteSet(D)
  BY FS_Subset, RahAssumption DEF RahAssumption
<1>3. \E r \in D : \A q \in D : f[r] >= f[q]
  <2> HIDE DEF f
  <2> QED BY <1>1, <1>2, SomeGreatest
<1>4. \E r \in D : \A q \in D \ {r} : exhaustion_cycles(r) * get_duration(r)
                                       >= exhaustion_cycles(q) * get_duration(q)
  BY <1>3
<1> QED BY <1>4 DEF Slowest

\* How much of a history is ignored rests on the slowest RAH and its cycles.
LEMMA AdaptedSame ==
  ASSUME NEW history, NEW D, DOMAIN history[1] = D, Slowest(D) # {}, Slowest(D)' = Slowest(D),
         \A r \in D : exhaustion_cycles(r)' = exhaustion_cycles(r)
  PROVE  Adapted(history)' = Adapted(history)
<1> DEFINE slowest == CHOOSE r \in Slowest(D) : TRUE
           needed == Ceil(exhaustion_cycles(slowest) * 3, 2)
           ended(s, m) == {n \in 2..Len(history) :
                     Cardinality({i \in 2..n : history[i][s].cycling = 0}) >= m}
           ticks(s, m) == IF m = 0 THEN 0 ELSE IF ended(s, m) = {} THEN Len(history)
                                             ELSE Min(ended(s, m)) - 1
<1>1. slowest \in D
  BY DEF Slowest
<1>2. slowest' = slowest
  OBVIOUS
<1>3. PICK s : s = slowest
  OBVIOUS
<1>4. needed' = needed
  <2>1. exhaustion_cycles(s)' = exhaustion_cycles(s)
    BY <1>1, <1>3
  <2>2. slowest' = s
    BY <1>2, <1>3
  <2> HIDE DEF slowest
  <2>3. needed = Ceil(exhaustion_cycles(s) * 3, 2)
    BY <1>3
  <2>4. needed' = Ceil(exhaustion_cycles(s)' * 3, 2)
    BY <2>2
  <2> QED BY <2>1, <2>3, <2>4
<1>5. initial_adaptation_ticks(history) = ticks(slowest, needed)
  BY DEF initial_adaptation_ticks
<1>6. initial_adaptation_ticks(history)' = ticks(slowest, needed)'
  BY DEF initial_adaptation_ticks
<1>7. ticks(slowest, needed)' = ticks(slowest, needed)
  <2>1. PICK m : m = needed
    OBVIOUS
  <2>2. slowest' = s /\ needed' = m
    BY <1>2, <1>3, <1>4, <2>1
  <2> HIDE DEF slowest, needed
  <2>3. ticks(slowest, needed) = ticks(s, m)
    BY <1>3, <2>1
  <2>4. ticks(slowest, needed)' = ticks(s, m)
    BY <2>2
  <2> QED BY <2>3, <2>4
<1> HIDE DEF ticks, needed, slowest
<1> QED BY <1>5, <1>6, <1>7 DEF Adapted

-----------------------------------------------------------------------------
(* Results outlast changes that do not concern them, or that nobody could  *)
(* notice since the value was not kept.                                    *)

Steady ==
  /\ ship' = ship /\ data' = data /\ incoming_dmg' = incoming_dmg
  /\ ship # NoShip => \A a \in Attrs : <<"ship", a>> \in tweaks' <=> <<"ship", a>> \in tweaks
  /\ \A r \in DOMAIN data, a \in Attrs \cup {"shift", "duration"} :
       Concerns(r, a) /\ <<r, a>> \in cached =>
         <<r, a>> \in cached' /\ (<<r, a>> \in tweaks' <=> <<r, a>> \in tweaks)

Alike(st, h) ==
  /\ Start' = Start
  /\ \A n \in 1..h - 1 : Following(st[n])' = Following(st[n]) /\ cycled(st[n])' = cycled(st[n])
  /\ \A n \in 1..h : \A r \in DOMAIN data : st[n].cycling[r] < get_duration(r)'

\* A walk of which no tick changes is a walk still.
LEMMA WalkKept ==
  ASSUME NEW h \in Nat \ {0}, NEW st, Walk(st, h), Alike(st, h),
         DOMAIN data' = DOMAIN data
  PROVE  Walk(st, h)' /\ (Going(st, h) => Going(st, h)')
<1>1. Walk(st, h)'
  BY DEF Walk, Proper, Alike
<1>2. Going(st, h) => Going(st, h)'
  BY DEF Going, Alike
<1> QED BY <1>1, <1>2

\* A tick does not change as long as what it rests on does not.
LEMMA FollowingSame ==
  ASSUME NEW s, DOMAIN s.cycling = DOMAIN data, incoming_dmg' = incoming_dmg,
         \A g : FreshHull(g)' = FreshHull(g), cycled(s) \subseteq DOMAIN data,
         \A r \in DOMAIN data : get_duration(r)' = get_duration(r),
         \A r \in cycled(s) : Shift(r)' = Shift(r)
  PROVE  Following(s)' = Following(s) /\ cycled(s)' = cycled(s)
<1>1. PICK g : g = FreshHull(s.resos)
  OBVIOUS
<1>2. Following(s) = Ticked(s, s.resos, g) /\ Following(s)' = Ticked(s, s.resos, g)'
  BY <1>1 DEF Following
<1>3. Ticked(s, s.resos, g)' = Ticked(s, s.resos, g)
  BY TickedSame
<1> QED BY <1>2, <1>3, CycledSame

\* A set of RAHs has several members, or one, or none.
LEMMA OneOrMore ==
  ASSUME NEW D \in SUBSET Rahs
  PROVE  IsFiniteSet(D) /\ (Cardinality(D) > 1 \/ D = {} \/ \E r \in Rahs : D = {r})
<1>1. IsFiniteSet(D) /\ Cardinality(D) \in Nat
  BY FS_Subset, FS_CardinalityType, RahAssumption DEF RahAssumption
<1>2. Cardinality(D) = 0 => D = {}
  BY <1>1, FS_EmptySet
<1>3. Cardinality(D) = 1 => \E r : D = {r}
  BY <1>1, FS_Singleton
<1> QED BY <1>1, <1>2, <1>3

\* Results of a simulation are results of one after a change that is of no concern to them: of
\* what the simulation rested on nothing has changed, save the cycle time of the only RAH.
LEMMA SettledKept ==
  ASSUME tweaks \subseteq Cells, tweaks' \subseteq Cells, DOMAIN data \subseteq Rahs,
         default_dmg \in Profiles, rah_dmg \in Profiles \cup {NoProfile},
         ship \in Ships \cup {NoShip}, DOMAIN data # {}, Steady, Settled
  PROVE  Settled'
<1> DEFINE D == DOMAIN data
           Same(r, a) == <<r, a>> \in tweaks' <=> <<r, a>> \in tweaks
<1>1. D \X Attrs \subseteq cached
  BY DEF Settled, Seen
<1>2. \A r \in D, a \in Attrs : Same(r, a) /\ <<r, a>> \in cached'
  BY <1>1 DEF Steady, Concerns
<1>3. Unsimulated' = Unsimulated /\ Start' = Start
  <2>1. \A r \in D, a \in Attrs : Own(r, a)' = Own(r, a)
    BY <1>2, OwnSame
  <2>2. DOMAIN data' = DOMAIN data
    BY DEF Steady
  <2> QED BY <2>1, <2>2, UnsimulatedSame
<1>4. (D \X Attrs \subseteq cached)'
  BY <1>2 DEF Steady
<1>5. CASE ship = NoShip
  <2>1. data = Unsimulated
    BY <1>5 DEF Settled
  <2>2. ship' = NoShip /\ data' = Unsimulated'
    BY <1>3, <1>5, <2>1 DEF Steady
  <2> QED BY <1>4, <2>2 DEF Settled
<1>6. CASE ship # NoShip
  <2>1a. PICK h \in 1..MaxTicks : \E st :
          /\ Walk(st, h) /\ Going(st, h) /\ Seen(st, h)
          /\ \/ EndsUnroundable(st, h) \/ EndsShiftless(st, h)
             \/ EndsInLoop(st, h) \/ EndsExhausted(st, h)
    BY <1>6 DEF Settled
  <2>1. PICK st :
          /\ Walk(st, h) /\ Going(st, h) /\ Seen(st, h)
          /\ \/ EndsUnroundable(st, h) \/ EndsShiftless(st, h)
             \/ EndsInLoop(st, h) \/ EndsExhausted(st, h)
    BY <2>1a
  <2>2. h \in Nat \ {0} /\ MaxTicks \in Nat \ {0, 1}
    BY RahAssumption DEF RahAssumption
  <2>3. \A g : FreshHull(g)' = FreshHull(g)
    BY <1>6, HullSame DEF Steady
  <2>4. \A r \in D : /\ get_duration(r) \in Nat \ {0} /\ get_duration(r)' \in Nat \ {0}
                     /\ Shift(r) \in Nat /\ Shift(r)' \in Nat
    BY NumbersNow, NumbersNext DEF Numbers
  <2>5. incoming_dmg \in Reso /\ incoming_dmg' = incoming_dmg /\ data' = data
    BY DamageNumbers DEF Steady
  <2>6. \A r \in D : <<r, "shift">> \in cached => Shift(r)' = Shift(r) /\ <<r, "shift">> \in cached'
    BY ShiftSame DEF Steady, Concerns
  <2>7. ASSUME Cardinality(D) > 1, D \X {"duration"} \subseteq cached
        PROVE  /\ \A r \in D : get_duration(r)' = get_duration(r)
               /\ (D \X {"duration"} \subseteq cached)'
    <3>1. \A r \in D : <<r, "duration">> \in cached /\ Concerns(r, "duration")
      BY <2>7 DEF Concerns
    <3>2. \A r \in D : Same(r, "duration") /\ <<r, "duration">> \in cached'
      BY <3>1 DEF Steady
    <3>3. \A r \in D : get_duration(r)' = get_duration(r)
      BY <3>2, DurationSame
    <3>4. (D \X {"duration"} \subseteq cached)'
      BY <2>5, <3>2
    <3> QED BY <3>3, <3>4
  <2>8. \/ \A r \in D : get_duration(r)' = get_duration(r)
        \/ \E r \in Rahs : D = {r}
        \/ h = 1
    <3>1. Cardinality(D) > 1 /\ h > 1 => D \X {"duration"} \subseteq cached
      BY <2>1 DEF Seen
    <3>2. Cardinality(D) > 1 \/ D = {} \/ \E r \in Rahs : D = {r}
      BY OneOrMore
    <3>3. D = {} => \A r \in D : get_duration(r)' = get_duration(r)
      OBVIOUS
    <3>4. h > 1 \/ h = 1
      BY <2>2
    <3>5. CASE Cardinality(D) > 1 /\ h > 1
      BY <2>7, <3>1, <3>5
    <3> HIDE DEF D
    <3> QED BY <3>2, <3>3, <3>4, <3>5
  <2>9. \A n \in 1..h : DOMAIN st[n].cycling = D /\ cycled(st[n]) \subseteq D
    BY <2>1 DEF Walk, Proper, cycled
  <2>10. \A n \in 1..h - 1 : \A r \in cycled(st[n]) : Shift(r)' = Shift(r) /\ <<r, "shift">> \in cached'
    <3> TAKE n \in 1..h - 1
    <3> TAKE r \in cycled(st[n])
    <3>1. r \in D /\ <<r, "shift">> \in cached
      BY <2>1, <2>9 DEF Seen
    <3> QED BY <2>6, <3>1
  <2>11. Alike(st, h)
    <3>1. CASE \A r \in D : get_duration(r)' = get_duration(r)
      <4>1. \A n \in 1..h - 1 : Following(st[n])' = Following(st[n]) /\ cycled(st[n])' = cycled(st[n])
        <5> TAKE n \in 1..h - 1
        <5>1. n \in 1..h
          OBVIOUS
        <5>2. PICK s : s = st[n]
          OBVIOUS
        <5>3. /\ DOMAIN s.cycling = DOMAIN data /\ cycled(s) \subseteq DOMAIN data
              /\ \A r \in cycled(s) : Shift(r)' = Shift(r)
          BY <2>9, <2>10, <5>1, <5>2
        <5>4. Following(s)' = Following(s) /\ cycled(s)' = cycled(s)
          BY <2>3, <2>5, <3>1, <5>3, FollowingSame
        <5> QED BY <5>2, <5>4
      <4>2. \A n \in 1..h : \A r \in D : st[n].cycling[r] < get_duration(r)'
        BY <2>1, <3>1 DEF Walk, Proper
      <4> QED BY <1>3, <4>1, <4>2 DEF Alike
    <3>2. ASSUME NEW r \in Rahs, D = {r}
          PROVE  Alike(st, h)
      <4>1. \A n \in 1..h : /\ st[n].cycling = [q \in {r} |-> 0]
                            /\ st[n].damage = [q \in {r} |-> Zero]
                            /\ FreshHull(st[n].resos) \in Reso
                            /\ st[n].resos \in [{r} -> Reso]
        <5>1. ship \in Ships
          BY <1>6
        <5>2. \A n \in 1..h : st[n].resos \in [{r} -> Reso]
          BY <2>1, <3>2 DEF Walk, Proper
        <5> QED BY <2>1, <2>2, <2>5, <3>2, <5>1, <5>2, SoleWalk
      <4>2. get_duration(r) \in Nat \ {0} /\ get_duration(r)' \in Nat \ {0}
        BY <2>4, <3>2
      <4>3. \A n \in 1..h - 1 : Following(st[n])' = Following(st[n]) /\ cycled(st[n])' = cycled(st[n])
        <5> TAKE n \in 1..h - 1
        <5>1. n \in 1..h
          OBVIOUS
        <5>2. r \in cycled(st[n])
          BY <4>1, <4>2, <5>1, SoleCycle
        <5>3. Shift(r)' = Shift(r)
          BY <2>10, <5>2
        <5> QED BY <2>3, <2>5, <4>1, <4>2, <5>1, <5>3, SoleFollowing
      <4>4. \A n \in 1..h : \A q \in D : st[n].cycling[q] < get_duration(q)'
        BY <3>2, <4>1, <4>2
      <4> QED BY <1>3, <4>3, <4>4 DEF Alike
    <3>3. CASE h = 1
      <4>1. \A n \in 1..h : \A r \in D : st[n].cycling[r] = 0
        BY <2>1, <3>3 DEF Walk, Proper, Start, Begun
      <4> QED BY <1>3, <2>4, <3>3, <4>1 DEF Alike
    <3> QED BY <2>8, <3>1, <3>2, <3>3
  <2>12. Walk(st, h)' /\ Going(st, h)'
    BY <2>1, <2>2, <2>5, <2>11, WalkKept
  <2>13. Seen(st, h)'
    <3>1. \A n \in 1..h - 1 : \A r \in cycled(st[n])' : <<r, "shift">> \in cached'
      BY <2>10, <2>11 DEF Alike
    <3>2. h > 1 /\ Cardinality(D) > 1 => (D \X {"duration"} \subseteq cached)'
      BY <2>1, <2>7 DEF Seen
    <3> QED BY <1>4, <2>5, <3>1, <3>2 DEF Seen
  <2>14. EndsUnroundable(st, h) => EndsUnroundable(st, h)'
    BY <1>3, <2>5 DEF EndsUnroundable
  <2>15. EndsInLoop(st, h) => EndsInLoop(st, h)'
    BY <2>5 DEF EndsInLoop, Loop
  <2>16. EndsShiftless(st, h) => EndsShiftless(st, h)'
    <3> SUFFICES ASSUME EndsShiftless(st, h)
                 PROVE  EndsShiftless(st, h)'
      OBVIOUS
    <3>1. Cardinality(D) > 1 => (D \X {"duration"} \subseteq cached)'
      BY <2>7 DEF EndsShiftless
    <3>2. cycled(st[h])' = cycled(st[h])
      <4>1. CASE Cardinality(D) > 1
        <5>1. \A r \in D : get_duration(r)' = get_duration(r)
          BY <2>7, <4>1 DEF EndsShiftless
        <5> QED BY <2>9, <5>1, CycledSame
      <4>2. CASE D = {}
        BY <2>9, <4>2, CycledSame
      <4>3. ASSUME NEW r \in Rahs, D = {r}
            PROVE  cycled(st[h])' = cycled(st[h])
        <5>1. st[h].cycling = [q \in {r} |-> 0]
          <6>1. ship \in Ships
            BY <1>6
          <6>2. \A n \in 1..h : /\ st[n].cycling = [q \in {r} |-> 0]
                                /\ st[n].damage = [q \in {r} |-> Zero]
                                /\ FreshHull(st[n].resos) \in Reso
            BY <2>1, <2>2, <2>5, <4>3, <6>1, SoleWalk
          <6> QED BY <2>2, <6>2
        <5> QED BY <2>4, <4>3, <5>1, SoleCycle, SoleCyclesNext DEF SoleCycles
      <4> QED BY <4>1, <4>2, <4>3, OneOrMore
    <3>3. data' = Unsimulated'
      BY <1>3, <2>5 DEF EndsShiftless
    <3> QED BY <2>5, <3>1, <3>2, <3>3 DEF EndsShiftless, New
  <2>17. EndsExhausted(st, h) => EndsExhausted(st, h)'
    <3> SUFFICES ASSUME EndsExhausted(st, h)
                 PROVE  EndsExhausted(st, h)'
      OBVIOUS
    <3>1. New(st, h)' /\ h = MaxTicks
      BY DEF EndsExhausted, New
    <3>2. CASE /\ Unestimable = {} /\ (DOMAIN data) \X {"shift"} \subseteq cached
               /\ data = Averaged(Adapted(States(st, h)), st[h].resos)
      <4>1. \A r \in D : Shift(r)' = Shift(r) /\ <<r, "shift">> \in cached'
        BY <2>6, <3>2
      <4>2. Unestimable' = {} /\ ((DOMAIN data) \X {"shift"} \subseteq cached)'
        <5>1. \A r \in D : Shift(r) # 0
          BY <3>2 DEF Unestimable
        <5>2. \A r \in D : Shift(r)' # 0
          BY <4>1, <5>1
        <5> QED BY <2>5, <4>1, <5>2 DEF Unestimable
      <4>3. Adapted(States(st, h))' = Adapted(States(st, h))
        <5> DEFINE history == States(st, h)
        <5>1. DOMAIN history[1] = D
          BY <2>1, <2>2 DEF Walk, Proper, States, StateOf, TickState
        <5>2. \A r \in D : exhaustion_cycles(r)' = exhaustion_cycles(r)
          BY <1>2, <4>1, CyclesSame
        <5>3. Slowest(D) # {}
          BY <3>2, SomeSlowest DEF Unestimable
        <5>4. Slowest(D)' = Slowest(D)
          <6>1. CASE \A r \in D : get_duration(r)' = get_duration(r)
            BY <2>5, <5>2, <6>1 DEF Slowest
          <6>2. CASE \E r \in Rahs : D = {r}
            BY <2>5, <6>2 DEF Slowest
          <6> QED BY <2>2, <2>8, <3>1, <6>1, <6>2
        <5> QED BY <2>5, <5>1, <5>2, <5>3, <5>4, AdaptedSame
      <4>4. data' = Averaged(Adapted(States(st, h))', st[h].resos)
        BY <2>5, <3>2, <4>3
      <4> QED BY <3>1, <4>2, <4>4 DEF EndsExhausted
    <3>3. CASE /\ \E r \in Unestimable : ShiftAmount[r] = NoAttr \/ <<r, "shift">> \in cached
               /\ data = Unsimulated
      <4>1. PICK r \in Unestimable : ShiftAmount[r] = NoAttr \/ <<r, "shift">> \in cached
        BY <3>3
      <4>2. Shift(r)' = 0 /\ r \in D
        BY <2>6, <4>1 DEF Unestimable, Shift
      <4>3. r \in Unestimable'
        BY <2>5, <4>2 DEF Unestimable
      <4>4. ShiftAmount[r] = NoAttr \/ <<r, "shift">> \in cached'
        BY <2>6, <4>1, <4>2
      <4>5. data' = Unsimulated'
        BY <1>3, <2>5, <3>3
      <4> QED BY <3>1, <4>3, <4>4, <4>5 DEF EndsExhausted
    <3> QED BY <3>2, <3>3 DEF EndsExhausted
  <2> QED BY <1>6, <2>1, <2>12, <2>13, <2>14, <2>15, <2>16, <2>17 DEF Settled, Steady
<1> QED BY <1>5, <1>6

-----------------------------------------------------------------------------
(* A simulation under way.                                                 *)

\* What a simulation of h ticks has come to when it begins another.
Advanced(st, h) ==
  /\ Walk(st, h + 1) /\ after = st[h + 1]
  /\ Len(sim.history) = h /\ sim.history = States(st, h)
  /\ \A n \in 1..h : ~Unroundable(st[n].resos)
  /\ \A i, n \in 1..h : StateOf(st[i]) = StateOf(st[n]) => i = n
  /\ (DOMAIN data) \X Attrs \subseteq cached
  /\ \A n \in 1..h - 1 : \A r \in cycled(st[n]) : /\ ShiftAmount[r] # NoAttr
                                                 /\ <<r, "shift">> \in cached
  /\ IF h = 0 THEN first_tick /\ ending = {} /\ data = Unsimulated
              ELSE ~first_tick /\ ending = cycled(st[h]) /\ ending # {} /\ ending \subseteq DOMAIN data

\* Resonances of their own are numbers.
LEMMA UnsimulatedNumbers ==
  ASSUME tweaks \subseteq Cells, DOMAIN data \subseteq Rahs
  PROVE  Unsimulated \in [DOMAIN data -> Reso]
BY NumbersNow DEF Numbers, Unsimulated, Reso

\* The next tick rests on progress and damage alone.
LEMMA TickedAgrees ==
  ASSUME NEW s, NEW t, s.cycling = t.cycling, s.damage = t.damage, NEW resos, NEW hulls
  PROVE  /\ cycled(s) = cycled(t)
         /\ Ticked(s, resos, hulls) = Ticked(t, resos, hulls)
<1>1. time_passed(s) = time_passed(t)
  BY DEF time_passed
<1>2. cycled(s) = cycled(t)
  BY <1>1 DEF cycled
<1> QED BY <1>1, <1>2 DEF Ticked

\* What a simulation reads of the ship is what the RAHs' present resonances make of it.
LEMMA HullNow ==
  ASSUME RahHull
  PROVE  hull = FreshHull(data)
BY DEF RahHull, hull, FreshHull

\* A simulation under way goes on to the tick that follows from the last one.
LEMMA NextTickIs ==
  ASSUME RahInv, simulating, NEW h \in 0..MaxTicks - 1, UnderWay(h)
  PROVE  \E st : Advanced(st, h)
<1> DEFINE D == DOMAIN data
<1>0. /\ tweaks \subseteq Cells /\ D \subseteq Rahs /\ D # {} /\ h \in Nat
      /\ \A r \in D : get_duration(r) \in Nat \ {0}
  BY NumbersNow, RahAssumption DEF RahInv, RahShape, RahStage, Numbers, RahAssumption, simulating
<1>1. first_tick <=> h = 0
  <2>1. h = 0 => sim.history = <<>>
    BY DEF UnderWay, Begun
  <2>2. \A st : Len(States(st, h)) = h
    BY <1>0 DEF States
  <2>3. h # 0 => \E st : sim.history = States(st, h)
    BY <1>0 DEF UnderWay
  <2>4. h # 0 => sim.history # <<>>
    BY <2>2, <2>3
  <2> QED BY <2>1, <2>4 DEF first_tick
<1>2. CASE h = 0
  <2> DEFINE st == [n \in 1..1 |-> Start]
  <2>1. sim = Begun /\ data = Unsimulated /\ first_tick
    BY <1>1, <1>2 DEF UnderWay
  <2>2. st[1] = Start
    OBVIOUS
  <2>3. after = Start
    BY <2>1 DEF after, Start, Begun
  <2>4. /\ Start.cycling \in [D -> Nat] /\ \A r \in D : Start.cycling[r] < get_duration(r)
        /\ Start.resos \in [D -> Reso]
    BY <1>0, UnsimulatedNumbers DEF Start, Begun
  <2> HIDE DEF st
  <2>5. Walk(st, 1)
    BY <2>2, <2>4 DEF Walk, Proper
  <2>6. sim.history = <<>> /\ Len(sim.history) = 0 /\ States(st, 0) = <<>>
    BY <2>1 DEF Begun, States
  <2>7. Advanced(st, 0)
    BY <1>2, <2>1, <2>2, <2>3, <2>5, <2>6 DEF Advanced, UnderWay, ending
  <2> QED BY <1>2, <2>7
<1>3. CASE h # 0
  <2>1. PICK s : /\ Walk(s, h) /\ Going(s, h) /\ Seen(s, h) /\ New(s, h)
                 /\ sim.history = States(s, h)
                 /\ sim.cycling = s[h].cycling /\ sim.damage = s[h].damage /\ data = s[h].resos
    BY <1>0, <1>3 DEF UnderWay
  <2> DEFINE st == [n \in 1..h + 1 |-> IF n = h + 1 THEN Following(s[h]) ELSE s[n]]
  <2>2. st[h + 1] = Following(s[h]) /\ \A n \in 1..h : st[n] = s[n]
    BY <1>0
  <2>3. 1 \in 1..h /\ h \in 1..h
    BY <1>0, <1>3
  <2> HIDE DEF st
  <2>4. ~first_tick
    BY <1>1, <1>3
  <2>5. ending = cycled(s[h]) /\ Ticked(sim, data, hull) = Following(s[h])
    <3>1. hull = FreshHull(data)
      BY HullNow DEF RahInv
    <3>2. PICK g : g = hull
      OBVIOUS
    <3>3. /\ cycled(sim) = cycled(s[h])
          /\ Ticked(sim, data, g) = Ticked(s[h], data, g)
      <4>1. PICK t : t = s[h]
        OBVIOUS
      <4> QED BY <2>1, <4>1, TickedAgrees
    <3> QED BY <2>1, <2>4, <3>1, <3>2, <3>3 DEF ending, Following
  <2>6. after = st[h + 1]
    BY <2>2, <2>4, <2>5 DEF after
  <2>7. /\ Proper(Following(s[h]))
        /\ cycled(s[h]) # {} /\ cycled(s[h]) \subseteq D
    <3>1. PICK t : t = s[h]
      OBVIOUS
    <3>2. Proper(t)
      BY <2>1, <2>3, <3>1 DEF Walk
    <3>3. Proper(Following(t)) /\ cycled(t) # {} /\ cycled(t) \subseteq D
      BY <1>0, <3>2, TickedNumbers
    <3> QED BY <3>1, <3>3
  <2>8. Walk(st, h + 1)
    <3>1. st[1] = Start
      BY <2>1, <2>2, <2>3 DEF Walk, Proper
    <3>2. \A n \in 1..h : st[n + 1] = Following(st[n])
      <4> TAKE n \in 1..h
      <4>1. CASE n = h
        BY <2>2, <2>3, <4>1
      <4>2. CASE n # h
        <5>1. n \in 1..h - 1 /\ n + 1 \in 1..h
          BY <1>0, <4>2
        <5> QED BY <2>1, <2>2, <5>1 DEF Walk, Proper
      <4> QED BY <4>1, <4>2
    <3>3. \A n \in 1..h + 1 : Proper(st[n])
      <4> TAKE n \in 1..h + 1
      <4>1. CASE n = h + 1
        BY <2>2, <2>7, <4>1
      <4>2. CASE n # h + 1
        <5>1. n \in 1..h
          BY <1>0, <4>2
        <5> QED BY <2>1, <2>2, <5>1 DEF Walk, Proper
      <4> QED BY <4>1, <4>2
    <3>4. h + 1 - 1 = h
      BY <1>0
    <3> QED BY <3>1, <3>2, <3>3, <3>4 DEF Walk, Proper
  <2>9. \A n \in 1..h : ~Unroundable(st[n].resos)
    <3> TAKE n \in 1..h
    <3>1. n = h \/ n \in 1..h - 1
      BY <1>0
    <3> QED BY <2>1, <2>2, <3>1 DEF Going, New
  <2>10. \A i, n \in 1..h : StateOf(st[i]) = StateOf(st[n]) => i = n
    <3> TAKE i, n \in 1..h
    <3>1. (n = h \/ n \in 1..h - 1) /\ (i = h \/ i \in 1..h - 1)
      BY <1>0
    <3> QED BY <2>1, <2>2, <3>1 DEF Going, New
  <2>11. \A n \in 1..h - 1 : \A r \in cycled(st[n]) : /\ ShiftAmount[r] # NoAttr
                                                     /\ <<r, "shift">> \in cached
    <3>1. \A n \in 1..h - 1 : n \in 1..h
      BY <1>0
    <3> QED BY <2>1, <2>2, <3>1 DEF Going, Seen
  <2>12. Len(sim.history) = h /\ sim.history = States(st, h) /\ D \X Attrs \subseteq cached
    <3>1. States(st, h) = States(s, h)
      BY <2>2 DEF States
    <3>2. Len(States(s, h)) = h
      BY <1>0 DEF States
    <3> QED BY <2>1, <3>1, <3>2 DEF UnderWay
  <2>13. ending = cycled(st[h]) /\ ending # {} /\ ending \subseteq D
    BY <2>2, <2>3, <2>5, <2>7
  <2> QED BY <1>3, <2>4, <2>6, <2>8, <2>9, <2>10, <2>11, <2>12, <2>13 DEF Advanced
<1> QED BY <1>2, <1>3

\* Nothing behind the ticks of a simulation changes when what it has come to does.
LEMMA StepSame ==
  ASSUME UNCHANGED inputs, DOMAIN data' = DOMAIN data
  PROVE  /\ Unsimulated' = Unsimulated /\ Start' = Start /\ Unestimable' = Unestimable
         /\ \A a \in Attrs : \A g : ShipValue(a, g)' = ShipValue(a, g)
         /\ \A s : cycled(s)' = cycled(s) /\ Following(s)' = Following(s)
         /\ \A r : get_duration(r)' = get_duration(r)
         /\ \A r : exhaustion_cycles(r)' = exhaustion_cycles(r) /\ Shift(r)' = Shift(r)
<1>1. /\ ship' = ship /\ tweaks' = tweaks /\ incoming_dmg' = incoming_dmg
  BY DEF inputs, incoming_dmg
<1>2. \A r : Shift(r)' = Shift(r) /\ get_duration(r)' = get_duration(r)
  BY <1>1, ShiftSame, DurationSame
<1>3. Unsimulated' = Unsimulated /\ Start' = Start
  <2>1. \A r \in DOMAIN data, a \in Attrs : Own(r, a)' = Own(r, a)
    BY <1>1, OwnSame
  <2> QED BY <2>1, UnsimulatedSame
<1>4. \A a \in Attrs : \A g : ShipValue(a, g)' = ShipValue(a, g)
  BY <1>1, ShipSame
<1>5. \A s : cycled(s)' = cycled(s) /\ Following(s)' = Following(s)
  <2> TAKE s
  <2>1. cycled(s)' = cycled(s)
    BY <1>2, CycledSame
  <2>2. PICK g : g = FreshHull(s.resos)
    OBVIOUS
  <2>3. FreshHull(s.resos)' = g
    BY <1>1, <2>2, HullSame
  <2>4. Following(s) = Ticked(s, s.resos, g) /\ Following(s)' = Ticked(s, s.resos, g)'
    BY <2>2, <2>3 DEF Following
  <2>5. Ticked(s, s.resos, g)' = Ticked(s, s.resos, g)
    BY <1>1, <1>2, TickedSame
  <2> QED BY <2>1, <2>4, <2>5
<1>6. \A r : exhaustion_cycles(r)' = exhaustion_cycles(r)
  BY <1>1, <1>2, CyclesSame
<1>7. Unestimable' = Unestimable
  BY <1>2 DEF Unestimable
<1> QED BY <1>2, <1>3, <1>4, <1>5, <1>6, <1>7

\* So a walk stays a walk, and its adapted part what it is.
LEMMA StepWalk ==
  ASSUME UNCHANGED inputs, DOMAIN data' = DOMAIN data, NEW h \in Nat \ {0}, NEW st,
         Walk(st, h)
  PROVE  Walk(st, h)' /\ (Going(st, h) => Going(st, h)')
<1>1. Alike(st, h)
  BY StepSame DEF Alike, Walk, Proper
<1> QED BY <1>1, WalkKept

LEMMA StepAdapted ==
  ASSUME UNCHANGED inputs, DOMAIN data' = DOMAIN data, DOMAIN data \subseteq Rahs,
         DOMAIN data # {}, tweaks \subseteq Cells, Unestimable = {},
         NEW history, DOMAIN history[1] = DOMAIN data
  PROVE  Adapted(history)' = Adapted(history)
<1> DEFINE D == DOMAIN data
<1>1. Slowest(D) # {}
  BY SomeSlowest DEF Unestimable
<1>2. /\ \A r \in D : exhaustion_cycles(r)' = exhaustion_cycles(r)
      /\ \A r : get_duration(r)' = get_duration(r)
  BY StepSame
<1>3. Slowest(D)' = Slowest(D)
  BY <1>2, StepSame DEF Slowest
<1> QED BY <1>1, <1>2, <1>3, AdaptedSame

\* What a tick reads is kept.
LEMMA StepSeen ==
  ASSUME UNCHANGED inputs, DOMAIN data' = DOMAIN data, NEW h \in Nat, NEW st,
         Advanced(st, h), NEW rahs, ReadCells(rahs)
  PROVE  /\ ((DOMAIN data) \X Attrs \subseteq cached)'
         /\ \A r \in rahs : <<r, "shift">> \in cached'
         /\ h > 0 => ((DOMAIN data) \X {"duration"} \subseteq cached)'
         /\ Seen(st, h)' /\ (ending \subseteq rahs => Seen(st, h + 1)')
<1>1. cached \subseteq cached' /\ \A r \in rahs : <<r, "shift">> \in cached'
  BY DEF ReadCells
<1>2. ((DOMAIN data) \X Attrs \subseteq cached)'
  BY <1>1 DEF Advanced
<1>3. h > 0 => ((DOMAIN data) \X {"duration"} \subseteq cached)'
  BY DEF Advanced, ReadCells
<1>4. \A s : cycled(s)' = cycled(s)
  BY StepSame
<1>5. \A n \in 1..h - 1 : \A r \in cycled(st[n])' : <<r, "shift">> \in cached'
  BY <1>1, <1>4 DEF Advanced
<1>6. Seen(st, h)'
  BY <1>2, <1>3, <1>5 DEF Seen
<1>7. ending \subseteq rahs => Seen(st, h + 1)'
  <2> SUFFICES ASSUME ending \subseteq rahs PROVE Seen(st, h + 1)'
    OBVIOUS
  <2>1. \A n \in 1..h : \A r \in cycled(st[n])' : <<r, "shift">> \in cached'
    <3> TAKE n \in 1..h
    <3>1. n \in 1..h - 1 \/ n = h
      OBVIOUS
    <3>2. cycled(st[h])' = ending
      BY <1>4 DEF Advanced
    <3> QED BY <1>1, <1>5, <3>1, <3>2
  <2>2. h + 1 - 1 = h
    OBVIOUS
  <2>3. h + 1 > 1 => h > 0
    OBVIOUS
  <2> QED BY <1>2, <1>3, <2>1, <2>2, <2>3 DEF Seen
<1> QED BY <1>1, <1>2, <1>3, <1>6, <1>7

\* The ticks that have been made let the simulation go on, and so does the next one if it
\* does not raise.
LEMMA AdvancedGoing ==
  ASSUME NEW h \in Nat, NEW st, Advanced(st, h)
  PROVE  /\ h > 0 => Walk(st, h) /\ Going(st, h) /\ New(st, h)
         /\ (\A r \in ending : ShiftAmount[r] # NoAttr) => Going(st, h + 1)
<1>1. \A n \in 1..h - 1 : n \in 1..h
  OBVIOUS
<1>2. Going(st, h)
  BY <1>1 DEF Advanced, Going
<1>3. h > 0 => Walk(st, h)
  BY <1>1 DEF Advanced, Walk, Proper
<1>4. h > 0 => New(st, h)
  BY DEF Advanced, New
<1>5. (\A r \in ending : ShiftAmount[r] # NoAttr) => Going(st, h + 1)
  <2> SUFFICES ASSUME \A r \in ending : ShiftAmount[r] # NoAttr
               PROVE  Going(st, h + 1)
    OBVIOUS
  <2>1. \A n \in 1..h : \A r \in cycled(st[n]) : ShiftAmount[r] # NoAttr
    <3> TAKE n \in 1..h
    <3>1. n \in 1..h - 1 \/ n = h
      OBVIOUS
    <3>2. cycled(st[h]) = ending
      BY DEF Advanced
    <3> QED BY <3>1, <3>2 DEF Advanced
  <2>2. h + 1 - 1 = h
    OBVIOUS
  <2> QED BY <2>1, <2>2 DEF Advanced, Going
<1> QED BY <1>2, <1>3, <1>4, <1>5

\* A step of a simulation keeps the invariant if it leads to results or to another tick.
LEMMA SimInv ==
  ASSUME RahInv, simulating, UNCHANGED <<inputs, running, reader, strayed>>,
         data' \in [DOMAIN data -> Reso], HullRead, ending = {} => data' = data,
         sim' = Idle => Settled',
         sim' # Idle => \E h \in 0..MaxTicks - 1 : UnderWay(h)'
  PROVE  RahInv'
<1> DEFINE D == DOMAIN data
<1>1. /\ ship' = ship /\ ship \in Ships \cup {NoShip} /\ ship # NoShip
      /\ running /\ running' /\ running' \in BOOLEAN
      /\ DOMAIN data' = D /\ D \subseteq Rahs /\ D # {}
      /\ ~strayed /\ ~strayed' /\ strayed' \in BOOLEAN
  BY DEF RahInv, RahShape, RahStage, simulating, inputs
<1>2. Filled' /\ data' = [r \in DOMAIN data' |-> data'[r]]
  BY DEF Filled
<1>3. (shipCache' = hull /\ data' = data) \/ shipCache' = Nothing
  BY DEF HullRead
<1>4. DOMAIN shipCache' \subseteq Attrs
  BY <1>3 DEF hull, Nothing
<1>5. RahShape'
  BY <1>1, <1>2, <1>4 DEF RahInv, RahShape, inputs
<1>6. RahHull'
  <2>1. CASE shipCache' = hull /\ data' = data
    <3>1. \A a \in Attrs : \A g : ShipValue(a, g)' = ShipValue(a, g)
      BY <1>1, StepSame
    <3>2. hull = FreshHull(data)
      BY HullNow DEF RahInv
    <3>3. \A a \in DOMAIN shipCache' : a \in Attrs /\ shipCache'[a] = ShipValue(a, data)
      BY <2>1, <3>2 DEF FreshHull
    <3>4. PICK g : g = data
      OBVIOUS
    <3>5. \A a \in Attrs : ShipValue(a, data)' = ShipValue(a, g)
      <4> TAKE a \in Attrs
      <4>1. ShipValue(a, data)' = ShipValue(a, g)'
        BY <2>1, <3>4 DEF ShipValue, Modified
      <4> QED BY <3>1, <4>1
    <3> QED BY <1>2, <3>3, <3>4, <3>5 DEF RahHull
  <2>2. CASE shipCache' = Nothing
    BY <2>2 DEF RahHull, Nothing
  <2> QED BY <1>3, <2>1, <2>2
<1>7. RahStage'
  BY <1>1, <1>2 DEF RahInv, RahStage, inputs
<1> QED BY <1>5, <1>6, <1>7 DEF RahInv

\* What all outcomes of a tick rest on.
LEMMA SimFacts ==
  ASSUME RahInv, simulating, UNCHANGED inputs
  PROVE  /\ tweaks \subseteq Cells /\ DOMAIN data \subseteq Rahs /\ DOMAIN data # {}
         /\ ship' # NoShip /\ MaxTicks \in Nat \ {0, 1}
         /\ Unsimulated \in [DOMAIN data -> Reso]
         /\ \E h \in 0..MaxTicks - 1 : \E st :
               Advanced(st, h) /\ after \in {st[h + 1]} /\ Proper(after)
<1>1. /\ tweaks \subseteq Cells /\ DOMAIN data \subseteq Rahs /\ DOMAIN data # {}
      /\ ship' # NoShip
  BY DEF RahInv, RahShape, RahStage, simulating, inputs
<1>2. MaxTicks \in Nat \ {0, 1}
  BY RahAssumption DEF RahAssumption
<1>3. PICK h \in 0..MaxTicks - 1 : UnderWay(h)
  BY DEF RahInv, RahStage, simulating
<1>4. PICK st : Advanced(st, h)
  BY <1>3, NextTickIs
<1>5. after = st[h + 1] /\ Proper(after)
  <2>1. h + 1 \in 1..h + 1
    BY <1>2
  <2> QED BY <1>4, <2>1 DEF Advanced, Walk
<1> QED BY <1>1, <1>2, <1>4, <1>5, UnsimulatedNumbers

\* A simulation that raises leaves results that are those of one from scratch, which raises too.
LEMMA RaisesInv ==
  ASSUME RahInv, simulating, SimRaises(after)
  PROVE  RahInv'
<1>1. /\ UNCHANGED <<inputs, running, reader, strayed>> /\ UNCHANGED inputs
      /\ raises(after) /\ data' = Unsimulated /\ sim' = Idle /\ HullRead
  BY DEF SimRaises
<1>2. PICK done \in SUBSET Shifting(ending) :
        /\ done = ending \/ \E r \in ending : ShiftAmount[r] = NoAttr
        /\ ReadCells(done)
  BY DEF SimRaises
<1>3. /\ tweaks \subseteq Cells /\ DOMAIN data \subseteq Rahs /\ DOMAIN data # {}
      /\ ship' # NoShip /\ MaxTicks \in Nat \ {0, 1}
      /\ Unsimulated \in [DOMAIN data -> Reso]
      /\ \E h \in 0..MaxTicks - 1 : \E st :
            Advanced(st, h) /\ after \in {st[h + 1]} /\ Proper(after)
  BY <1>1, SimFacts
<1>4a. PICK h \in 0..MaxTicks - 1 : \E st :
        Advanced(st, h) /\ after \in {st[h + 1]} /\ Proper(after)
  BY <1>3
<1>4. PICK st :
        Advanced(st, h) /\ after \in {st[h + 1]} /\ Proper(after)
  BY <1>4a
<1>5. h \in Nat /\ h + 1 \in Nat \ {0} /\ h < MaxTicks /\ h + 1 \in 1..MaxTicks
  BY <1>3
<1>6. DOMAIN data' = DOMAIN data /\ data' \in [DOMAIN data -> Reso]
  BY <1>1, <1>3 DEF Unsimulated
<1>7. /\ Unsimulated' = Unsimulated
      /\ \A s : cycled(s)' = cycled(s)
  BY <1>1, <1>6, StepSame
<1>8. /\ \A r \in done : <<r, "shift">> \in cached'
      /\ h > 0 => ((DOMAIN data) \X {"duration"} \subseteq cached)'
      /\ Seen(st, h)' /\ (ending \subseteq done => Seen(st, h + 1)')
  BY <1>1, <1>2, <1>4, <1>5, <1>6, StepSeen
<1>9. ending = {} => data' = data
  BY <1>1, <1>4 DEF Advanced
<1>10. CASE \E r \in ending : ShiftAmount[r] = NoAttr
  <2>1. h > 0 /\ ending = cycled(st[h])
    BY <1>4, <1>5, <1>10 DEF Advanced
  <2>2. Walk(st, h) /\ Going(st, h) /\ New(st, h)
    BY <1>4, <1>5, <2>1, AdvancedGoing
  <2>3. Walk(st, h)' /\ Going(st, h)'
    BY <1>1, <1>5, <1>6, <2>1, <2>2, StepWalk
  <2>4. EndsShiftless(st, h)'
    BY <1>1, <1>5, <1>7, <1>8, <1>10, <2>1, <2>2 DEF EndsShiftless, New
  <2>5. h \in 1..MaxTicks
    BY <1>3, <1>5, <2>1
  <2>6. Settled'
    BY <1>3, <1>8, <2>3, <2>4, <2>5 DEF Settled
  <2> QED BY <1>1, <1>6, <1>9, <2>6, SimInv
<1>11. CASE \A r \in ending : ShiftAmount[r] # NoAttr
  <2>1. Unroundable(after.resos) /\ done = ending
    BY <1>1, <1>2, <1>11 DEF raises
  <2>2. Walk(st, h + 1) /\ Going(st, h + 1)
    BY <1>4, <1>5, <1>11, AdvancedGoing DEF Advanced
  <2>3. Walk(st, h + 1)' /\ Going(st, h + 1)'
    BY <1>1, <1>5, <1>6, <2>2, StepWalk
  <2>4. Unroundable(st[h + 1].resos)
    BY <1>4, <2>1
  <2>5. EndsUnroundable(st, h + 1)'
    BY <1>1, <1>7, <2>4 DEF EndsUnroundable
  <2>6. Settled'
    BY <1>3, <1>5, <1>8, <2>1, <2>3, <2>5 DEF Settled
  <2> QED BY <1>1, <1>6, <1>9, <2>6, SimInv
<1> QED BY <1>10, <1>11

\* The ticks of a walk have resonances of all RAHs.
LEMMA ProperShape ==
  ASSUME NEW h \in Nat, NEW st, Walk(st, h)
  PROVE  \A n \in 1..h : /\ DOMAIN st[n].resos = DOMAIN data /\ DOMAIN st[n].cycling = DOMAIN data
                         /\ \A r \in DOMAIN data : /\ st[n].resos[r] \in Reso
                                                   /\ StateOf(st[n])[r].resos = st[n].resos[r]
                         /\ DOMAIN StateOf(st[n]) = DOMAIN data
BY DEF Walk, Proper, StateOf, TickState

\* A loop that is found is the loop of a simulation from scratch.
LEMMA LoopsInv ==
  ASSUME RahInv, simulating, SimLoops(after)
  PROVE  RahInv'
<1>1. /\ UNCHANGED <<inputs, running, reader, strayed>> /\ UNCHANGED inputs
      /\ ~raises(after) /\ sim' = Idle /\ HullRead /\ ReadCells(ending)
  BY DEF SimLoops
<1>2. /\ tweaks \subseteq Cells /\ DOMAIN data \subseteq Rahs /\ DOMAIN data # {}
      /\ ship' # NoShip /\ MaxTicks \in Nat \ {0, 1}
      /\ \E h \in 0..MaxTicks - 1 : \E st :
            Advanced(st, h) /\ after \in {st[h + 1]} /\ Proper(after)
  BY <1>1, SimFacts
<1>3a. PICK h \in 0..MaxTicks - 1 : \E st :
        Advanced(st, h) /\ after \in {st[h + 1]} /\ Proper(after)
  BY <1>2
<1>3. PICK st :
        Advanced(st, h) /\ after \in {st[h + 1]} /\ Proper(after)
  BY <1>3a
<1>4. h \in Nat /\ h + 1 \in Nat \ {0} /\ h + 1 \in 1..MaxTicks /\ h + 1 - 1 = h
  BY <1>2
<1>5. TickState(after.cycling, after.resos) = StateOf(st[h + 1]) /\ after.resos = st[h + 1].resos
  BY <1>3 DEF StateOf
<1>6. sim.history = States(st, h) /\ Len(sim.history) = h /\ DOMAIN sim.history = 1..h
  BY <1>3 DEF Advanced, States
<1>7. {i \in DOMAIN sim.history : sim.history[i] = StateOf(st[h + 1])} = Loop(st, h + 1)
  BY <1>4, <1>6 DEF Loop, States
<1>8. /\ Loop(st, h + 1) # {}
      /\ data' = Averaged(SubSeq(States(st, h), Min(Loop(st, h + 1)), h), st[h + 1].resos)
  <2>1. /\ {i \in DOMAIN sim.history : sim.history[i] = StateOf(st[h + 1])} # {}
        /\ data' = Averaged(SubSeq(sim.history,
                      Min({i \in DOMAIN sim.history : sim.history[i] = StateOf(st[h + 1])}),
                      Len(sim.history)), st[h + 1].resos)
    BY <1>5 DEF SimLoops
  <2> QED BY <1>6, <1>7, <2>1
<1>9. h > 0 /\ ending # {}
  <2>1. h # 0
    BY <1>8 DEF Loop
  <2> QED BY <1>3, <1>4, <2>1 DEF Advanced
<1>10. Walk(st, h + 1) /\ Going(st, h + 1) /\ ~Unroundable(st[h + 1].resos)
  <2>1. (\A r \in ending : ShiftAmount[r] # NoAttr) /\ ~Unroundable(after.resos)
    BY <1>1 DEF raises
  <2> QED BY <1>3, <1>4, <1>5, <2>1, AdvancedGoing DEF Advanced
<1>11. data' \in [DOMAIN data -> Reso] /\ DOMAIN data' = DOMAIN data
  <2> DEFINE m == Min(Loop(st, h + 1))
             states == SubSeq(States(st, h), m, h)
  <2>1. m \in 1..h
    <3>1. Loop(st, h + 1) \subseteq 1..h
      BY <1>4 DEF Loop
    <3>2. Loop(st, h + 1) \subseteq Nat
      BY <3>1
    <3> QED BY <1>8, <3>1, <3>2, LeastMember
  <2> HIDE DEF m
  <2>2. m \in Int /\ h \in Int /\ h - m + 1 \in Nat /\ m <= h
    BY <1>4, <2>1
  <2>3. DOMAIN states = 1..h - m + 1 /\ \A i \in 1..h - m + 1 : states[i] = States(st, h)[m + i - 1]
    BY <2>2
  <2>4. \A r \in DOMAIN data : st[h + 1].resos[r] \in Reso
    BY <1>4, <1>10, ProperShape
  <2>5. \A i \in 1..h - m + 1 : \A r \in DOMAIN data : states[i][r].resos \in Reso
    <3> TAKE i \in 1..h - m + 1
    <3>1. m + i - 1 \in 1..h /\ m + i - 1 \in 1..h + 1
      BY <1>4, <2>1
    <3>2. states[i] = StateOf(st[m + i - 1])
      BY <2>3, <3>1 DEF States
    <3> HIDE DEF states
    <3> QED BY <1>4, <1>10, <3>1, <3>2, ProperShape
  <2>6. DOMAIN st[h + 1].resos = DOMAIN data
    BY <1>4, <1>10, ProperShape
  <2> HIDE DEF states
  <2>7. Averaged(states, st[h + 1].resos) \in [DOMAIN data -> Reso]
    BY <2>2, <2>3, <2>4, <2>5, <2>6, AveragedNumbers
  <2>8. data' = Averaged(states, st[h + 1].resos)
    BY <1>8 DEF states, m
  <2> QED BY <2>7, <2>8
<1>12. Walk(st, h + 1)' /\ Going(st, h + 1)'
  BY <1>1, <1>4, <1>10, <1>11, StepWalk
<1>13. Seen(st, h + 1)'
  BY <1>1, <1>3, <1>4, <1>11, StepSeen
<1>14. EndsInLoop(st, h + 1)'
  BY <1>4, <1>8, <1>10 DEF EndsInLoop, Loop
<1>15. Settled'
  BY <1>2, <1>4, <1>12, <1>13, <1>14 DEF Settled
<1> QED BY <1>1, <1>9, <1>11, <1>15, SimInv

\* A sequence with one more element.
LEMMA AppendIs ==
  ASSUME NEW k \in Nat, NEW s, DOMAIN s = 1..k, s = [n \in 1..k |-> s[n]], NEW e
  PROVE  Append(s, e) = [n \in 1..k + 1 |-> IF n = k + 1 THEN e ELSE s[n]]
<1> DEFINE S == {s[n] : n \in 1..k} \cup {e}
           t == Append(s, e)
<1>1. s \in [1..k -> S]
  OBVIOUS
<1> HIDE DEF S, t
<1>2. s \in Seq(S) /\ Len(s) = k
  BY <1>1, SeqDef
<1>3. e \in S
  BY DEF S
<1>4. t \in Seq(S) /\ Len(t) = k + 1 /\ t[k + 1] = e /\ \A i \in 1..k : t[i] = s[i]
  BY <1>2, <1>3, AppendProperties DEF t
<1>5. t \in [1..k + 1 -> S]
  BY <1>4
<1>6. \A n \in 1..k + 1 : n # k + 1 => n \in 1..k
  OBVIOUS
<1> QED BY <1>4, <1>5, <1>6 DEF t

\* A history grows by the state of the next tick.
LEMMA StatesLonger ==
  ASSUME NEW h \in Nat, NEW st
  PROVE  Append(States(st, h), StateOf(st[h + 1])) = States(st, h + 1)
<1> DEFINE s == States(st, h)
<1>1. /\ DOMAIN s = 1..h /\ s = [n \in 1..h |-> s[n]]
      /\ \A n \in 1..h : s[n] = StateOf(st[n])
  BY DEF States
<1> HIDE DEF s
<1>2. \A e : Append(s, e) = [n \in 1..h + 1 |-> IF n = h + 1 THEN e ELSE s[n]]
  BY <1>1, AppendIs
<1>3. \A n \in 1..h + 1 : n # h + 1 => n \in 1..h
  OBVIOUS
<1> QED BY <1>1, <1>2, <1>3 DEF States, s

\* A tick that ends nothing leaves a simulation under way.
LEMMA TickInv ==
  ASSUME RahInv, simulating, SimTick(after)
  PROVE  RahInv'
<1>1. /\ UNCHANGED <<inputs, running, reader, strayed>> /\ UNCHANGED inputs
      /\ ~raises(after) /\ data' = after.resos /\ HullRead /\ ReadCells(ending)
  BY DEF SimTick
<1>2. /\ tweaks \subseteq Cells /\ DOMAIN data \subseteq Rahs /\ DOMAIN data # {}
      /\ ship' # NoShip /\ MaxTicks \in Nat \ {0, 1}
      /\ \E h \in 0..MaxTicks - 1 : \E st :
            Advanced(st, h) /\ after \in {st[h + 1]} /\ Proper(after)
  BY <1>1, SimFacts
<1>3a. PICK h \in 0..MaxTicks - 1 : \E st :
        Advanced(st, h) /\ after \in {st[h + 1]} /\ Proper(after)
  BY <1>2
<1>3. PICK st :
        Advanced(st, h) /\ after \in {st[h + 1]} /\ Proper(after)
  BY <1>3a
<1>4. h \in Nat /\ h + 1 \in Nat \ {0} /\ h + 1 > 0 /\ h + 1 - 1 = h
  BY <1>2
<1>5. TickState(after.cycling, after.resos) = StateOf(st[h + 1]) /\ after = st[h + 1]
  BY <1>3 DEF StateOf
<1>6. sim.history = States(st, h) /\ Len(sim.history) = h
  BY <1>3 DEF Advanced
<1>7. /\ ~Contains(States(st, h), StateOf(st[h + 1]))
      /\ Len(States(st, h + 1)) < MaxTicks
      /\ sim'.history = States(st, h + 1)
      /\ sim'.cycling = st[h + 1].cycling /\ sim'.damage = st[h + 1].damage
  <2>1. Append(sim.history, StateOf(st[h + 1])) = States(st, h + 1)
    BY <1>4, <1>6, StatesLonger
  <2> QED BY <1>5, <1>6, <2>1 DEF SimTick
<1>8. h + 1 \in 0..MaxTicks - 1
  <2>1. Len(States(st, h + 1)) = h + 1
    BY <1>4 DEF States
  <2> QED BY <1>2, <1>4, <1>7, <2>1
<1>9. /\ Walk(st, h + 1) /\ Going(st, h + 1) /\ ~Unroundable(st[h + 1].resos)
  <2>1. (\A r \in ending : ShiftAmount[r] # NoAttr) /\ ~Unroundable(after.resos)
    BY <1>1 DEF raises
  <2> QED BY <1>3, <1>4, <1>5, <2>1, AdvancedGoing DEF Advanced
<1>10. New(st, h + 1)
  <2>1. \A i \in 1..h : States(st, h)[i] = StateOf(st[i])
    BY DEF States
  <2>2. Len(States(st, h)) = h
    BY <1>4 DEF States
  <2> QED BY <1>4, <1>7, <1>9, <2>1, <2>2 DEF New, Contains
<1>11. data' = st[h + 1].resos /\ data' \in [DOMAIN data -> Reso] /\ DOMAIN data' = DOMAIN data
  BY <1>1, <1>3, <1>5 DEF Proper
<1>12. Walk(st, h + 1)' /\ Going(st, h + 1)'
  BY <1>1, <1>4, <1>9, <1>11, StepWalk
<1>13. Seen(st, h + 1)' /\ ((DOMAIN data) \X Attrs \subseteq cached)'
  BY <1>1, <1>3, <1>4, <1>11, StepSeen
<1>14. UnderWay(h + 1)'
  <2>1. h + 1 # 0
    BY <1>4
  <2>2. \E s : /\ Walk(s, h + 1)' /\ Going(s, h + 1)' /\ Seen(s, h + 1)' /\ New(s, h + 1)
               /\ sim'.history = States(s, h + 1)
               /\ sim'.cycling = s[h + 1].cycling /\ sim'.damage = s[h + 1].damage
               /\ data' = s[h + 1].resos
    BY <1>7, <1>10, <1>11, <1>12, <1>13
  <2> QED BY <1>13, <2>1, <2>2 DEF UnderWay, New, States
<1>15. sim' # Idle
  <2>1. Len(States(st, h + 1)) = h + 1
    BY <1>4 DEF States
  <2>2. sim'.history # <<>>
    BY <1>4, <1>7, <2>1
  <2> QED BY <2>2 DEF Idle
<1>16. ending = {} => data' = data
  <2>1. ending = {} => h = 0 /\ data = Unsimulated
    BY <1>3 DEF Advanced
  <2>2. st[1].resos = Unsimulated
    BY <1>9 DEF Walk, Start
  <2> QED BY <1>11, <2>1, <2>2
<1> QED BY <1>1, <1>8, <1>11, <1>14, <1>15, <1>16, SimInv

\* The last tick leaves the results of a simulation from scratch that finds no loop.
LEMMA ExhaustedInv ==
  ASSUME RahInv, simulating, SimExhausted(after)
  PROVE  RahInv'
<1>1. /\ UNCHANGED <<inputs, running, reader, strayed>> /\ UNCHANGED inputs
      /\ ~raises(after) /\ sim' = Idle /\ HullRead
  BY DEF SimExhausted
<1>2. /\ tweaks \subseteq Cells /\ DOMAIN data \subseteq Rahs /\ DOMAIN data # {}
      /\ ship' # NoShip /\ MaxTicks \in Nat \ {0, 1}
      /\ Unsimulated \in [DOMAIN data -> Reso]
      /\ \E h \in 0..MaxTicks - 1 : \E st :
            Advanced(st, h) /\ after \in {st[h + 1]} /\ Proper(after)
  BY <1>1, SimFacts
<1>3a. PICK h \in 0..MaxTicks - 1 : \E st :
        Advanced(st, h) /\ after \in {st[h + 1]} /\ Proper(after)
  BY <1>2
<1>3. PICK st :
        Advanced(st, h) /\ after \in {st[h + 1]} /\ Proper(after)
  BY <1>3a
<1>4. h \in Nat /\ h + 1 \in Nat \ {0} /\ h + 1 > 0 /\ h + 1 - 1 = h
  BY <1>2
<1>5. TickState(after.cycling, after.resos) = StateOf(st[h + 1]) /\ after = st[h + 1]
  BY <1>3 DEF StateOf
<1>6. sim.history = States(st, h) /\ Len(sim.history) = h
  BY <1>3 DEF Advanced
<1>7. /\ ~Contains(States(st, h), StateOf(st[h + 1]))
      /\ Len(States(st, h + 1)) = MaxTicks
      /\ data' = IF Unestimable = {} THEN Averaged(Adapted(States(st, h + 1)), st[h + 1].resos)
                                     ELSE Unsimulated
  <2>1. Append(sim.history, StateOf(st[h + 1])) = States(st, h + 1)
    BY <1>4, <1>6, StatesLonger
  <2> QED BY <1>5, <1>6, <2>1 DEF SimExhausted
<1>8. PICK done \in SUBSET Shifting(DOMAIN data) :
        /\ IF Unestimable = {} THEN done = DOMAIN data
           ELSE \E r \in Unestimable : done \cap Unestimable = Shifting({r})
        /\ ReadCells(ending \cup done)
  BY DEF SimExhausted
<1>9. h + 1 = MaxTicks /\ h > 0
  <2>1. Len(States(st, h + 1)) = h + 1
    BY <1>4 DEF States
  <2> QED BY <1>2, <1>4, <1>7, <2>1
<1>10. /\ Walk(st, h + 1) /\ Going(st, h + 1) /\ ~Unroundable(st[h + 1].resos)
  <2>1. (\A r \in ending : ShiftAmount[r] # NoAttr) /\ ~Unroundable(after.resos)
    BY <1>1 DEF raises
  <2> QED BY <1>3, <1>4, <1>5, <2>1, AdvancedGoing DEF Advanced
<1>11. New(st, h + 1)
  <2>1. \A i \in 1..h : States(st, h)[i] = StateOf(st[i])
    BY DEF States
  <2>2. Len(States(st, h)) = h
    BY <1>4 DEF States
  <2> QED BY <1>4, <1>7, <1>10, <2>1, <2>2 DEF New, Contains
<1>12. DOMAIN States(st, h + 1)[1] = DOMAIN data
  <2>1. 1 \in 1..h + 1
    BY <1>4
  <2>2. States(st, h + 1)[1] = StateOf(st[1])
    BY <2>1 DEF States
  <2> QED BY <1>4, <1>10, <2>1, <2>2, ProperShape
<1>13. data' \in [DOMAIN data -> Reso] /\ DOMAIN data' = DOMAIN data
  <2>1. CASE Unestimable = {}
    <3> DEFINE history == States(st, h + 1)
               states == Adapted(history)
    <3>1. Len(history) = h + 1
      BY <1>4 DEF States
    <3> HIDE DEF history
    <3>2. \E m \in 1..h + 1 : states = SubSeq(history, m, h + 1)
      BY <1>4, <3>1, AdaptedPart
    <3>3. PICK m \in 1..h + 1 : states = SubSeq(history, m, h + 1)
      BY <3>2
    <3>4. m \in Int /\ h + 1 \in Int /\ h + 1 - m + 1 \in Nat /\ m <= h + 1
      BY <1>4
    <3> HIDE DEF states
    <3>5. DOMAIN states = 1..h + 1 - m + 1
          /\ \A i \in 1..h + 1 - m + 1 : states[i] = history[m + i - 1]
      BY <3>3, <3>4
    <3>6. \A r \in DOMAIN data : st[h + 1].resos[r] \in Reso
      BY <1>4, <1>10, ProperShape
    <3>7. \A i \in 1..h + 1 - m + 1 : \A r \in DOMAIN data : states[i][r].resos \in Reso
      <4> TAKE i \in 1..h + 1 - m + 1
      <4>1. m + i - 1 \in 1..h + 1
        BY <1>4
      <4>2. states[i] = StateOf(st[m + i - 1])
        BY <3>5, <4>1 DEF States, history
      <4> QED BY <1>4, <1>10, <4>1, <4>2, ProperShape
    <3>8. DOMAIN st[h + 1].resos = DOMAIN data
      BY <1>4, <1>10, ProperShape
    <3>9. Averaged(states, st[h + 1].resos) \in [DOMAIN data -> Reso]
      BY <3>4, <3>5, <3>6, <3>7, <3>8, AveragedNumbers
    <3>10. data' = Averaged(states, st[h + 1].resos)
      BY <1>7, <2>1 DEF states, history
    <3> QED BY <3>9, <3>10
  <2>2. CASE Unestimable # {}
    BY <1>2, <1>7, <2>2
  <2> QED BY <2>1, <2>2
<1>14. Walk(st, h + 1)' /\ Going(st, h + 1)'
  BY <1>1, <1>4, <1>10, <1>13, StepWalk
<1>15. Seen(st, h + 1)' /\ \A r \in done : <<r, "shift">> \in cached'
  BY <1>1, <1>3, <1>4, <1>8, <1>13, StepSeen
<1>16. Unestimable' = Unestimable /\ Unsimulated' = Unsimulated
  BY <1>1, <1>13, StepSame
<1>17. EndsExhausted(st, h + 1)'
  <2>1. CASE Unestimable = {}
    <3>1. Adapted(States(st, h + 1))' = Adapted(States(st, h + 1))
      BY <1>1, <1>2, <1>12, <1>13, <2>1, StepAdapted
    <3>2. ((DOMAIN data) \X {"shift"} \subseteq cached)'
      BY <1>8, <1>13, <1>15, <2>1
    <3> QED BY <1>7, <1>9, <1>11, <1>16, <2>1, <3>1, <3>2 DEF EndsExhausted, New
  <2>2. CASE Unestimable # {}
    <3>1. PICK r \in Unestimable : done \cap Unestimable = Shifting({r})
      BY <1>8, <2>2
    <3>2. ShiftAmount[r] = NoAttr \/ <<r, "shift">> \in cached'
      BY <1>15, <3>1 DEF Shifting
    <3>3. data' = Unsimulated'
      BY <1>7, <1>16, <2>2
    <3> QED BY <1>9, <1>11, <1>16, <3>1, <3>2, <3>3 DEF EndsExhausted, New
  <2> QED BY <2>1, <2>2
<1>18. Settled'
  <2>1. h + 1 \in 1..MaxTicks
    BY <1>2, <1>9
  <2> QED BY <1>2, <1>14, <1>15, <1>17, <2>1 DEF Settled
<1>19. ending = {} => data' = data
  BY <1>3, <1>9 DEF Advanced
<1> QED BY <1>1, <1>13, <1>18, <1>19, SimInv

-----------------------------------------------------------------------------
(* The end of a simulation, and its beginning.                             *)

\* No results are no resonances.
LEMMA NothingIsNoReso == Nothing \notin Reso
BY DEF Nothing, Reso, Attrs

\* The end of a read keeps the invariant: results are complete, the ship's resonance is of these.
LEMMA FinishInv ==
  ASSUME RahInv, Finish
  PROVE  RahInv'
<1>1. /\ running /\ sim = Idle /\ ~running' /\ sim' = Idle /\ reader' = <<>>
      /\ UNCHANGED <<ship, default_dmg, rah_dmg, tweaks, data, cached, strayed>>
      /\ UNCHANGED inputs
      /\ running' \in BOOLEAN
  BY DEF Finish, inputs
<1>2. /\ Filled /\ Settled /\ DOMAIN data # {}
      /\ reader[1] = "ship" => ship # NoShip /\ reader[2] \in Attrs
  BY <1>1 DEF RahInv, RahStage
<1>3. \/ /\ ship # NoShip /\ reader[2] \in Attrs
         /\ shipCache' = [a \in {reader[2]} |-> ShipValue(a, data)]
      \/ shipCache' = Nothing
  BY <1>2 DEF Finish
<1>4. RahShape'
  BY <1>1, <1>2, <1>3 DEF RahInv, RahShape, Filled, Nothing
<1>5. RahHull'
  <2>1. PICK g : g = data
    OBVIOUS
  <2>2. \A a \in Attrs : ShipValue(a, g)' = ShipValue(a, g)
    BY <1>1, StepSame
  <2>3. \A a \in DOMAIN shipCache' : a \in Attrs /\ shipCache'[a] = ShipValue(a, g)
    BY <1>3, <2>1 DEF Nothing
  <2>4. \A a : ShipValue(a, data)' = ShipValue(a, g)'
    BY <1>1, <2>1 DEF ShipValue, Modified
  <2>5. Filled'
    BY <1>1, <1>2 DEF Filled
  <2> QED BY <2>2, <2>3, <2>4, <2>5 DEF RahHull
<1>6. Settled'
  <2>1. Steady
    BY <1>1 DEF Steady, incoming_dmg
  <2> QED BY <1>2, <1>4, <2>1, SettledKept DEF RahInv, RahShape
<1>7. RahStage'
  BY <1>1, <1>6 DEF RahStage
<1> QED BY <1>4, <1>5, <1>7 DEF RahInv

\* A simulation that begins keeps the invariant: the ship keeps nothing while results are missing.
LEMMA RunInv ==
  ASSUME RahInv, ~running, NEW r \in DOMAIN data, data[r] = Nothing,
         NEW cell, cell[1] = "ship" => ship # NoShip /\ cell[2] \in Attrs,
         RunSimulation(cell)
  PROVE  RahInv'
<1> DEFINE D == DOMAIN data
<1>1. /\ running' /\ reader' = cell /\ data' = Unsimulated /\ ~strayed'
      /\ cached' = cached \cup (D \X Attrs) /\ shipCache' = shipCache
      /\ sim' = IF ship = NoShip THEN Idle ELSE Begun
      /\ UNCHANGED <<ship, default_dmg, rah_dmg, tweaks>> /\ UNCHANGED inputs
      /\ running' \in BOOLEAN /\ strayed' \in BOOLEAN
  BY DEF RunSimulation, inputs
<1>2. /\ tweaks \subseteq Cells /\ D \subseteq Rahs /\ D # {} /\ ship \in Ships \cup {NoShip}
      /\ ship = NoShip => shipCache = Nothing
  BY DEF RahInv, RahShape
<1>3. data' \in [D -> Reso] /\ DOMAIN data' = D
  BY <1>1, <1>2, UnsimulatedNumbers
<1>4. Unsimulated' = Unsimulated
  BY <1>1, <1>3, StepSame
<1>5. DOMAIN shipCache = {}
  <2>1. ~Filled
    BY NothingIsNoReso DEF Filled
  <2> QED BY <2>1 DEF RahInv, RahHull
<1>6. Filled'
  BY <1>3 DEF Filled
<1>7. RahShape'
  BY <1>1, <1>2, <1>3, <1>6 DEF RahInv, RahShape
<1>8. RahHull'
  BY <1>1, <1>5 DEF RahHull
<1>9. ((DOMAIN data) \X Attrs \subseteq cached)'
  BY <1>1, <1>3
<1>10. CASE ship = NoShip
  <2>1. Settled'
    BY <1>1, <1>4, <1>9, <1>10 DEF Settled
  <2> QED BY <1>1, <1>2, <1>3, <1>6, <1>7, <1>8, <1>10, <2>1 DEF RahInv, RahStage
<1>11. CASE ship # NoShip
  <2>1. sim' = Begun /\ Begun' = Begun
    BY <1>1, <1>3, <1>11 DEF Begun
  <2>2. Begun # Idle
    BY <1>2 DEF Begun, Idle, Nothing
  <2>3. UnderWay(0)'
    BY <1>1, <1>4, <1>9, <2>1 DEF UnderWay
  <2>4. 0 \in 0..MaxTicks - 1
    BY RahAssumption DEF RahAssumption
  <2> QED BY <1>1, <1>2, <1>3, <1>6, <1>7, <1>8, <1>11, <2>1, <2>2, <2>3, <2>4 DEF RahInv, RahStage
<1> QED BY <1>10, <1>11

\* What is done between simulations keeps the invariant if it leaves no results, or is noticed
\* to have been missed, or is of no concern to them.
LEMMA OutsideInv ==
  ASSUME RahInv, ~running, UNCHANGED <<running, sim, reader>>, RahShape', RahHull',
         ~Kept' \/ strayed' \/ (Steady /\ ~strayed)
  PROVE  RahInv'
<1>1. ~running' => sim' = Idle /\ reader' = <<>>
  BY DEF RahInv, RahStage
<1>2. ~strayed' /\ Kept' => Settled'
  <2> SUFFICES ASSUME ~strayed', Kept' PROVE Settled'
    OBVIOUS
  <2>1. Steady /\ ~strayed
    OBVIOUS
  <2>2. Kept /\ DOMAIN data # {}
    BY <2>1 DEF Steady, Kept
  <2>3. Settled
    BY <2>1, <2>2 DEF RahInv, RahStage
  <2> QED BY <2>1, <2>2, <2>3, SettledKept DEF RahInv, RahShape
<1> QED BY <1>1, <1>2 DEF RahInv, RahStage

\* Changes of nothing that the ship's resonances rest on leave what the ship keeps true.
LEMMA HullKept ==
  ASSUME RahShape, RahHull, DOMAIN shipCache' \subseteq DOMAIN shipCache,
         \A a \in DOMAIN shipCache' : shipCache'[a] = shipCache[a],
         \A a \in DOMAIN shipCache' : <<"ship", a>> \in tweaks' <=> <<"ship", a>> \in tweaks,
         ship' = ship, data' = data
  PROVE  RahHull'
<1>1. PICK g : g = data
  OBVIOUS
<1>2. ASSUME NEW a \in DOMAIN shipCache'
      PROVE  Filled' /\ shipCache'[a] = ShipValue(a, data)'
  <2>1. Filled' /\ shipCache'[a] = ShipValue(a, g)
    BY <1>1, <1>2 DEF RahHull, Filled
  <2>2. ShipValue(a, g)' = ShipValue(a, g)
    BY <1>2, ShipSame
  <2>3. ShipValue(a, data)' = ShipValue(a, g)'
    BY <1>1 DEF ShipValue, Modified
  <2> QED BY <2>1, <2>2, <2>3
<1> QED BY <1>2 DEF RahHull

\* A read of a RAH begins a simulation.
LEMMA ReadRahInv ==
  ASSUME RahInv, NEW r \in Rahs, ReadRah(r)
  PROVE  RahInv'
<1>1. ~running /\ r \in DOMAIN data /\ data[r] = Nothing /\ RunSimulation(<<r, "em">>)
  BY DEF ReadRah
<1>2. r # "ship"
  BY RahAssumption DEF RahAssumption
<1>3. PICK cell : cell = <<r, "em">>
  OBVIOUS
<1>4. cell[1] # "ship" /\ RunSimulation(cell)
  BY <1>1, <1>2, <1>3
<1> QED BY <1>1, <1>4, RunInv

\* A read of the ship begins a simulation, or yields what the results make of its resonance.
LEMMA ReadShipInv ==
  ASSUME RahInv, NEW a \in ReadAttrs, ReadShip(a)
  PROVE  RahInv'
<1>1. ~running /\ ship # NoShip /\ a \notin DOMAIN shipCache /\ a \in Attrs
  BY RahAssumption DEF ReadShip, RahAssumption
<1>2. CASE \E r \in DOMAIN data : data[r] = Nothing
  <2>1. PICK r \in DOMAIN data : data[r] = Nothing
    BY <1>2
  <2>2. PICK cell : cell = <<"ship", a>>
    OBVIOUS
  <2>3. (cell[1] = "ship" => ship # NoShip /\ cell[2] \in Attrs) /\ RunSimulation(cell)
    BY <1>1, <1>2, <2>2 DEF ReadShip
  <2> QED BY <1>1, <2>1, <2>3, RunInv
<1>3. CASE ~\E r \in DOMAIN data : data[r] = Nothing
  <2>1. /\ shipCache' = [b \in DOMAIN shipCache \cup {a} |->
                           IF b = a THEN ShipValue(a, data) ELSE shipCache[b]]
        /\ UNCHANGED <<ship, default_dmg, rah_dmg, tweaks, data, running, cached, sim, reader,
                       strayed>>
        /\ UNCHANGED inputs
    BY <1>3 DEF ReadShip, inputs
  <2>2. /\ DOMAIN shipCache' = DOMAIN shipCache \cup {a}
        /\ shipCache'[a] = ShipValue(a, data)
        /\ \A b \in DOMAIN shipCache : shipCache'[b] = shipCache[b]
    BY <1>1, <2>1
  <2>3. Filled
    BY <1>3 DEF RahInv, RahShape, Filled
  <2>4. RahShape'
    BY <1>1, <2>1, <2>2, <2>3 DEF RahInv, RahShape, Filled
  <2>5. RahHull'
    <3>1. PICK g : g = data
      OBVIOUS
    <3>2. \A b \in Attrs : ShipValue(b, g)' = ShipValue(b, g)
      BY <2>1, StepSame
    <3>3. \A b : ShipValue(b, data)' = ShipValue(b, g)'
      BY <2>1, <3>1 DEF ShipValue, Modified
    <3>4. \A b \in DOMAIN shipCache' : b \in Attrs /\ shipCache'[b] = ShipValue(b, g)
      BY <1>1, <2>2, <3>1 DEF RahInv, RahShape, RahHull
    <3>5. Filled'
      BY <2>1, <2>3 DEF Filled
    <3> QED BY <3>2, <3>3, <3>4, <3>5 DEF RahHull
  <2>6. Steady
    BY <2>1 DEF Steady, incoming_dmg
  <2> QED BY <1>1, <2>1, <2>4, <2>5, <2>6, OutsideInv
<1> QED BY <1>2, <1>3

\* All results are dropped.
LEMMA DroppedInv ==
  ASSUME RahInv, ~running, UNCHANGED <<running, sim, reader>>,
         ship' \in Ships \cup {NoShip},
         default_dmg' \in Profiles, rah_dmg' \in Profiles \cup {NoProfile},
         tweaks' \subseteq Cells,
         NEW D, D \subseteq Rahs, data' = [r \in D |-> Nothing], strayed' = FALSE,
         shipCache' = Nothing \/ (RahShape' /\ RahHull')
  PROVE  RahInv'
<1>1. RahShape'
  BY DEF RahInv, RahShape, Nothing
<1>2. RahHull'
  BY DEF RahHull, Nothing
<1>3. ~Kept'
  BY DEF Kept
<1> QED BY <1>1, <1>2, <1>3, OutsideInv

\* RAHs that start and stop drop all results.
LEMMA StartRahInv ==
  ASSUME RahInv, NEW r \in Rahs, StartRah(r)
  PROVE  RahInv'
<1> DEFINE D == DOMAIN data \cup {r}
<1>1. /\ ~running /\ D \subseteq Rahs /\ UNCHANGED <<running, sim, reader>>
      /\ data' = [q \in D |-> Nothing] /\ strayed' = FALSE /\ shipCache' = Nothing
      /\ ship' \in Ships \cup {NoShip} /\ tweaks' \subseteq Cells
      /\ default_dmg' \in Profiles /\ rah_dmg' \in Profiles \cup {NoProfile}
  BY DEF StartRah, RahInv, RahShape, inputs
<1> HIDE DEF D
<1> QED BY <1>1, DroppedInv

LEMMA StopRahInv ==
  ASSUME RahInv, NEW r \in Rahs, NEW removed \in BOOLEAN, StopRah(r, removed)
  PROVE  RahInv'
<1> DEFINE D == DOMAIN data \ {r}
<1>1. /\ ~running /\ D \subseteq Rahs /\ UNCHANGED <<running, sim, reader>>
      /\ data' = [q \in D |-> Nothing] /\ strayed' = FALSE /\ shipCache' = Nothing
      /\ ship' \in Ships \cup {NoShip} /\ tweaks' \subseteq Cells
      /\ default_dmg' \in Profiles /\ rah_dmg' \in Profiles \cup {NoProfile}
  BY DEF StopRah, RahInv, RahShape, inputs
<1> HIDE DEF D
<1> QED BY <1>1, DroppedInv

\* Results that are kept stray when the ship is another: nobody is told.
LEMMA SetShipInv ==
  ASSUME RahInv, NEW s \in Ships \cup {NoShip}, SetShip(s)
  PROVE  RahInv'
<1>1. /\ ~running /\ UNCHANGED <<running, sim, reader, data, default_dmg, rah_dmg, tweaks>>
      /\ ship' = s /\ shipCache' = Nothing /\ strayed' = (strayed \/ Kept)
  BY DEF SetShip
<1>2. RahShape'
  BY <1>1 DEF RahInv, RahShape, Filled, Nothing
<1>3. RahHull'
  BY <1>1 DEF RahHull, Nothing
<1>4. ~Kept' \/ strayed'
  BY <1>1 DEF Kept
<1> QED BY <1>1, <1>2, <1>3, <1>4, OutsideInv

\* There is always a profile.
LEMMA IncomingProfile ==
  ASSUME default_dmg \in Profiles, rah_dmg \in Profiles \cup {NoProfile}
  PROVE  incoming_dmg # NoProfile
BY RahAssumption DEF RahAssumption, incoming_dmg

\* The results of all RAHs are dropped.
LEMMA ClearedInv ==
  ASSUME RahInv, ~running, UNCHANGED <<running, sim, reader, ship, tweaks>>,
         default_dmg' \in Profiles, rah_dmg' \in Profiles \cup {NoProfile},
         ClearResults(DOMAIN data)
  PROVE  RahInv'
<1> DEFINE D == DOMAIN data
<1>1. /\ D \subseteq Rahs /\ data' = [r \in D |-> Nothing] /\ strayed' = FALSE
      /\ ship' \in Ships \cup {NoShip} /\ tweaks' \subseteq Cells
      /\ data = [r \in D |-> data[r]]
      /\ shipCache' = IF D = {} THEN shipCache ELSE Nothing
  BY DEF ClearResults, RahInv, RahShape
<1>2. CASE D # {}
  <2>1. shipCache' = Nothing
    BY <1>1, <1>2
  <2> HIDE DEF D
  <2> QED BY <1>1, <2>1, DroppedInv
<1>3. CASE D = {}
  <2>1. data' = data /\ shipCache' = shipCache
    BY <1>1, <1>3
  <2>2. RahHull'
    BY <2>1, HullKept DEF RahInv
  <2>3. RahShape'
    BY <1>1, <1>3, <2>1 DEF RahInv, RahShape, Filled
  <2> HIDE DEF D
  <2> QED BY <1>1, <2>2, <2>3, DroppedInv
<1> QED BY <1>2, <1>3

\* A change which does not concern the results.
LEMMA UnnoticedInv ==
  ASSUME RahInv, ~running, UNCHANGED <<running, sim, reader, ship, data, shipCache>>,
         default_dmg' \in Profiles, rah_dmg' \in Profiles \cup {NoProfile},
         tweaks' \subseteq Cells, strayed' \in BOOLEAN,
         \A a \in DOMAIN shipCache : <<"ship", a>> \in tweaks' <=> <<"ship", a>> \in tweaks,
         ~Kept \/ strayed' \/ (Steady /\ ~strayed)
  PROVE  RahInv'
<1>1. RahShape'
  BY DEF RahInv, RahShape, Filled
<1>2. RahHull'
  BY HullKept DEF RahInv
<1>3. Kept' = Kept
  BY DEF Kept
<1> QED BY <1>1, <1>2, <1>3, OutsideInv

\* A profile that replaces the one in effect drops all results, another is of no concern.
LEMMA SetDefaultDmgInv ==
  ASSUME RahInv, NEW profile \in Profiles, SetDefaultDmg(profile)
  PROVE  RahInv'
<1>1. /\ ~running /\ UNCHANGED <<running, sim, reader, ship, tweaks, rah_dmg, cached>>
      /\ default_dmg' \in Profiles /\ rah_dmg' \in Profiles \cup {NoProfile}
      /\ tweaks' \subseteq Cells
  BY DEF SetDefaultDmg, RahInv, RahShape
<1>2. CASE rah_dmg = NoProfile
  <2>1. ClearResults(DOMAIN data)
    BY <1>2 DEF SetDefaultDmg
  <2> QED BY <1>1, <2>1, ClearedInv
<1>3. CASE rah_dmg # NoProfile
  <2>1. UNCHANGED <<data, shipCache, strayed>>
    BY <1>3 DEF SetDefaultDmg, Unnoticed
  <2>2. incoming_dmg' = incoming_dmg
    BY <1>1, <1>3 DEF incoming_dmg
  <2>3. Steady /\ strayed' \in BOOLEAN
    BY <1>1, <2>1, <2>2 DEF Steady, RahInv, RahShape
  <2> QED BY <1>1, <2>1, <2>3, UnnoticedInv
<1> QED BY <1>2, <1>3

LEMMA SetRahDmgInv ==
  ASSUME RahInv, NEW profile \in Profiles \cup {NoProfile}, SetRahDmg(profile)
  PROVE  RahInv'
<1>1. /\ ~running /\ UNCHANGED <<running, sim, reader, ship, tweaks, default_dmg, cached>>
      /\ default_dmg' \in Profiles /\ rah_dmg' \in Profiles \cup {NoProfile}
      /\ tweaks' \subseteq Cells /\ rah_dmg' = profile
  BY DEF SetRahDmg, RahInv, RahShape
<1>2. CASE profile # incoming_dmg
  <2>1. ClearResults(DOMAIN data)
    BY <1>2 DEF SetRahDmg
  <2> QED BY <1>1, <2>1, ClearedInv
<1>3. CASE profile = incoming_dmg
  <2>1. UNCHANGED <<data, shipCache, strayed>>
    BY <1>3 DEF SetRahDmg, Unnoticed
  <2>2. incoming_dmg # NoProfile
    BY IncomingProfile DEF RahInv, RahShape
  <2>3. incoming_dmg' = incoming_dmg
    <3>1. incoming_dmg' = profile
      BY <1>1, <1>3, <2>2 DEF incoming_dmg
    <3> QED BY <1>3, <3>1
  <2>4. Steady /\ strayed' \in BOOLEAN
    BY <1>1, <2>1, <2>3 DEF Steady, RahInv, RahShape
  <2> QED BY <1>1, <2>1, <2>4, UnnoticedInv
<1> QED BY <1>2, <1>3

\* A changed resonance of the ship is announced if it is kept, and strays if not.
LEMMA TweakShipInv ==
  ASSUME RahInv, NEW a \in Attrs, TweakShip(a)
  PROVE  RahInv'
<1>1. /\ ~running /\ UNCHANGED <<running, sim, reader, ship, default_dmg, rah_dmg, cached>>
      /\ default_dmg' \in Profiles /\ rah_dmg' \in Profiles \cup {NoProfile}
      /\ ship' \in Ships \cup {NoShip} /\ DOMAIN data \subseteq Rahs
      /\ tweaks' = SymDiff(tweaks, {<<"ship", a>>}) /\ <<"ship", a>> \in Cells
  BY DEF TweakShip, RahInv, RahShape
<1>2. /\ tweaks' \subseteq Cells
      /\ \A c : c # <<"ship", a>> => (c \in tweaks' <=> c \in tweaks)
  BY <1>1 DEF SymDiff, RahInv, RahShape
<1>3. CASE a \in DOMAIN shipCache
  <2> DEFINE D == DOMAIN data
  <2>1. /\ data' = [r \in D |-> Nothing] /\ strayed' = FALSE
        /\ shipCache' = IF D = {} THEN Restrict(shipCache, DOMAIN shipCache \ {a}) ELSE Nothing
        /\ data = [r \in D |-> data[r]]
    BY <1>3 DEF TweakShip, RahInv, RahShape
  <2>2. CASE D # {}
    <3>1. shipCache' = Nothing
      BY <2>1, <2>2
    <3> HIDE DEF D
    <3> QED BY <1>1, <1>2, <2>1, <3>1, DroppedInv DEF D
  <2>3. CASE D = {}
    <3>1. /\ data' = data /\ DOMAIN shipCache' = DOMAIN shipCache \ {a}
          /\ \A b \in DOMAIN shipCache' : shipCache'[b] = shipCache[b]
      BY <2>1, <2>3 DEF Restrict
    <3>2. \A b \in DOMAIN shipCache' : <<"ship", b>> \in tweaks' <=> <<"ship", b>> \in tweaks
      <4> TAKE b \in DOMAIN shipCache'
      <4>1. <<"ship", b>> # <<"ship", a>>
        BY <3>1
      <4> QED BY <1>2, <4>1
    <3>3. RahHull'
      BY <1>1, <3>1, <3>2, HullKept DEF RahInv
    <3>4. ship = NoShip => shipCache' = Nothing
      <4>1. ship = NoShip => shipCache = Nothing
        BY DEF RahInv, RahShape
      <4> QED BY <1>3, <4>1 DEF Nothing
    <3>5. RahShape'
      BY <1>1, <1>2, <2>1, <2>3, <3>1, <3>4 DEF RahInv, RahShape, Filled
    <3> HIDE DEF D
    <3> QED BY <1>1, <1>2, <2>1, <3>3, <3>5, DroppedInv DEF D
  <2> QED BY <2>2, <2>3
<1>4. CASE a \notin DOMAIN shipCache
  <2>1. UNCHANGED <<data, shipCache>> /\ strayed' = (strayed \/ (Kept /\ ship # NoShip))
    BY <1>4 DEF TweakShip, Unnoticed
  <2>2. \A b \in DOMAIN shipCache : <<"ship", b>> \in tweaks' <=> <<"ship", b>> \in tweaks
    <3> TAKE b \in DOMAIN shipCache
    <3>1. <<"ship", b>> # <<"ship", a>>
      BY <1>4
    <3> QED BY <1>2, <3>1
  <2>3. ship = NoShip => Steady
    <3>1. \A r \in Rahs : \A b : <<r, b>> # <<"ship", a>>
      BY RahAssumption DEF RahAssumption
    <3>2. \A r \in DOMAIN data : \A b : <<r, b>> \in tweaks' <=> <<r, b>> \in tweaks
      BY <1>1, <1>2, <3>1
    <3> QED BY <1>1, <2>1, <3>2 DEF Steady, incoming_dmg
  <2>4. strayed' \in BOOLEAN /\ (~Kept \/ strayed' \/ (Steady /\ ~strayed))
    BY <2>1, <2>3 DEF RahInv, RahShape
  <2> QED BY <1>1, <1>2, <2>1, <2>2, <2>4, UnnoticedInv
<1> QED BY <1>3, <1>4

\* A changed value of a RAH drops all results if it is kept and concerns them.
LEMMA TweakRahInv ==
  ASSUME RahInv, NEW r \in Rahs, NEW a \in Attrs \cup {"shift", "duration"}, TweakRah(r, a)
  PROVE  RahInv'
<1>1. /\ ~running /\ UNCHANGED <<running, sim, reader, ship, default_dmg, rah_dmg>>
      /\ default_dmg' \in Profiles /\ rah_dmg' \in Profiles \cup {NoProfile}
      /\ DOMAIN data \subseteq Rahs /\ cached' = cached \ {<<r, a>>}
      /\ tweaks' = SymDiff(tweaks, {<<r, a>>}) /\ <<r, a>> \in Cells
  BY DEF TweakRah, RahInv, RahShape
<1>2. /\ tweaks' \subseteq Cells
      /\ \A c : c # <<r, a>> => (c \in tweaks' <=> c \in tweaks)
  BY <1>1 DEF SymDiff, RahInv, RahShape
<1>3. \A b : <<"ship", b>> \in tweaks' <=> <<"ship", b>> \in tweaks
  <2> TAKE b
  <2>1. <<"ship", b>> # <<r, a>>
    BY RahAssumption DEF RahAssumption
  <2> QED BY <1>2, <2>1
<1>4. CASE <<r, a>> \in cached /\ Concerns(r, a)
  <2>1. ClearResults(DOMAIN data) /\ DOMAIN data # {}
    BY <1>4 DEF TweakRah, Concerns
  <2> DEFINE D == DOMAIN data
  <2>2. data' = [q \in D |-> Nothing] /\ strayed' = FALSE /\ shipCache' = Nothing
    BY <2>1 DEF ClearResults
  <2>3. ship' \in Ships \cup {NoShip} /\ D \subseteq Rahs
    BY <1>1 DEF RahInv, RahShape
  <2> HIDE DEF D
  <2> QED BY <1>1, <1>2, <2>2, <2>3, DroppedInv
<1>5. CASE ~(<<r, a>> \in cached /\ Concerns(r, a))
  <2>1. UNCHANGED <<data, shipCache, strayed>> /\ strayed' \in BOOLEAN
    BY <1>5 DEF TweakRah, Unnoticed, RahInv, RahShape
  <2>2. ASSUME NEW q \in DOMAIN data, NEW b \in Attrs \cup {"shift", "duration"},
               Concerns(q, b), <<q, b>> \in cached
        PROVE  <<q, b>> \in cached' /\ (<<q, b>> \in tweaks' <=> <<q, b>> \in tweaks)
    <3>1. <<q, b>> # <<r, a>>
      BY <1>5, <2>2
    <3> QED BY <1>1, <1>2, <2>2, <3>1
  <2>3. Steady
    BY <1>1, <1>3, <2>1, <2>2 DEF Steady, incoming_dmg
  <2> QED BY <1>1, <1>2, <1>3, <2>1, <2>3, UnnoticedInv
<1> QED BY <1>4, <1>5

-----------------------------------------------------------------------------
(* Results are those of a simulation from scratch.                         *)

\* Each of its ticks follows from the one before.
LEMMA RunTicks ==
  /\ Run = [n \in 1..MaxTicks |-> Run[n]]
  /\ Run[1] = Start
  /\ \A n \in 1..MaxTicks - 1 : Run[n + 1] = Following(Run[n])
<1> DEFINE m == MaxTicks - 1
           q == [n \in 1..m |-> n]
           Chain(s, k) == /\ DOMAIN s = 1..k + 1 /\ s = [n \in 1..k + 1 |-> s[n]]
                          /\ s[1] = Start
                          /\ \A n \in 1..k : s[n + 1] = Following(s[n])
<1>1. MaxTicks \in Nat \ {0, 1} /\ m \in Nat /\ m + 1 = MaxTicks
  BY RahAssumption DEF RahAssumption
<1>2. Len(q) = m /\ \A k \in 1..m : q[k] = k
  BY <1>1
<1> HIDE DEF q
<1>3. PICK passed : /\ passed[0] = <<Start>> /\ passed[Len(q)] = Ticks!All(<<Start>>, q)
                    /\ \A k \in 1..Len(q) : passed[k] = NextTick(passed[k - 1], q[k])
  <2>1. Len(q) \in Nat
    BY <1>1, <1>2
  <2> HIDE DEF m
  <2> QED BY <2>1, Ticks!Trace, Z3
<1>4. \A run, n : NextTick(run, n) = Append(run, Following(run[n]))
  BY DEF NextTick, Following
<1> DEFINE T == {k \in 0..m : Chain(passed[k], k)}
<1>5. 0 \in T
  BY <1>1, <1>3
<1>6. \A k \in 1..m : k - 1 \in T => k \in T
  <2> SUFFICES ASSUME NEW k \in 1..m, Chain(passed[k - 1], k - 1)
               PROVE  Chain(passed[k], k)
    <3> HIDE DEF Chain
    <3> QED BY <1>1
  <2> DEFINE s == passed[k - 1]
             t == passed[k]
  <2>1. k - 1 + 1 = k /\ k \in Nat \ {0}
    OBVIOUS
  <2>2. DOMAIN s = 1..k /\ s = [n \in 1..k |-> s[n]] /\ s[1] = Start
    BY <2>1
  <2>3. \A n \in 1..k - 1 : s[n + 1] = Following(s[n])
    OBVIOUS
  <2>4. t = Append(s, Following(s[k]))
    BY <1>2, <1>3, <1>4
  <2> HIDE DEF s, t
  <2>5. t = [n \in 1..k + 1 |-> IF n = k + 1 THEN Following(s[k]) ELSE s[n]]
    <3>1. Len(s) = k
      BY <2>1, <2>2
    <3>2. \A e : Append(s, e) = [n \in 1..k + 1 |-> IF n = k + 1 THEN e ELSE s[n]]
      BY <2>1, <2>2, <3>1, AppendIs
    <3> QED BY <2>4, <3>2
  <2>6. \A n \in 1..k : t[n] = s[n]
    BY <2>1, <2>5
  <2>7. t[k + 1] = Following(s[k])
    BY <2>1, <2>5
  <2>8. \A n \in 1..k : t[n + 1] = Following(t[n])
    <3> TAKE n \in 1..k
    <3>1. CASE n = k
      BY <2>6, <2>7, <3>1
    <3>2. CASE n # k
      <4>1. n \in 1..k - 1 /\ n + 1 \in 1..k
        BY <3>2
      <4> QED BY <2>3, <2>6, <4>1
    <3> QED BY <3>1, <3>2
  <2>9. t[1] = Start
    BY <2>1, <2>2, <2>6
  <2> QED BY <2>5, <2>8, <2>9 DEF t
<1>7. m \in T
  <2> HIDE DEF T
  <2>1. 0..m \subseteq T
    BY <1>1, <1>5, <1>6, Ticks!Upward
  <2> QED BY <1>1, <2>1
<1>8. Run = passed[m]
  BY <1>2, <1>3 DEF Run, q
<1>9. Chain(Run, m)
  BY <1>7, <1>8
<1> QED BY <1>1, <1>9

\* It goes through the ticks of any simulation of the same.
LEMMA RunWalk ==
  ASSUME NEW h \in 1..MaxTicks, NEW st, Walk(st, h)
  PROVE  \A n \in 1..h : Run[n] = st[n]
<1> DEFINE m == h - 1
           T == {k \in 0..m : Run[k + 1] = st[k + 1]}
<1>1. MaxTicks \in Nat /\ m \in Nat /\ m + 1 = h
  BY RahAssumption DEF RahAssumption
<1>2. 0 \in T
  BY <1>1, RunTicks DEF Walk
<1>3. \A k \in 1..m : k - 1 \in T => k \in T
  <2> SUFFICES ASSUME NEW k \in 1..m, Run[k] = st[k]
               PROVE  Run[k + 1] = st[k + 1]
    OBVIOUS
  <2>1. k \in 1..MaxTicks - 1 /\ k \in 1..h - 1
    BY <1>1
  <2> QED BY <2>1, RunTicks DEF Walk
<1> HIDE DEF T
<1>4. 0..m \subseteq T
  BY <1>1, <1>2, <1>3, Ticks!Upward
<1>5. \A n \in 1..h : n - 1 \in 0..m /\ n - 1 + 1 = n
  BY <1>1
<1> QED BY <1>4, <1>5 DEF T

\* A part of a sequence.
LEMMA SubSeqIs ==
  ASSUME NEW s, NEW m \in Nat, NEW n \in Nat
  PROVE  SubSeq(s, m, n) = [i \in 1..n - m + 1 |-> s[m + i - 1]]
OBVIOUS

\* Kept results are the outcome of the run.
LEMMA SettledScratch ==
  ASSUME RahShape, DOMAIN data # {}, Settled
  PROVE  data = FromScratch
<1>1. CASE ship = NoShip
  BY <1>1 DEF Settled, FromScratch
<1>2. CASE ship # NoShip
  <2>1a. PICK h \in 1..MaxTicks : \E st :
          /\ Walk(st, h) /\ Going(st, h)
          /\ \/ EndsUnroundable(st, h) \/ EndsShiftless(st, h)
             \/ EndsInLoop(st, h) \/ EndsExhausted(st, h)
    BY <1>2 DEF Settled
  <2>1. PICK st :
          /\ Walk(st, h) /\ Going(st, h)
          /\ \/ EndsUnroundable(st, h) \/ EndsShiftless(st, h)
             \/ EndsInLoop(st, h) \/ EndsExhausted(st, h)
    BY <2>1a
  <2>2. PICK run : run = Run
    OBVIOUS
  <2>3. \A n \in 1..h : run[n] = st[n]
    BY <2>1, <2>2, RunWalk
  <2> DEFINE M == MaxTicks
             states == [n \in 1..M |-> StateOf(run[n])]
             again == {n \in 1..M : \E i \in 1..(n - 1) : states[i] = states[n]}
             over == IF again = {} THEN M ELSE Min(again)
             same == {i \in 1..over : states[i] = states[over]}
             from == Min(same)
             used == IF again = {} THEN Adapted(states) ELSE SubSeq(states, from, over - 1)
             fails == \E n \in 1..over :
                        \/ Unroundable(run[n].resos)
                        \/ n < over /\ (\E r \in cycled(run[n]) : ShiftAmount[r] = NoAttr)
  <2>4. Outcome(run) = IF fails \/ (again = {} /\ Unestimable # {}) THEN Unsimulated
                       ELSE Averaged(used, run[over].resos)
    BY DEF Outcome, StateOf
  <2>5. FromScratch = Outcome(run)
    <3>1. \E o \in {Outcome(x) : x \in {Run}} : TRUE
      OBVIOUS
    <3>2. \A o \in {Outcome(x) : x \in {Run}} : o = Outcome(run)
      BY <2>2
    <3> QED BY <1>2, <3>1, <3>2 DEF FromScratch
  <2>6. M \in Nat \ {0, 1} /\ h \in 1..M /\ h \in Nat
    BY RahAssumption DEF RahAssumption
  <2>7. \A n \in 1..h : states[n] = StateOf(st[n])
    BY <2>3, <2>6
  <2>8. again \subseteq 1..M /\ again \cap (1..h - 1) = {}
    <3> SUFFICES ASSUME NEW n \in 1..h - 1, NEW i \in 1..n - 1, states[i] = states[n]
                 PROVE  FALSE
      OBVIOUS
    <3>1. i \in 1..h - 1 /\ i # n /\ i \in 1..h /\ n \in 1..h
      BY <2>6
    <3> QED BY <2>1, <2>7, <3>1 DEF Going
  <2>9. /\ over \in 1..M /\ over >= h
        /\ again # {} => over \in again /\ \A n \in again : over <= n
        /\ again = {} => over = M
    <3>1. again \subseteq Nat
      BY <2>8
    <3> HIDE DEF again
    <3>2. CASE again = {}
      BY <2>6, <3>2
    <3>3. CASE again # {}
      <4>1. over \in again /\ \A n \in again : over <= n
        BY <3>1, <3>3, LeastMember
      <4> HIDE DEF over
      <4>2. over \in 1..M /\ over \notin 1..h - 1
        BY <2>8, <4>1
      <4>3. over >= h
        BY <2>6, <4>2
      <4> QED BY <3>3, <4>1, <4>2, <4>3
    <3> QED BY <3>2, <3>3
  <2> HIDE DEF states, again, over, same, from, used, fails
  <2>10. CASE EndsUnroundable(st, h)
    <3>1. Unroundable(run[h].resos)
      BY <2>3, <2>6, <2>10 DEF EndsUnroundable
    <3>2. h \in 1..over
      BY <2>6, <2>9
    <3>3. fails
      BY <3>1, <3>2 DEF fails
    <3> QED BY <2>4, <2>5, <2>10, <3>3 DEF EndsUnroundable
  <2>11. New(st, h) => h \notin again
    <3> SUFFICES ASSUME New(st, h), NEW i \in 1..h - 1, states[i] = states[h]
                 PROVE  FALSE
      BY DEF again
    <3>1. i \in 1..h /\ h \in 1..h
      BY <2>6
    <3> QED BY <2>7, <3>1 DEF New
  <2>12. CASE EndsShiftless(st, h)
    <3>1. over > h
      BY <2>6, <2>9, <2>11, <2>12 DEF EndsShiftless
    <3>2. \E r \in cycled(run[h]) : ShiftAmount[r] = NoAttr
      BY <2>3, <2>6, <2>12 DEF EndsShiftless
    <3>3. h \in 1..over /\ h < over
      BY <2>6, <2>9, <3>1
    <3>4. fails
      BY <3>2, <3>3 DEF fails
    <3> QED BY <2>4, <2>5, <2>12, <3>4 DEF EndsShiftless
  <2>13. over = h /\ ~Unroundable(st[h].resos) => ~fails
    <3> SUFFICES ASSUME over = h, ~Unroundable(st[h].resos), NEW n \in 1..h
                 PROVE  /\ ~Unroundable(run[n].resos)
                        /\ n < h => \A r \in cycled(run[n]) : ShiftAmount[r] # NoAttr
      BY DEF fails
    <3>1. run[n] = st[n]
      BY <2>3
    <3>2. n = h \/ n \in 1..h - 1
      BY <2>6
    <3> QED BY <2>1, <3>1, <3>2 DEF Going
  <2>14. CASE EndsInLoop(st, h)
    <3>1. ~Unroundable(st[h].resos) /\ Loop(st, h) # {}
      BY <2>14 DEF EndsInLoop
    <3>2. h \in again
      <4>1. \E i \in 1..h - 1 : states[i] = states[h]
        <5>1. PICK i \in 1..h - 1 : StateOf(st[i]) = StateOf(st[h])
          BY <3>1 DEF Loop
        <5>2. i \in 1..h /\ h \in 1..h
          BY <2>6
        <5> QED BY <2>7, <5>1, <5>2
      <4> QED BY <2>6, <4>1 DEF again
    <3>3. over = h /\ again # {}
      BY <2>6, <2>9, <3>2
    <3>4. same = Loop(st, h) \cup {h}
      <4>1. \A i \in 1..h : i = h \/ i \in 1..h - 1
        BY <2>6
      <4>2. \A i \in 1..h - 1 : i \in 1..h
        BY <2>6
      <4>3. h \in 1..h
        BY <2>6
      <4> QED BY <2>7, <3>3, <4>1, <4>2, <4>3 DEF same, Loop
    <3>5. from = Min(Loop(st, h)) /\ from \in 1..h - 1
      <4>1. Loop(st, h) \subseteq 1..h - 1 /\ Loop(st, h) \subseteq Nat
        BY DEF Loop
      <4>2. PICK m : m = Min(Loop(st, h)) /\ m \in Loop(st, h) /\ \A i \in Loop(st, h) : m <= i
        BY <3>1, <4>1, LeastMember
      <4>3. same # {} /\ same \subseteq Nat
        BY <2>6, <3>4, <4>1
      <4>4. from \in same /\ \A i \in same : from <= i
        BY <4>3, LeastMember DEF from
      <4>5. from <= m /\ (from = h \/ m <= from)
        BY <3>4, <4>2, <4>4
      <4>6. m \in 1..h - 1 /\ from \in Nat
        BY <4>1, <4>2, <4>3, <4>4
      <4> QED BY <2>6, <4>2, <4>5, <4>6
    <3>6. used = SubSeq(States(st, h - 1), Min(Loop(st, h)), h - 1)
      <4>1. used = SubSeq(states, from, h - 1)
        BY <3>3 DEF used
      <4>2. h - 1 \in Nat /\ from \in Nat
        BY <2>6, <3>5
      <4>3. SubSeq(states, from, h - 1) = [i \in 1..h - 1 - from + 1 |-> states[from + i - 1]]
        BY <4>2, SubSeqIs
      <4>4. SubSeq(States(st, h - 1), from, h - 1)
              = [i \in 1..h - 1 - from + 1 |-> States(st, h - 1)[from + i - 1]]
        BY <4>2, SubSeqIs
      <4>5. \A i \in 1..h - 1 - from + 1 : states[from + i - 1] = States(st, h - 1)[from + i - 1]
        <5> TAKE i \in 1..h - 1 - from + 1
        <5>1. from + i - 1 \in 1..h - 1 /\ from + i - 1 \in 1..h
          BY <2>6, <3>5
        <5> QED BY <2>7, <5>1 DEF States
      <4>6. SubSeq(states, from, h - 1) = SubSeq(States(st, h - 1), from, h - 1)
        BY <4>3, <4>4, <4>5
      <4> QED BY <3>5, <4>1, <4>6
    <3>7. run[over].resos = st[h].resos
      BY <2>3, <2>6, <3>3
    <3>8. ~fails
      BY <2>13, <3>1, <3>3
    <3> QED BY <2>4, <2>5, <2>14, <3>3, <3>6, <3>7, <3>8 DEF EndsInLoop
  <2>15. CASE EndsExhausted(st, h)
    <3>1. h = M /\ h \notin again /\ ~Unroundable(st[h].resos)
      BY <2>11, <2>15 DEF EndsExhausted, New
    <3>2. again = {} /\ over = h
      <4>1. \A n \in again : n = h \/ n \in 1..h - 1
        BY <2>6, <2>8, <3>1
      <4>2. again = {}
        BY <2>8, <3>1, <4>1
      <4> QED BY <2>9, <3>1, <4>2
    <3>3. ~fails
      BY <2>13, <3>1, <3>2
    <3>4. states = States(st, h)
      BY <2>3, <3>1 DEF states, States
    <3>5. run[over].resos = st[h].resos
      BY <2>3, <2>6, <3>2
    <3>6. used = Adapted(States(st, h))
      BY <3>2, <3>4 DEF used
    <3>7. data = IF Unestimable = {} THEN Averaged(used, run[over].resos) ELSE Unsimulated
      BY <2>15, <3>5, <3>6 DEF EndsExhausted
    <3> QED BY <2>4, <2>5, <3>2, <3>3, <3>7
  <2> QED BY <2>1, <2>10, <2>12, <2>14, <2>15
<1> QED BY <1>1, <1>2

-----------------------------------------------------------------------------
(* The theorems.                                                           *)

\* The invariant holds at the start.
LEMMA RahInitInv == RahInit => RahInv
<1> SUFFICES ASSUME RahInit PROVE RahInv
  OBVIOUS
<1>1. RahShape
  BY DEF RahInit, RahShape, Filled, Nothing
<1>2. RahHull
  BY DEF RahInit, RahHull, Nothing
<1>3. RahStage
  BY DEF RahInit, RahStage, Kept, Nothing
<1> QED BY <1>1, <1>2, <1>3 DEF RahInv

\* It holds on when nothing happens.
LEMMA RahStutter ==
  ASSUME RahInv, UNCHANGED rahVars
  PROVE  RahInv'
<1>1. /\ UNCHANGED <<ship, default_dmg, rah_dmg, tweaks, data, running, shipCache, cached, sim,
                     reader, strayed>>
      /\ UNCHANGED inputs /\ DOMAIN data' = DOMAIN data /\ incoming_dmg' = incoming_dmg
  BY DEF rahVars, inputs, incoming_dmg
<1>2. RahShape'
  BY <1>1 DEF RahInv, RahShape, Filled
<1>3. RahHull'
  BY <1>1, HullKept DEF RahInv
<1>4. Steady
  BY <1>1 DEF Steady
<1>5. CASE ~running
  <2>1. Kept' = Kept
    BY <1>1 DEF Kept
  <2> QED BY <1>1, <1>2, <1>3, <1>4, <1>5, <2>1, OutsideInv DEF RahInv, RahStage
<1>6. CASE running
  <2>1. Filled /\ ~strayed /\ DOMAIN data # {}
    BY <1>6 DEF RahInv, RahStage
  <2>2. sim = Idle => Settled'
    BY <1>2, <1>4, <1>6, <2>1, SettledKept DEF RahInv, RahShape, RahStage
  <2>3. sim # Idle => \E h \in 0..MaxTicks - 1 : UnderWay(h)'
    <3> SUFFICES ASSUME sim # Idle PROVE \E h \in 0..MaxTicks - 1 : UnderWay(h)'
      OBVIOUS
    <3>1. PICK h \in 0..MaxTicks - 1 : UnderWay(h)
      BY <1>6 DEF RahInv, RahStage
    <3>2. CASE h = 0
      <4>1. Unsimulated' = Unsimulated /\ Begun' = Begun
        BY <1>1, StepSame DEF Begun
      <4> QED BY <1>1, <3>1, <3>2, <4>1 DEF UnderWay
    <3>3. CASE h # 0
      <4>1. h \in Nat \ {0}
        BY <3>3, RahAssumption DEF RahAssumption
      <4>2. PICK st :
              /\ Walk(st, h) /\ Going(st, h) /\ Seen(st, h) /\ New(st, h)
              /\ sim.history = States(st, h)
              /\ sim.cycling = st[h].cycling /\ sim.damage = st[h].damage /\ data = st[h].resos
        BY <3>1, <4>1 DEF UnderWay
      <4>3. Walk(st, h)' /\ Going(st, h)'
        BY <1>1, <4>1, <4>2, StepWalk
      <4>4. \A s : cycled(s)' = cycled(s)
        BY <1>1, StepSame
      <4>5. Seen(st, h)'
        BY <1>1, <4>2, <4>4 DEF Seen
      <4>6. \E s : /\ Walk(s, h)' /\ Going(s, h)' /\ Seen(s, h)' /\ New(s, h)
                   /\ sim'.history = States(s, h)
                   /\ sim'.cycling = s[h].cycling /\ sim'.damage = s[h].damage
                   /\ data' = s[h].resos
        BY <1>1, <4>2, <4>3, <4>5
      <4> QED BY <1>1, <3>1, <3>3, <4>6 DEF UnderWay, New, States
    <3> QED BY <3>2, <3>3
  <2>4. /\ running' /\ Filled' /\ ~strayed' /\ DOMAIN data' # {}
        /\ reader'[1] = "ship" => ship' # NoShip /\ reader'[2] \in Attrs
        /\ sim' # Idle => ship' # NoShip
    BY <1>1, <1>6, <2>1 DEF RahInv, RahStage, Filled
  <2>5. /\ sim' = Idle => Settled'
        /\ sim' # Idle => \E h \in 0..MaxTicks - 1 : UnderWay(h)'
    BY <1>1, <2>2, <2>3
  <2>6. RahStage'
    BY <2>4, <2>5 DEF RahStage
  <2> QED BY <1>2, <1>3, <2>6 DEF RahInv
<1> QED BY <1>5, <1>6

\* Every step keeps it: one case per action.
LEMMA RahStep == RahInv /\ [RahNext]_rahVars => RahInv'
<1> SUFFICES ASSUME RahInv, [RahNext]_rahVars PROVE RahInv'
  OBVIOUS
<1>1. CASE simulating /\ SimRaises(after)
  BY <1>1, RaisesInv
<1>2. CASE simulating /\ SimLoops(after)
  BY <1>2, LoopsInv
<1>3. CASE simulating /\ SimTick(after)
  BY <1>3, TickInv
<1>4. CASE simulating /\ SimExhausted(after)
  BY <1>4, ExhaustedInv
<1>5. CASE Finish
  BY <1>5, FinishInv
<1>6. ASSUME NEW r \in Rahs, ReadRah(r) \/ StartRah(r) PROVE RahInv'
  BY <1>6, ReadRahInv, StartRahInv
<1>7. ASSUME NEW r \in Rahs, NEW removed \in BOOLEAN, StopRah(r, removed) PROVE RahInv'
  BY <1>7, StopRahInv
<1>8. ASSUME NEW a \in ReadAttrs, ReadShip(a) PROVE RahInv'
  BY <1>8, ReadShipInv
<1>9. ASSUME NEW s \in Ships \cup {NoShip}, SetShip(s) PROVE RahInv'
  BY <1>9, SetShipInv
<1>10. ASSUME NEW profile \in Profiles, SetDefaultDmg(profile) PROVE RahInv'
  BY <1>10, SetDefaultDmgInv
<1>11. ASSUME NEW profile \in Profiles \cup {NoProfile}, SetRahDmg(profile) PROVE RahInv'
  BY <1>11, SetRahDmgInv
<1>12. ASSUME NEW a \in Attrs, TweakShip(a) PROVE RahInv'
  BY <1>12, TweakShipInv
<1>13. ASSUME NEW r \in Rahs, NEW a \in Attrs \cup {"shift", "duration"}, TweakRah(r, a)
       PROVE  RahInv'
  BY <1>13, TweakRahInv
<1>14. CASE UNCHANGED rahVars
  BY <1>14, RahStutter
<1> QED BY <1>1, <1>2, <1>3, <1>4, <1>5, <1>6, <1>7, <1>8, <1>9, <1>10, <1>11, <1>12, <1>13,
           <1>14 DEF RahNext, Simulation

\* RahInv is inductive: what a running simulation has done so far, what the RAHs' maps keep of it,
\* and what its end has left behind belong together after any calls.
THEOREM RahInductive == RahSpec => []RahInv
BY RahInitInv, RahStep, PTL DEF RahSpec

\* For any RAHs, ships, profiles and modifiers, results are resonances that are numbers, whatever
\* a simulation runs into, and outside a simulation nothing of one is left (get_reso, _notify).
THEOREM RahTypeHolds == RahSpec => []RahTypeOK
<1>1. RahInv => RahTypeOK
  BY DEF RahInv, RahShape, RahStage, RahTypeOK, Filled, Reso
<1> QED BY <1>1, RahInductive, PTL

\* Whatever profiles, RAHs, ships and modifiers do, reads find either all results or none, and what
\* the ship's map keeps is what the RAHs' resonances make of it (MutableAttrMap.__getitem__ and the
\* announcements of get_reso).
THEOREM ShipTrueHolds == RahSpec => []ShipTrue
<1>1. RahInv => ShipTrue
  <2> SUFFICES ASSUME RahInv PROVE ShipTrue
    OBVIOUS
  <2>1. Filled => \A r \in DOMAIN data : data[r] # Nothing
    BY NothingIsNoReso DEF Filled
  <2>2. Kept => Filled
    BY DEF Kept, RahInv, RahShape
  <2> QED BY <2>1, <2>2 DEF ShipTrue, RahInv, RahHull
<1> QED BY <1>1, RahInductive, PTL

\* Results that no unannounced change has reached are those of a simulation from scratch: in any
\* order of reads and changes, for any number of RAHs and ticks (the docstring of
\* ReactiveArmorHardenerSimulator).
THEOREM ResultsFreshHolds == RahSpec => []ResultsFresh
<1>1. RahInv => ResultsFresh
  <2> SUFFICES ASSUME RahInv, ~strayed, ~running, Kept PROVE data = FromScratch
    BY DEF ResultsFresh, ResultsCurrent
  <2>1. Settled /\ RahShape
    BY DEF RahInv, RahStage
  <2>2. DOMAIN data # {}
    BY DEF Kept
  <2> QED BY <2>1, <2>2, SettledScratch
<1> QED BY <1>1, RahInductive, PTL
=============================================================================
