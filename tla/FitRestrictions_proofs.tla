----------------------- MODULE FitRestrictions_proofs -----------------------
(***************************************************************************)
(* Proofs about FitRestrictions: registers that are fed by messages        *)
(* implement the rules, for any items, catalogue and calls.                *)
(***************************************************************************)
EXTENDS FitRestrictions, FiniteSetTheorems, SequenceTheorems, TLAPS
-----------------------------------------------------------------------------
(* Sums.  SumFunction takes the elements of the domain one after the other. *)

Picked(s) == CHOOSE x \in s : TRUE

\* What a finite set is without the element that is taken next.
LEMMA Without ==
  ASSUME NEW D, IsFiniteSet(D), NEW s \in SUBSET D
  PROVE  /\ Cardinality(s) \in 0..Cardinality(D) /\ Cardinality(D) \in Nat
         /\ s = {} <=> Cardinality(s) = 0
         /\ s # {} => /\ Picked(s) \in s /\ s \ {Picked(s)} \in SUBSET D
                      /\ Cardinality(s \ {Picked(s)}) = Cardinality(s) - 1
<1>1. IsFiniteSet(s) /\ Cardinality(s) <= Cardinality(D)
  BY FS_Subset
<1>2. Cardinality(s) \in Nat /\ Cardinality(D) \in Nat
  BY <1>1, FS_CardinalityType
<1>3. s = {} <=> Cardinality(s) = 0
  BY <1>1, FS_EmptySet
<1>4. ASSUME s # {}
      PROVE  Picked(s) \in s /\ Cardinality(s \ {Picked(s)}) = Cardinality(s) - 1
  <2>1. Picked(s) \in s
    BY <1>4 DEF Picked
  <2> QED BY <1>1, <2>1, FS_RemoveElement
<1> QED BY <1>1, <1>2, <1>3, <1>4

\* A property that passes from each set to those with one more element holds of
\* the whole.
LEMMA ElementByElement ==
  ASSUME NEW D, IsFiniteSet(D), NEW Good, {} \in Good,
         \A s \in SUBSET D : s # {} /\ s \ {Picked(s)} \in Good => s \in Good
  PROVE  D \in Good
<1> DEFINE n == Cardinality(D)
           T == {m \in 0..n : \A s \in SUBSET D : Cardinality(s) = m => s \in Good}
<1>0. \A s \in SUBSET D :
        /\ Cardinality(s) \in 0..Cardinality(D) /\ Cardinality(D) \in Nat
        /\ s = {} <=> Cardinality(s) = 0
  BY Without
<1>1. n \in Nat
  BY FS_CardinalityType
<1>2. 0 \in T
  <2>1. \A s \in SUBSET D : Cardinality(s) = 0 => s \in Good
    BY <1>0
  <2> QED BY <1>1, <2>1
<1>3. ASSUME NEW m \in 1..n, m - 1 \in T
      PROVE  m \in T
  <2>1. m \in 0..n /\ m # 0
    BY <1>1
  <2>2. ASSUME NEW s \in SUBSET D, Cardinality(s) = m
        PROVE  s \in Good
    <3>1. s # {} /\ s \ {Picked(s)} \in SUBSET D /\ Cardinality(s \ {Picked(s)}) = m - 1
      BY <2>1, <2>2, Without
    <3>2. s \ {Picked(s)} \in Good
      BY <1>3, <3>1
    <3> QED BY <3>1, <3>2
  <2> QED BY <2>1, <2>2
<1> HIDE DEF T, n
<1>4. n \in T
  BY <1>1, <1>2, <1>3, Delivery!Upward
<1> QED BY <1>4 DEF T, n

\* The sums over the subsets of a domain.
Sums(D, f, h) ==
  /\ h[{}] = 0 /\ h[D] = SumFunction(f)
  /\ \A s \in SUBSET D : s # {} => h[s] = f[Picked(s)] + h[s \ {Picked(s)}]

\* The sums over all subsets of a finite set, one element after the other.
LEMMA PartialSums ==
  ASSUME NEW D, IsFiniteSet(D), NEW f, DOMAIN f = D
  PROVE  \E h : Sums(D, f, h)
<1> DEFINE n == Cardinality(D)
           Small(m) == {s \in SUBSET D : Cardinality(s) <= m}
           Ran(m, g) == g = [s \in Small(m) |-> IF s = {} THEN 0
                                                ELSE f[Picked(s)] + g[s \ {Picked(s)}]]
           T == {m \in 0..n : \E g : Ran(m, g)}
<1>0. \A s \in SUBSET D :
        /\ Cardinality(s) \in 0..Cardinality(D) /\ Cardinality(D) \in Nat
        /\ s = {} <=> Cardinality(s) = 0
  BY Without
<1>1. n \in Nat
  BY FS_CardinalityType
<1>2. 0 \in T
  <2> DEFINE g == [s \in Small(0) |-> 0]
  <2>1. \A s \in Small(0) : s = {}
    <3>1. \A s \in Small(0) : Cardinality(s) \in Nat /\ Cardinality(s) <= 0
      BY <1>0
    <3>2. \A m \in Nat : m <= 0 => m = 0
      OBVIOUS
    <3> QED BY <1>0, <3>1, <3>2
  <2>2. Ran(0, g)
    BY <2>1
  <2> HIDE DEF g, Ran
  <2> QED BY <1>1, <2>2
<1>3. ASSUME NEW m \in 1..n, m - 1 \in T
      PROVE  m \in T
  <2>1. PICK h : Ran(m - 1, h)
    BY <1>3
  <2>2. m \in 0..n /\ m \in Nat /\ m # 0
    BY <1>1
  <2> DEFINE g == [s \in Small(m) |-> IF Cardinality(s) = m
                                      THEN f[Picked(s)] + h[s \ {Picked(s)}] ELSE h[s]]
  <2>3. \A s \in Small(m - 1) : h[s] = IF s = {} THEN 0 ELSE f[Picked(s)] + h[s \ {Picked(s)}]
    BY <2>1
  <2>4. ASSUME NEW s \in Small(m)
        PROVE  g[s] = IF s = {} THEN 0 ELSE f[Picked(s)] + g[s \ {Picked(s)}]
    <3>1. Cardinality(s) \in Nat /\ Cardinality(s) <= m /\ (s = {} <=> Cardinality(s) = 0)
      BY <1>0
    <3>2. CASE s = {}
      <4>1. Cardinality(s) # m /\ s \in Small(m - 1)
        BY <2>2, <3>1, <3>2
      <4>2. g[s] = h[s]
        BY <4>1
      <4> HIDE DEF g
      <4> QED BY <2>3, <3>2, <4>1, <4>2
    <3>3. CASE s # {}
      <4> DEFINE u == s \ {Picked(s)}
      <4>1. u \in SUBSET D /\ Cardinality(u) = Cardinality(s) - 1
        BY <3>3, Without
      <4>2. u \in Small(m) /\ Cardinality(u) # m
        BY <2>2, <3>1, <4>1
      <4> HIDE DEF u
      <4>3. g[u] = h[u]
        BY <4>2
      <4>4. CASE Cardinality(s) = m
        <5>1. g[s] = f[Picked(s)] + h[u]
          BY <4>4 DEF u
        <5> HIDE DEF g
        <5> QED BY <3>3, <4>3, <5>1 DEF u
      <4>5. CASE Cardinality(s) # m
        <5>1. s \in Small(m - 1) /\ g[s] = h[s]
          BY <2>2, <3>1, <4>5
        <5> HIDE DEF g
        <5> QED BY <2>3, <3>3, <4>3, <5>1 DEF u
      <4> QED BY <4>4, <4>5
    <3> QED BY <3>2, <3>3
  <2>5. g = [s \in Small(m) |-> g[s]]
    OBVIOUS
  <2> HIDE DEF g
  <2>6. Ran(m, g)
    BY <2>4, <2>5
  <2> QED BY <2>2, <2>6
<1> HIDE DEF T, n
<1>4. n \in T
  BY <1>1, <1>2, <1>3, Delivery!Upward
<1>5. Small(n) = SUBSET D
  <2>1. \A s \in SUBSET D : Cardinality(s) <= n
    BY <1>0, <1>1 DEF n
  <2> QED BY <2>1
<1>6. PICK g : g = [s \in SUBSET D |-> IF s = {} THEN 0
                                       ELSE f[Picked(s)] + g[s \ {Picked(s)}]]
  <2>1. PICK g : Ran(n, g)
    BY <1>4 DEF T
  <2> QED BY <1>5, <2>1
<1> DEFINE h == CHOOSE e : e = [s \in SUBSET D |-> IF s = {} THEN 0
                                  ELSE f[Picked(s)] + e[s \ {Picked(s)}]]
<1>7. h = [s \in SUBSET D |-> IF s = {} THEN 0 ELSE f[Picked(s)] + h[s \ {Picked(s)}]]
  BY <1>6
<1>8. SumFunction(f) = h[D]
  BY DEF SumFunction, SumFunctionOnSet, FoldFunctionOnSet, MapThenFoldSet, Picked
<1> HIDE DEF h
<1>9. \A s \in SUBSET D : h[s] = IF s = {} THEN 0 ELSE f[Picked(s)] + h[s \ {Picked(s)}]
  BY <1>7
<1>10. h[{}] = 0 /\ \A s \in SUBSET D : s # {} => h[s] = f[Picked(s)] + h[s \ {Picked(s)}]
  BY <1>9
<1> QED BY <1>8, <1>10 DEF Sums

\* A common factor of the elements is one of their sum.
LEMMA SumOfMultiples ==
  ASSUME NEW D, IsFiniteSet(D), NEW f \in [D -> Int], NEW g \in [D -> Int], NEW c \in Int,
         \A x \in D : g[x] = f[x] * c
  PROVE  SumFunction(g) = c * SumFunction(f) /\ SumFunction(f) \in Int
<1>0. DOMAIN f = D
  OBVIOUS
<1>1. PICK h : Sums(D, f, h)
  BY <1>0, PartialSums
<1>2. PICK k : Sums(D, g, k)
  <2>1. DOMAIN g = D
    OBVIOUS
  <2> QED BY <2>1, PartialSums
<1> DEFINE Good == {s \in SUBSET D : h[s] \in Int /\ k[s] = c * h[s]}
<1>3. {} \in Good
  BY <1>1, <1>2 DEF Sums
<1>4. ASSUME NEW s \in SUBSET D, s # {}, s \ {Picked(s)} \in Good
      PROVE  s \in Good
  <2>1. PICK x \in D : x = Picked(s)
    BY <1>4, Without
  <2>2. PICK a \in Int : a = f[x]
    OBVIOUS
  <2>3. PICK b \in Int : b = h[s \ {Picked(s)}]
    BY <1>4
  <2>4. h[s] = a + b
    BY <1>1, <1>4, <2>1, <2>2, <2>3 DEF Sums
  <2>5. k[s] = a * c + c * b
    BY <1>2, <1>4, <2>1, <2>2, <2>3 DEF Sums
  <2>6. a * c + c * b = c * (a + b)
    OBVIOUS
  <2> QED BY <2>4, <2>5, <2>6
<1> HIDE DEF Good
<1>5. D \in Good
  BY <1>3, <1>4, ElementByElement
<1> QED BY <1>1, <1>2, <1>5 DEF Good, Sums

\* The sum of a function that is the same everywhere but at one point.
LastApart(f, D, a, b) == SumFunction(f) = a * (Cardinality(D) - 1) + b
\* A sum of equal amounts, but for one element.
LEMMA SumOfEqual ==
  ASSUME NEW D, IsFiniteSet(D), NEW f \in [D -> Int], NEW last \in D,
         NEW a \in Int, NEW b \in Int,
         f[last] = b, \A x \in D \ {last} : f[x] = a
  PROVE  LastApart(f, D, a, b)
<1>0. DOMAIN f = D
  OBVIOUS
<1>1. PICK h : Sums(D, f, h)
  BY <1>0, PartialSums
<1> DEFINE Rest(s) == IF last \in s THEN b - a ELSE 0
           Good == {s \in SUBSET D : h[s] = a * Cardinality(s) + Rest(s)}
<1>2. {} \in Good
  BY <1>1, FS_EmptySet DEF Sums
<1>3. ASSUME NEW s \in SUBSET D, s # {}, s \ {Picked(s)} \in Good
      PROVE  s \in Good
  <2>1. PICK x \in D : x = Picked(s) /\ x \in s
    BY <1>3, Without
  <2>2. PICK m \in Nat : m = Cardinality(s) /\ Cardinality(s \ {Picked(s)}) = m - 1
    BY <1>3, Without
  <2>3. PICK r \in Int : r = Rest(s \ {Picked(s)})
    <3>1. Rest(s \ {Picked(s)}) \in Int
      OBVIOUS
    <3> QED BY <3>1
  <2>4. h[s \ {Picked(s)}] = a * (m - 1) + r
    BY <1>3, <2>2, <2>3
  <2>5. h[s] = f[x] + (a * (m - 1) + r)
    BY <1>1, <1>3, <2>1, <2>4 DEF Sums
  <2>6. CASE x = last
    <3>1. r = 0 /\ Rest(s) = b - a /\ f[x] = b
      BY <2>1, <2>3, <2>6
    <3>2. b + (a * (m - 1) + 0) = a * m + (b - a)
      OBVIOUS
    <3> QED BY <2>2, <2>5, <3>1, <3>2
  <2>7. CASE x # last
    <3>1. r = Rest(s) /\ f[x] = a
      BY <2>1, <2>3, <2>7
    <3>2. a + (a * (m - 1) + r) = a * m + r
      OBVIOUS
    <3> QED BY <2>2, <2>5, <3>1, <3>2
  <2> QED BY <2>6, <2>7
<1> HIDE DEF Good
<1>4. D \in Good
  BY <1>2, <1>3, ElementByElement
<1>5. PICK n \in Nat : n = Cardinality(D)
  BY FS_CardinalityType
<1>6. a * n + (b - a) = a * (n - 1) + b
  OBVIOUS
<1>7. h[D] = a * Cardinality(D) + (b - a)
  BY <1>4 DEF Good
<1>8. SumFunction(f) = h[D]
  BY <1>1 DEF Sums
<1> QED BY <1>5, <1>6, <1>7, <1>8 DEF LastApart

\* The rules read the contents of the fit as the registers do.
LEMMA SameContents ==
  /\ \A S : Rules!Cardinality(S) = Cardinality(S)
  /\ \A S : Rules!Max(S) = Max(S)
  /\ \A f : Rules!SumFunction(f) = SumFunction(f)
  /\ \A s, i, e : Rules!InsertAt(s, i, e) = InsertAt(s, i, e)
  /\ \A s, i : Rules!RemoveAt(s, i) = RemoveAt(s, i)
  /\ Rules!offline = offline
  /\ Rules!online = online
  /\ Rules!active = active
  /\ Rules!Modules = Modules
  /\ Rules!Singles = Singles
  /\ \A class : Rules!Of(class) = Of(class)
  /\ Rules!contents = contents
  /\ \A class : Rules!Fit(class) = Fit(class)
  /\ \A i : Rules!Type(i) = Type(i)
  /\ \A i : Rules!Position(i) = Position(i)
  /\ \A class, rack : Rules!Rack(class, rack) <=> Rack(class, rack)
  /\ Rules!Aside <=> Aside
  /\ \A s : Rules!SetSource(s) <=> SetSource(s)
  /\ \A i : Rules!Toggle(i) <=> Toggle(i)
  /\ Rules!Modify <=> Modify
  /\ Rules!Charges = Charges
  /\ Rules!Carriers = Carriers
  /\ \A class : Rules!Single(class) = Single(class)
  /\ \A rack : Rules!Trim(rack) = Trim(rack)
  /\ \A rack, n : Rules!Allocate(rack, n) = Allocate(rack, n)
  /\ Rules!Stateful = Stateful
  /\ Rules!Fitted = Fitted
  /\ \A i : Rules!OnFit(i) <=> OnFit(i)
  /\ \A i : Rules!StateOf(i) = StateOf(i)
  /\ Rules!Ship = Ship
  /\ \A i : Rules!Add(i) <=> Add(i)
  /\ \A i, p : Rules!Place(i, p) <=> Place(i, p)
  /\ \A i, p : Rules!Insert(i, p) <=> Insert(i, p)
  /\ \A i : Rules!RemoveItem(i) <=> RemoveItem(i)
  /\ \A i : Rules!Free(i) <=> Free(i)
  /\ \A m, c : Rules!SetCharge(m, c) <=> SetCharge(m, c)
  /\ Rules!InitContents <=> InitContents
  /\ \A i : Rules!IsLoaded(i) <=> IsLoaded(i)
  /\ \A i, st : Rules!SetState(i, st) <=> SetState(i, st)
  /\ \A i : Rules!TypeAttrs(i) = TypeAttrs(i)
  /\ \A i : Rules!Running(i) = Running(i)
  /\ \A i, a : Rules!Has(i, a) <=> Has(i, a)
  /\ \A i, a : Rules!TypeAttr(i, a) = TypeAttr(i, a)
  /\ \A i, a : Rules!Attr(i, a) = Attr(i, a)
<1>1. \A S : Rules!Cardinality(S) = Cardinality(S)
  BY DEF Cardinality, Rules!Cardinality
<1>2. \A S : Rules!Max(S) = Max(S)
  BY DEF Max, Rules!Max
<1>3. \A f : Rules!SumFunction(f) = SumFunction(f)
  BY Zenon DEF SumFunction, Rules!SumFunction, SumFunctionOnSet, Rules!SumFunctionOnSet,
     FoldFunctionOnSet, Rules!FoldFunctionOnSet, MapThenFoldSet, Rules!MapThenFoldSet
<1>4. \A s, i, e : Rules!InsertAt(s, i, e) = InsertAt(s, i, e)
  BY DEF InsertAt, Rules!InsertAt
<1>5. \A s, i : Rules!RemoveAt(s, i) = RemoveAt(s, i)
  BY DEF RemoveAt, Rules!RemoveAt
<1>6. Rules!offline = offline
  BY DEF offline, Rules!offline
<1>7. Rules!online = online
  BY DEF online, Rules!online
<1>8. Rules!active = active
  BY DEF active, Rules!active
<1>9. Rules!Modules = Modules
  BY DEF Modules, Rules!Modules
<1>10. Rules!Singles = Singles
  BY DEF Singles, Rules!Singles
<1>11. \A class : Rules!Of(class) = Of(class)
  BY DEF Of, Rules!Of
<1>12. Rules!contents = contents
  BY DEF contents, Rules!contents
<1>13. \A class : Rules!Fit(class) = Fit(class)
  BY DEF Fit, Rules!Fit
<1>14. \A i : Rules!Type(i) = Type(i)
  BY DEF Type, Rules!Type
<1>15. \A i : Rules!Position(i) = Position(i)
  BY DEF Position, Rules!Position
<1>16. \A class, rack : Rules!Rack(class, rack) <=> Rack(class, rack)
  BY DEF Rack, Rules!Rack
<1>17. Rules!Aside <=> Aside
  BY DEF Aside, Rules!Aside
<1>18. \A s : Rules!SetSource(s) <=> SetSource(s)
  BY DEF SetSource, Rules!SetSource
<1>19. \A i : Rules!Toggle(i) <=> Toggle(i)
  BY DEF Toggle, Rules!Toggle
<1>20. Rules!Modify <=> Modify
  BY DEF Modify, Rules!Modify
<1>21. Rules!Charges = Charges
  BY <1>11 DEF Charges, Rules!Charges
<1>22. Rules!Carriers = Carriers
  BY <1>9 DEF Carriers, Rules!Carriers
<1>23. \A class : Rules!Single(class) = Single(class)
  BY <1>13 DEF Single, Rules!Single
<1>24. \A rack : Rules!Trim(rack) = Trim(rack)
  BY <1>2 DEF Trim, Rules!Trim
<1>25. \A rack, n : Rules!Allocate(rack, n) = Allocate(rack, n)
  BY <1>2 DEF Allocate, Rules!Allocate
<1>26. Rules!Stateful = Stateful
  BY <1>11, <1>22 DEF Stateful, Rules!Stateful
<1>27. Rules!Fitted = Fitted
  BY <1>22 DEF Fitted, Rules!Fitted
<1>28. \A i : Rules!OnFit(i) <=> OnFit(i)
  BY <1>21, <1>22 DEF OnFit, Rules!OnFit
<1>29. \A i : Rules!StateOf(i) = StateOf(i)
  BY <1>2, <1>6, <1>21, <1>22 DEF StateOf, Rules!StateOf
<1>30. Rules!Ship = Ship
  BY <1>23 DEF Ship, Rules!Ship
<1>31. \A i : Rules!Add(i) <=> Add(i)
  BY <1>10, <1>21, <1>22, <1>13, <1>17 DEF Add, Rules!Add
<1>32. \A i, p : Rules!Place(i, p) <=> Place(i, p)
  BY <1>22, <1>25, <1>16, <1>17 DEF Place, Rules!Place
<1>33. \A i, p : Rules!Insert(i, p) <=> Insert(i, p)
  BY <1>4, <1>22, <1>16, <1>17 DEF Insert, Rules!Insert
<1>34. \A i : Rules!RemoveItem(i) <=> RemoveItem(i)
  BY <1>5, <1>22, <1>24, <1>15, <1>16, <1>17 DEF RemoveItem, Rules!RemoveItem
<1>35. \A i : Rules!Free(i) <=> Free(i)
  BY <1>22, <1>24, <1>15, <1>16, <1>17 DEF Free, Rules!Free
<1>36. \A m, c : Rules!SetCharge(m, c) <=> SetCharge(m, c)
  BY <1>21, <1>22 DEF SetCharge, Rules!SetCharge
<1>37. Rules!InitContents <=> InitContents
  BY <1>6, <1>9, <1>22 DEF InitContents, Rules!InitContents
<1>38. \A i : Rules!IsLoaded(i) <=> IsLoaded(i)
  BY <1>28 DEF IsLoaded, Rules!IsLoaded
<1>39. \A i, st : Rules!SetState(i, st) <=> SetState(i, st)
  BY <1>26 DEF SetState, Rules!SetState
<1>40. \A i : Rules!TypeAttrs(i) = TypeAttrs(i)
  BY <1>38, <1>14 DEF TypeAttrs, Rules!TypeAttrs
<1>41. \A i : Rules!Running(i) = Running(i)
  BY <1>6, <1>38, <1>14, <1>29 DEF Running, Rules!Running
<1>42. \A i, a : Rules!Has(i, a) <=> Has(i, a)
  BY <1>40 DEF Has, Rules!Has
<1>43. \A i, a : Rules!TypeAttr(i, a) = TypeAttr(i, a)
  BY <1>40, <1>42 DEF TypeAttr, Rules!TypeAttr
<1>44. \A i, a : Rules!Attr(i, a) = Attr(i, a)
  BY <1>42, <1>43 DEF Attr, Rules!Attr
<1> QED BY <1>1, <1>2, <1>3, <1>4, <1>5, <1>6, <1>7, <1>8, <1>9, <1>10, <1>11, <1>12, <1>13,
        <1>14, <1>15, <1>16, <1>17, <1>18, <1>19, <1>20, <1>21, <1>22, <1>23, <1>24, <1>25, <1>26,
        <1>27, <1>28, <1>29, <1>30, <1>31, <1>32, <1>33, <1>34, <1>35, <1>36, <1>37, <1>38, <1>39,
        <1>40, <1>41, <1>42, <1>43, <1>44

\* The same of damage and repairs.
LEMMA SameDamage ==
  /\ Rules!DmgTypes = DmgTypes
  /\ Rules!DmgAttr = DmgAttr
  /\ Rules!Wear = Wear
  /\ Rules!Dealers = Dealers
  /\ Rules!ArmorRepairs = ArmorRepairs
  /\ Rules!ShieldRepairs = ShieldRepairs
  /\ Rules!Endless = Endless
  /\ Rules!Unit = Unit
  /\ \A info : Rules!CycleTime(info) = CycleTime(info)
  /\ Rules!NoDamage = NoDamage
  /\ \A active_time, inactive, quantity :
       Rules!CycleInfo(active_time, inactive, quantity)
         = CycleInfo(active_time, inactive, quantity)
  /\ \A seq : Rules!AverageTime(seq) = AverageTime(seq)
  /\ \A amount, average : Rules!PerTime(amount, average) = PerTime(amount, average)
  /\ \A damage : Rules!Resisted(damage) = Resisted(damage)
  /\ \A i : Rules!get_charge(i) = get_charge(i)
  /\ \A i, e : Rules!Launched(i, e) <=> Launched(i, e)
  /\ \A i : Rules!Deals(i) <=> Deals(i)
  /\ \A i : Rules!Reloads(i) <=> Reloads(i)
  /\ \A i : Rules!AttackItem(i) = AttackItem(i)
  /\ \A i : Rules!charge_quantity(i) = charge_quantity(i)
  /\ \A i, e : Rules!DmgItem(i, e) = DmgItem(i, e)
  /\ \A i, mult : Rules!Damage(i, mult) = Damage(i, mult)
  /\ \A i : Rules!Mult(i) = Mult(i)
  /\ \A i : Rules!CyclesGeneric(i) = CyclesGeneric(i)
  /\ \A i : Rules!CyclesCrystal(i) = CyclesCrystal(i)
  /\ \A i : Rules!AttackCycles(i) = AttackCycles(i)
  /\ \A i, e : Rules!get_cycles_until_reload(i, e) = get_cycles_until_reload(i, e)
  /\ \A i, e, reload : Rules!get_cycle_parameters(i, e, reload) = get_cycle_parameters(i, e, reload)
  /\ \A i, e : Rules!get_volley(i, e) = get_volley(i, e)
  /\ \A i, e, amount : Rules!get_rps(i, e, amount) = get_rps(i, e, amount)
  /\ \A i : Rules!ItemVolley(i) = ItemVolley(i)
  /\ \A i, effects, amount : Rules!ItemRps(i, effects, amount) = ItemRps(i, effects, amount)
<1>1. Rules!DmgTypes = DmgTypes
  BY DEF DmgTypes, Rules!DmgTypes
<1>2. Rules!DmgAttr = DmgAttr
  BY DEF DmgAttr, Rules!DmgAttr
<1>3. Rules!Wear = Wear
  BY DEF Wear, Rules!Wear
<1>4. Rules!Dealers = Dealers
  BY DEF Dealers, Rules!Dealers
<1>5. Rules!ArmorRepairs = ArmorRepairs
  BY DEF ArmorRepairs, Rules!ArmorRepairs
<1>6. Rules!ShieldRepairs = ShieldRepairs
  BY DEF ShieldRepairs, Rules!ShieldRepairs
<1>7. Rules!Endless = Endless
  BY DEF Endless, Rules!Endless
<1>8. Rules!Unit = Unit
  BY DEF Unit, Rules!Unit
<1>9. \A info : Rules!CycleTime(info) = CycleTime(info)
  BY DEF CycleTime, Rules!CycleTime
<1>10. Rules!NoDamage = NoDamage
  BY <1>1 DEF NoDamage, Rules!NoDamage
<1>11. \A active_time, inactive, quantity :
         Rules!CycleInfo(active_time, inactive, quantity)
         = CycleInfo(active_time, inactive, quantity)
  BY SameContents DEF CycleInfo, Rules!CycleInfo
<1>12. \A seq : Rules!AverageTime(seq) = AverageTime(seq)
  BY <1>9, SameContents DEF AverageTime, Rules!AverageTime
<1>13. \A amount, average : Rules!PerTime(amount, average) = PerTime(amount, average)
  BY <1>8 DEF PerTime, Rules!PerTime
<1>14. \A damage : Rules!Resisted(damage) = Resisted(damage)
  BY <1>1 DEF Resisted, Rules!Resisted
<1>15. \A i : Rules!get_charge(i) = get_charge(i)
  BY SameContents DEF get_charge, Rules!get_charge
<1>16. \A i, e : Rules!Launched(i, e) <=> Launched(i, e)
  BY <1>15, SameContents DEF Launched, Rules!Launched
<1>17. \A i : Rules!Deals(i) <=> Deals(i)
  BY <1>1, <1>2, SameContents DEF Deals, Rules!Deals
<1>18. \A i : Rules!Reloads(i) <=> Reloads(i)
  BY SameContents DEF Reloads, Rules!Reloads
<1>19. \A i : Rules!AttackItem(i) = AttackItem(i)
  BY <1>15, <1>17 DEF AttackItem, Rules!AttackItem
<1>20. \A i : Rules!charge_quantity(i) = charge_quantity(i)
  BY <1>15, SameContents DEF charge_quantity, Rules!charge_quantity
<1>21. \A i, e : Rules!DmgItem(i, e) = DmgItem(i, e)
  BY <1>15, <1>19 DEF DmgItem, Rules!DmgItem
<1>22. \A i, mult : Rules!Damage(i, mult) = Damage(i, mult)
  BY <1>1, <1>2, SameContents DEF Damage, Rules!Damage
<1>23. \A i : Rules!Mult(i) = Mult(i)
  BY SameContents DEF Mult, Rules!Mult
<1>24. \A i : Rules!CyclesGeneric(i) = CyclesGeneric(i)
  BY <1>20, SameContents DEF CyclesGeneric, Rules!CyclesGeneric
<1>25. \A i : Rules!CyclesCrystal(i) = CyclesCrystal(i)
  BY <1>3, <1>7, <1>15, <1>20, SameContents DEF CyclesCrystal, Rules!CyclesCrystal
<1>26. \A i : Rules!AttackCycles(i) = AttackCycles(i)
  BY <1>7, <1>15, <1>25, <1>19 DEF AttackCycles, Rules!AttackCycles
<1>27. \A i, e : Rules!get_cycles_until_reload(i, e) = get_cycles_until_reload(i, e)
  BY <1>7, <1>24, <1>26 DEF get_cycles_until_reload, Rules!get_cycles_until_reload
<1>28. \A i, e, reload :
         Rules!get_cycle_parameters(i, e, reload) = get_cycle_parameters(i, e, reload)
  BY <1>7, <1>27, <1>18, <1>11, SameContents DEF get_cycle_parameters, Rules!get_cycle_parameters
<1>29. \A i, e : Rules!get_volley(i, e) = get_volley(i, e)
  BY <1>10, <1>21, <1>27, <1>22, <1>23, <1>16 DEF get_volley, Rules!get_volley
<1>30. \A i, e, amount : Rules!get_rps(i, e, amount) = get_rps(i, e, amount)
  BY <1>28, <1>12, <1>13, SameContents DEF get_rps, Rules!get_rps
<1>31. \A i : Rules!ItemVolley(i) = ItemVolley(i)
  BY <1>4, <1>29, <1>1, <1>14, SameContents DEF ItemVolley, Rules!ItemVolley, Combine,
     Rules!Combine
<1>32. \A i, effects, amount : Rules!ItemRps(i, effects, amount) = ItemRps(i, effects, amount)
  BY <1>30, SameContents DEF ItemRps, Rules!ItemRps
<1> QED BY <1>1, <1>2, <1>3, <1>4, <1>5, <1>6, <1>7, <1>8, <1>9, <1>10, <1>11, <1>12, <1>13,
        <1>14, <1>15, <1>16, <1>17, <1>18, <1>19, <1>20, <1>21, <1>22, <1>23, <1>24, <1>25, <1>26,
        <1>27, <1>28, <1>29, <1>30, <1>31, <1>32

\* The same of the restrictions and the answers.
LEMMA SameValidation ==
  /\ Rules!ResourceUse = ResourceUse
  /\ Rules!ShipResources = ShipResources
  /\ Rules!ResourceOutput = ResourceOutput
  /\ Rules!MaxGroupAttr = MaxGroupAttr
  /\ Rules!FighterAttr = FighterAttr
  /\ Rules!SquadSlots = SquadSlots
  /\ Rules!Hardpoints = Hardpoints
  /\ Rules!RackOf = RackOf
  /\ Rules!SetOf = SetOf
  /\ Rules!SlotAttr = SlotAttr
  /\ Rules!GroupOf = GroupOf
  /\ Rules!ByLoading = ByLoading
  /\ Rules!MAX_SUBCAP_VOLUME = MAX_SUBCAP_VOLUME
  /\ Rules!ChargeGroups = ChargeGroups
  /\ Rules!DroneGroups = DroneGroups
  /\ Rules!ShipTypes = ShipTypes
  /\ Rules!ShipGroups = ShipGroups
  /\ \A i : Rules!TakesDroneGroup(i) <=> TakesDroneGroup(i)
  /\ \A i : Rules!TakesState(i) <=> TakesState(i)
  /\ \A i : Rules!TakesLaunchedDrone(i) <=> TakesLaunchedDrone(i)
  /\ \A S : Rules!Charged(S) = Charged(S)
  /\ Rules!FighterRoles = FighterRoles
  /\ Rules!ByState = ByState
  /\ Rules!ByEffect = ByEffect
  /\ \A i : Rules!IsModule(i) <=> IsModule(i)
  /\ \A i : Rules!TakesSkillRequirement(i) <=> TakesSkillRequirement(i)
  /\ \A r : Rules!SlotsUsed(r) = SlotsUsed(r)
  /\ Rules!Registers = Registers
  /\ \A i : Rules!TakesChargeVolume(i) <=> TakesChargeVolume(i)
  /\ \A i : Rules!TakesMaxGroup(i) <=> TakesMaxGroup(i)
  /\ \A t : Rules!FighterRole(t) <=> FighterRole(t)
  /\ Rules!CategoryOf = CategoryOf
  /\ \A Rs : Rules!StateTooHigh(Rs) = StateTooHigh(Rs)
  /\ Rules!Restrictions = Restrictions
  /\ \A Rs : Rules!SkillRequirement(Rs) = SkillRequirement(Rs)
  /\ Rules!LoadedItem = LoadedItem
  /\ \A class, t : Rules!Fits(class, t) <=> Fits(class, t)
  /\ \A r, i : Rules!Heard(r, i) <=> Heard(r, i)
  /\ Rules!ItemClass = ItemClass
  /\ \A i : Rules!TakesChargeSize(i) <=> TakesChargeSize(i)
  /\ \A i, class, attr : Rules!TakesSlotIndex(i, class, attr) <=> TakesSlotIndex(i, class, attr)
  /\ \A i : Rules!TakesRigSize(i) <=> TakesRigSize(i)
  /\ \A i : Rules!TakesDroneVolume(i) <=> TakesDroneVolume(i)
  /\ \A i : Rules!TakesDroneBandwidth(i) <=> TakesDroneBandwidth(i)
  /\ \A i, attr : Rules!TakesResourceUser(i, attr) <=> TakesResourceUser(i, attr)
  /\ \A i, attrs : Rules!Values(i, attrs) = Values(i, attrs)
  /\ \A i : Rules!TakesCapitalItem(i) <=> TakesCapitalItem(i)
  /\ \A i, attr : Rules!TakesFighterSquad(i, attr) <=> TakesFighterSquad(i, attr)
  /\ \A Rs : Rules!CapitalItem(Rs) = CapitalItem(Rs)
  /\ \A Rs : Rules!ChargeSize(Rs) = ChargeSize(Rs)
  /\ \A Rs : Rules!ChargeVolume(Rs) = ChargeVolume(Rs)
  /\ \A Rs, r, attr : Rules!SlotIndex(Rs, r, attr) = SlotIndex(Rs, r, attr)
  /\ \A Rs : Rules!RigSize(Rs) = RigSize(Rs)
  /\ \A i : Rules!TakesChargeGroup(i) <=> TakesChargeGroup(i)
  /\ \A i : Rules!TakesShipTypeGroup(i) <=> TakesShipTypeGroup(i)
  /\ \A a : Rules!ShipAttr(a) = ShipAttr(a)
  /\ \A S, a : Rules!Sum(S, a) = Sum(S, a)
  /\ Rules!LaunchedDroneSlots = LaunchedDroneSlots
  /\ \A Rs : Rules!ChargeGroup(Rs) = ChargeGroup(Rs)
  /\ \A Rs : Rules!DroneGroup(Rs) = DroneGroup(Rs)
  /\ \A Rs : Rules!ShipTypeGroup(Rs) = ShipTypeGroup(Rs)
  /\ \A Rs, r : Rules!MaxGroup(Rs, r) = MaxGroup(Rs, r)
  /\ \A r, i : Rules!Takes(r, i) <=> Takes(r, i)
  /\ \A r : Rules!ShipResourceOutput(r) = ShipResourceOutput(r)
  /\ Rules!DronebayOutput = DronebayOutput
  /\ Rules!BandwidthOutput = BandwidthOutput
  /\ \A r : Rules!FighterSlots(r) = FighterSlots(r)
  /\ \A r : Rules!HardpointSlots(r) = HardpointSlots(r)
  /\ \A r : Rules!SlotsTotal(r) = SlotsTotal(r)
  /\ \A r : Rules!Output(r) = Output(r)
  /\ \A r : Rules!AssistedSlots(r) = AssistedSlots(r)
  /\ \A r : Rules!Ordered(r) = Ordered(r)
  /\ \A r : Rules!Unordered(r) = Unordered(r)
  /\ \A Rs, r : Rules!Resource(Rs, r) = Resource(Rs, r)
  /\ \A Rs, r : Rules!Assisted(Rs, r) = Assisted(Rs, r)
  /\ \A Rs, r : Rules!Tainted(Rs, r) = Tainted(Rs, r)
  /\ \A Rs : Rules!validate(Rs) = validate(Rs)
  /\ \A Rs : Rules!Volley(Rs) = Volley(Rs)
  /\ \A Rs : Rules!ArmorRps(Rs) = ArmorRps(Rs)
  /\ \A Rs : Rules!ShieldRps(Rs) = ShieldRps(Rs)
  /\ \A Rs : Rules!Answers(Rs) = Answers(Rs)
<1>1. Rules!ResourceUse = ResourceUse
  BY DEF ResourceUse, Rules!ResourceUse
<1>2. Rules!ShipResources = ShipResources
  BY DEF ShipResources, Rules!ShipResources
<1>3. Rules!ResourceOutput = ResourceOutput
  BY DEF ResourceOutput, Rules!ResourceOutput
<1>4. Rules!MaxGroupAttr = MaxGroupAttr
  BY DEF MaxGroupAttr, Rules!MaxGroupAttr
<1>5. Rules!FighterAttr = FighterAttr
  BY DEF FighterAttr, Rules!FighterAttr
<1>6. Rules!SquadSlots = SquadSlots
  BY DEF SquadSlots, Rules!SquadSlots
<1>7. Rules!Hardpoints = Hardpoints
  BY DEF Hardpoints, Rules!Hardpoints
<1>8. Rules!RackOf = RackOf
  BY DEF RackOf, Rules!RackOf
<1>9. Rules!SetOf = SetOf
  BY DEF SetOf, Rules!SetOf
<1>10. Rules!SlotAttr = SlotAttr
  BY DEF SlotAttr, Rules!SlotAttr
<1>11. Rules!GroupOf = GroupOf
  BY DEF GroupOf, Rules!GroupOf
<1>12. Rules!ByLoading = ByLoading
  BY DEF ByLoading, Rules!ByLoading
<1>13. Rules!MAX_SUBCAP_VOLUME = MAX_SUBCAP_VOLUME
  BY DEF MAX_SUBCAP_VOLUME, Rules!MAX_SUBCAP_VOLUME
<1>14. Rules!ChargeGroups = ChargeGroups
  BY DEF ChargeGroups, Rules!ChargeGroups
<1>15. Rules!DroneGroups = DroneGroups
  BY DEF DroneGroups, Rules!DroneGroups
<1>16. Rules!ShipTypes = ShipTypes
  BY DEF ShipTypes, Rules!ShipTypes
<1>17. Rules!ShipGroups = ShipGroups
  BY DEF ShipGroups, Rules!ShipGroups
<1>18. \A i : Rules!TakesDroneGroup(i) <=> TakesDroneGroup(i)
  BY DEF TakesDroneGroup, Rules!TakesDroneGroup
<1>19. \A i : Rules!TakesState(i) <=> TakesState(i)
  BY DEF TakesState, Rules!TakesState
<1>20. \A i : Rules!TakesLaunchedDrone(i) <=> TakesLaunchedDrone(i)
  BY DEF TakesLaunchedDrone, Rules!TakesLaunchedDrone
<1>21. \A S : Rules!Charged(S) = Charged(S)
  BY DEF Charged, Rules!Charged
<1>22. Rules!FighterRoles = FighterRoles
  BY <1>5 DEF FighterRoles, Rules!FighterRoles
<1>23. Rules!ByState = ByState
  BY SameContents DEF ByState, Rules!ByState
<1>24. Rules!ByEffect = ByEffect
  BY SameDamage DEF ByEffect, Rules!ByEffect
<1>25. \A i : Rules!IsModule(i) <=> IsModule(i)
  BY SameContents DEF IsModule, Rules!IsModule
<1>26. \A i : Rules!TakesSkillRequirement(i) <=> TakesSkillRequirement(i)
  BY SameContents DEF TakesSkillRequirement, Rules!TakesSkillRequirement
<1>27. \A r : Rules!SlotsUsed(r) = SlotsUsed(r)
  BY <1>8, <1>9, SameContents DEF SlotsUsed, Rules!SlotsUsed
<1>28. Rules!Registers = Registers
  BY <1>12, <1>23, <1>24 DEF Registers, Rules!Registers
<1>29. \A i : Rules!TakesChargeVolume(i) <=> TakesChargeVolume(i)
  BY SameContents DEF TakesChargeVolume, Rules!TakesChargeVolume
<1>30. \A i : Rules!TakesMaxGroup(i) <=> TakesMaxGroup(i)
  BY <1>25, SameContents DEF TakesMaxGroup, Rules!TakesMaxGroup
<1>31. \A t : Rules!FighterRole(t) <=> FighterRole(t)
  BY <1>5, <1>22 DEF FighterRole, Rules!FighterRole
<1>32. Rules!CategoryOf = CategoryOf
  BY SameContents DEF CategoryOf, Rules!CategoryOf
<1>33. \A Rs : Rules!StateTooHigh(Rs) = StateTooHigh(Rs)
  BY SameContents DEF StateTooHigh, Rules!StateTooHigh
<1>34. Rules!Restrictions = Restrictions
  BY <1>8, <1>9, <1>28 DEF Restrictions, Rules!Restrictions
<1>35. \A Rs : Rules!SkillRequirement(Rs) = SkillRequirement(Rs)
  BY SameContents DEF SkillRequirement, Rules!SkillRequirement
<1>36. Rules!LoadedItem = LoadedItem
  BY SameContents DEF LoadedItem, Rules!LoadedItem
<1>37. \A class, t : Rules!Fits(class, t) <=> Fits(class, t)
  BY <1>11, <1>32, <1>31 DEF Fits, Rules!Fits
<1>38. \A r, i : Rules!Heard(r, i) <=> Heard(r, i)
  BY <1>12, <1>23, <1>24, SameContents DEF Heard, Rules!Heard
<1>39. Rules!ItemClass = ItemClass
  BY <1>37, SameContents DEF ItemClass, Rules!ItemClass
<1>40. \A i : Rules!TakesChargeSize(i) <=> TakesChargeSize(i)
  BY SameContents DEF TakesChargeSize, Rules!TakesChargeSize
<1>41. \A i, class, attr : Rules!TakesSlotIndex(i, class, attr) <=> TakesSlotIndex(i, class, attr)
  BY SameContents DEF TakesSlotIndex, Rules!TakesSlotIndex
<1>42. \A i : Rules!TakesRigSize(i) <=> TakesRigSize(i)
  BY SameContents DEF TakesRigSize, Rules!TakesRigSize
<1>43. \A i : Rules!TakesDroneVolume(i) <=> TakesDroneVolume(i)
  BY SameContents DEF TakesDroneVolume, Rules!TakesDroneVolume
<1>44. \A i : Rules!TakesDroneBandwidth(i) <=> TakesDroneBandwidth(i)
  BY SameContents DEF TakesDroneBandwidth, Rules!TakesDroneBandwidth
<1>45. \A i, attr : Rules!TakesResourceUser(i, attr) <=> TakesResourceUser(i, attr)
  BY SameContents DEF TakesResourceUser, Rules!TakesResourceUser
<1>46. \A i, attrs : Rules!Values(i, attrs) = Values(i, attrs)
  BY SameContents DEF Values, Rules!Values
<1>47. \A i : Rules!TakesCapitalItem(i) <=> TakesCapitalItem(i)
  BY <1>13, <1>25, SameContents DEF TakesCapitalItem, Rules!TakesCapitalItem
<1>48. \A i, attr : Rules!TakesFighterSquad(i, attr) <=> TakesFighterSquad(i, attr)
  BY SameContents DEF TakesFighterSquad, Rules!TakesFighterSquad
<1>49. \A Rs : Rules!CapitalItem(Rs) = CapitalItem(Rs)
  BY SameContents DEF CapitalItem, Rules!CapitalItem
<1>50. \A Rs : Rules!ChargeSize(Rs) = ChargeSize(Rs)
  BY <1>21, SameContents DEF ChargeSize, Rules!ChargeSize
<1>51. \A Rs : Rules!ChargeVolume(Rs) = ChargeVolume(Rs)
  BY <1>21, SameContents DEF ChargeVolume, Rules!ChargeVolume
<1>52. \A Rs, r, attr : Rules!SlotIndex(Rs, r, attr) = SlotIndex(Rs, r, attr)
  BY SameContents DEF SlotIndex, Rules!SlotIndex
<1>53. \A Rs : Rules!RigSize(Rs) = RigSize(Rs)
  BY SameContents DEF RigSize, Rules!RigSize
<1>54. \A i : Rules!TakesChargeGroup(i) <=> TakesChargeGroup(i)
  BY <1>14, <1>46, SameContents DEF TakesChargeGroup, Rules!TakesChargeGroup
<1>55. \A i : Rules!TakesShipTypeGroup(i) <=> TakesShipTypeGroup(i)
  BY <1>16, <1>17, <1>46, <1>25 DEF TakesShipTypeGroup, Rules!TakesShipTypeGroup
<1>56. \A a : Rules!ShipAttr(a) = ShipAttr(a)
  BY SameContents DEF ShipAttr, Rules!ShipAttr
<1>57. \A S, a : Rules!Sum(S, a) = Sum(S, a)
  BY SameContents DEF Sum, Rules!Sum
<1>58. Rules!LaunchedDroneSlots = LaunchedDroneSlots
  BY SameContents DEF LaunchedDroneSlots, Rules!LaunchedDroneSlots
<1>59. \A Rs : Rules!ChargeGroup(Rs) = ChargeGroup(Rs)
  BY <1>14, <1>46, <1>21, SameContents DEF ChargeGroup, Rules!ChargeGroup
<1>60. \A Rs : Rules!DroneGroup(Rs) = DroneGroup(Rs)
  BY <1>15, <1>46, SameContents DEF DroneGroup, Rules!DroneGroup
<1>61. \A Rs : Rules!ShipTypeGroup(Rs) = ShipTypeGroup(Rs)
  BY <1>16, <1>17, <1>46, SameContents DEF ShipTypeGroup, Rules!ShipTypeGroup
<1>62. \A Rs, r : Rules!MaxGroup(Rs, r) = MaxGroup(Rs, r)
  BY <1>4, SameContents DEF MaxGroup, Rules!MaxGroup
<1>63. \A r, i : Rules!Takes(r, i) <=> Takes(r, i)
  BY <1>1, <1>2, <1>4, <1>5, <1>22, <1>47, <1>54, <1>40, <1>29, <1>18, <1>55, <1>26, <1>30, <1>41,
     <1>19, <1>42, <1>20, <1>43, <1>44, <1>48, <1>45 DEF Takes, Rules!Takes
<1>64. \A r : Rules!ShipResourceOutput(r) = ShipResourceOutput(r)
  BY <1>3, <1>56 DEF ShipResourceOutput, Rules!ShipResourceOutput
<1>65. Rules!DronebayOutput = DronebayOutput
  BY <1>56 DEF DronebayOutput, Rules!DronebayOutput
<1>66. Rules!BandwidthOutput = BandwidthOutput
  BY <1>56 DEF BandwidthOutput, Rules!BandwidthOutput
<1>67. \A r : Rules!FighterSlots(r) = FighterSlots(r)
  BY <1>6, <1>56 DEF FighterSlots, Rules!FighterSlots
<1>68. \A r : Rules!HardpointSlots(r) = HardpointSlots(r)
  BY <1>7, <1>56 DEF HardpointSlots, Rules!HardpointSlots
<1>69. \A r : Rules!SlotsTotal(r) = SlotsTotal(r)
  BY <1>10, <1>56 DEF SlotsTotal, Rules!SlotsTotal
<1>70. \A r : Rules!Output(r) = Output(r)
  BY <1>64, <1>65, <1>66 DEF Output, Rules!Output
<1>71. \A r : Rules!AssistedSlots(r) = AssistedSlots(r)
  BY <1>22, <1>58, <1>67, <1>68 DEF AssistedSlots, Rules!AssistedSlots
<1>72. \A r : Rules!Ordered(r) = Ordered(r)
  BY <1>8, <1>27, <1>69 DEF Ordered, Rules!Ordered
<1>73. \A r : Rules!Unordered(r) = Unordered(r)
  BY <1>9, <1>27, <1>69, SameContents DEF Unordered, Rules!Unordered
<1>74. \A Rs, r : Rules!Resource(Rs, r) = Resource(Rs, r)
  BY <1>1, <1>57, <1>70, SameContents DEF Resource, Rules!Resource
<1>75. \A Rs, r : Rules!Assisted(Rs, r) = Assisted(Rs, r)
  BY <1>71, SameContents DEF Assisted, Rules!Assisted
<1>76. \A Rs, r : Rules!Tainted(Rs, r) = Tainted(Rs, r)
  BY <1>1, <1>4, <1>8, <1>9, <1>49, <1>59, <1>50, <1>51, <1>60, <1>61, <1>35, <1>62, <1>52, <1>33,
     <1>53, <1>36, <1>39, <1>74, <1>75, <1>72, <1>73 DEF Tainted, Rules!Tainted
<1>77. \A Rs : Rules!validate(Rs) = validate(Rs)
  BY <1>76, <1>34 DEF validate, Rules!validate
<1>78. \A Rs : Rules!Volley(Rs) = Volley(Rs)
  BY SameContents, SameDamage DEF Volley, Rules!Volley, Combine, Rules!Combine
<1>79. \A Rs : Rules!ArmorRps(Rs) = ArmorRps(Rs)
  BY SameContents, SameDamage DEF ArmorRps, Rules!ArmorRps
<1>80. \A Rs : Rules!ShieldRps(Rs) = ShieldRps(Rs)
  BY SameContents, SameDamage DEF ShieldRps, Rules!ShieldRps
<1>81. \A Rs : Rules!Answers(Rs) = Answers(Rs)
  BY <1>78, <1>79, <1>80, <1>77 DEF Answers, Rules!Answers
<1> QED BY <1>1, <1>2, <1>3, <1>4, <1>5, <1>6, <1>7, <1>8, <1>9, <1>10, <1>11, <1>12, <1>13,
        <1>14, <1>15, <1>16, <1>17, <1>18, <1>19, <1>20, <1>21, <1>22, <1>23, <1>24, <1>25, <1>26,
        <1>27, <1>28, <1>29, <1>30, <1>31, <1>32, <1>33, <1>34, <1>35, <1>36, <1>37, <1>38, <1>39,
        <1>40, <1>41, <1>42, <1>43, <1>44, <1>45, <1>46, <1>47, <1>48, <1>49, <1>50, <1>51, <1>52,
        <1>53, <1>54, <1>55, <1>56, <1>57, <1>58, <1>59, <1>60, <1>61, <1>62, <1>63, <1>64, <1>65,
        <1>66, <1>67, <1>68, <1>69, <1>70, <1>71, <1>72, <1>73, <1>74, <1>75, <1>76, <1>77, <1>78,
        <1>79, <1>80, <1>81
-----------------------------------------------------------------------------
(* Damage over time.  What the items deal is added up from the parameters  *)
(* of the cycles; the rules count the time that the cycles take.           *)

\* Division with a remainder.
LEMMA Quotient ==
  ASSUME NEW b \in Nat \ {0}, NEW q \in Int, NEW r \in 0..b - 1
  PROVE  (b * q + r) \div b = q
OBVIOUS

\* What a quotient leaves.
LEMMA Divided ==
  ASSUME NEW p \in Int, NEW b \in Nat \ {0}
  PROVE  p \div b \in Int /\ \E r \in 0..b - 1 : p = b * (p \div b) + r
OBVIOUS

\* As many cycles in as many times the time of one are as good as one.
LEMMA Cancels ==
  ASSUME NEW x \in Nat, NEW n \in Nat \ {0}, NEW a \in Nat \ {0}
  PROVE  (x * n * Unit) \div (a * n) = (x * 1 * Unit) \div a
<1>1. PICK q \in Int, r \in 0..a - 1 : x * Unit = a * q + r /\ (x * 1 * Unit) \div a = q
  <2>1. x * Unit = x * 1 * Unit /\ x * Unit \in Int
    BY DEF Unit
  <2> HIDE DEF Unit
  <2> QED BY <2>1, Divided
<1>2. r * n \in 0..(a * n - 1) /\ a * n \in Nat \ {0}
  <2>1. n * (a - 1 - r) >= 0
    OBVIOUS
  <2>2. r * n >= 0 /\ a * n > 0
    OBVIOUS
  <2> QED BY <2>1, <2>2
<1>3. x * n * Unit = (a * n) * q + r * n
  <2>1. x * n * Unit = n * (x * Unit)
    BY DEF Unit
  <2>2. n * (a * q + r) = (a * n) * q + r * n
    OBVIOUS
  <2> QED BY <1>1, <2>1, <2>2
<1>4. PICK b \in Nat \ {0} : b = a * n
  BY <1>2
<1>5. PICK t \in 0..b - 1 : t = r * n
  BY <1>2, <1>4
<1>6. (b * q + t) \div b = q
  BY <1>4, <1>5, Quotient
<1> QED BY <1>1, <1>3, <1>4, <1>5, <1>6

\* Amounts are natural numbers, whatever other modifiers add; an effect that deals
\* damage has a duration.
LEMMA Readings ==
  ASSUME source \in Sources \cup {NoSource}, NEW i
  PROVE  /\ \A a \in Amounts : Attr(i, a) \in Nat
         /\ \A a \in Sizes : Has(i, a) => Attr(i, a) \in Nat \ {0}
         /\ i \in Items =>
              \A e \in Running(i) \cap Dealers : Attr(i, "duration") \in Nat \ {0}
<1>1. \A a : Has(i, a) => /\ IsLoaded(i) /\ source \in Sources
                          /\ TypeId[i] \in DOMAIN Catalogue[source]
                          /\ a \in DOMAIN Type(i).attrs
                          /\ TypeAttr(i, a) = Type(i).attrs[a]
  BY DEF Has, TypeAttr, TypeAttrs, IsLoaded
<1>2. ASSUME NEW a \in Amounts \cup Sizes, Has(i, a)
      PROVE  /\ Attr(i, a) \in Worths(Type(i), a) /\ Worths(Type(i), a) \subseteq Nat
             /\ a \in Sizes => Worths(Type(i), a) \subseteq Nat \ {0}
  <2>1. /\ Worths(Type(i), a) \subseteq Nat
        /\ a \in Sizes => Worths(Type(i), a) \subseteq Nat \ {0}
    BY <1>1, <1>2, DamageAssumption DEF Type
  <2>2. CASE boosted /\ a \in DOMAIN Boost
    BY <1>1, <1>2, <2>1, <2>2 DEF Attr, Worths
  <2>3. CASE ~(boosted /\ a \in DOMAIN Boost)
    <3>1. Attr(i, a) = Type(i).attrs[a] + 0 /\ Type(i).attrs[a] \in Nat
      BY <1>1, <1>2, <2>1, <2>3 DEF Attr, Worths
    <3> QED BY <2>1, <3>1 DEF Worths
  <2> QED BY <2>2, <2>3
<1>3. ASSUME i \in Items, NEW e \in Running(i) \cap Dealers
      PROVE  Has(i, "duration")
  <2>1. IsLoaded(i) /\ e \in Type(i).effects
    BY DEF Running
  <2>2. "duration" \in DOMAIN Type(i).attrs
    BY <2>1, DamageAssumption DEF Type, IsLoaded
  <2>3. i # NoItem
    BY <1>3, ContentsAssumption
  <2> QED BY <2>1, <2>2, <2>3 DEF Has, TypeAttrs
<1>4. "duration" \in Sizes
  BY DEF Sizes
<1> QED BY <1>2, <1>3, <1>4 DEF Attr

\* The number of cycles is known: a natural number, or Endless.
LEMMA CyclesKnown ==
  ASSUME source \in Sources \cup {NoSource}, NEW i, NEW e
  PROVE  get_cycles_until_reload(i, e) \in Nat \cup {Endless}
<1>1. /\ \A j, a : a \in Amounts => Attr(j, a) \in Nat
      /\ \A j, a : a \in Sizes /\ Has(j, a) => Attr(j, a) \in Nat \ {0}
  BY Readings
<1>2. "volume" \in Sizes /\ {"capacity", "charge_rate"} \cup Wear \subseteq Amounts
  BY DEF Sizes, Amounts
<1> DEFINE c == get_charge(i)
           wear == Attr(c, "crystal_volatility_chance") * Attr(c, "crystal_volatility_dmg")
<1>3. charge_quantity(i) \in Nat
  <2>1. Attr(i, "capacity") \in Nat /\ (Has(c, "volume") => Attr(c, "volume") \in Nat \ {0})
    BY <1>1, <1>2
  <2>2. \A x \in Nat, y \in Nat \ {0} : x \div y \in Nat
    OBVIOUS
  <2> QED BY <2>1, <2>2 DEF charge_quantity
<1>4. CyclesGeneric(i) \in Nat
  <2>1. Attr(i, "charge_rate") \in Nat
    BY <1>1, <1>2
  <2>2. \A x \in Nat, y \in Nat \ {0} : x \div y \in Nat
    OBVIOUS
  <2> QED BY <1>3, <2>1, <2>2 DEF CyclesGeneric
<1>5. CyclesCrystal(i) \in Nat \cup {Endless}
  <2>1. wear \in Nat /\ Attr(c, "hp") \in Nat
    BY <1>1, <1>2 DEF Wear
  <2>2. \A x, z \in Nat, y \in Nat : y > 0 => ((100 * x) \div y) * z \in Nat
    OBVIOUS
  <2>3. wear > 0 => ((100 * Attr(c, "hp")) \div wear) * charge_quantity(i) \in Nat
    BY <1>3, <2>1, <2>2
  <2>4. wear <= 0 \/ wear > 0
    BY <2>1
  <2> HIDE DEF wear
  <2> QED BY <2>3, <2>4 DEF CyclesCrystal, wear
<1>6. AttackCycles(i) \in Nat \cup {Endless}
  BY <1>5 DEF AttackCycles
<1> QED BY <1>4, <1>6 DEF get_cycles_until_reload

\* Damage is an amount.
LEMMA VolleyKnown ==
  ASSUME source \in Sources \cup {NoSource}, NEW i, NEW e, NEW d \in DmgTypes
  PROVE  get_volley(i, e)[d] \in Nat
<1>1. \A j, a : a \in Amounts => Attr(j, a) \in Nat
  BY Readings
<1>2. "dmg_mult" \in Amounts /\ DmgAttr[d] \in Amounts
  BY DEF Amounts
<1>3. Mult(i) \in Nat
  BY <1>1, <1>2 DEF Mult
<1>4. \A j, m \in Nat : j * m \in Nat
  OBVIOUS
<1>5. \A j, m : m \in Nat => Damage(j, m)[d] \in Nat
  BY <1>1, <1>2, <1>4 DEF Damage
<1> QED BY <1>3, <1>5 DEF get_volley, NoDamage

\* As many cycles as they are numbered.
LEMMA Cycles ==
  ASSUME NEW n \in Nat \ {0}
  PROVE  IsFiniteSet(1..n) /\ Cardinality(1..n) = n
<1>1. n \in Int /\ 1 \in Int /\ ~(1 > n) /\ n - 1 + 1 = n
  OBVIOUS
<1> QED BY <1>1, FS_Interval

\* A sum of two terms.
LEMMA TwoTerms ==
  ASSUME NEW f \in [1..2 -> Int]
  PROVE  SumFunction(f) = f[1] + f[2]
<1>1. IsFiniteSet(1..2) /\ Cardinality(1..2) = 2
  <2>1. PICK n \in Nat \ {0} : n = 2
    OBVIOUS
  <2>2. IsFiniteSet(1..n) /\ Cardinality(1..n) = n
    BY Cycles
  <2> QED BY <2>1, <2>2
<1>2. \A x \in (1..2) \ {2} : f[x] = f[1]
  OBVIOUS
<1>3. f[1] \in Int /\ f[2] \in Int /\ 2 \in 1..2
  OBVIOUS
<1>4. SumFunction(f) = f[1] * (Cardinality(1..2) - 1) + f[2]
  <2>1. PICK D, a, b : D = 1..2 /\ a = f[1] /\ b = f[2]
    OBVIOUS
  <2>2. IsFiniteSet(D) /\ f \in [D -> Int] /\ 2 \in D /\ a \in Int /\ b \in Int
    BY <1>1, <1>3, <2>1
  <2>3. f[2] = b /\ \A x \in D \ {2} : f[x] = a
    BY <1>2, <2>1
  <2>4. LastApart(f, D, a, b)
    BY ONLY <2>2, <2>3, SumOfEqual
  <2> QED BY <2>1, <2>4 DEF LastApart
<1> QED BY <1>1, <1>3, <1>4

\* The time that n cycles take, and how many of them there are.
LEMMA Averages ==
  ASSUME NEW a \in Nat, NEW f \in Nat, NEW z \in Nat, NEW n \in Nat
  PROVE  AverageTime(<<CycleInfo(a, f, n - 1), CycleInfo(a, z, 1)>>)
           = [time |-> (a + f) * (n - 1) + (a + z), cycles |-> n]
<1> DEFINE s == <<CycleInfo(a, f, n - 1), CycleInfo(a, z, 1)>>
           t == [k \in DOMAIN s |-> CycleTime(s[k]) * s[k].quantity]
           c == [k \in DOMAIN s |-> s[k].quantity]
<1>2. Len(s) = 2 /\ DOMAIN s = 1..2
  OBVIOUS
<1>3. t[1] = (a + f) * (n - 1) /\ t[2] = (a + z) * 1 /\ c[1] = n - 1 /\ c[2] = 1
  <2>1. s[1] = CycleInfo(a, f, n - 1) /\ s[2] = CycleInfo(a, z, 1)
    OBVIOUS
  <2>2. \A y, k : CycleTime(CycleInfo(a, y, k)) = a + y /\ CycleInfo(a, y, k).quantity = k
    BY DEF CycleInfo, CycleTime
  <2>3. \A k \in 1..2 : t[k] = CycleTime(s[k]) * s[k].quantity /\ c[k] = s[k].quantity
    BY <1>2
  <2> HIDE DEF s, t, c
  <2>4. 1 \in 1..2 /\ 2 \in 1..2
    OBVIOUS
  <2>5. t[1] = CycleTime(s[1]) * s[1].quantity /\ t[2] = CycleTime(s[2]) * s[2].quantity
        /\ c[1] = s[1].quantity /\ c[2] = s[2].quantity
    BY <2>3, <2>4
  <2>6. /\ CycleTime(s[1]) = a + f /\ s[1].quantity = n - 1
        /\ CycleTime(s[2]) = a + z /\ s[2].quantity = 1
    BY <2>1, <2>2
  <2> QED BY Zenon, <2>5, <2>6
<1>4. t \in [1..2 -> Int] /\ c \in [1..2 -> Int]
  <2>1. DOMAIN t = 1..2 /\ DOMAIN c = 1..2
    BY <1>2
  <2>2. t[1] \in Int /\ t[2] \in Int /\ c[1] \in Int /\ c[2] \in Int
    BY <1>3
  <2>3. t = [k \in DOMAIN t |-> t[k]] /\ c = [k \in DOMAIN c |-> c[k]]
    OBVIOUS
  <2> HIDE DEF t, c
  <2>4. \A k \in 1..2 : k = 1 \/ k = 2
    OBVIOUS
  <2> QED BY <2>1, <2>2, <2>3, <2>4
<1>5. AverageTime(s) = [time |-> SumFunction(t), cycles |-> SumFunction(c)]
  BY <1>2 DEF AverageTime
<1>6. SumFunction(t) = (a + f) * (n - 1) + (a + z) * 1 /\ SumFunction(c) = n - 1 + 1
  <2> HIDE DEF t, c
  <2> QED BY <1>3, <1>4, TwoTerms
<1>7. (a + f) * (n - 1) + (a + z) * 1 = (a + f) * (n - 1) + (a + z) /\ n - 1 + 1 = n
  OBVIOUS
<1> HIDE DEF t, c
<1> QED BY <1>5, <1>6, <1>7

\* The larger of two numbers.
LEMMA MaxOfTwo ==
  ASSUME NEW x \in Int, NEW y \in Int
  PROVE  Max({x, y}) = IF x >= y THEN x ELSE y
<1> DEFINE m == IF x >= y THEN x ELSE y
<1>1. m \in {x, y} /\ \A z \in {x, y} : m >= z
  OBVIOUS
<1>2. \A k \in {x, y} : (\A z \in {x, y} : k >= z) => k = m
  OBVIOUS
<1> HIDE DEF m
<1> QED BY <1>1, <1>2 DEF Max, m

\* What PauseAfter is after the last cycle.
LastPause(i, f, r, reload) ==
  IF Reloads(i) /\ ~reload THEN f ELSE IF ~Reloads(i) THEN 0 ELSE IF f >= r THEN f ELSE r

\* The time of n cycles: n - 1 with the same pause, and the last.
LEMMA RunTimes ==
  ASSUME NEW i, NEW reload, NEW n \in Nat \ {0}, NEW a \in Nat, NEW f \in Nat, NEW r \in Nat,
         a = Attr(i, "duration"), f = Attr(i, "module_reactivation_delay"),
         r = Attr(i, "reload_time")
  PROVE  Rules!RunTime(i, n, reload) = (a + f) * (n - 1) + (a + LastPause(i, f, r, reload))
<1>1. PICK z \in Nat : z = LastPause(i, f, r, reload)
  BY DEF LastPause
<1> DEFINE g == [cycle \in 1..n |-> a + Rules!PauseAfter(i, cycle, n, reload)]
<1>2. \A cycle : Rules!PauseAfter(i, cycle, n, reload) = IF cycle # n THEN f ELSE z
  <2>1. Max({f, r}) = IF f >= r THEN f ELSE r
    BY MaxOfTwo
  <2> QED BY <1>1, <2>1, SameContents, SameDamage DEF Rules!PauseAfter, LastPause
<1>3. Rules!RunTime(i, n, reload) = SumFunction(g)
  <2>1. [cycle \in 1..n |-> Rules!Attr(i, "duration") + Rules!PauseAfter(i, cycle, n, reload)] = g
    BY SameContents
  <2> HIDE DEF g
  <2> QED BY <2>1, SameContents DEF Rules!RunTime
<1>4. g \in [1..n -> Int] /\ g[n] = a + z /\ \A cycle \in (1..n) \ {n} : g[cycle] = a + f
  BY <1>2
<1>5. IsFiniteSet(1..n) /\ Cardinality(1..n) = n /\ n \in 1..n
  BY Cycles
<1>6. PICK u \in Int, v \in Int : u = a + f /\ v = a + z
  OBVIOUS
<1> HIDE DEF g
<1>7. SumFunction(g) = u * (Cardinality(1..n) - 1) + v
  <2>1. PICK D : D = 1..n
    OBVIOUS
  <2>2. IsFiniteSet(D) /\ g \in [D -> Int] /\ n \in D
    BY <1>4, <1>5, <2>1
  <2>4. g[n] = v /\ \A cycle \in D \ {n} : g[cycle] = u
    BY <1>4, <1>6, <2>1
  <2>3. SumFunction(g) = u * (Cardinality(D) - 1) + v
    <3>1. LastApart(g, D, u, v)
      BY ONLY <1>6, <2>2, <2>4, SumOfEqual
    <3> QED BY <3>1 DEF LastApart
  <2> QED BY <2>1, <2>3
<1> QED BY Zenon, <1>1, <1>3, <1>5, <1>6, <1>7

\* Taken from the parameters of the cycles or from the time of n cycles, what an effect
\* deals is the same.
LEMMA DpsTrue ==
  ASSUME source \in Sources \cup {NoSource}, NEW i \in Items,
         NEW e \in Running(i) \cap Dealers, NEW reload, NEW d \in DmgTypes
  PROVE  /\ get_dps(i, e, reload)[d] = Rules!EffectDps(i, e, reload)[d]
         /\ get_dps(i, e, reload)[d] \in Int
<1>1. PICK a \in Nat \ {0}, f \in Nat, r \in Nat :
        /\ a = Attr(i, "duration") /\ f = Attr(i, "module_reactivation_delay")
        /\ r = Attr(i, "reload_time")
  <2>1. {"module_reactivation_delay", "reload_time"} \subseteq Amounts
    BY DEF Amounts
  <2> QED BY <2>1, Readings
<1>0. a \in Nat /\ 0 \in Nat /\ \A k : k \in Nat \ {0} => k \in Nat
  OBVIOUS
<1>2. PICK n \in Nat \cup {Endless} : n = get_cycles_until_reload(i, e)
  BY CyclesKnown
<1>3. PICK x \in Nat : x = get_volley(i, e)[d]
  BY VolleyKnown
<1> DEFINE Rate(t, c) == (x * c * Unit) \div t
           z == LastPause(i, f, r, reload)
<1>4. Endless \notin Nat /\ Endless # 0
  BY DEF Endless
<1>5. \A t \in Nat \ {0}, c \in Nat : Rate(t, c) \in Int
  <2>1. \A c \in Nat : x * c * Unit \in Int
    BY DEF Unit
  <2> HIDE DEF Unit
  <2> QED BY <2>1, Divided
<1>6. Rules!EffectDps(i, e, reload)[d] =
        IF n = 0 THEN 0 ELSE IF n = Endless THEN Rate(a + f, 1)
        ELSE Rate((a + f) * (n - 1) + (a + z), n)
  <2>1. \A t, c : Rules!PerTime(Rules!get_volley(i, e)[d], [cycles |-> c, time |-> t]) = Rate(t, c)
    BY <1>3, SameDamage DEF PerTime
  <2>2. Rules!CycleTime(Rules!CycleInfo(a, f, 1)) = a + f
    BY SameDamage DEF CycleInfo, CycleTime
  <2>3. n \in Nat \ {0} => Rules!RunTime(i, n, reload) = (a + f) * (n - 1) + (a + z)
    BY <1>1, RunTimes
  <2> HIDE DEF Rate, z
  <2> QED BY <1>1, <1>2, <1>4, <2>1, <2>2, <2>3, SameContents, SameDamage DEF Rules!EffectDps
<1>7. ASSUME NEW seq, NEW t, NEW c,
             get_cycle_parameters(i, e, reload) = seq, seq # <<>>,
             AverageTime(seq) = [time |-> t, cycles |-> c]
      PROVE  get_dps(i, e, reload)[d] = Rate(t, c)
  BY <1>3, <1>7 DEF get_dps, PerTime
<1> HIDE DEF Rate
<1>8. CASE n = 0
  BY <1>2, <1>6, <1>8 DEF get_dps, get_cycle_parameters, NoDamage
<1>9. CASE n = Endless \/ (n # 0 /\ Reloads(i) /\ (~reload \/ f >= r))
  <2>1. get_cycle_parameters(i, e, reload) = <<CycleInfo(a, f, Endless)>>
    BY <1>1, <1>2, <1>4, <1>9 DEF get_cycle_parameters
  <2>2. AverageTime(<<CycleInfo(a, f, Endless)>>) = [time |-> a + f, cycles |-> 1]
    BY DEF AverageTime, CycleInfo, CycleTime
  <2>3. get_dps(i, e, reload)[d] = Rate(a + f, 1)
    BY <1>7, <2>1, <2>2
  <2>4. n # Endless => z = f
    BY <1>9 DEF LastPause
  <2>5. n # Endless => Rate((a + f) * (n - 1) + (a + f), n) = Rate(a + f, 1)
    <3> SUFFICES ASSUME n \in Nat \ {0} PROVE Rate((a + f) * (n - 1) + (a + f), n) = Rate(a + f, 1)
      BY <1>9
    <3>1. PICK u \in Nat \ {0} : u = a + f
      OBVIOUS
    <3>2. (a + f) * (n - 1) + (a + f) = u * n
      BY <3>1
    <3>3. Rate(u * n, n) = Rate(u, 1)
      BY Cancels DEF Rate
    <3> QED BY <3>1, <3>2, <3>3
  <2> QED BY <1>4, <1>5, <1>6, <1>9, <2>3, <2>4, <2>5
<1>10. CASE n \in Nat \ {0} /\ ~Reloads(i) /\ (n = 1 \/ f = 0)
  <2>1. get_cycle_parameters(i, e, reload) = <<CycleInfo(a, 0, n)>>
    BY <1>1, <1>2, <1>4, <1>10 DEF get_cycle_parameters
  <2>2. AverageTime(<<CycleInfo(a, 0, n)>>) = [time |-> a, cycles |-> 1]
    BY DEF AverageTime, CycleInfo, CycleTime
  <2>3. get_dps(i, e, reload)[d] = Rate(a, 1)
    BY <1>7, <2>1, <2>2
  <2>4. z = 0
    BY <1>10 DEF LastPause
  <2>5. (a + f) * (n - 1) + (a + 0) = a * n
    <3>1. CASE n = 1
      BY <3>1
    <3>2. CASE f = 0
      BY <1>10, <3>2
    <3> QED BY <1>10, <3>1, <3>2
  <2>6. Rate(a * n, n) = Rate(a, 1)
    BY <1>10, Cancels DEF Rate
  <2> QED BY <1>4, <1>5, <1>6, <1>10, <2>3, <2>4, <2>5, <2>6
<1>11. CASE n \in Nat \ {0} /\ n # 1 /\ ~Reloads(i) /\ f # 0
  <2>1. get_cycle_parameters(i, e, reload) = <<CycleInfo(a, f, n - 1), CycleInfo(a, 0, 1)>>
    BY <1>1, <1>2, <1>4, <1>11 DEF get_cycle_parameters
  <2>2. AverageTime(<<CycleInfo(a, f, n - 1), CycleInfo(a, 0, 1)>>)
          = [time |-> (a + f) * (n - 1) + (a + 0), cycles |-> n]
    BY <1>0, <1>11, Averages
  <2>3. get_dps(i, e, reload)[d] = Rate((a + f) * (n - 1) + (a + 0), n)
    BY <1>7, <2>1, <2>2
  <2>4. z = 0
    BY <1>11 DEF LastPause
  <2>5. (a + f) * (n - 1) + (a + 0) \in Nat \ {0}
    BY <1>11
  <2> QED BY <1>4, <1>5, <1>6, <1>11, <2>3, <2>4, <2>5
<1>12. CASE n \in Nat \ {0} /\ Reloads(i) /\ reload /\ f < r
  <2>1. z = r
    BY <1>12 DEF LastPause
  <2>2. CASE n = 1
    <3>1. get_cycle_parameters(i, e, reload) = <<CycleInfo(a, r, Endless)>>
      BY <1>1, <1>2, <1>4, <1>12, <2>2 DEF get_cycle_parameters
    <3>2. AverageTime(<<CycleInfo(a, r, Endless)>>) = [time |-> a + r, cycles |-> 1]
      BY DEF AverageTime, CycleInfo, CycleTime
    <3>3. get_dps(i, e, reload)[d] = Rate(a + r, 1)
      BY <1>7, <3>1, <3>2
    <3>4. (a + f) * (1 - 1) + (a + r) = a + r
      OBVIOUS
    <3> QED BY <1>4, <1>5, <1>6, <2>1, <2>2, <3>3, <3>4
  <2>3. CASE n # 1
    <3>1. get_cycle_parameters(i, e, reload) = <<CycleInfo(a, f, n - 1), CycleInfo(a, r, 1)>>
      BY <1>1, <1>2, <1>4, <1>12, <2>3 DEF get_cycle_parameters
    <3>2. AverageTime(<<CycleInfo(a, f, n - 1), CycleInfo(a, r, 1)>>)
            = [time |-> (a + f) * (n - 1) + (a + r), cycles |-> n]
      BY <1>0, <1>12, Averages
    <3>3. get_dps(i, e, reload)[d] = Rate((a + f) * (n - 1) + (a + r), n)
      BY <1>7, <3>1, <3>2
    <3>4. (a + f) * (n - 1) + (a + r) \in Nat \ {0}
      BY <1>12, <2>3
    <3> QED BY <1>4, <1>5, <1>6, <1>12, <2>1, <3>3, <3>4
  <2> QED BY <2>2, <2>3
<1> QED BY <1>8, <1>9, <1>10, <1>11, <1>12

\* The sums that are made over the items: each item takes the resistances off its own
\* damage, the rules take them off the whole.
LEMMA DpsOfTrue ==
  ASSUME source \in Sources \cup {NoSource}, NEW Rs, Rs["dmg_dealer"] \subseteq Items,
         IsFiniteSet(Rs["dmg_dealer"]), NEW reload
  PROVE  Dps(Rs, reload) = Rules!DpsOf(Rs["dmg_dealer"], reload)
<1> DEFINE S == Rs["dmg_dealer"]
           E(i) == Running(i) \cap Dealers
           Inner(i, d) == SumFunction([e \in E(i) |-> get_dps(i, e, reload)[d]])
<1>1. ASSUME NEW i \in Items, NEW d \in DmgTypes
      PROVE  /\ Inner(i, d) \in Int
             /\ SumFunction([e \in E(i) |-> Rules!EffectDps(i, e, reload)[d]]) = Inner(i, d)
             /\ ItemDps(i, reload)[d] = Inner(i, d) * (10 - TgtResists[d])
  <2> DEFINE f == [e \in E(i) |-> get_dps(i, e, reload)[d]]
             g == [e \in E(i) |-> 0]
  <2>1. f = [e \in E(i) |-> Rules!EffectDps(i, e, reload)[d]] /\ f \in [E(i) -> Int]
    BY DpsTrue
  <2>2. IsFiniteSet(E(i))
    <3>1. IsFiniteSet(Dealers)
      <4>1. \A e : IsFiniteSet({e})
        BY FS_Singleton
      <4>2. Dealers = ({"projectile_fired"} \cup {"target_attack"}) \cup {"use_missiles"}
        BY DEF Dealers
      <4> QED BY <4>1, <4>2, FS_Union
    <3> QED BY <3>1, FS_Subset
  <2>3. g \in [E(i) -> Int] /\ \A e \in E(i) : g[e] = f[e] * 0
    BY <2>1
  <2>4. SumFunction(f) \in Int
    <3> HIDE DEF f, g, E
    <3> QED BY <2>1, <2>2, <2>3, SumOfMultiples
  <2>5. ItemDps(i, reload)[d] = SumFunction(f) * (10 - TgtResists[d])
    BY DEF ItemDps, Resisted, Combine
  <2> QED BY <2>1, <2>4, <2>5
<1>2. ASSUME NEW d \in DmgTypes
      PROVE  Dps(Rs, reload)[d] = (10 - TgtResists[d]) * SumFunction([i \in S |-> Inner(i, d)])
  <2> DEFINE f == [i \in S |-> Inner(i, d)]
             g == [i \in S |-> ItemDps(i, reload)[d]]
  <2>1. PICK c \in Int : c = 10 - TgtResists[d]
    BY DamageAssumption
  <2>2. f \in [S -> Int] /\ \A i \in S : g[i] = f[i] * c
    BY <1>1, <2>1
  <2>3. g \in [S -> Int]
    <3>1. \A p \in Int : p * c \in Int
      BY <2>1
    <3>2. \A i \in S : g[i] \in Int
      <4> HIDE DEF f, g
      <4> QED BY <2>2, <3>1
    <3> QED BY <3>2
  <2>4. Dps(Rs, reload)[d] = SumFunction(g)
    BY DEF Dps, Combine
  <2> HIDE DEF f, g
  <2>5. SumFunction(g) = c * SumFunction(f)
    BY <2>1, <2>2, <2>3, SumOfMultiples
  <2> QED BY <2>1, <2>4, <2>5 DEF f
<1>3. ASSUME NEW d \in DmgTypes
      PROVE  Rules!DpsOf(S, reload)[d]
               = (10 - TgtResists[d]) * SumFunction([i \in S |-> Inner(i, d)])
  <2>1. \A i : Rules!Running(i) \cap Rules!Dealers = E(i)
    BY SameContents, SameDamage
  <2>2. \A i \in S : Rules!SumFunction([e \in Rules!Running(i) \cap Rules!Dealers |->
                                          Rules!EffectDps(i, e, reload)[d]]) = Inner(i, d)
    <3>1. \A f : Rules!SumFunction(f) = SumFunction(f)
      BY SameContents
    <3>2. \A i \in S : i \in Items
      OBVIOUS
    <3>3. ASSUME NEW i \in S
          PROVE  SumFunction([e \in E(i) |-> Rules!EffectDps(i, e, reload)[d]]) = Inner(i, d)
      BY <1>1, <3>2
    <3> HIDE DEF E, Inner
    <3> QED BY <2>1, <3>1, <3>3
  <2>3. [i \in S |-> Rules!SumFunction([e \in Rules!Running(i) \cap Rules!Dealers |->
                                          Rules!EffectDps(i, e, reload)[d]])]
          = [i \in S |-> Inner(i, d)]
    BY <2>2
  <2> HIDE DEF Inner
  <2> QED BY <2>3, SameContents, SameDamage DEF Rules!DpsOf
<1>4. /\ DOMAIN Dps(Rs, reload) = DmgTypes /\ DOMAIN Rules!DpsOf(S, reload) = DmgTypes
      /\ Dps(Rs, reload) = [d \in DmgTypes |-> Dps(Rs, reload)[d]]
      /\ Rules!DpsOf(S, reload) = [d \in DmgTypes |-> Rules!DpsOf(S, reload)[d]]
  BY SameDamage DEF Dps, Combine, Rules!DpsOf
<1> QED BY <1>2, <1>3, <1>4
-----------------------------------------------------------------------------
(* Messages in a row.                                                      *)

\* The messages of two sequences are taken one sequence after the other.
LEMMA InTurn ==
  ASSUME NEW X, NEW q1 \in Seq(X), NEW q2 \in Seq(X), NEW p
  PROVE  After(p, q1 \o q2) = After(After(p, q1), q2)
<1>1. PICK n1 \in Nat, n2 \in Nat : n1 = Len(q1) /\ n2 = Len(q2)
  OBVIOUS
<1>2. PICK q : q = q1 \o q2
  OBVIOUS
<1>3. /\ Len(q) = n1 + n2
      /\ \A k \in 1..n1 : q[k] = q1[k]
      /\ \A k \in 1..n2 : q[n1 + k] = q2[k]
  BY <1>1, <1>2
<1>4. PICK h1 : h1[0] = p /\ h1[n1] = After(p, q1)
                /\ \A k \in 1..n1 : h1[k] = Handle(h1[k - 1], q1[k])
  BY <1>1, Delivery!Trace DEF After
<1>5. PICK h2 : h2[0] = After(p, q1) /\ h2[n2] = After(After(p, q1), q2)
                /\ \A k \in 1..n2 : h2[k] = Handle(h2[k - 1], q2[k])
  BY <1>1, Delivery!Trace DEF After
<1>6. PICK h : h[0] = p /\ h[n1 + n2] = After(p, q)
               /\ \A k \in 1..n1 + n2 : h[k] = Handle(h[k - 1], q[k])
  <2>2. PICK n \in Nat : n = Len(q) /\ n = n1 + n2
    BY <1>3
  <2>3. Len(q) \in Nat
    BY <2>2
  <2>4. PICK g : g[0] = p /\ g[Len(q)] = Delivery!All(p, q)
                 /\ \A k \in 1..Len(q) : g[k] = Handle(g[k - 1], q[k])
    BY ONLY <2>3, Delivery!Trace
  <2> QED BY <2>2, <2>4 DEF After
<1> DEFINE T1 == {k \in 0..n1 : h[k] = h1[k]}
           T2 == {k \in 0..n2 : h[n1 + k] = h2[k]}
<1>7. n1 \in T1
  <2>1. 0 \in T1
    BY <1>4, <1>6
  <2>2. ASSUME NEW k \in 1..n1, k - 1 \in T1 PROVE k \in T1
    <3>1. k \in 1..n1 + n2 /\ k \in 0..n1
      OBVIOUS
    <3>2. h[k - 1] = h1[k - 1]
      BY <2>2
    <3>3. h[k] = h1[k]
      BY <1>3, <1>4, <1>6, <3>1, <3>2
    <3> QED BY <3>1, <3>3
  <2>3. n1 \in Nat /\ n1 \in 0..n1
    OBVIOUS
  <2> HIDE DEF T1
  <2>4. 0..n1 \subseteq T1
    BY <2>1, <2>2, <2>3, Delivery!Upward
  <2> QED BY <2>3, <2>4
<1>8. n2 \in T2
  <2>1. 0 \in T2
    BY <1>4, <1>5, <1>7
  <2>2. ASSUME NEW k \in 1..n2, k - 1 \in T2 PROVE k \in T2
    <3>1. k \in 0..n2 /\ h[n1 + (k - 1)] = h2[k - 1]
      BY <2>2
    <3>2. PICK j \in 1..n1 + n2 : j = n1 + k /\ j - 1 = n1 + (k - 1)
      OBVIOUS
    <3>3. h[j] = Handle(h[j - 1], q[j]) /\ q[j] = q2[k]
      BY <1>3, <1>6, <3>2
    <3>4. h[n1 + k] = h2[k]
      BY <1>5, <3>1, <3>2, <3>3
    <3> QED BY <3>1, <3>4
  <2>3. n2 \in Nat /\ n2 \in 0..n2
    OBVIOUS
  <2> HIDE DEF T2
  <2>4. 0..n2 \subseteq T2
    BY <2>1, <2>2, <2>3, Delivery!Upward
  <2> QED BY <2>3, <2>4
<1> QED BY <1>2, <1>5, <1>6, <1>8

\* Messages are handled one after the other.
LEMMA OneByOne ==
  ASSUME NEW p, NEW q, Len(q) \in Nat
  PROVE  /\ Len(q) = 0 => After(p, q) = p
         /\ Len(q) = 1 => After(p, q) = Handle(p, q[1])
         /\ Len(q) = 2 => After(p, q) = Handle(Handle(p, q[1]), q[2])
         /\ Len(q) = 3 => After(p, q) = Handle(Handle(Handle(p, q[1]), q[2]), q[3])
<1>1. PICK n \in Nat : n = Len(q)
  OBVIOUS
<1>2. PICK h : h[0] = p /\ h[n] = After(p, q)
               /\ \A k \in 1..n : h[k] = Handle(h[k - 1], q[k])
  BY <1>1, Delivery!Trace DEF After
<1>3. \A k \in {1, 2, 3} : k <= n => k \in 1..n
  OBVIOUS
<1>4. /\ 1 <= n => h[1] = Handle(h[0], q[1])
      /\ 2 <= n => h[2] = Handle(h[1], q[2])
      /\ 3 <= n => h[3] = Handle(h[2], q[3])
  BY <1>2, <1>3
<1>5. n = 0 => After(p, q) = p
  BY <1>2
<1>6. n = 1 => After(p, q) = Handle(p, q[1])
  BY <1>2, <1>4
<1>7. n = 2 => After(p, q) = Handle(Handle(p, q[1]), q[2])
  <2> SUFFICES ASSUME n = 2 PROVE h[2] = Handle(Handle(p, q[1]), q[2])
    BY <1>2
  <2>1. 1 <= n /\ 2 <= n
    OBVIOUS
  <2> QED BY <1>2, <1>4, <2>1
<1>8. n = 3 => After(p, q) = Handle(Handle(Handle(p, q[1]), q[2]), q[3])
  <2> SUFFICES ASSUME n = 3 PROVE h[3] = Handle(Handle(Handle(p, q[1]), q[2]), q[3])
    BY <1>2
  <2>1. 1 <= n /\ 2 <= n /\ 3 <= n
    OBVIOUS
  <2> QED BY <1>2, <1>4, <2>1
<1> QED BY <1>1, <1>5, <1>6, <1>7, <1>8
-----------------------------------------------------------------------------
(* What messages do to the registers of an item depends on its situation   *)
(* alone.                                                                  *)

Sit(i) == [fit |-> OnFit(i), loaded |-> IsLoaded(i), state |-> StateOf(i),
           running |-> Running(i), tests |-> {r \in Registers : Takes(r, i)}]
Proper(s) ==
  /\ s.fit \in BOOLEAN /\ s.loaded \in BOOLEAN /\ s.state \in State /\ s.tests \subseteq Registers
  /\ s.loaded => s.fit
  /\ ~s.loaded => s.running = {}

\* The registers of each kind that a set of states or effects is about.
StateRegs(what) == {r \in DOMAIN ByState : ByState[r] \in what}
EffectRegs(what) == {r \in DOMAIN ByEffect : ByEffect[r] \cap what # {}}
DroneRegs(what) == {r \in {"launched_drone"} : online \in what}

\* What is due to an item that is loaded, to one that is on a fit, and to any.
Fed(s) == IF ~s.loaded THEN {}
          ELSE s.tests \cap (ByLoading \cup StateRegs(UpTo(s.state)) \cup EffectRegs(s.running))
Manned(s) == IF ~s.fit THEN {} ELSE s.tests \cap DroneRegs(UpTo(s.state))
Due(s) == Fed(s) \cup Manned(s)

\* Messages of an item in a situation.
Note(kind, s, what) ==
  [kind |-> kind, what |-> what,
   takers |-> {r \in Registers : Gains(r, kind, what) /\ r \in s.tests}]
AddNotes(s) == <<Note("StatesActivated", s, UpTo(s.state))>>
RemoveNotes(s) == <<Note("StatesDeactivated", s, UpTo(s.state))>>
LoadNotes(s) ==
  IF ~s.loaded THEN <<>>
  ELSE <<Note("ItemLoaded", s, {}), Note("StatesActivatedLoaded", s, UpTo(s.state)),
         Note("EffectsStarted", s, s.running)>>
UnloadNotes(s) ==
  IF ~s.loaded THEN <<>>
  ELSE <<Note("EffectsStopped", s, s.running),
         Note("StatesDeactivatedLoaded", s, UpTo(s.state)), Note("ItemUnloaded", s, {})>>
EffectNotes(s, t) ==
  IF ~s.loaded THEN <<>>
  ELSE <<Note("EffectsStarted", s, t.running \ s.running),
         Note("EffectsStopped", s, s.running \ t.running)>>
UpNotes(s, states) ==
  <<Note("StatesActivated", s, states)>>
  \o (IF s.loaded THEN <<Note("StatesActivatedLoaded", s, states)>> ELSE <<>>)
DownNotes(s, states) ==
  (IF s.loaded THEN <<Note("StatesDeactivatedLoaded", s, states)>> ELSE <<>>)
  \o <<Note("StatesDeactivated", s, states)>>

\* Each register listens to messages of one kind.
LEMMA Kinds ==
  /\ Registers = ByLoading \cup DOMAIN ByState \cup DOMAIN ByEffect \cup {"launched_drone"}
  /\ ByLoading \cap DOMAIN ByState = {} /\ ByLoading \cap DOMAIN ByEffect = {}
  /\ DOMAIN ByState \cap DOMAIN ByEffect = {}
  /\ "launched_drone" \notin ByLoading \cup DOMAIN ByState \cup DOMAIN ByEffect
  /\ \A r \in DOMAIN ByState : ByState[r] \in State
  /\ online \in State /\ State \subseteq Int
<1>1. DOMAIN ByState = {"max_group_online", "max_group_active", "state", "drone_bandwidth"}
  BY DEF ByState
<1>2. DOMAIN ByEffect = {"cpu", "powergrid", "calibration", "rig_size", "turret_slot",
                         "launcher_slot", "dmg_dealer", "armor_rps", "shield_rps"}
  BY DEF ByEffect
<1>3. \A r \in DOMAIN ByState : ByState[r] \in State
  BY DEF ByState, State, offline, online, active, overload
<1>4. online \in State /\ State \subseteq Int
  BY DEF State, offline, online, overload
<1> QED BY <1>1, <1>2, <1>3, <1>4 DEF Registers, ByLoading

\* What each kind of message does to the registers of an item.
LEMMA Handled ==
  ASSUME NEW s, s.tests \subseteq Registers
  PROVE  /\ \A p, what : Handle(p, Note("ItemLoaded", s, what)) = p \cup (s.tests \cap ByLoading)
         /\ \A p, what : Handle(p, Note("StatesActivatedLoaded", s, what))
                           = p \cup (s.tests \cap StateRegs(what))
         /\ \A p, what : Handle(p, Note("EffectsStarted", s, what))
                           = p \cup (s.tests \cap EffectRegs(what))
         /\ \A p, what : Handle(p, Note("StatesActivated", s, what))
                           = p \cup (s.tests \cap DroneRegs(what))
         /\ \A p, what : Handle(p, Note("ItemUnloaded", s, what)) = p \ ByLoading
         /\ \A p, what : Handle(p, Note("StatesDeactivatedLoaded", s, what)) = p \ StateRegs(what)
         /\ \A p, what : Handle(p, Note("EffectsStopped", s, what)) = p \ EffectRegs(what)
         /\ \A p, what : Handle(p, Note("StatesDeactivated", s, what)) = p \ DroneRegs(what)
<1>1. \A p, what, kind, r : r \in Handle(p, Note(kind, s, what)) <=>
        \/ r \in p /\ ~Loses(r, [kind |-> kind, what |-> what])
        \/ r \in s.tests /\ Gains(r, kind, what)
  BY DEF Handle, Note, Loses
<1>2. ASSUME NEW what, NEW r
      PROVE  /\ Gains(r, "ItemLoaded", what) <=> r \in ByLoading
             /\ Gains(r, "StatesActivatedLoaded", what) <=> r \in StateRegs(what)
             /\ Gains(r, "EffectsStarted", what) <=> r \in EffectRegs(what)
             /\ Gains(r, "StatesActivated", what) <=> r \in DroneRegs(what)
             /\ ~Gains(r, "ItemUnloaded", what) /\ ~Gains(r, "StatesDeactivatedLoaded", what)
             /\ ~Gains(r, "EffectsStopped", what) /\ ~Gains(r, "StatesDeactivated", what)
  BY DEF Gains, StateRegs, EffectRegs, DroneRegs
<1>3. ASSUME NEW what, NEW r
      PROVE  /\ Loses(r, [kind |-> "ItemUnloaded", what |-> what]) <=> r \in ByLoading
             /\ Loses(r, [kind |-> "StatesDeactivatedLoaded", what |-> what])
                  <=> r \in StateRegs(what)
             /\ Loses(r, [kind |-> "EffectsStopped", what |-> what]) <=> r \in EffectRegs(what)
             /\ Loses(r, [kind |-> "StatesDeactivated", what |-> what])
                  <=> r \in DroneRegs(what)
             /\ ~Loses(r, [kind |-> "ItemLoaded", what |-> what])
             /\ ~Loses(r, [kind |-> "StatesActivatedLoaded", what |-> what])
             /\ ~Loses(r, [kind |-> "EffectsStarted", what |-> what])
             /\ ~Loses(r, [kind |-> "StatesActivated", what |-> what])
  BY DEF Loses, StateRegs, EffectRegs, DroneRegs
<1>4. \A p, what : Handle(p, Note("ItemLoaded", s, what)) = p \cup (s.tests \cap ByLoading)
  BY <1>1, <1>2, <1>3
<1>5. \A p, what : Handle(p, Note("StatesActivatedLoaded", s, what))
                       = p \cup (s.tests \cap StateRegs(what))
  BY <1>1, <1>2, <1>3
<1>6. \A p, what : Handle(p, Note("EffectsStarted", s, what))
                       = p \cup (s.tests \cap EffectRegs(what))
  BY <1>1, <1>2, <1>3
<1>7. \A p, what : Handle(p, Note("StatesActivated", s, what))
                       = p \cup (s.tests \cap DroneRegs(what))
  BY <1>1, <1>2, <1>3
<1>8. \A p, what : Handle(p, Note("ItemUnloaded", s, what)) = p \ ByLoading
  BY <1>1, <1>2, <1>3
<1>9. \A p, what : Handle(p, Note("StatesDeactivatedLoaded", s, what)) = p \ StateRegs(what)
  BY <1>1, <1>2, <1>3
<1>10. \A p, what : Handle(p, Note("EffectsStopped", s, what)) = p \ EffectRegs(what)
  BY <1>1, <1>2, <1>3
<1>11. \A p, what : Handle(p, Note("StatesDeactivated", s, what)) = p \ DroneRegs(what)
  BY <1>1, <1>2, <1>3
<1> QED BY <1>4, <1>5, <1>6, <1>7, <1>8, <1>9, <1>10, <1>11

\* An item that is loaded gets into the registers of what is loaded, one that is unloaded
\* out of them.
LEMMA Loading ==
  ASSUME NEW s, Proper(s), NEW p
  PROVE  /\ After(p, LoadNotes(s)) = p \cup Fed(s)
         /\ After(Due(s), UnloadNotes(s)) = Manned(s)
<1>1. s.tests \subseteq Registers
  BY DEF Proper
<1>2. ASSUME s.loaded
      PROVE  After(p, LoadNotes(s)) = p \cup Fed(s)
  <2>1. PICK m1, m2, m3 :
          /\ m1 = Note("ItemLoaded", s, {})
          /\ m2 = Note("StatesActivatedLoaded", s, UpTo(s.state))
          /\ m3 = Note("EffectsStarted", s, s.running)
    OBVIOUS
  <2>2. PICK q : q = LoadNotes(s) /\ Len(q) = 3 /\ q[1] = m1 /\ q[2] = m2 /\ q[3] = m3
    <3>1. LoadNotes(s) = <<m1, m2, m3>>
      BY <1>2, <2>1 DEF LoadNotes
    <3> QED BY <3>1
  <2>3. After(p, q) = Handle(Handle(Handle(p, m1), m2), m3)
    BY <2>2, OneByOne
  <2>4. \A x : /\ Handle(x, m1) = x \cup (s.tests \cap ByLoading)
               /\ Handle(x, m2) = x \cup (s.tests \cap StateRegs(UpTo(s.state)))
               /\ Handle(x, m3) = x \cup (s.tests \cap EffectRegs(s.running))
    BY <1>1, <2>1, Handled
  <2>5. After(p, LoadNotes(s))
          = ((p \cup (s.tests \cap ByLoading)) \cup (s.tests \cap StateRegs(UpTo(s.state))))
            \cup (s.tests \cap EffectRegs(s.running))
    BY <2>2, <2>3, <2>4
  <2> QED BY <1>2, <2>5 DEF Fed
<1>3. ASSUME s.loaded
      PROVE  After(Due(s), UnloadNotes(s)) = Manned(s)
  <2>1. PICK m1, m2, m3 :
          /\ m1 = Note("EffectsStopped", s, s.running)
          /\ m2 = Note("StatesDeactivatedLoaded", s, UpTo(s.state))
          /\ m3 = Note("ItemUnloaded", s, {})
    OBVIOUS
  <2>2. PICK q : q = UnloadNotes(s) /\ Len(q) = 3 /\ q[1] = m1 /\ q[2] = m2 /\ q[3] = m3
    <3>1. UnloadNotes(s) = <<m1, m2, m3>>
      BY <1>3, <2>1 DEF UnloadNotes
    <3> QED BY <3>1
  <2>3. After(Due(s), q) = Handle(Handle(Handle(Due(s), m1), m2), m3)
    BY <2>2, OneByOne
  <2>4. \A x : /\ Handle(x, m1) = x \ EffectRegs(s.running)
               /\ Handle(x, m2) = x \ StateRegs(UpTo(s.state))
               /\ Handle(x, m3) = x \ ByLoading
    BY <1>1, <2>1, Handled
  <2>5. After(Due(s), UnloadNotes(s))
          = ((Due(s) \ EffectRegs(s.running)) \ StateRegs(UpTo(s.state))) \ ByLoading
    BY <2>2, <2>3, <2>4
  <2>6. Manned(s) \cap (EffectRegs(s.running) \cup StateRegs(UpTo(s.state)) \cup ByLoading) = {}
    BY Kinds DEF Manned, EffectRegs, StateRegs, DroneRegs
  <2>7. Fed(s) \subseteq EffectRegs(s.running) \cup StateRegs(UpTo(s.state)) \cup ByLoading
    BY DEF Fed
  <2> QED BY <2>5, <2>6, <2>7 DEF Due
<1>4. ASSUME ~s.loaded
      PROVE  After(p, LoadNotes(s)) = p \cup Fed(s) /\ After(Due(s), UnloadNotes(s)) = Manned(s)
  <2>1. PICK q : q = <<>> /\ Len(q) = 0
    OBVIOUS
  <2>2. \A x : After(x, q) = x
    BY <2>1, OneByOne
  <2>3. LoadNotes(s) = q /\ UnloadNotes(s) = q
    BY <1>4, <2>1 DEF LoadNotes, UnloadNotes
  <2> QED BY <1>4, <2>2, <2>3 DEF Fed, Due
<1> QED BY <1>2, <1>3, <1>4 DEF Proper

\* Notes are sequences.
LEMMA NotesTyped ==
  ASSUME NEW s, NEW t, NEW what
  PROVE  \E X : /\ AddNotes(s) \in Seq(X) /\ RemoveNotes(s) \in Seq(X)
                /\ LoadNotes(t) \in Seq(X) /\ LoadNotes(s) \in Seq(X) /\ UnloadNotes(s) \in Seq(X)
                /\ EffectNotes(s, t) \in Seq(X)
                /\ UpNotes(s, what) \in Seq(X) /\ DownNotes(s, what) \in Seq(X)
<1> DEFINE K == {"ItemLoaded", "ItemUnloaded", "StatesActivated", "StatesDeactivated",
                 "StatesActivatedLoaded", "StatesDeactivatedLoaded", "EffectsStarted",
                 "EffectsStopped"}
           W == {{}, UpTo(s.state), UpTo(t.state), s.running, t.running,
                 t.running \ s.running, s.running \ t.running, what}
           X == {Note(k, u, w) : k \in K, u \in {s, t}, w \in W}
<1>1. \A k \in K, u \in {s, t}, w \in W : Note(k, u, w) \in X
  OBVIOUS
<1> HIDE DEF X
<1> QED BY <1>1 DEF AddNotes, RemoveNotes, LoadNotes, UnloadNotes, EffectNotes, UpNotes, DownNotes

\* An effect of each kind, at most, runs in two situations.
Once(s, t) ==
  \A r \in DOMAIN ByEffect : \A e, f \in ByEffect[r] \cap (s.running \cup t.running) : e = f

\* An item that is put on the fit is launched when it is a drone, one taken off is not.
LEMMA Adding ==
  ASSUME NEW s, Proper(s), s.fit, NEW p
  PROVE  /\ After(p, AddNotes(s)) = p \cup Manned(s)
         /\ After(Manned(s), RemoveNotes(s)) = {}
<1>1. s.tests \subseteq Registers
  BY DEF Proper
<1>2. PICK m, n : m = Note("StatesActivated", s, UpTo(s.state))
                  /\ n = Note("StatesDeactivated", s, UpTo(s.state))
  OBVIOUS
<1>3. PICK q, v : /\ q = AddNotes(s) /\ Len(q) = 1 /\ q[1] = m
                  /\ v = RemoveNotes(s) /\ Len(v) = 1 /\ v[1] = n
  <2>1. AddNotes(s) = <<m>> /\ RemoveNotes(s) = <<n>>
    BY <1>2 DEF AddNotes, RemoveNotes
  <2> QED BY <2>1
<1>4. \A x : After(x, q) = Handle(x, m) /\ After(x, v) = Handle(x, n)
  BY <1>3, OneByOne
<1>5. \A x : Handle(x, m) = x \cup (s.tests \cap DroneRegs(UpTo(s.state)))
             /\ Handle(x, n) = x \ DroneRegs(UpTo(s.state))
  BY <1>1, <1>2, Handled
<1> QED BY <1>3, <1>4, <1>5 DEF Manned

\* An item that enters the fit gets into all registers that are due to it.
LEMMA Entering ==
  ASSUME NEW s, Proper(s), s.fit
  PROVE  After({}, AddNotes(s) \o LoadNotes(s)) = Due(s)
<1>1. PICK X : AddNotes(s) \in Seq(X) /\ LoadNotes(s) \in Seq(X)
  BY NotesTyped
<1>2. After({}, AddNotes(s) \o LoadNotes(s)) = After(After({}, AddNotes(s)), LoadNotes(s))
  BY <1>1, InTurn
<1>3. After({}, AddNotes(s)) = Manned(s)
  BY Adding
<1> QED BY <1>2, <1>3, Loading DEF Due

\* An item that leaves the fit gets out of all.
LEMMA Leaving ==
  ASSUME NEW s, Proper(s), s.fit
  PROVE  After(Due(s), UnloadNotes(s) \o RemoveNotes(s)) = {}
<1>1. PICK X : UnloadNotes(s) \in Seq(X) /\ RemoveNotes(s) \in Seq(X)
  BY NotesTyped
<1>2. After(Due(s), UnloadNotes(s) \o RemoveNotes(s))
        = After(After(Due(s), UnloadNotes(s)), RemoveNotes(s))
  BY <1>1, InTurn
<1> QED BY <1>2, Loading, Adding

\* A source that is set leaves the item on its fit and in its state.
LEMMA Switching ==
  ASSUME NEW s, NEW t, Proper(s), Proper(t), Manned(s) = Manned(t)
  PROVE  After(Due(s), UnloadNotes(s) \o LoadNotes(t)) = Due(t)
<1>1. PICK X : UnloadNotes(s) \in Seq(X) /\ LoadNotes(t) \in Seq(X)
  BY NotesTyped
<1>2. After(Due(s), UnloadNotes(s) \o LoadNotes(t))
        = After(After(Due(s), UnloadNotes(s)), LoadNotes(t))
  BY <1>1, InTurn
<1>3. After(Due(s), UnloadNotes(s)) = Manned(s)
  BY Loading
<1>4. After(Manned(s), LoadNotes(t)) = Manned(s) \cup Fed(t)
  BY Loading
<1> QED BY <1>2, <1>3, <1>4 DEF Due

\* Effects start before others stop: with one effect of a kind none is lost.
LEMMA Effecting ==
  ASSUME NEW s, NEW t, Proper(s), Proper(t), s.fit = t.fit, s.loaded = t.loaded,
         s.state = t.state, s.tests = t.tests, Once(s, t)
  PROVE  After(Due(s), EffectNotes(s, t)) = Due(t)
<1>1. s.tests \subseteq Registers
  BY DEF Proper
<1>2. CASE ~s.loaded
  <2>1. PICK q : q = EffectNotes(s, t) /\ Len(q) = 0
    <3>1. EffectNotes(s, t) = <<>>
      BY <1>2 DEF EffectNotes
    <3> QED BY <3>1
  <2>2. After(Due(s), q) = Due(s)
    BY <2>1, OneByOne
  <2>3. Due(s) = Due(t)
    BY <1>2 DEF Due, Fed, Manned
  <2> QED BY <2>1, <2>2, <2>3
<1>3. CASE s.loaded
  <2>1. PICK m, n : m = Note("EffectsStarted", s, t.running \ s.running)
                    /\ n = Note("EffectsStopped", s, s.running \ t.running)
    OBVIOUS
  <2>2. PICK q : q = EffectNotes(s, t) /\ Len(q) = 2 /\ q[1] = m /\ q[2] = n
    <3>1. EffectNotes(s, t) = <<m, n>>
      BY <1>3, <2>1 DEF EffectNotes
    <3> QED BY <3>1
  <2>3. After(Due(s), q) = Handle(Handle(Due(s), m), n)
    BY <2>2, OneByOne
  <2>4. \A x : /\ Handle(x, m) = x \cup (s.tests \cap EffectRegs(t.running \ s.running))
               /\ Handle(x, n) = x \ EffectRegs(s.running \ t.running)
    BY <1>1, <2>1, Handled
  <2>5. After(Due(s), q) = (Due(s) \cup (s.tests \cap EffectRegs(t.running \ s.running)))
                           \ EffectRegs(s.running \ t.running)
    BY <2>3, <2>4
  <2>6. \A r \in EffectRegs(s.running \ t.running) : r \notin EffectRegs(t.running)
    BY DEF EffectRegs, Once
  <2>7. EffectRegs(t.running \ s.running) \subseteq EffectRegs(t.running)
    BY DEF EffectRegs
  <2>8. EffectRegs(t.running) \subseteq EffectRegs(s.running) \cup EffectRegs(t.running \ s.running)
    BY DEF EffectRegs
  <2>9. EffectRegs(s.running) \subseteq EffectRegs(t.running) \cup EffectRegs(s.running \ t.running)
    BY DEF EffectRegs
  <2>10. (ByLoading \cup StateRegs(UpTo(s.state)) \cup DroneRegs(UpTo(s.state)))
           \cap EffectRegs(s.running \ t.running) = {}
    BY Kinds DEF EffectRegs, StateRegs, DroneRegs
  <2>11. Due(s) = (s.tests \cap (ByLoading \cup StateRegs(UpTo(s.state))
                                 \cup EffectRegs(s.running)))
                  \cup (s.tests \cap DroneRegs(UpTo(s.state)))
    BY <1>3 DEF Due, Fed, Manned, Proper
  <2>12. Due(t) = (s.tests \cap (ByLoading \cup StateRegs(UpTo(s.state))
                                 \cup EffectRegs(t.running)))
                  \cup (s.tests \cap DroneRegs(UpTo(s.state)))
    BY <1>3 DEF Due, Fed, Manned, Proper
  <2> QED BY <2>2, <2>5, <2>6, <2>7, <2>8, <2>9, <2>10, <2>11, <2>12
<1> QED BY <1>2, <1>3 DEF Proper

\* A situation in which only the state is another.
InState(s, state_) ==
  [fit |-> s.fit, loaded |-> s.loaded, state |-> state_, running |-> s.running, tests |-> s.tests]

\* A concatenation of two messages.
LEMMA Pair ==
  ASSUME NEW m, NEW n, NEW q, q = <<m>> \o <<n>>
  PROVE  Len(q) = 2 /\ q[1] = m /\ q[2] = n
<1>1. PICK a, b : a = <<m>> /\ b = <<n>>
  OBVIOUS
<1>2. a \in Seq({m, n}) /\ b \in Seq({m, n}) /\ Len(a) = 1 /\ Len(b) = 1 /\ a[1] = m /\ b[1] = n
  BY <1>1
<1>3. q = a \o b
  BY <1>1
<1>4. Len(q) = 2 /\ q[1] = a[1] /\ q[2] = b[1]
  BY <1>2, <1>3
<1> QED BY <1>2, <1>4

\* A state that rises adds what is due to the states between.
LEMMA Raising ==
  ASSUME NEW s, NEW new \in State, Proper(s), s.fit, new > s.state
  PROVE  After(Due(s), UpNotes(s, UpTo(new) \ UpTo(s.state))) = Due(InState(s, new))
<1>1. s.tests \subseteq Registers
  BY DEF Proper
<1>2. PICK up : up = UpTo(new) \ UpTo(s.state)
  OBVIOUS
<1>3. PICK m, n : m = Note("StatesActivated", s, up) /\ n = Note("StatesActivatedLoaded", s, up)
  OBVIOUS
<1>4. \A x : /\ Handle(x, m) = x \cup (s.tests \cap DroneRegs(up))
             /\ Handle(x, n) = x \cup (s.tests \cap StateRegs(up))
  BY <1>1, <1>3, Handled
<1>5. UpTo(new) = UpTo(s.state) \cup up
  BY <1>2, Kinds DEF UpTo, Proper
<1>6. /\ StateRegs(UpTo(new)) = StateRegs(UpTo(s.state)) \cup StateRegs(up)
      /\ DroneRegs(UpTo(new)) = DroneRegs(UpTo(s.state)) \cup DroneRegs(up)
  BY <1>5 DEF StateRegs, DroneRegs
<1> DEFINE u == InState(s, new)
<1>7. /\ Fed(u) = IF ~s.loaded THEN {}
                  ELSE s.tests \cap (ByLoading \cup StateRegs(UpTo(new)) \cup EffectRegs(s.running))
      /\ Manned(u) = s.tests \cap DroneRegs(UpTo(new))
  BY DEF Fed, Manned, InState
<1>8. CASE s.loaded
  <2>1. PICK q : q = UpNotes(s, up) /\ Len(q) = 2 /\ q[1] = m /\ q[2] = n
    <3>1. PICK q : q = UpNotes(s, up)
      OBVIOUS
    <3>2. q = <<m>> \o <<n>>
      BY <1>3, <1>8, <3>1 DEF UpNotes
    <3>3. Len(q) = 2 /\ q[1] = m /\ q[2] = n
      BY <3>2, Pair
    <3> QED BY <3>1, <3>3
  <2>2. After(Due(s), q) = Handle(Handle(Due(s), m), n)
    BY <2>1, OneByOne
  <2>3. After(Due(s), q)
          = (Due(s) \cup (s.tests \cap DroneRegs(up))) \cup (s.tests \cap StateRegs(up))
    BY <1>4, <2>2
  <2>4. Due(s) = (s.tests \cap (ByLoading \cup StateRegs(UpTo(s.state)) \cup EffectRegs(s.running)))
                 \cup (s.tests \cap DroneRegs(UpTo(s.state)))
    BY <1>8 DEF Due, Fed, Manned
  <2>5. After(Due(s), q) = Fed(u) \cup Manned(u)
    BY <1>6, <1>7, <1>8, <2>3, <2>4
  <2> QED BY <1>2, <2>1, <2>5 DEF Due
<1>9. CASE ~s.loaded
  <2>1. PICK q : q = UpNotes(s, up) /\ Len(q) = 1 /\ q[1] = m
    <3>1. UpNotes(s, up) = <<m>>
      BY <1>3, <1>9 DEF UpNotes
    <3> QED BY <3>1
  <2>2. After(Due(s), q) = Handle(Due(s), m)
    BY <2>1, OneByOne
  <2>3. After(Due(s), q) = Due(s) \cup (s.tests \cap DroneRegs(up))
    BY <1>4, <2>2
  <2>4. Due(s) = s.tests \cap DroneRegs(UpTo(s.state))
    BY <1>9 DEF Due, Fed, Manned
  <2>5. After(Due(s), q) = Fed(u) \cup Manned(u)
    BY <1>6, <1>7, <1>9, <2>3, <2>4
  <2> QED BY <1>2, <2>1, <2>5 DEF Due
<1> QED BY <1>8, <1>9

\* A state that falls takes away what was due to the states between.
LEMMA Lowering ==
  ASSUME NEW s, NEW new \in State, Proper(s), s.fit, new <= s.state
  PROVE  After(Due(s), DownNotes(s, UpTo(s.state) \ UpTo(new))) = Due(InState(s, new))
<1>1. s.tests \subseteq Registers
  BY DEF Proper
<1>2. PICK down : down = UpTo(s.state) \ UpTo(new)
  OBVIOUS
<1>3. PICK m, n : m = Note("StatesDeactivatedLoaded", s, down)
                  /\ n = Note("StatesDeactivated", s, down)
  OBVIOUS
<1>4. \A x : /\ Handle(x, m) = x \ StateRegs(down)
             /\ Handle(x, n) = x \ DroneRegs(down)
  BY <1>1, <1>3, Handled
<1>5. UpTo(new) = UpTo(s.state) \ down
  <2>1. PICK old \in State : old = s.state
    BY DEF Proper
  <2>2. \A st \in State : st <= new => st <= old
    BY <2>1, Kinds
  <2> QED BY <1>2, <2>1, <2>2 DEF UpTo
<1>6. /\ StateRegs(UpTo(new)) = StateRegs(UpTo(s.state)) \ StateRegs(down)
      /\ DroneRegs(UpTo(new)) = DroneRegs(UpTo(s.state)) \ DroneRegs(down)
  BY <1>5 DEF StateRegs, DroneRegs
<1>7. /\ StateRegs(down)
           \cap (ByLoading \cup EffectRegs(s.running) \cup DroneRegs(UpTo(s.state))) = {}
      /\ DroneRegs(down) \cap (ByLoading \cup EffectRegs(s.running)
                               \cup StateRegs(UpTo(s.state))) = {}
  BY Kinds DEF StateRegs, EffectRegs, DroneRegs
<1> DEFINE u == InState(s, new)
<1>8. /\ Fed(u) = IF ~s.loaded THEN {}
                  ELSE s.tests \cap (ByLoading \cup StateRegs(UpTo(new)) \cup EffectRegs(s.running))
      /\ Manned(u) = s.tests \cap DroneRegs(UpTo(new))
  BY DEF Fed, Manned, InState
<1>9. CASE s.loaded
  <2>1. PICK q : q = DownNotes(s, down) /\ Len(q) = 2 /\ q[1] = m /\ q[2] = n
    <3>1. PICK q : q = DownNotes(s, down)
      OBVIOUS
    <3>2. q = <<m>> \o <<n>>
      BY <1>3, <1>9, <3>1 DEF DownNotes
    <3>3. Len(q) = 2 /\ q[1] = m /\ q[2] = n
      BY <3>2, Pair
    <3> QED BY <3>1, <3>3
  <2>2. After(Due(s), q) = Handle(Handle(Due(s), m), n)
    BY <2>1, OneByOne
  <2>3. After(Due(s), q) = (Due(s) \ StateRegs(down)) \ DroneRegs(down)
    BY <1>4, <2>2
  <2> QED BY <1>2, <1>6, <1>7, <1>8, <1>9, <2>1, <2>3 DEF Due, Fed, Manned
<1>10. CASE ~s.loaded
  <2>1. PICK q : q = DownNotes(s, down) /\ Len(q) = 1 /\ q[1] = n
    <3>1. DownNotes(s, down) = <<n>>
      BY <1>3, <1>10 DEF DownNotes
    <3> QED BY <3>1
  <2>2. After(Due(s), q) = Handle(Due(s), n)
    BY <2>1, OneByOne
  <2>3. After(Due(s), q) = Due(s) \ DroneRegs(down)
    BY <1>4, <2>2
  <2>4. Due(s) = s.tests \cap DroneRegs(UpTo(s.state))
    BY <1>10 DEF Due, Fed, Manned
  <2>5. Due(u) = s.tests \cap DroneRegs(UpTo(new))
    BY <1>8, <1>10 DEF Due
  <2> QED BY <1>2, <1>6, <2>1, <2>3, <2>4, <2>5
<1> QED BY <1>9, <1>10

\* An item whose state and effects change, in this order.
LEMMA Turning ==
  ASSUME NEW s, NEW t, Proper(s), Proper(t), s.fit, t.fit, s.loaded = t.loaded,
         s.tests = t.tests, Once(s, t)
  PROVE  /\ t.state > s.state =>
              After(Due(s), UpNotes(s, UpTo(t.state) \ UpTo(s.state)) \o EffectNotes(s, t)) = Due(t)
         /\ ~(t.state > s.state) =>
              After(Due(s), DownNotes(s, UpTo(s.state) \ UpTo(t.state)) \o EffectNotes(s, t))
                = Due(t)
<1>1. PICK new \in State : new = t.state
  BY DEF Proper
<1>2. PICK u : u = InState(s, new)
  OBVIOUS
<1>3. Proper(u) /\ Once(u, t) /\ u.fit = t.fit /\ u.loaded = t.loaded /\ u.state = t.state
      /\ u.tests = t.tests
  BY <1>1, <1>2 DEF InState, Proper, Once
<1>4. EffectNotes(s, t) = EffectNotes(u, t)
  BY <1>2 DEF EffectNotes, InState, Note
<1>5. After(Due(u), EffectNotes(u, t)) = Due(t)
  BY <1>3, Effecting
<1>6. ASSUME t.state > s.state
      PROVE  After(Due(s), UpNotes(s, UpTo(t.state) \ UpTo(s.state)) \o EffectNotes(s, t)) = Due(t)
  <2>1. PICK up, q : up = UpTo(new) \ UpTo(s.state) /\ q = UpNotes(s, up)
    OBVIOUS
  <2>2. After(Due(s), q) = Due(u)
    BY <1>1, <1>2, <1>6, <2>1, Raising
  <2>3. PICK X : q \in Seq(X) /\ EffectNotes(s, t) \in Seq(X)
    BY <2>1, NotesTyped
  <2>4. After(Due(s), q \o EffectNotes(s, t)) = After(After(Due(s), q), EffectNotes(s, t))
    BY <2>3, InTurn
  <2> QED BY <1>1, <1>4, <1>5, <2>1, <2>2, <2>4
<1>7. ASSUME ~(t.state > s.state)
      PROVE  After(Due(s), DownNotes(s, UpTo(s.state) \ UpTo(t.state)) \o EffectNotes(s, t))
               = Due(t)
  <2>1. PICK down, q : down = UpTo(s.state) \ UpTo(new) /\ q = DownNotes(s, down)
    OBVIOUS
  <2>2. After(Due(s), q) = Due(u)
    <3>1. new <= s.state
      BY <1>1, <1>7, Kinds DEF Proper
    <3> QED BY <1>1, <1>2, <2>1, <3>1, Lowering
  <2>3. PICK X : q \in Seq(X) /\ EffectNotes(s, t) \in Seq(X)
    BY <2>1, NotesTyped
  <2>4. After(Due(s), q \o EffectNotes(s, t)) = After(After(Due(s), q), EffectNotes(s, t))
    BY <2>3, InTurn
  <2> QED BY <1>1, <1>4, <1>5, <2>1, <2>2, <2>4
<1> QED BY <1>6, <1>7
-----------------------------------------------------------------------------
(* The situations of items, and what the calls change in them.             *)

\* What is published of an item, said of its situation.
Published ==
  \A i : /\ EnterMsgs(i) = AddNotes(Sit(i)) \o LoadNotes(Sit(i))
         /\ LeaveMsgs(i) = UnloadNotes(Sit(i)) \o RemoveNotes(Sit(i))
         /\ LoadedMsgs(i) = LoadNotes(Sit(i))
         /\ UnloadedMsgs(i) = UnloadNotes(Sit(i))
LEMMA MsgsPublished == Published
<1> SUFFICES ASSUME NEW i
             PROVE  /\ AddedMsgs(i) = AddNotes(Sit(i)) /\ RemovedMsgs(i) = RemoveNotes(Sit(i))
                    /\ LoadedMsgs(i) = LoadNotes(Sit(i))
                    /\ UnloadedMsgs(i) = UnloadNotes(Sit(i))
  BY DEF Published, EnterMsgs, LeaveMsgs
<1>1. \A kind, what : Msg(kind, i, what) = Note(kind, Sit(i), what)
  BY DEF Msg, Note, Sit
<1>2. Sit(i).loaded = IsLoaded(i) /\ Sit(i).state = StateOf(i) /\ Sit(i).running = Running(i)
  BY DEF Sit
<1> QED BY <1>1, <1>2 DEF AddedMsgs, RemovedMsgs, LoadedMsgs, UnloadedMsgs,
                          AddNotes, RemoveNotes, LoadNotes, UnloadNotes
LEMMA MsgsPublishedNext == Published'
BY MsgsPublished, PTL

\* The same of changes of effects and of states.
LEMMA ChangesPublished ==
  \A i : /\ EffectMsgs(i) = EffectNotes(Sit(i), Sit(i)')
         /\ \A old, new : StateMsgs(i, old, new) =
              IF new > old
              THEN UpNotes(Sit(i), UpTo(new) \ UpTo(old)) \o EffectNotes(Sit(i), Sit(i)')
              ELSE DownNotes(Sit(i), UpTo(old) \ UpTo(new)) \o EffectNotes(Sit(i), Sit(i)')
<1> SUFFICES ASSUME NEW i
             PROVE  /\ EffectMsgs(i) = EffectNotes(Sit(i), Sit(i)')
                    /\ \A old, new : StateMsgs(i, old, new) =
                         IF new > old
                         THEN UpNotes(Sit(i), UpTo(new) \ UpTo(old)) \o EffectNotes(Sit(i), Sit(i)')
                         ELSE DownNotes(Sit(i), UpTo(old) \ UpTo(new))
                              \o EffectNotes(Sit(i), Sit(i)')
  OBVIOUS
<1>1. \A kind, what : Msg(kind, i, what) = Note(kind, Sit(i), what)
  BY DEF Msg, Note, Sit
<1>2. Sit(i).loaded = IsLoaded(i) /\ Sit(i).running = Running(i)
      /\ Sit(i)'.running = Running(i)'
  BY DEF Sit
<1>3. EffectMsgs(i) = EffectNotes(Sit(i), Sit(i)')
  BY <1>1, <1>2 DEF EffectMsgs, EffectNotes
<1> QED BY <1>1, <1>2, <1>3 DEF StateMsgs, UpNotes, DownNotes

\* A charge has the state of its module.
LEMMA ChargeStates ==
  ASSUME TypeOK
  PROVE  /\ \A m \in Carriers : charge[m] # NoItem => StateOf(charge[m]) = state[m]
         /\ \A c \in Charges : (\A m \in Carriers : charge[m] # c) => StateOf(c) = offline
         /\ \A i \in Items : StateOf(i) \in State
<1>1. offline \in State /\ \A x \in State : x \in Int /\ x >= offline
  BY DEF State, offline, overload
<1>2. ASSUME NEW m \in Carriers, charge[m] # NoItem
      PROVE  StateOf(charge[m]) = state[m]
  <2>1. charge[m] \in Charges /\ {k \in Carriers : charge[k] = charge[m]} = {m}
    BY <1>2 DEF TypeOK
  <2>2. {state[k] : k \in {l \in Carriers : charge[l] = charge[m]}} \cup {offline}
          = {state[m], offline}
    BY <2>1
  <2>3. state[m] \in Int /\ offline \in Int /\ state[m] >= offline
    BY <1>1 DEF TypeOK, Carriers
  <2>4. Max({state[m], offline}) = state[m]
    BY <2>3, MaxOfTwo
  <2> QED BY <2>1, <2>2, <2>4 DEF StateOf
<1>3. ASSUME NEW c \in Charges, \A m \in Carriers : charge[m] # c
      PROVE  StateOf(c) = offline
  <2>1. {state[k] : k \in {l \in Carriers : charge[l] = c}} \cup {offline} = {offline, offline}
    BY <1>3
  <2>2. Max({offline, offline}) = offline
    BY <1>1, MaxOfTwo DEF offline
  <2> QED BY <2>1, <2>2 DEF StateOf
<1>4. ASSUME NEW i \in Items
      PROVE  StateOf(i) \in State
  <2>1. CASE i \in Charges
    <3>1. CASE \A m \in Carriers : charge[m] # i
      BY <1>1, <1>3, <2>1, <3>1
    <3>2. CASE \E m \in Carriers : charge[m] = i
      <4>1. PICK m \in Carriers : charge[m] = i
        BY <3>2
      <4>2. i # NoItem
        BY ContentsAssumption
      <4> QED BY <1>2, <4>1, <4>2 DEF TypeOK, Carriers
    <3> QED BY <3>1, <3>2
  <2>2. CASE i \notin Charges
    BY <2>2 DEF StateOf, TypeOK
  <2> QED BY <2>1, <2>2
<1> QED BY <1>2, <1>3, <1>4

\* The same, of the next state.
LEMMA ChargeStatesNext ==
  TypeOK' => \A m \in Carriers : charge'[m] # NoItem => StateOf(charge[m])' = state'[m]
<1> DEFINE P == \A m \in Carriers : charge[m] # NoItem => StateOf(charge[m]) = state[m]
<1>1. TypeOK => P
  BY ChargeStates
<1>2. TypeOK' => P'
  BY <1>1, PTL
<1> QED BY <1>2

Situated ==
  \A i \in Items : Proper(Sit(i)) /\ (~OnFit(i) => Due(Sit(i)) = {})

\* Situations of items are proper, and nothing is due to an item off the fit.
LEMMA Situations == TypeOK => Situated
<1> SUFFICES ASSUME TypeOK, NEW i \in Items
             PROVE  Proper(Sit(i)) /\ (~OnFit(i) => Due(Sit(i)) = {})
  BY DEF Situated
<1>1. /\ Sit(i).loaded = IsLoaded(i) /\ Sit(i).state = StateOf(i) /\ Sit(i).running = Running(i)
      /\ Sit(i).fit = OnFit(i) /\ Sit(i).tests = {r \in Registers : Takes(r, i)}
  BY DEF Sit
<1>2. IsLoaded(i) => OnFit(i)
  BY DEF IsLoaded
<1>3. ~IsLoaded(i) => Running(i) = {}
  BY DEF Running
<1>4. OnFit(i) \in BOOLEAN /\ IsLoaded(i) \in BOOLEAN
  BY DEF OnFit, IsLoaded
<1>5. Proper(Sit(i))
  BY <1>1, <1>2, <1>3, <1>4, ChargeStates DEF Proper
<1>6. ~OnFit(i) => Due(Sit(i)) = {}
  BY <1>1, <1>2 DEF Due, Fed, Manned
<1> QED BY <1>5, <1>6
LEMMA SituationsNext == TypeOK' => Situated'
BY Situations, PTL

\* The registers follow the situations.
Followed == \A i \in Items : reg[i] = Due(Sit(i))

\* What is left of each test when the type of an item stays.
LEMMA SameTests ==
  ASSUME NEW i, IsLoaded(i)' <=> IsLoaded(i), source' = source
  PROVE  Sit(i)'.tests = Sit(i).tests
<1>1. Type(i)' = Type(i) /\ TypeAttrs(i)' = TypeAttrs(i)
  BY DEF Type, TypeAttrs
<1>2. \A a : (Has(i, a)' <=> Has(i, a)) /\ TypeAttr(i, a)' = TypeAttr(i, a)
  BY <1>1 DEF Has, TypeAttr
<1>3. \A attrs : Values(i, attrs)' = Values(i, attrs)
  BY <1>2 DEF Values
<1>4. \A r : Takes(r, i)' <=> Takes(r, i)
  BY <1>1, <1>2, <1>3
     DEF Takes, TakesCapitalItem, TakesChargeGroup, TakesChargeSize, TakesChargeVolume,
         TakesDroneGroup, TakesShipTypeGroup, TakesSkillRequirement, TakesMaxGroup,
         TakesSlotIndex, TakesState, TakesRigSize, TakesLaunchedDrone, TakesDroneVolume,
         TakesDroneBandwidth, TakesFighterSquad, TakesResourceUser, IsModule
<1> QED BY <1>4 DEF Sit

\* A call leaves the situation of an item that it does not reach.
LEMMA Unmoved ==
  ASSUME NEW i, OnFit(i)' <=> OnFit(i), StateOf(i)' = StateOf(i), source' = source,
         i \in stopped' <=> i \in stopped
  PROVE  Sit(i)' = Sit(i)
<1>1. IsLoaded(i)' <=> IsLoaded(i)
  BY DEF IsLoaded
<1>2. Type(i)' = Type(i)
  BY DEF Type
<1>3. Running(i)' = Running(i)
  BY <1>1, <1>2 DEF Running
<1>4. Sit(i)'.tests = Sit(i).tests
  BY <1>1, SameTests
<1>5. {r \in Registers : Takes(r, i)'} = {r \in Registers : Takes(r, i)}
  BY <1>4 DEF Sit
<1>6. OnFit(i)' = OnFit(i) /\ IsLoaded(i)' = IsLoaded(i)
  BY <1>1 DEF OnFit, IsLoaded
<1> QED BY <1>3, <1>5, <1>6 DEF Sit

\* An item that enters gets what is due to it, one that leaves loses all.
LEMMA Moves ==
  ASSUME TypeOK, TypeOK', Followed, NEW i \in Items
  PROVE  /\ ~OnFit(i) /\ OnFit(i)' => After(reg[i], EnterMsgs(i)') = Due(Sit(i)')
         /\ OnFit(i) /\ ~OnFit(i)' => After(reg[i], LeaveMsgs(i)) = Due(Sit(i)')
         /\ ~OnFit(i) /\ ~OnFit(i)' => reg[i] = Due(Sit(i)')
         /\ Sit(i)' = Sit(i) => reg[i] = Due(Sit(i)')
<1>1. PICK s, t : s = Sit(i) /\ t = Sit(i)'
  OBVIOUS
<1>2. /\ Proper(s) /\ Proper(t) /\ (s.fit <=> OnFit(i)) /\ (t.fit <=> OnFit(i)')
      /\ reg[i] = Due(s) /\ (~OnFit(i) => Due(s) = {}) /\ (~OnFit(i)' => Due(t) = {})
  <2>1. Situated /\ Situated'
    BY Situations, SituationsNext
  <2>2. (Sit(i).fit <=> OnFit(i)) /\ (Sit(i)'.fit <=> OnFit(i)')
    BY DEF Sit
  <2> QED BY <1>1, <2>1, <2>2 DEF Situated, Followed
<1>3. EnterMsgs(i)' = AddNotes(t) \o LoadNotes(t) /\ LeaveMsgs(i) = UnloadNotes(s) \o RemoveNotes(s)
  BY <1>1, MsgsPublished, MsgsPublishedNext DEF Published
<1>4. OnFit(i)' => After({}, AddNotes(t) \o LoadNotes(t)) = Due(t)
  BY <1>2, Entering
<1>5. OnFit(i) => After(Due(s), UnloadNotes(s) \o RemoveNotes(s)) = {}
  BY <1>2, Leaving
<1> QED BY <1>1, <1>2, <1>3, <1>4, <1>5

\* What the items of S publish is all that changes the registers.
LEMMA Publishing ==
  ASSUME NEW S, NEW M, reg' = [i \in Items |-> IF i \in S THEN After(reg[i], M[i]) ELSE reg[i]],
         \A i \in Items \cap S : After(reg[i], M[i]) = Due(Sit(i)'),
         \A i \in Items \ S : reg[i] = Due(Sit(i)')
  PROVE  Followed'
<1>1. \A i \in Items : reg'[i] = Due(Sit(i)')
  OBVIOUS
<1> QED BY <1>1 DEF Followed

\* A non-carrier enters, and the one that it replaces leaves.
LEMMA AddToFitFollowed ==
  ASSUME TypeOK, TypeOK', Followed, NEW i \in Items, AddToFit(i)
  PROVE  Followed'
<1> DEFINE gone == IF Class[i] \in Singles THEN Fit(Class[i]) ELSE {}
           S == {i} \cup gone
           M == [j \in Items |-> IF j = i THEN EnterMsgs(j)' ELSE LeaveMsgs(j)]
<1>1. /\ i \notin on /\ i \notin Charges /\ i \notin Carriers
      /\ on' = (on \ gone) \cup {i}
      /\ UNCHANGED <<charge, state, source, stopped>>
  BY DEF AddToFit, Add, Aside
<1>2. reg' = [j \in Items |-> IF j \in S THEN After(reg[j], M[j]) ELSE reg[j]]
  BY DEF AddToFit, Publish
<1>3. gone \subseteq on /\ gone \cap (Charges \cup Carriers) = {} /\ i \notin gone
  BY <1>1 DEF Fit, Singles, Charges, Carriers, Of, Modules
<1>4. on \subseteq Items /\ on \cap Charges = {}
  BY ContentsAssumption DEF TypeOK
<1>5. on' \cap Carriers = on \cap Carriers
  BY <1>1, <1>3
<1>6. ASSUME NEW j \in Items \cap S
      PROVE  After(reg[j], M[j]) = Due(Sit(j)')
  <2>1. CASE j = i
    <3>1. ~OnFit(j) /\ OnFit(j)'
      BY <1>1, <2>1 DEF OnFit
    <3> QED BY <2>1, <3>1, Moves
  <2>2. CASE j # i
    <3>1. OnFit(j) /\ ~OnFit(j)'
      BY <1>1, <1>3, <1>6, <2>2 DEF OnFit
    <3> QED BY <2>2, <3>1, Moves
  <2> QED BY <2>1, <2>2
<1>7. ASSUME NEW j \in Items \ S
      PROVE  reg[j] = Due(Sit(j)')
  <2>1. OnFit(j)' <=> OnFit(j)
    BY <1>1, <1>5 DEF OnFit
  <2>2. StateOf(j)' = StateOf(j)
    BY <1>1 DEF StateOf
  <2>3. Sit(j)' = Sit(j)
    BY <1>1, <2>1, <2>2, Unmoved
  <2> QED BY <2>3, Moves
<1> HIDE DEF S, M
<1> QED BY <1>2, <1>6, <1>7, Publishing

\* The fit of a charge is that of its module.
LEMMA ChargesFit ==
  ASSUME TypeOK
  PROVE  /\ \A m \in Carriers : charge[m] # NoItem =>
              charge[m] \in Charges /\ (OnFit(charge[m]) <=> m \in on)
         /\ \A i \in Items \ Charges : OnFit(i) <=> i \in on
         /\ Carriers \cap Charges = {}
         /\ on \cap Charges = {} /\ on \subseteq Items
<1>1. on \cap Charges = {} /\ on \subseteq Items
  BY ContentsAssumption DEF TypeOK
<1>2. Carriers \cap Charges = {}
  BY DEF Carriers, Charges, Of, Modules
<1>3. ASSUME NEW m \in Carriers, charge[m] # NoItem
      PROVE  charge[m] \in Charges /\ (OnFit(charge[m]) <=> m \in on)
  <2>1. charge[m] \in Charges /\ \A n \in Carriers : charge[n] = charge[m] => n = m
    BY <1>3 DEF TypeOK
  <2> QED BY <1>1, <1>3, <2>1 DEF OnFit
<1> QED BY <1>1, <1>2, <1>3 DEF OnFit

\* A module enters or leaves with its charge.
LEMMA WithCharge ==
  ASSUME TypeOK, TypeOK', Followed, NEW i \in Carriers,
         UNCHANGED <<charge, state, source, stopped>>
  PROVE  /\ \A j \in With(i) : (OnFit(j) <=> i \in on) /\ (OnFit(j)' <=> i \in on')
         /\ With(i) \subseteq Items
         /\ on' \ {i} = on \ {i} => \A j \in Items \ With(i) : Sit(j)' = Sit(j)
<1>1. /\ \A j \in With(i) : OnFit(j) <=> i \in on
      /\ With(i) \subseteq Items
  BY ChargesFit DEF With, Carriers, Charges, Of
<1>2. \A j \in With(i) : OnFit(j)' <=> i \in on'
  <2>1. ASSUME NEW j \in With(i), j # i PROVE OnFit(j)' <=> i \in on'
    <3>1. j = charge[i] /\ j \in Charges /\ \A n \in Carriers : charge[n] = j => n = i
      BY <2>1 DEF With, TypeOK
    <3>2. j \notin on'
      BY <3>1 DEF TypeOK
    <3> QED BY <3>1, <3>2 DEF OnFit
  <2>2. OnFit(i)' <=> i \in on'
    BY ChargesFit DEF OnFit
  <2> QED BY <2>1, <2>2
<1>3. ASSUME on' \ {i} = on \ {i}, NEW j \in Items \ With(i)
      PROVE  Sit(j)' = Sit(j)
  <2>1. StateOf(j)' = StateOf(j)
    BY DEF StateOf
  <2>2. j \in on' <=> j \in on
    BY <1>3 DEF With
  <2>3. \A m \in Carriers : charge[m] = j => (m \in on' <=> m \in on)
    BY <1>3, ContentsAssumption DEF With
  <2>4. OnFit(j)' <=> OnFit(j)
    BY <2>2, <2>3 DEF OnFit
  <2> QED BY <2>1, <2>4, Unmoved
<1> QED BY <1>1, <1>2, <1>3

\* A module enters a rack with its charge.
LEMMA PlaceFollowed ==
  ASSUME TypeOK, TypeOK', Followed, NEW i \in Items, PlaceInRack(i)
  PROVE  Followed'
<1> DEFINE M == [j \in Items |-> EnterMsgs(j)']
<1>1. /\ i \in Carriers /\ i \notin on /\ on' = on \cup {i}
      /\ UNCHANGED <<charge, state, source, stopped>>
  BY DEF PlaceInRack, Place, Insert, Aside
<1>2. reg' = [j \in Items |-> IF j \in With(i) THEN After(reg[j], M[j]) ELSE reg[j]]
  BY DEF PlaceInRack, Publish
<1>3. ASSUME NEW j \in Items \cap With(i)
      PROVE  After(reg[j], M[j]) = Due(Sit(j)')
  <2>1. ~OnFit(j) /\ OnFit(j)'
    BY <1>1, WithCharge
  <2> QED BY <2>1, Moves
<1>4. ASSUME NEW j \in Items \ With(i)
      PROVE  reg[j] = Due(Sit(j)')
  <2>1. on' \ {i} = on \ {i}
    BY <1>1
  <2>2. Sit(j)' = Sit(j)
    BY <1>1, <2>1, WithCharge
  <2> QED BY <2>2, Moves
<1> HIDE DEF M
<1> QED BY <1>2, <1>3, <1>4, Publishing

\* An item leaves the fit with its charge.
LEMMA TakeFollowed ==
  ASSUME TypeOK, TypeOK', Followed, NEW i \in Items, TakeFromFit(i)
  PROVE  Followed'
<1> DEFINE M == [j \in Items |-> LeaveMsgs(j)]
<1>1. /\ i \in on /\ on' = on \ {i}
      /\ UNCHANGED <<charge, state, source, stopped>>
  BY DEF TakeFromFit, RemoveItem, Free, Aside
<1>2. reg' = [j \in Items |-> IF j \in With(i) THEN After(reg[j], M[j]) ELSE reg[j]]
  BY DEF TakeFromFit, Publish
<1>3. \A j \in Items \cap With(i) : OnFit(j) /\ ~OnFit(j)'
  <2>1. CASE i \in Carriers
    BY <1>1, <2>1, WithCharge
  <2>2. CASE i \notin Carriers
    BY <1>1, <2>2, ChargesFit DEF With, OnFit
  <2> QED BY <2>1, <2>2
<1>4. \A j \in Items \ With(i) : Sit(j)' = Sit(j)
  <2>1. CASE i \in Carriers
    <3>1. on' \ {i} = on \ {i}
      BY <1>1
    <3> QED BY <1>1, <2>1, <3>1, WithCharge
  <2>2. CASE i \notin Carriers
    <3> SUFFICES ASSUME NEW j \in Items, j # i PROVE Sit(j)' = Sit(j)
      BY DEF With
    <3>1. (OnFit(j)' <=> OnFit(j)) /\ StateOf(j)' = StateOf(j)
      BY <1>1, <2>2 DEF OnFit, StateOf
    <3> QED BY <1>1, <3>1, Unmoved
  <2> QED BY <2>1, <2>2
<1>5. /\ \A j \in Items \cap With(i) : After(reg[j], M[j]) = Due(Sit(j)')
      /\ \A j \in Items \ With(i) : reg[j] = Due(Sit(j)')
  BY <1>3, <1>4, Moves
<1> HIDE DEF M
<1> QED BY <1>2, <1>5, Publishing

\* The charges of a module that is on no fit are on none.
LEMMA ChargeFollowed ==
  ASSUME TypeOK, TypeOK', Followed, NEW m \in Carriers, NEW c \in Charges \cup {NoItem},
         ChangeCharge(m, c)
  PROVE  Followed'
<1> DEFINE S == {charge[m], c} \ {NoItem}
           M == [j \in Items |-> IF j = c THEN EnterMsgs(j)' ELSE LeaveMsgs(j)]
<1>1. /\ c # charge[m] /\ charge' = [charge EXCEPT ![m] = c]
      /\ c # NoItem => \A n \in Carriers : charge[n] # c
      /\ UNCHANGED <<on, state, source, stopped>>
  BY DEF ChangeCharge, SetCharge
<1>2. /\ \A n \in Carriers : charge'[n] = IF n = m THEN c ELSE charge[n]
      /\ NoItem \notin Items
      /\ charge[m] # NoItem => charge[m] \in Charges /\ \A n \in Carriers : charge'[n] # charge[m]
  BY <1>1, ContentsAssumption DEF TypeOK
<1>3. ASSUME NEW j \in Items \cap S
      PROVE  /\ OnFit(j) <=> j # c /\ m \in on
             /\ OnFit(j)' <=> j = c /\ m \in on
  <2>1. j \notin on /\ j \in Charges /\ on \cap Charges = {}
    BY <1>3, ChargesFit
  <2>2. CASE j = c
    <3>1. \A n \in Carriers : charge[n] # j
      BY <1>1, <1>2, <2>2
    <3>2. \A n \in Carriers : charge'[n] = j <=> n = m
      BY <1>2, <2>2, <3>1
    <3> QED BY <1>1, <2>1, <2>2, <3>1, <3>2 DEF OnFit
  <2>3. CASE j # c
    <3>1. j = charge[m] /\ j # NoItem
      BY <1>3, <2>3
    <3>2. \A n \in Carriers : charge'[n] # j
      BY <1>2, <3>1
    <3>3. OnFit(j) <=> m \in on
      BY <3>1, ChargesFit
    <3> QED BY <1>1, <2>1, <2>3, <3>2, <3>3 DEF OnFit
  <2> QED BY <2>2, <2>3
<1>4. ASSUME NEW j \in Items \ S
      PROVE  Sit(j)' = Sit(j)
  <2>1. \A n \in Carriers : charge'[n] = j <=> charge[n] = j
    BY <1>2, <1>4
  <2>2. OnFit(j)' <=> OnFit(j)
    BY <1>1, <2>1 DEF OnFit
  <2>3. {n \in Carriers : charge'[n] = j} = {n \in Carriers : charge[n] = j}
    BY <2>1
  <2>4. StateOf(j)' = StateOf(j)
    BY <1>1, <2>3 DEF StateOf
  <2> QED BY <1>1, <2>2, <2>4, Unmoved
<1>5. \A j \in Items \ S : reg[j] = Due(Sit(j)')
  BY <1>4, Moves
<1>6. CASE m \notin on
  <2>1. reg' = reg
    BY <1>6 DEF ChangeCharge
  <2>2. \A j \in Items \cap S : reg[j] = Due(Sit(j)')
    BY <1>3, <1>6, Moves
  <2>3. \A j \in Items : reg'[j] = Due(Sit(j)')
    BY <1>5, <2>1, <2>2
  <2> QED BY <2>3 DEF Followed
<1>7. CASE m \in on
  <2>1. reg' = [j \in Items |-> IF j \in S THEN After(reg[j], M[j]) ELSE reg[j]]
    BY <1>7 DEF ChangeCharge, Publish
  <2>2. ASSUME NEW j \in Items \cap S
        PROVE  After(reg[j], M[j]) = Due(Sit(j)')
    <3>1. CASE j = c
      BY <1>3, <1>7, <3>1, Moves
    <3>2. CASE j # c
      BY <1>3, <1>7, <3>2, Moves
    <3> QED BY <3>1, <3>2
  <2> HIDE DEF S, M
  <2> QED BY <1>5, <2>1, <2>2, Publishing
<1> QED BY <1>6, <1>7

\* While the source stays, an item has one effect of each kind at most.
LEMMA OneOfAKind ==
  ASSUME TypeOK, NEW i, source' = source, IsLoaded(i)' <=> IsLoaded(i)
  PROVE  Once(Sit(i), Sit(i)')
<1>1. Sit(i).running = Running(i) /\ Sit(i)'.running = Running(i)'
  BY DEF Sit
<1>2. CASE ~IsLoaded(i)
  BY <1>1, <1>2 DEF Once, Running
<1>3. CASE IsLoaded(i)
  <2>1. Running(i) \subseteq Type(i).effects /\ Running(i)' \subseteq Type(i)'.effects
    BY <1>3 DEF Running
  <2>2. Type(i)' = Type(i)
    BY DEF Type
  <2>3. \A r \in DOMAIN ByEffect : \A e, f \in ByEffect[r] \cap Type(i).effects : e = f
    BY <1>3, CatalogueAssumption DEF IsLoaded, TypeOK, Type
  <2> QED BY <1>1, <2>1, <2>2, <2>3 DEF Once
<1> QED BY <1>2, <1>3

\* The state of an item is also that of its charge.
LEMMA StateFollowed ==
  ASSUME TypeOK, TypeOK', Followed, NEW i \in Items, NEW st \in States, ChangeState(i, st)
  PROVE  Followed'
<1> DEFINE M == [j \in Items |-> StateMsgs(j, state[i], st)]
<1>1. /\ i \in on \cap Stateful /\ st # state[i] /\ state' = [state EXCEPT ![i] = st]
      /\ UNCHANGED <<on, charge, source, stopped>>
  BY DEF ChangeState, SetState
<1>2. st \in State /\ state[i] \in State
      /\ \A j \in Items : state'[j] = IF j = i THEN st ELSE state[j]
  BY <1>1, ContentsAssumption DEF TypeOK
<1>3. reg' = [j \in Items |-> IF j \in With(i) THEN After(reg[j], M[j]) ELSE reg[j]]
  BY DEF ChangeState, Publish
<1>4. \A j : OnFit(j)' <=> OnFit(j)
  BY <1>1 DEF OnFit
<1>5. \A j : IsLoaded(j)' <=> IsLoaded(j)
  BY <1>1, <1>4 DEF IsLoaded
<1>6. i \notin Charges /\ OnFit(i) /\ StateOf(i) = state[i] /\ StateOf(i)' = st
  <2>1. i \notin Charges
    BY <1>1, ChargesFit
  <2> QED BY <1>1, <1>2, <2>1, ChargesFit DEF StateOf
<1>7. ASSUME NEW j \in With(i), j # i
      PROVE  j \in Items /\ OnFit(j) /\ StateOf(j) = state[i] /\ StateOf(j)' = st
  <2>1. i \in Carriers /\ charge[i] # NoItem /\ j = charge[i]
    BY <1>7 DEF With
  <2>2. j \in Charges /\ OnFit(j) /\ j \in Items
    BY <1>1, <2>1, ChargesFit DEF Charges, Of
  <2>3. StateOf(j) = state[i]
    BY <2>1, ChargeStates
  <2>4. StateOf(j)' = state'[i]
    BY <1>1, <2>1, ChargeStatesNext
  <2> QED BY <1>2, <2>2, <2>3, <2>4 DEF Carriers
<1>8. ASSUME NEW j \in Items \cap With(i)
      PROVE  After(reg[j], M[j]) = Due(Sit(j)')
  <2>1. PICK s, t : s = Sit(j) /\ t = Sit(j)'
    OBVIOUS
  <2>2. OnFit(j) /\ StateOf(j) = state[i] /\ StateOf(j)' = st
    BY <1>6, <1>7, <1>8
  <2>3. /\ s.fit = OnFit(j) /\ t.fit = OnFit(j)' /\ s.state = state[i] /\ t.state = st
        /\ s.loaded = IsLoaded(j) /\ t.loaded = IsLoaded(j)'
    BY <2>1, <2>2 DEF Sit
  <2>4. Proper(s) /\ Proper(t) /\ reg[j] = Due(s)
    BY <1>8, <2>1, Situations, SituationsNext DEF Situated, Followed
  <2>5. s.fit /\ t.fit /\ s.loaded = t.loaded
    BY <1>4, <1>5, <2>2, <2>3, <2>4 DEF Proper
  <2>6. s.tests = t.tests
    BY <1>1, <1>5, <2>1, SameTests
  <2>7. Once(s, t)
    BY <1>1, <1>5, <2>1, OneOfAKind
  <2>8. M[j] = IF st > state[i]
               THEN UpNotes(s, UpTo(t.state) \ UpTo(s.state)) \o EffectNotes(s, t)
               ELSE DownNotes(s, UpTo(s.state) \ UpTo(t.state)) \o EffectNotes(s, t)
    BY <1>8, <2>1, <2>3, ChangesPublished
  <2> HIDE DEF M
  <2> QED BY <2>1, <2>3, <2>4, <2>5, <2>6, <2>7, <2>8, Turning
<1>9. ASSUME NEW j \in Items \ With(i)
      PROVE  reg[j] = Due(Sit(j)')
  <2>1. StateOf(j)' = StateOf(j)
    <3>1. CASE j \in Charges
      <4>1. \A m \in Carriers : charge[m] = j => m # i
        BY <1>9, <3>1, ContentsAssumption DEF With, Charges, Of
      <4>2. {state'[m] : m \in {n \in Carriers : charge[n] = j}}
              = {state[m] : m \in {n \in Carriers : charge[n] = j}}
        BY <1>2, <4>1 DEF Carriers
      <4> QED BY <1>1, <3>1, <4>2 DEF StateOf
    <3>2. CASE j \notin Charges
      BY <1>2, <1>9, <3>2 DEF StateOf, With
    <3> QED BY <3>1, <3>2
  <2>2. Sit(j)' = Sit(j)
    BY <1>1, <1>4, <2>1, Unmoved
  <2> QED BY <2>2, Moves
<1> HIDE DEF M
<1> QED BY <1>3, <1>8, <1>9, Publishing

\* All items of the fit are unloaded and loaded with the new source.
LEMMA SourceFollowed ==
  ASSUME TypeOK, TypeOK', Followed, NEW new \in Sources \cup {NoSource}, ChangeSource(new)
  PROVE  Followed'
<1> DEFINE M == [j \in Items |-> UnloadedMsgs(j) \o LoadedMsgs(j)']
<1>1. UNCHANGED <<on, charge, state, stopped>>
  BY DEF ChangeSource, SetSource
<1>2. reg' = [j \in Items |-> IF j \in Fitted THEN After(reg[j], M[j]) ELSE reg[j]]
  BY DEF ChangeSource, Publish
<1>3. \A j : (OnFit(j)' <=> OnFit(j)) /\ StateOf(j)' = StateOf(j)
  BY <1>1 DEF OnFit, StateOf
<1>4. \A j \in Items : j \in Fitted <=> OnFit(j)
  BY ContentsAssumption DEF Fitted, OnFit, TypeOK
<1>5. ASSUME NEW j \in Items \cap Fitted
      PROVE  After(reg[j], M[j]) = Due(Sit(j)')
  <2>1. PICK s, t : s = Sit(j) /\ t = Sit(j)'
    OBVIOUS
  <2>2. Proper(s) /\ Proper(t) /\ reg[j] = Due(s)
    BY <1>5, <2>1, Situations, SituationsNext DEF Situated, Followed
  <2>3. s.fit = OnFit(j) /\ t.fit = OnFit(j)' /\ s.state = t.state
    BY <1>3, <2>1 DEF Sit
  <2>4. Manned(s) = Manned(t)
    <3>1. Takes("launched_drone", j)' <=> Takes("launched_drone", j)
      BY DEF Takes, MaxGroupAttr, FighterRoles, FighterAttr, ShipResources, TakesLaunchedDrone
    <3>2. "launched_drone" \in s.tests <=> "launched_drone" \in t.tests
      BY <2>1, <3>1 DEF Sit
    <3> QED BY <1>3, <2>2, <2>3, <3>2 DEF Manned, DroneRegs, Proper
  <2>5. M[j] = UnloadNotes(s) \o LoadNotes(t)
    BY <1>5, <2>1, MsgsPublished, MsgsPublishedNext DEF Published
  <2> HIDE DEF M
  <2> QED BY <2>1, <2>2, <2>4, <2>5, Switching
<1>6. \A j \in Items \ Fitted : reg[j] = Due(Sit(j)')
  BY <1>3, <1>4, Moves
<1> HIDE DEF M
<1> QED BY <1>2, <1>5, <1>6, Publishing

\* Effects of one item are forced to stop, or released.
LEMMA ToggleFollowed ==
  ASSUME TypeOK, TypeOK', Followed, NEW i \in Items, ToggleEffects(i)
  PROVE  Followed'
<1> DEFINE M == [j \in Items |-> EffectMsgs(j)]
<1>1. /\ UNCHANGED <<on, charge, state, source>>
      /\ stopped' = (stopped \ {i}) \cup ({i} \ stopped)
  BY DEF ToggleEffects, Toggle
<1>2. reg' = [j \in Items |-> IF j \in {i} THEN After(reg[j], M[j]) ELSE reg[j]]
  BY DEF ToggleEffects, Publish
<1>3. \A j : (OnFit(j)' <=> OnFit(j)) /\ StateOf(j)' = StateOf(j)
  BY <1>1 DEF OnFit, StateOf
<1>4. \A j : IsLoaded(j)' <=> IsLoaded(j)
  BY <1>1, <1>3 DEF IsLoaded
<1>5. After(reg[i], M[i]) = Due(Sit(i)')
  <2>1. PICK s, t : s = Sit(i) /\ t = Sit(i)'
    OBVIOUS
  <2>2. Proper(s) /\ Proper(t) /\ reg[i] = Due(s)
    BY <2>1, Situations, SituationsNext DEF Situated, Followed
  <2>3. /\ s.fit = OnFit(i) /\ t.fit = OnFit(i)' /\ s.state = t.state
        /\ s.loaded = IsLoaded(i) /\ t.loaded = IsLoaded(i)'
    BY <1>3, <2>1 DEF Sit
  <2>4. s.fit = t.fit /\ s.loaded = t.loaded
    BY <1>3, <1>4, <2>2, <2>3 DEF Proper
  <2>5. s.tests = t.tests
    BY <1>1, <1>4, <2>1, SameTests
  <2>6. Once(s, t)
    BY <1>1, <1>4, <2>1, OneOfAKind
  <2>7. M[i] = EffectNotes(s, t)
    BY <2>1, ChangesPublished
  <2> HIDE DEF M
  <2> QED BY <2>1, <2>2, <2>3, <2>4, <2>5, <2>6, <2>7, Effecting
<1>6. \A j \in Items \ {i} : reg[j] = Due(Sit(j)')
  <2>1. \A j \in Items \ {i} : Sit(j)' = Sit(j)
    BY <1>1, <1>3, Unmoved
  <2> QED BY <2>1, Moves
<1> HIDE DEF M
<1> QED BY <1>2, <1>5, <1>6, Publishing

\* Nothing that a register listens to changes.
LEMMA ElseFollowed ==
  ASSUME TypeOK, TypeOK', Followed, UNCHANGED <<on, charge, state, source, stopped, reg>>
  PROVE  Followed'
<1>1. ASSUME NEW j \in Items
      PROVE  reg'[j] = Due(Sit(j)')
  <2>1. (OnFit(j)' <=> OnFit(j)) /\ StateOf(j)' = StateOf(j)
    BY DEF OnFit, StateOf
  <2>2. Sit(j)' = Sit(j)
    BY <2>1, Unmoved
  <2> QED BY <2>2, Moves
<1> QED BY <1>1 DEF Followed
-----------------------------------------------------------------------------
(* Racks: what placing, inserting and taking an item make of the sequence. *)

Cell == Carriers \cup {NoItem}
\* A rack that holds a set of items, each once; none of it ends in a hole.
Holds(q, held) ==
  /\ q \in Seq(Cell) /\ Len(q) <= MaxRack
  /\ ToSet(q) \ {NoItem} = held
  /\ \A m, n \in DOMAIN q : q[m] = q[n] /\ q[m] # NoItem => m = n
Tidy(q) == q # <<>> => q[Len(q)] # NoItem

\* The maximum of a set of naturals that has a bound is in the set.
LEMMA MaxInSet ==
  ASSUME NEW b \in Nat, NEW S \in SUBSET (0..b), S # {}
  PROVE  Max(S) \in S /\ \A y \in S : Max(S) >= y
<1>1. IsFiniteSet(0..b)
  BY FS_Interval
<1> DEFINE Good == {s \in SUBSET (0..b) : s # {} => \E m \in s : \A y \in s : m >= y}
<1>2. {} \in Good
  OBVIOUS
<1>3. ASSUME NEW s \in SUBSET (0..b), s # {}, s \ {Picked(s)} \in Good
      PROVE  s \in Good
  <2>1. PICK x \in s : x = Picked(s)
    <3>1. PICK D : D = 0..b
      OBVIOUS
    <3>2. IsFiniteSet(D) /\ s \in SUBSET D
      BY <1>1, <3>1
    <3> QED BY <1>3, <3>2, Without
  <2>2. CASE s \ {x} = {}
    <3>1. \A y \in s : x >= y
      BY <2>2
    <3> QED BY <3>1
  <2>3. CASE s \ {x} # {}
    <3>1. PICK m \in s \ {x} : \A y \in s \ {x} : m >= y
      BY <1>3, <2>1, <2>3
    <3>2. CASE m >= x
      <4>1. \A y \in s : m >= y
        BY <3>1, <3>2
      <4> QED BY <4>1
    <3>3. CASE ~(m >= x)
      <4>1. \A y \in s : x >= y
        BY <3>1, <3>3
      <4> QED BY <4>1
    <3> QED BY <3>2, <3>3
  <2> QED BY <2>2, <2>3
<1> HIDE DEF Good
<1>4. \A s \in SUBSET (0..b) : s \in Good
  <2> SUFFICES ASSUME NEW s \in SUBSET (0..b) PROVE s \in Good
    OBVIOUS
  <2>1. IsFiniteSet(s)
    BY <1>1, FS_Subset
  <2>2. \A t \in SUBSET s : t # {} /\ t \ {Picked(t)} \in Good => t \in Good
    BY <1>3
  <2> QED BY <1>2, <2>1, <2>2, ElementByElement
<1>5. PICK m \in S : \A y \in S : m >= y
  BY <1>4 DEF Good
<1> QED BY <1>5 DEF Max

\* Trimming leaves what a rack holds.
LEMMA TrimmedRack ==
  ASSUME NEW q, NEW held, Holds(q, held)
  PROVE  Holds(Trim(q), held) /\ Tidy(Trim(q))
<1> DEFINE S == {p \in DOMAIN q : q[p] # NoItem} \cup {0}
           m == Max(S)
<1>1. Len(q) \in Nat /\ DOMAIN q = 1..Len(q) /\ \A n \in 1..Len(q) : q[n] \in Cell
  BY LenProperties, ElementOfSeq DEF Holds
<1>2. S \in SUBSET (0..Len(q)) /\ S # {}
  BY <1>1
<1> HIDE DEF S
<1>3. m \in S /\ \A y \in S : m >= y
  BY <1>1, <1>2, MaxInSet
<1> HIDE DEF m
<1>4. m \in 0..Len(q) /\ (m # 0 => q[m] # NoItem)
  BY <1>2, <1>3 DEF S
<1>5. PICK t : t = SubSeq(q, 1, m)
  OBVIOUS
<1>6. t \in Seq(Cell) /\ Len(t) = m /\ \A n \in 1..m : t[n] = q[n]
  <2>1. \A n \in 1..m : q[n] \in Cell
    BY <1>1, <1>4
  <2>2. m \in Int /\ 1 \in Int
    BY <1>4
  <2> QED BY <1>4, <1>5, <2>1, <2>2, SubSeqProperties
<1>7. ASSUME NEW n \in 1..Len(q), q[n] # NoItem PROVE n \in 1..m
  BY <1>1, <1>3, <1>4, <1>7 DEF S
<1>8. Trim(q) = t
  BY <1>5 DEF Trim, m, S
<1>9. Tidy(t)
  BY <1>4, <1>6, EmptySeq DEF Tidy
<1>10. DOMAIN t = 1..m /\ 1..m \subseteq 1..Len(q)
  BY <1>4, <1>6, LenProperties
<1>11. Len(t) <= MaxRack
  BY <1>1, <1>4, <1>6, ContentsAssumption DEF Holds
<1>12. ToSet(t) \ {NoItem} = held
  BY <1>1, <1>6, <1>7, <1>10 DEF Holds, ToSet
<1> QED BY <1>1, <1>6, <1>8, <1>9, <1>10, <1>11, <1>12 DEF Holds

\* An item placed at the end, beyond it, or in a hole.
LEMMA PlacedRack ==
  ASSUME NEW q, NEW held, Holds(q, held), Tidy(q), NEW i \in Carriers, i \notin held,
         NEW p \in 1..MaxRack, p \in DOMAIN q => q[p] = NoItem
  PROVE  LET a == [Allocate(q, p) EXCEPT ![p] = i] IN Holds(a, held \cup {i}) /\ Tidy(a)
<1>1. Len(q) \in Nat /\ DOMAIN q = 1..Len(q) /\ \A n \in 1..Len(q) : q[n] \in Cell
  BY LenProperties, ElementOfSeq DEF Holds
<1>2. p \in Nat /\ MaxRack \in Nat /\ p <= MaxRack /\ Len(q) <= MaxRack
  BY ContentsAssumption DEF Holds
<1>3. PICK m \in Nat : m = Max({p, Len(q)}) /\ m >= p /\ m >= Len(q) /\ (m = p \/ m = Len(q))
  <2>1. PICK l \in Nat : l = Len(q)
    BY <1>1
  <2>2. Max({p, l}) = IF p >= l THEN p ELSE l
    BY <1>2, MaxOfTwo
  <2> QED BY <1>2, <2>1, <2>2
<1>4. PICK a : a = [n \in 1..m |-> IF n = p THEN i ELSE IF n \in 1..Len(q) THEN q[n] ELSE NoItem]
  OBVIOUS
<1>5. [Allocate(q, p) EXCEPT ![p] = i] = a
  BY <1>1, <1>3, <1>4 DEF Allocate
<1>6. a \in Seq(Cell) /\ Len(a) = m /\ DOMAIN a = 1..m
  <2>1. a \in [1..m -> Cell]
    BY <1>1, <1>4 DEF Cell
  <2> QED BY <1>4, <2>1
<1>7. m <= MaxRack
  BY <1>1, <1>2, <1>3
<1>8. i # NoItem /\ p \in 1..m /\ 1..Len(q) \subseteq 1..m
  <2>1. i # NoItem
    BY ContentsAssumption DEF Carriers
  <2>2. p \in 1..m
    BY <1>3
  <2>3. \A n \in 1..Len(q) : n \in 1..m
    BY <1>1, <1>3
  <2> QED BY <2>1, <2>2, <2>3
<1>9. \A n \in 1..m : a[n] = IF n = p THEN i ELSE IF n \in 1..Len(q) THEN q[n] ELSE NoItem
  BY <1>4
<1>10. ToSet(a) \ {NoItem} = held \cup {i}
  <2>1. \A x \in held : \E n \in 1..Len(q) : q[n] = x /\ x # NoItem
    BY <1>1 DEF Holds, ToSet
  <2>2. \A n \in 1..Len(q) : q[n] \in held \cup {NoItem}
    BY <1>1 DEF Holds, ToSet
  <2> QED BY <1>1, <1>6, <1>8, <1>9, <2>1, <2>2 DEF ToSet
<1>11. \A n \in 1..Len(q) : q[n] # i
  BY <1>1, <1>8 DEF Holds, ToSet
<1>12. \A k, n \in DOMAIN a : a[k] = a[n] /\ a[k] # NoItem => k = n
  BY <1>1, <1>6, <1>9, <1>11 DEF Holds
<1>13. Tidy(a)
  <2>1. CASE m = p
    BY <1>6, <1>8, <1>9, <2>1 DEF Tidy
  <2>2. CASE m # p
    <3>1. m = Len(q) /\ m # 0
      BY <1>3, <1>8, <2>2
    <3>2. q[Len(q)] # NoItem
      BY <1>1, <3>1, EmptySeq DEF Tidy, Holds
    <3>3. a[m] = q[m]
      <4>1. m \in 1..m /\ m \in 1..Len(q)
        BY <3>1
      <4> QED BY <1>9, <2>2, <4>1
    <3> QED BY <1>6, <3>1, <3>2, <3>3 DEF Tidy
  <2> QED BY <2>1, <2>2
<1> QED BY <1>5, <1>6, <1>7, <1>10, <1>12, <1>13 DEF Holds

\* A sequence with one cell more, or one less, than another.
More(a, q, p, v) ==
  /\ a \in Seq(Cell) /\ Len(a) = Len(q) + 1
  /\ \A n \in 1..Len(q) + 1 : a[n] = IF n < p THEN q[n] ELSE IF n = p THEN v ELSE q[n - 1]
Less(a, q, p) ==
  /\ a \in Seq(Cell) /\ Len(a) = Len(q) - 1
  /\ \A n \in 1..Len(q) - 1 : a[n] = IF n < p THEN q[n] ELSE q[n + 1]

\* Insertion shifts the tail.
LEMMA InsertedCells ==
  ASSUME NEW q \in Seq(Cell), NEW p \in 1..Len(q), NEW v \in Cell, NEW a, a = InsertAt(q, p, v)
  PROVE  More(a, q, p, v)
<1>1. Len(q) \in Nat /\ \A n \in 1..Len(q) : q[n] \in Cell
  BY LenProperties, ElementOfSeq
<1>2. PICK x, w, z, y : x = SubSeq(q, 1, p - 1) /\ w = <<v>> /\ z = SubSeq(q, p, Len(q))
                        /\ y = x \o w
  OBVIOUS
<1>3. x \in Seq(Cell) /\ Len(x) = p - 1 /\ \A n \in 1..p - 1 : x[n] = q[n]
  <2>1. \A n \in 1..p - 1 : q[n] \in Cell
    BY <1>1
  <2> QED BY <1>1, <1>2, <2>1, SubSeqProperties, p - 1 \in Int
<1>4. /\ z \in Seq(Cell) /\ Len(z) = Len(q) - p + 1
      /\ \A n \in 1..Len(q) - p + 1 : z[n] = q[p + n - 1]
  <2>1. \A n \in p..Len(q) : q[n] \in Cell
    BY <1>1
  <2> QED BY <1>1, <1>2, <2>1, SubSeqProperties
<1>5. w \in Seq(Cell) /\ Len(w) = 1 /\ w[1] = v
  BY <1>2
<1>6. /\ y \in Seq(Cell) /\ Len(y) = Len(x) + Len(w)
      /\ \A n \in 1..Len(x) + Len(w) : y[n] = IF n <= Len(x) THEN x[n] ELSE w[n - Len(x)]
  BY <1>2, <1>3, <1>5, ConcatProperties
<1>7. Len(y) = p /\ \A n \in 1..p : y[n] = IF n < p THEN q[n] ELSE v
  <2>1. Len(y) = p
    BY <1>1, <1>3, <1>5, <1>6
  <2>2. ASSUME NEW n \in 1..p, n < p PROVE y[n] = q[n]
    BY <1>1, <1>3, <1>5, <1>6, <2>2
  <2>3. y[p] = v
    <3>1. p \in 1..Len(x) + Len(w) /\ ~(p <= Len(x)) /\ p - Len(x) = 1
      BY <1>1, <1>3, <1>5
    <3> QED BY <1>5, <1>6, <3>1
  <2>4. \A n \in 1..p : n < p \/ (n = p /\ ~(n < p))
    BY <1>1
  <2> QED BY <2>1, <2>2, <2>3, <2>4
<1>8. a = y \o z
  BY <1>2 DEF InsertAt
<1>9. /\ a \in Seq(Cell) /\ Len(a) = Len(y) + Len(z)
      /\ \A n \in 1..Len(y) + Len(z) : a[n] = IF n <= Len(y) THEN y[n] ELSE z[n - Len(y)]
  <2>1. y \in Seq(Cell) /\ z \in Seq(Cell)
    BY <1>4, <1>6
  <2> QED BY <1>8, <2>1, ConcatProperties
<1>11. ASSUME NEW n \in 1..Len(q) + 1
       PROVE  a[n] = IF n < p THEN q[n] ELSE IF n = p THEN v ELSE q[n - 1]
  <2>1. CASE n <= p
    BY <1>1, <1>4, <1>7, <1>9, <2>1
  <2>2. CASE n > p
    <3>1. n - p \in 1..Len(q) - p + 1 /\ p + (n - p) - 1 = n - 1
      BY <1>1, <2>2
    <3>2. n \in 1..Len(y) + Len(z) /\ ~(n <= Len(y))
      BY <1>1, <1>4, <1>7, <2>2
    <3>3. a[n] = z[n - p]
      BY <1>7, <1>9, <3>2
    <3> QED BY <1>1, <1>4, <2>2, <3>1, <3>3
  <2>3. n <= p \/ n > p
    BY <1>1
  <2> QED BY <2>1, <2>2, <2>3
<1>12. Len(a) = Len(q) + 1
  BY <1>1, <1>4, <1>7, <1>9
<1> QED BY <1>9, <1>11, <1>12 DEF More

\* Removal closes the gap.
LEMMA RemovedCells ==
  ASSUME NEW q \in Seq(Cell), NEW p \in 1..Len(q), NEW a, a = RemoveAt(q, p)
  PROVE  Less(a, q, p)
<1>1. Len(q) \in Nat /\ \A n \in 1..Len(q) : q[n] \in Cell
  BY LenProperties, ElementOfSeq
<1>2. PICK x, z : x = SubSeq(q, 1, p - 1) /\ z = SubSeq(q, p + 1, Len(q))
  OBVIOUS
<1>3. x \in Seq(Cell) /\ Len(x) = p - 1 /\ \A n \in 1..p - 1 : x[n] = q[n]
  <2>1. \A n \in 1..p - 1 : q[n] \in Cell
    BY <1>1
  <2> QED BY <1>1, <1>2, <2>1, SubSeqProperties, p - 1 \in Int
<1>4. z \in Seq(Cell) /\ Len(z) = Len(q) - p /\ \A n \in 1..Len(q) - p : z[n] = q[p + n]
  <2>1. \A n \in p + 1..Len(q) : q[n] \in Cell
    BY <1>1
  <2>2. PICK k \in Int : k = p + 1
    BY <1>1
  <2>3. /\ z \in Seq(Cell) /\ Len(z) = IF k <= Len(q) THEN Len(q) - k + 1 ELSE 0
        /\ \A n \in 1..Len(q) - k + 1 : z[n] = q[k + n - 1]
    BY <1>1, <1>2, <2>1, <2>2, SubSeqProperties
  <2> QED BY <1>1, <2>2, <2>3
<1>5. a = x \o z
  BY <1>2 DEF RemoveAt
<1>6. /\ a \in Seq(Cell) /\ Len(a) = Len(x) + Len(z)
      /\ \A n \in 1..Len(x) + Len(z) : a[n] = IF n <= Len(x) THEN x[n] ELSE z[n - Len(x)]
  <2>1. x \in Seq(Cell) /\ z \in Seq(Cell)
    BY <1>3, <1>4
  <2> QED BY <1>5, <2>1, ConcatProperties
<1>8. ASSUME NEW n \in 1..Len(q) - 1
      PROVE  a[n] = IF n < p THEN q[n] ELSE q[n + 1]
  <2>1. n \in 1..Len(x) + Len(z) /\ (n <= Len(x) <=> n < p)
    BY <1>1, <1>3, <1>4
  <2>2. CASE n < p
    <3>1. a[n] = x[n] /\ n \in 1..p - 1
      BY <1>1, <1>6, <2>1, <2>2
    <3> QED BY <1>3, <2>2, <3>1
  <2>3. CASE n >= p
    <3>1. n - (p - 1) \in 1..Len(q) - p /\ p + (n - (p - 1)) = n + 1
      BY <1>1, <2>3
    <3>2. a[n] = z[n - (p - 1)]
      BY <1>1, <1>3, <1>6, <2>1, <2>3
    <3>3. ~(n < p) /\ z[n - (p - 1)] = q[n + 1]
      <4>1. PICK k \in 1..Len(q) - p : k = n - (p - 1) /\ p + k = n + 1
        BY <3>1
      <4>2. z[k] = q[p + k]
        BY <1>4
      <4>3. ~(n < p)
        BY <1>1, <2>3
      <4> QED BY <4>1, <4>2, <4>3
    <3> QED BY <3>2, <3>3
  <2>4. n < p \/ n >= p
    BY <1>1
  <2> QED BY <2>2, <2>3, <2>4
<1>9. Len(a) = Len(q) - 1
  BY <1>1, <1>3, <1>4, <1>6
<1> QED BY <1>6, <1>8, <1>9 DEF Less

\* An item inserted before others.
LEMMA InsertedRack ==
  ASSUME NEW q, NEW held, Holds(q, held), Tidy(q), NEW i \in Carriers, i \notin held,
         NEW p \in DOMAIN q, Len(q) < MaxRack
  PROVE  Holds(InsertAt(q, p, i), held \cup {i}) /\ Tidy(InsertAt(q, p, i))
<1>1. /\ q \in Seq(Cell) /\ Len(q) \in Nat /\ DOMAIN q = 1..Len(q) /\ i \in Cell
  BY LenProperties DEF Holds, Cell
<1>2. PICK a : a = InsertAt(q, p, i)
  OBVIOUS
<1>3. /\ a \in Seq(Cell) /\ Len(a) = Len(q) + 1
      /\ \A n \in 1..Len(q) + 1 : a[n] = IF n < p THEN q[n] ELSE IF n = p THEN i ELSE q[n - 1]
  <2>1. q \in Seq(Cell) /\ p \in 1..Len(q) /\ i \in Cell
    BY <1>1
  <2>2. More(a, q, p, i)
    BY <1>2, <2>1, InsertedCells
  <2> QED BY <2>2 DEF More
<1>4. DOMAIN a = 1..Len(q) + 1
  BY <1>3, LenProperties
<1>5. i # NoItem /\ MaxRack \in Nat
  BY ContentsAssumption DEF Carriers
<1>6. ToSet(a) \ {NoItem} = held \cup {i}
  <2>1. \A x \in held : \E n \in 1..Len(q) : q[n] = x /\ x # NoItem
    BY <1>1 DEF Holds, ToSet
  <2>2. \A n \in 1..Len(q) : q[n] \in held \cup {NoItem}
    BY <1>1 DEF Holds, ToSet
  <2>3. \A n \in 1..Len(q) + 1 : a[n] \in held \cup {i, NoItem}
    BY <1>1, <1>3, <2>2
  <2>4. a[p] = i /\ p \in 1..Len(q) + 1
    BY <1>1, <1>3
  <2>5. ASSUME NEW n \in 1..Len(q) PROVE \E k \in 1..Len(q) + 1 : a[k] = q[n]
    <3>1. CASE n < p
      BY <1>1, <1>3, <3>1
    <3>2. CASE ~(n < p)
      <4>1. PICK k \in 1..Len(q) + 1 : k = n + 1 /\ ~(k < p) /\ k # p /\ k - 1 = n
        BY <1>1, <3>2
      <4> QED BY <1>3, <4>1
    <3> QED BY <3>1, <3>2
  <2>6. ToSet(a) = {a[n] : n \in 1..Len(q) + 1}
    BY <1>4 DEF ToSet
  <2>7. held \cup {i} \subseteq ToSet(a)
    BY <2>1, <2>4, <2>5, <2>6
  <2>8. NoItem \notin held \cup {i} /\ ToSet(a) \subseteq held \cup {i, NoItem}
    BY <1>5, <2>1, <2>3, <2>6
  <2> QED BY <2>7, <2>8
<1>7. \A n \in 1..Len(q) : q[n] # i
  BY <1>1, <1>5 DEF Holds, ToSet
<1>8. \A k, n \in 1..Len(q) : q[k] = q[n] /\ q[k] # NoItem => k = n
  BY <1>1 DEF Holds
<1>9. ASSUME NEW k \in 1..Len(q) + 1, NEW n \in 1..Len(q) + 1, a[k] = a[n], a[k] # NoItem
      PROVE  k = n
  <2> DEFINE b(x) == IF x < p THEN x ELSE x - 1
  <2>1. \A x \in 1..Len(q) + 1 : x # p => b(x) \in 1..Len(q) /\ a[x] = q[b(x)]
    BY <1>1, <1>3
  <2>2. a[p] = i
    BY <1>1, <1>3
  <2>3. \A x \in 1..Len(q) + 1 : x # p => a[x] # i
    BY <1>7, <2>1
  <2>4. CASE k = p \/ n = p
    BY <1>9, <2>2, <2>3, <2>4
  <2>5. CASE k # p /\ n # p
    <3>1. b(k) = b(n)
      <4>1. b(k) \in 1..Len(q) /\ b(n) \in 1..Len(q) /\ q[b(k)] = q[b(n)] /\ q[b(k)] # NoItem
        BY <1>9, <2>1, <2>5
      <4> HIDE DEF b
      <4> QED BY <1>8, <4>1
    <3> QED BY <1>1, <2>5, <3>1
  <2> QED BY <2>4, <2>5
<1>10. Tidy(a)
  <2>1. q[Len(q)] # NoItem
    BY <1>1, EmptySeq DEF Tidy
  <2>2. PICK k \in 1..Len(q) + 1 : k = Len(q) + 1 /\ ~(k < p) /\ k # p /\ k - 1 = Len(q)
    BY <1>1
  <2>3. a[Len(a)] = q[Len(q)]
    BY <1>3, <2>2
  <2> QED BY <2>1, <2>3 DEF Tidy
<1>11. Len(a) <= MaxRack
  BY <1>1, <1>3, <1>5
<1> QED BY <1>2, <1>3, <1>4, <1>6, <1>9, <1>10, <1>11 DEF Holds

\* An item removed.
LEMMA RemovedRack ==
  ASSUME NEW q, NEW held, Holds(q, held), NEW p \in DOMAIN q, q[p] # NoItem
  PROVE  Holds(RemoveAt(q, p), held \ {q[p]})
<1>1. /\ q \in Seq(Cell) /\ Len(q) \in Nat /\ DOMAIN q = 1..Len(q)
  BY LenProperties DEF Holds
<1>2. PICK a : a = RemoveAt(q, p)
  OBVIOUS
<1>3. /\ a \in Seq(Cell) /\ Len(a) = Len(q) - 1
      /\ \A n \in 1..Len(q) - 1 : a[n] = IF n < p THEN q[n] ELSE q[n + 1]
  <2>1. Less(a, q, p)
    BY <1>1, <1>2, RemovedCells
  <2> QED BY <2>1 DEF Less
<1>4. DOMAIN a = 1..Len(q) - 1
  BY <1>3, LenProperties
<1>5. \A k, n \in 1..Len(q) : q[k] = q[n] /\ q[k] # NoItem => k = n
  BY <1>1 DEF Holds
<1> DEFINE b(x) == IF x < p THEN x ELSE x + 1
<1>6. \A x \in 1..Len(q) - 1 : b(x) \in 1..Len(q) /\ b(x) # p /\ a[x] = q[b(x)]
  <2>1. ASSUME NEW x \in 1..Len(q) - 1, x < p PROVE b(x) = x /\ x \in 1..Len(q) /\ x # p
    BY <1>1, <2>1
  <2>2. ASSUME NEW x \in 1..Len(q) - 1, ~(x < p)
        PROVE  b(x) = x + 1 /\ x + 1 \in 1..Len(q) /\ x + 1 # p
    BY <1>1, <2>2
  <2>3. \A x \in 1..Len(q) - 1 : a[x] = q[b(x)]
    BY <1>3
  <2> HIDE DEF b
  <2> QED BY <2>1, <2>2, <2>3
<1>7. \A x, y \in 1..Len(q) - 1 : b(x) = b(y) => x = y
  BY <1>1
<1>8. ASSUME NEW y \in 1..Len(q), y # p PROVE \E x \in 1..Len(q) - 1 : b(x) = y
  <2>1. CASE y < p
    BY <1>1, <2>1
  <2>2. CASE ~(y < p)
    <3>1. PICK x \in 1..Len(q) - 1 : x = y - 1 /\ ~(x < p) /\ x + 1 = y
      BY <1>1, <1>8, <2>2
    <3> QED BY <3>1
  <2> QED BY <2>1, <2>2
<1> HIDE DEF b
<1>9. \A k, n \in DOMAIN a : a[k] = a[n] /\ a[k] # NoItem => k = n
  BY <1>4, <1>5, <1>6, <1>7
<1>10. ToSet(a) \ {NoItem} = held \ {q[p]}
  <2>1. \A x : x \in held <=> x # NoItem /\ \E n \in 1..Len(q) : q[n] = x
    BY <1>1 DEF Holds, ToSet
  <2>2. \A n \in 1..Len(q) - 1 : a[n] # NoItem => a[n] \in held \ {q[p]}
    BY <1>1, <1>5, <1>6, <2>1
  <2>3. ASSUME NEW x \in held, x # q[p] PROVE \E n \in 1..Len(q) - 1 : a[n] = x
    <3>1. PICK y \in 1..Len(q) : q[y] = x /\ y # p
      BY <2>1, <2>3
    <3>2. PICK n \in 1..Len(q) - 1 : b(n) = y
      BY <1>8, <3>1
    <3> QED BY <1>6, <3>1, <3>2
  <2>4. ToSet(a) = {a[n] : n \in 1..Len(q) - 1}
    BY <1>4 DEF ToSet
  <2>5. \A x \in held : x # NoItem
    BY <2>1
  <2> QED BY <2>2, <2>3, <2>4, <2>5
<1>11. Len(a) <= MaxRack
  BY <1>1, <1>3, ContentsAssumption DEF Holds
<1> QED BY <1>2, <1>3, <1>9, <1>10, <1>11 DEF Holds

\* An item that leaves a hole.
LEMMA FreedRack ==
  ASSUME NEW q, NEW held, Holds(q, held), NEW p \in DOMAIN q, q[p] # NoItem
  PROVE  Holds([q EXCEPT ![p] = NoItem], held \ {q[p]})
<1>1. /\ q \in Seq(Cell) /\ Len(q) \in Nat /\ DOMAIN q = 1..Len(q)
  BY LenProperties DEF Holds
<1>2. PICK a : a = [q EXCEPT ![p] = NoItem]
  OBVIOUS
<1>3. /\ a \in Seq(Cell) /\ Len(a) = Len(q) /\ DOMAIN a = DOMAIN q
      /\ \A n \in DOMAIN q : a[n] = IF n = p THEN NoItem ELSE q[n]
  BY <1>1, <1>2, ExceptSeq DEF Cell
<1> QED BY <1>2, <1>3 DEF Holds, ToSet
-----------------------------------------------------------------------------
(* The type invariant, and racks that end in an item.                      *)

Trimmed == \A class \in Modules : Tidy(racks[class])

\* TypeOK without the racks, and what it says of them.
Placed ==
  /\ cast \in Casts
  /\ on \subseteq cast \ Charges
  /\ \A class \in Singles : \A i, j \in Fit(class) : i = j
  /\ charge \in [Carriers -> (cast \cap Charges) \cup {NoItem}]
  /\ \A m, n \in Carriers : charge[m] = charge[n] /\ charge[m] # NoItem => m = n
  /\ state \in [Items -> State]
  /\ source \in Sources \cup {NoSource}
  /\ boosted \in BOOLEAN /\ stopped \subseteq Toggled
Racked ==
  /\ racks \in [Modules -> Seq(Cell)]
  /\ \A class \in Modules : Holds(racks[class], Fit(class))

\* TypeOK in these parts.
LEMMA TypeParts == TypeOK <=> Placed /\ Racked
<1>1. Racked <=> /\ racks \in [Modules -> Seq(Cell)]
                 /\ \A class \in Modules :
                      LET rack == racks[class] IN
                      /\ Len(rack) <= MaxRack
                      /\ ToSet(rack) \ {NoItem} = Fit(class)
                      /\ \A p, q \in DOMAIN rack : rack[p] = rack[q] /\ rack[p] # NoItem => p = q
  BY DEF Racked, Holds
<1> QED BY <1>1 DEF TypeOK, Placed, Cell
LEMMA TypePartsNext == TypeOK' <=> Placed' /\ Racked'
BY TypeParts, PTL

\* The position of a module of the fit in its rack.
LEMMA Positions ==
  ASSUME TypeOK, NEW i \in on \cap Carriers
  PROVE  Position(i) \in DOMAIN racks[Class[i]] /\ racks[Class[i]][Position(i)] = i
<1>1. Class[i] \in Modules /\ i \in Fit(Class[i])
  BY DEF Carriers, Fit
<1>2. \E p \in DOMAIN racks[Class[i]] : racks[Class[i]][p] = i
  BY <1>1, TypeParts DEF Racked, Holds, ToSet
<1> QED BY <1>2 DEF Position

\* A module enters its rack or leaves it.
LEMMA RackMoved ==
  ASSUME TypeOK, Trimmed, NEW i \in Carriers, i \in cast, NEW a, Rack(Class[i], a), Aside,
         on' \ {i} = on \ {i}, Holds(a, {j \in on' : Class[j] = Class[i]}), Tidy(a)
  PROVE  TypeOK' /\ Trimmed'
<1>1. Placed /\ Racked
  BY TypeParts
<1>2. Class[i] \in Modules /\ i \in Items
  BY DEF Carriers
<1>3. racks' = [racks EXCEPT ![Class[i]] = a] /\ a \in Seq(Cell)
  BY DEF Rack, Holds
<1>4. ASSUME NEW class \in Modules
      PROVE  Holds(racks'[class], {j \in on' : Class[j] = class}) /\ Tidy(racks'[class])
  <2>1. CASE class = Class[i]
    BY <1>1, <1>2, <1>3, <2>1 DEF Racked
  <2>2. CASE class # Class[i]
    <3>1. racks'[class] = racks[class]
      BY <1>1, <1>3, <2>2 DEF Racked
    <3>2. {j \in on' : Class[j] = class} = Fit(class)
      BY <2>2 DEF Fit
    <3> QED BY <1>1, <3>1, <3>2 DEF Racked, Trimmed
  <2> QED BY <2>1, <2>2
<1>5. racks' \in [Modules -> Seq(Cell)]
  BY <1>1, <1>3 DEF Racked
<1>6. on' \subseteq cast \ Charges
  BY <1>1, ChargesFit DEF Placed
<1>7. \A class \in Singles : {j \in on' : Class[j] = class} = Fit(class)
  BY <1>2 DEF Fit, Carriers, Singles, Modules
<1>8. Placed'
  BY <1>1, <1>6, <1>7 DEF Placed, Fit, Aside
<1>9. Racked'
  BY <1>4, <1>5 DEF Racked, Fit
<1>10. Trimmed'
  BY <1>4 DEF Trimmed
<1> QED BY <1>8, <1>9, <1>10, TypePartsNext

\* An item that is no module enters, and may replace another.
LEMMA AddTyped ==
  ASSUME TypeOK, Trimmed, NEW i \in Items, Add(i)
  PROVE  TypeOK' /\ Trimmed'
<1>1. Placed /\ Racked
  BY TypeParts
<1> DEFINE gone == IF Class[i] \in Singles THEN Fit(Class[i]) ELSE {}
<1>2. /\ i \in cast /\ i \notin Charges /\ i \notin Carriers
      /\ on' = (on \ gone) \cup {i} /\ racks' = racks /\ Aside
  BY DEF Add
<1>3. \A class \in Modules : {j \in on' : Class[j] = class} = Fit(class)
  BY <1>2 DEF Fit, Carriers, Singles, Modules
<1>4. \A class \in Singles : \A j, k \in {l \in on' : Class[l] = class} : j = k
  BY <1>1, <1>2 DEF Placed, Fit
<1>5. on' \subseteq cast \ Charges
  BY <1>1, <1>2 DEF Placed
<1>6. Placed'
  BY <1>1, <1>2, <1>4, <1>5 DEF Placed, Fit, Aside
<1>7. Racked' /\ Trimmed'
  BY <1>1, <1>2, <1>3 DEF Racked, Trimmed, Fit
<1> QED BY <1>6, <1>7, TypePartsNext

\* A module enters its rack.
LEMMA PlaceTyped ==
  ASSUME TypeOK, Trimmed, NEW i \in Items, NEW p \in 1..MaxRack, Place(i, p) \/ Insert(i, p)
  PROVE  TypeOK' /\ Trimmed'
<1>1. Placed /\ Racked
  BY TypeParts
<1>2. PICK q, a :
        /\ q = racks[Class[i]]
        /\ a = IF Place(i, p) THEN [Allocate(q, p) EXCEPT ![p] = i] ELSE InsertAt(q, p, i)
  OBVIOUS
<1>3. /\ i \in Carriers /\ i \in cast /\ i \notin on /\ on' = on \cup {i}
      /\ Aside
  BY DEF Place, Insert
<1>4. Rack(Class[i], a)
  BY <1>2 DEF Place, Insert
<1>5. Class[i] \in Modules /\ Holds(q, Fit(Class[i])) /\ Tidy(q) /\ i \notin Fit(Class[i])
  BY <1>1, <1>2, <1>3 DEF Carriers, Racked, Trimmed, Fit
<1>6. Holds(a, Fit(Class[i]) \cup {i}) /\ Tidy(a)
  <2>1. CASE Place(i, p)
    <3>1. p \in DOMAIN q => q[p] = NoItem
      BY <1>2, <2>1 DEF Place
    <3> QED BY <1>2, <1>3, <1>5, <2>1, <3>1, PlacedRack
  <2>2. CASE ~Place(i, p)
    <3>1. p \in DOMAIN q /\ Len(q) < MaxRack
      BY <1>2, <2>2 DEF Insert
    <3> QED BY <1>2, <1>3, <1>5, <2>2, <3>1, InsertedRack
  <2> QED BY <2>1, <2>2
<1>7. {j \in on' : Class[j] = Class[i]} = Fit(Class[i]) \cup {i}
  BY <1>3 DEF Fit
<1> QED BY <1>3, <1>4, <1>6, <1>7, RackMoved

\* An item leaves its container.
LEMMA TakeTyped ==
  ASSUME TypeOK, Trimmed, NEW i \in Items, RemoveItem(i) \/ Free(i)
  PROVE  TypeOK' /\ Trimmed'
<1>1. Placed /\ Racked
  BY TypeParts
<1>2. i \in on /\ i \in cast /\ on' = on \ {i} /\ Aside
  BY <1>1 DEF RemoveItem, Free, Placed
<1>3. CASE i \in Carriers
  <2>1. PICK q, p, b, a :
          /\ q = racks[Class[i]] /\ p = Position(i)
          /\ b = IF Free(i) THEN [q EXCEPT ![p] = NoItem] ELSE RemoveAt(q, p)
          /\ a = Trim(b)
    OBVIOUS
  <2>2. Rack(Class[i], a)
    BY <1>3, <2>1 DEF Free, RemoveItem
  <2>3. Class[i] \in Modules /\ Holds(q, Fit(Class[i])) /\ i # NoItem
    BY <1>1, <1>3, <2>1, ContentsAssumption DEF Carriers, Racked
  <2>4. p \in DOMAIN q /\ q[p] = i
    BY <1>2, <1>3, <2>1, Positions
  <2>5. Holds(b, Fit(Class[i]) \ {i})
    BY <2>1, <2>3, <2>4, FreedRack, RemovedRack
  <2>6. Holds(a, Fit(Class[i]) \ {i}) /\ Tidy(a)
    BY <2>1, <2>5, TrimmedRack
  <2>7. {j \in on' : Class[j] = Class[i]} = Fit(Class[i]) \ {i}
    BY <1>2 DEF Fit
  <2> QED BY <1>2, <1>3, <2>2, <2>6, <2>7, RackMoved
<1>4. CASE i \notin Carriers
  <2>1. racks' = racks
    BY <1>4 DEF RemoveItem, Free
  <2>2. \A class \in Modules : {j \in on' : Class[j] = class} = Fit(class)
    BY <1>2, <1>4 DEF Fit, Carriers
  <2>3. Placed'
    BY <1>1, <1>2 DEF Placed, Fit, Aside
  <2>4. Racked' /\ Trimmed'
    BY <1>1, <2>1, <2>2 DEF Racked, Trimmed, Fit
  <2> QED BY <2>3, <2>4, TypePartsNext
<1> QED BY <1>3, <1>4

\* A charge that is in no other module is put into one.
LEMMA ChargeTyped ==
  ASSUME TypeOK, Trimmed, NEW m \in Carriers, NEW c \in Charges \cup {NoItem}, SetCharge(m, c)
  PROVE  TypeOK' /\ Trimmed'
<1>1. Placed /\ Racked
  BY TypeParts
<1>2. /\ c \in (cast \cap Charges) \cup {NoItem}
      /\ c # NoItem => \A n \in Carriers : charge[n] # c
      /\ charge' = [charge EXCEPT ![m] = c]
      /\ UNCHANGED <<cast, on, racks, state, source, boosted, stopped>>
  BY DEF SetCharge
<1>3. /\ charge' \in [Carriers -> (cast \cap Charges) \cup {NoItem}]
      /\ \A n \in Carriers : charge'[n] = IF n = m THEN c ELSE charge[n]
  BY <1>1, <1>2 DEF Placed
<1>4. \A k, n \in Carriers : charge'[k] = charge'[n] /\ charge'[k] # NoItem => k = n
  BY <1>1, <1>2, <1>3 DEF Placed
<1>5. Placed'
  BY <1>1, <1>2, <1>3, <1>4 DEF Placed, Fit
<1>6. Racked' /\ Trimmed'
  BY <1>1, <1>2 DEF Racked, Trimmed, Fit
<1> QED BY <1>5, <1>6, TypePartsNext

\* Calls that move no item.
LEMMA ElseTyped ==
  ASSUME TypeOK, Trimmed,
         \/ \E i \in Items, st \in States : SetState(i, st)
         \/ \E s \in Sources \cup {NoSource} : SetSource(s)
         \/ \E i \in Items : Toggle(i)
         \/ Modify
         \/ UNCHANGED contents
  PROVE  TypeOK' /\ Trimmed'
<1>1. Placed /\ Racked
  BY TypeParts
<1>2. UNCHANGED <<cast, on, racks, charge>>
  BY DEF SetState, SetSource, Toggle, Modify, contents
<1>3. Racked' /\ Trimmed'
  BY <1>1, <1>2 DEF Racked, Trimmed, Fit
<1>4. state' \in [Items -> State]
  BY <1>1, ContentsAssumption DEF Placed, SetState, SetSource, Toggle, Modify, contents
<1>5. source' \in Sources \cup {NoSource}
  BY <1>1 DEF Placed, SetState, SetSource, Toggle, Modify, contents
<1>6. boosted' \in BOOLEAN
  BY <1>1 DEF Placed, SetState, SetSource, Toggle, Modify, contents
<1>7. stopped' \subseteq Toggled
  BY <1>1 DEF Placed, SetState, SetSource, Toggle, Modify, contents
<1>8. Placed'
  BY <1>1, <1>2, <1>4, <1>5, <1>6, <1>7 DEF Placed, Fit
<1> QED BY <1>3, <1>8, TypePartsNext

\* A rack that is not empty ends in an item, so one beyond the slots of the ship has an
\* item there.
LEMMA RacksBlamed == TypeOK /\ Trimmed => RackBlamed
<1> SUFFICES ASSUME TypeOK, Trimmed, NEW r \in DOMAIN RackOf, SlotsUsed(r) > SlotsTotal(r)
             PROVE  Ordered(r) # {}
  BY DEF RackBlamed
<1>1. PICK q, n : q = racks[RackOf[r]] /\ n = SlotsTotal(r)
  OBVIOUS
<1>2. RackOf[r] \in Modules
  BY DEF RackOf, Modules
<1>3. n \in Nat
  <2>1. Ship # NoItem /\ Has(Ship, SlotAttr[r]) =>
          /\ source \in Sources /\ TypeId[Ship] \in DOMAIN Catalogue[source]
          /\ SlotAttr[r] \in DOMAIN Type(Ship).attrs
          /\ TypeAttr(Ship, SlotAttr[r]) = Type(Ship).attrs[SlotAttr[r]]
    BY DEF Has, TypeAttr, TypeAttrs, IsLoaded, TypeOK
  <2>2. Ship # NoItem /\ Has(Ship, SlotAttr[r]) => Worths(Type(Ship), SlotAttr[r]) \subseteq Nat
    BY <2>1, CatalogueAssumption DEF Type
  <2>3. Ship # NoItem /\ Has(Ship, SlotAttr[r]) =>
          Attr(Ship, SlotAttr[r]) \in Worths(Type(Ship), SlotAttr[r])
            \cup {Type(Ship).attrs[SlotAttr[r]] + 0}
    BY <2>1 DEF Attr, Worths
  <2>4. Ship # NoItem /\ Has(Ship, SlotAttr[r]) => Type(Ship).attrs[SlotAttr[r]] \in Nat
    BY <2>2 DEF Worths
  <2>5. Attr(Ship, SlotAttr[r]) \in Nat \/ Ship = NoItem
    BY <2>2, <2>3, <2>4 DEF Attr
  <2> QED BY <1>1, <2>5 DEF SlotsTotal, ShipAttr
<1>4. Holds(q, Fit(RackOf[r])) /\ Tidy(q)
  BY <1>1, <1>2, TypeParts DEF Racked, Trimmed
<1>5. Len(q) \in Nat /\ DOMAIN q = 1..Len(q)
  BY <1>4, LenProperties DEF Holds
<1>6. Len(q) > n
  BY <1>1 DEF SlotsUsed
<1>7. Len(q) \in DOMAIN q /\ q[Len(q)] # NoItem
  BY <1>3, <1>4, <1>5, <1>6, EmptySeq DEF Tidy
<1>8. ~(SlotsUsed(r) <= SlotsTotal(r))
  BY <1>1, <1>3, <1>5, <1>6 DEF SlotsUsed
<1> QED BY <1>1, <1>6, <1>7, <1>8 DEF Ordered
-----------------------------------------------------------------------------
(* The registers hold the items that the rules are about.                  *)

\* What is due to an item is what the rules say that registers hear of it and take.
LEMMA DueIsHeard ==
  ASSUME TypeOK, NEW i \in Items, NEW r \in Registers
  PROVE  r \in Due(Sit(i)) <=> OnFit(i) /\ Heard(r, i) /\ Takes(r, i)
<1>1. /\ Sit(i).loaded = IsLoaded(i) /\ Sit(i).state = StateOf(i) /\ Sit(i).running = Running(i)
      /\ Sit(i).fit = OnFit(i) /\ (r \in Sit(i).tests <=> Takes(r, i))
  BY DEF Sit
<1>2. IsLoaded(i) => OnFit(i)
  BY DEF IsLoaded
<1>3. ~IsLoaded(i) => Running(i) = {}
  BY DEF Running
<1>4. r \in StateRegs(UpTo(StateOf(i))) <=> r \in DOMAIN ByState /\ StateOf(i) >= ByState[r]
  <2>1. \A x \in State : x \in UpTo(StateOf(i)) <=> StateOf(i) >= x
    BY ChargeStates, Kinds DEF UpTo
  <2> QED BY <2>1, Kinds DEF StateRegs
<1>5. r \in EffectRegs(Running(i)) <=> r \in DOMAIN ByEffect /\ ByEffect[r] \cap Running(i) # {}
  BY DEF EffectRegs
<1>6. r \in DroneRegs(UpTo(StateOf(i))) <=> r = "launched_drone" /\ StateOf(i) >= online
  <2>1. online \in UpTo(StateOf(i)) <=> StateOf(i) >= online
    BY ChargeStates, Kinds DEF UpTo
  <2> QED BY <2>1 DEF DroneRegs
<1>7. r \in Fed(Sit(i)) <=>
        /\ IsLoaded(i) /\ Takes(r, i)
        /\ \/ r \in ByLoading
           \/ r \in DOMAIN ByState /\ StateOf(i) >= ByState[r]
           \/ r \in DOMAIN ByEffect /\ ByEffect[r] \cap Running(i) # {}
  BY <1>1, <1>4, <1>5 DEF Fed
<1>8. r \in Manned(Sit(i)) <=>
        OnFit(i) /\ Takes(r, i) /\ r = "launched_drone" /\ StateOf(i) >= online
  BY <1>1, <1>6 DEF Manned
<1>9. CASE r \in ByLoading
  <2>1. Heard(r, i) <=> IsLoaded(i)
    BY <1>9, Kinds DEF Heard
  <2> QED BY <1>2, <1>7, <1>8, <1>9, <2>1, Kinds DEF Due
<1>10. CASE r \in DOMAIN ByState
  <2>1. Heard(r, i) <=> IsLoaded(i) /\ StateOf(i) >= ByState[r]
    BY <1>10, Kinds DEF Heard
  <2> QED BY <1>2, <1>7, <1>8, <1>10, <2>1, Kinds DEF Due
<1>11. CASE r \in DOMAIN ByEffect
  <2>1. Heard(r, i) <=> ByEffect[r] \cap Running(i) # {}
    BY <1>11, Kinds DEF Heard
  <2> QED BY <1>2, <1>3, <1>7, <1>8, <1>11, <2>1, Kinds DEF Due
<1>12. CASE r = "launched_drone"
  <2>1. Heard(r, i) <=> OnFit(i) /\ StateOf(i) >= online
    BY <1>12, Kinds DEF Heard
  <2> QED BY <1>7, <1>8, <1>12, <2>1, Kinds DEF Due
<1> QED BY <1>9, <1>10, <1>11, <1>12, Kinds

\* The items of the fit.
LEMMA FittedItems ==
  ASSUME TypeOK
  PROVE  Fitted \subseteq cast /\ cast \subseteq Items /\ \A i \in Items : i \in Fitted <=> OnFit(i)
<1>1. cast \subseteq Items /\ on \subseteq cast
      /\ \A m \in Carriers : charge[m] # NoItem => charge[m] \in cast \cap Charges
  BY ContentsAssumption DEF TypeOK
<1>2. NoItem \notin Items
  BY ContentsAssumption
<1> QED BY <1>1, <1>2 DEF Fitted, OnFit

\* The registers that follow the situations are those of the rules.
LEMMA RegistersTrue ==
  ASSUME TypeOK, Followed
  PROVE  R = Rules!Subjects
<1>1. \A r \in Registers : {i \in cast : r \in reg[i]} = {i \in Fitted : Heard(r, i) /\ Takes(r, i)}
  <2>1. \A i \in Items : reg[i] = Due(Sit(i))
    BY DEF Followed
  <2> QED BY <2>1, DueIsHeard, FittedItems
<1>2. Rules!Subjects = [r \in Registers |-> {i \in Fitted : Heard(r, i) /\ Takes(r, i)}]
  BY SameContents, SameDamage, SameValidation DEF Rules!Subjects
<1> QED BY <1>1, <1>2 DEF R

\* The answers of the registers are the promised ones.
Kept == <<Answers(R), Dps(R, FALSE), Dps(R, TRUE)>> = Rules!Promised

\* Registers that follow the situations give the promised answers.
LEMMA PromisesKept == TypeOK /\ Followed => Kept
<1> SUFFICES ASSUME TypeOK, Followed PROVE Kept
  OBVIOUS
<1>1. PICK S : S = R
  OBVIOUS
<1>2. Rules!Subjects = S
  BY <1>1, RegistersTrue
<1>3. S["dmg_dealer"] \subseteq Items /\ IsFiniteSet(S["dmg_dealer"])
  <2>1. "dmg_dealer" \in Registers
    BY DEF Registers, ByEffect
  <2>2. S["dmg_dealer"] \subseteq cast
    BY <1>1, <2>1 DEF R
  <2>3. cast \subseteq Items /\ IsFiniteSet(cast)
    BY ContentsAssumption DEF TypeOK
  <2> QED BY <2>2, <2>3, FS_Subset
<1>4. source \in Sources \cup {NoSource}
  BY DEF TypeOK
<1>5. \A reload : Dps(S, reload) = Rules!DpsOf(S["dmg_dealer"], reload)
  BY <1>3, <1>4, DpsOfTrue
<1>6. Rules!Answers(S) = Answers(S)
  BY SameValidation
<1> QED BY <1>1, <1>2, <1>5, <1>6 DEF Kept, Rules!Promised
LEMMA PromisesKeptNext == TypeOK' /\ Followed' => Kept'
BY PromisesKept, PTL

-----------------------------------------------------------------------------
(* The specification.                                                      *)

\* The inductive invariant: types, racks that end in items, registers that follow.
Inv == TypeOK /\ Trimmed /\ Followed

\* The invariant holds of an empty fit.
LEMMA InitInv == Init => Inv
<1> SUFFICES ASSUME Init PROVE Inv
  OBVIOUS
<1>1. PICK e : e = <<>> /\ e \in Seq(Cell) /\ Len(e) = 0 /\ DOMAIN e = {}
  <2>1. PICK e : e = <<>>
    OBVIOUS
  <2>2. e \in Seq(Cell) /\ Len(e) = 0
    BY <2>1
  <2>3. DOMAIN e = 1..0 /\ 1..0 = {}
    BY <2>2
  <2> QED BY <2>1, <2>2, <2>3
<1>2. /\ cast \in Casts /\ on = {} /\ racks = [class \in Modules |-> e]
      /\ charge = [m \in Carriers |-> NoItem]
      /\ state = [i \in Items |-> offline]
      /\ source = NoSource /\ boosted = FALSE /\ stopped = {}
      /\ reg = [i \in Items |-> {}]
  BY <1>1 DEF Init, InitContents
<1>3. \A class : Fit(class) = {}
  BY <1>2 DEF Fit
<1>4. Placed
  <2>1. offline \in State
    BY DEF State, offline, overload
  <2> QED BY <1>2, <1>3, <2>1 DEF Placed
<1>5. Racked
  <2>1. Holds(e, {})
    BY <1>1, ContentsAssumption DEF Holds, ToSet
  <2> QED BY <1>1, <1>2, <1>3, <2>1 DEF Racked
<1>6. Trimmed
  BY <1>1, <1>2 DEF Trimmed, Tidy
<1>7. TypeOK
  BY <1>4, <1>5, TypeParts
<1>8. Followed
  <2>1. \A i \in Items : ~OnFit(i)
    BY <1>2 DEF OnFit
  <2>2. \A i \in Items : Due(Sit(i)) = {}
    BY <1>7, <2>1, Situations DEF Situated
  <2> QED BY <1>2, <2>2 DEF Followed
<1> QED BY <1>6, <1>7, <1>8 DEF Inv

\* Every step keeps the types and the racks.
LEMMA TypesKept ==
  ASSUME TypeOK, Trimmed, [Next]_vars
  PROVE  TypeOK' /\ Trimmed'
<1>1. ASSUME NEW i \in Items, AddToFit(i) PROVE TypeOK' /\ Trimmed'
  BY <1>1, AddTyped DEF AddToFit
<1>2. ASSUME NEW i \in Items, PlaceInRack(i) PROVE TypeOK' /\ Trimmed'
  BY <1>2, PlaceTyped DEF PlaceInRack
<1>3. ASSUME NEW i \in Items, TakeFromFit(i) PROVE TypeOK' /\ Trimmed'
  BY <1>3, TakeTyped DEF TakeFromFit
<1>4. ASSUME NEW i \in Items, ToggleEffects(i) PROVE TypeOK' /\ Trimmed'
  BY <1>4, ElseTyped DEF ToggleEffects
<1>5. ASSUME NEW m \in Carriers, NEW c \in Charges \cup {NoItem}, ChangeCharge(m, c)
      PROVE  TypeOK' /\ Trimmed'
  BY <1>5, ChargeTyped DEF ChangeCharge
<1>6. ASSUME NEW i \in Items, NEW st \in States, ChangeState(i, st) PROVE TypeOK' /\ Trimmed'
  BY <1>6, ElseTyped DEF ChangeState
<1>7. ASSUME NEW s \in Sources \cup {NoSource}, ChangeSource(s) PROVE TypeOK' /\ Trimmed'
  BY <1>7, ElseTyped DEF ChangeSource
<1>8. CASE Modify \/ UNCHANGED vars
  BY <1>8, ElseTyped DEF vars
<1> QED BY <1>1, <1>2, <1>3, <1>4, <1>5, <1>6, <1>7, <1>8 DEF Next

\* Every step keeps the invariant.
LEMMA InvKept == Inv /\ [Next]_vars => Inv'
<1> SUFFICES ASSUME Inv, [Next]_vars PROVE Inv'
  OBVIOUS
<1>1. TypeOK /\ Trimmed /\ Followed
  BY DEF Inv
<1>2. TypeOK' /\ Trimmed'
  BY <1>1, TypesKept
<1>3. ASSUME NEW i \in Items, AddToFit(i) PROVE Followed'
  BY <1>1, <1>2, <1>3, AddToFitFollowed
<1>4. ASSUME NEW i \in Items, PlaceInRack(i) PROVE Followed'
  BY <1>1, <1>2, <1>4, PlaceFollowed
<1>5. ASSUME NEW i \in Items, TakeFromFit(i) PROVE Followed'
  BY <1>1, <1>2, <1>5, TakeFollowed
<1>6. ASSUME NEW i \in Items, ToggleEffects(i) PROVE Followed'
  BY <1>1, <1>2, <1>6, ToggleFollowed
<1>7. ASSUME NEW m \in Carriers, NEW c \in Charges \cup {NoItem}, ChangeCharge(m, c)
      PROVE  Followed'
  BY <1>1, <1>2, <1>7, ChargeFollowed
<1>8. ASSUME NEW i \in Items, NEW st \in States, ChangeState(i, st) PROVE Followed'
  BY <1>1, <1>2, <1>8, StateFollowed
<1>9. ASSUME NEW s \in Sources \cup {NoSource}, ChangeSource(s) PROVE Followed'
  BY <1>1, <1>2, <1>9, SourceFollowed
<1>10. ASSUME (Modify /\ UNCHANGED reg) \/ UNCHANGED vars PROVE Followed'
  <2>1. UNCHANGED <<on, charge, state, source, stopped, reg>>
    BY <1>10 DEF Modify, vars, contents
  <2> QED BY <1>1, <1>2, <2>1, ElseFollowed
<1>11. Followed'
  BY <1>3, <1>4, <1>5, <1>6, <1>7, <1>8, <1>9, <1>10 DEF Next
<1> QED BY <1>2, <1>11 DEF Inv

\* Nothing that is read of the contents changes when they do not.
LEMMA ContentsStay ==
  ASSUME UNCHANGED contents
  PROVE  /\ \A class : Fit(class)' = Fit(class)
         /\ \A i : Type(i)' = Type(i)
         /\ \A class : Single(class)' = Single(class)
         /\ Fitted' = Fitted
         /\ \A i : OnFit(i)' <=> OnFit(i)
         /\ \A i : StateOf(i)' = StateOf(i)
         /\ Ship' = Ship
         /\ \A i : IsLoaded(i)' <=> IsLoaded(i)
         /\ \A i : TypeAttrs(i)' = TypeAttrs(i)
         /\ \A i : Running(i)' = Running(i)
         /\ \A i, a : Has(i, a)' <=> Has(i, a)
         /\ \A i, a : TypeAttr(i, a)' = TypeAttr(i, a)
         /\ \A i, a : Attr(i, a)' = Attr(i, a)
<1>1. UNCHANGED <<on, charge, state, source, boosted, stopped>>
  BY DEF contents
<1>2. \A class : Fit(class)' = Fit(class)
  BY <1>1 DEF Fit
<1>3. \A i : Type(i)' = Type(i)
  BY <1>1 DEF Type
<1>4. \A class : Single(class)' = Single(class)
  BY <1>1, <1>2 DEF Single
<1>5. Fitted' = Fitted
  BY <1>1 DEF Fitted
<1>6. \A i : OnFit(i)' <=> OnFit(i)
  BY <1>1 DEF OnFit
<1>7. \A i : StateOf(i)' = StateOf(i)
  BY <1>1 DEF StateOf
<1>8. Ship' = Ship
  BY <1>4 DEF Ship
<1>9. \A i : IsLoaded(i)' <=> IsLoaded(i)
  BY <1>1, <1>6 DEF IsLoaded
<1>10. \A i : TypeAttrs(i)' = TypeAttrs(i)
  BY <1>9, <1>3 DEF TypeAttrs
<1>11. \A i : Running(i)' = Running(i)
  BY <1>1, <1>9, <1>3, <1>7 DEF Running
<1>12. \A i, a : Has(i, a)' <=> Has(i, a)
  BY <1>10 DEF Has
<1>13. \A i, a : TypeAttr(i, a)' = TypeAttr(i, a)
  BY <1>10, <1>12 DEF TypeAttr
<1>14. \A i, a : Attr(i, a)' = Attr(i, a)
  BY <1>1, <1>12, <1>13 DEF Attr
<1> QED BY <1>2, <1>3, <1>4, <1>5, <1>6, <1>7, <1>8, <1>9, <1>10, <1>11, <1>12, <1>13, <1>14

\* The same of damage and repairs.
LEMMA DamageStays ==
  ASSUME UNCHANGED contents
  PROVE  /\ \A i : get_charge(i)' = get_charge(i)
         /\ \A i, e : Launched(i, e)' <=> Launched(i, e)
         /\ \A i : Deals(i)' <=> Deals(i)
         /\ \A i : Reloads(i)' <=> Reloads(i)
         /\ \A i : AttackItem(i)' = AttackItem(i)
         /\ \A i : charge_quantity(i)' = charge_quantity(i)
         /\ \A i, e : DmgItem(i, e)' = DmgItem(i, e)
         /\ \A i, mult : Damage(i, mult)' = Damage(i, mult)
         /\ \A i : Mult(i)' = Mult(i)
         /\ \A i : CyclesGeneric(i)' = CyclesGeneric(i)
         /\ \A i : CyclesCrystal(i)' = CyclesCrystal(i)
         /\ \A i : AttackCycles(i)' = AttackCycles(i)
         /\ \A i, e : get_cycles_until_reload(i, e)' = get_cycles_until_reload(i, e)
         /\ \A i, e, reload :
              get_cycle_parameters(i, e, reload)' = get_cycle_parameters(i, e, reload)
         /\ \A i, e : get_volley(i, e)' = get_volley(i, e)
         /\ \A i, e, reload : get_dps(i, e, reload)' = get_dps(i, e, reload)
         /\ \A i, e, amount : get_rps(i, e, amount)' = get_rps(i, e, amount)
         /\ \A i : ItemVolley(i)' = ItemVolley(i)
         /\ \A i, reload : ItemDps(i, reload)' = ItemDps(i, reload)
         /\ \A i, effects, amount : ItemRps(i, effects, amount)' = ItemRps(i, effects, amount)
<1>1. UNCHANGED <<charge>>
  BY DEF contents
<1>2. \A i : get_charge(i)' = get_charge(i)
  BY <1>1 DEF get_charge
<1>3. \A i, e : Launched(i, e)' <=> Launched(i, e)
  BY <1>2, ContentsStay DEF Launched
<1>4. \A i : Deals(i)' <=> Deals(i)
  BY ContentsStay DEF Deals
<1>5. \A i : Reloads(i)' <=> Reloads(i)
  BY ContentsStay DEF Reloads
<1>6. \A i : AttackItem(i)' = AttackItem(i)
  BY <1>2, <1>4 DEF AttackItem
<1>7. \A i : charge_quantity(i)' = charge_quantity(i)
  BY <1>2, ContentsStay DEF charge_quantity
<1>8. \A i, e : DmgItem(i, e)' = DmgItem(i, e)
  BY <1>2, <1>6 DEF DmgItem
<1>9. \A i, mult : Damage(i, mult)' = Damage(i, mult)
  BY ContentsStay DEF Damage
<1>10. \A i : Mult(i)' = Mult(i)
  BY ContentsStay DEF Mult
<1>11. \A i : CyclesGeneric(i)' = CyclesGeneric(i)
  BY <1>7, ContentsStay DEF CyclesGeneric
<1>12. \A i : CyclesCrystal(i)' = CyclesCrystal(i)
  BY <1>2, <1>7, ContentsStay DEF CyclesCrystal
<1>13. \A i : AttackCycles(i)' = AttackCycles(i)
  BY <1>2, <1>12, <1>6 DEF AttackCycles
<1>14. \A i, e : get_cycles_until_reload(i, e)' = get_cycles_until_reload(i, e)
  BY <1>11, <1>13 DEF get_cycles_until_reload
<1>15. \A i, e, reload : get_cycle_parameters(i, e, reload)' = get_cycle_parameters(i, e, reload)
  BY <1>14, <1>5, ContentsStay DEF get_cycle_parameters
<1>16. \A i, e : get_volley(i, e)' = get_volley(i, e)
  BY <1>8, <1>14, <1>9, <1>10, <1>3 DEF get_volley
<1>17. \A i, e, reload : get_dps(i, e, reload)' = get_dps(i, e, reload)
  BY <1>15, <1>16 DEF get_dps
<1>18. \A i, e, amount : get_rps(i, e, amount)' = get_rps(i, e, amount)
  BY <1>15, ContentsStay DEF get_rps
<1>19. \A i : ItemVolley(i)' = ItemVolley(i)
  BY <1>16, ContentsStay DEF ItemVolley, Combine, Resisted
<1>20. \A i, reload : ItemDps(i, reload)' = ItemDps(i, reload)
  BY <1>17, ContentsStay DEF ItemDps, Combine, Resisted
<1>21. \A i, effects, amount : ItemRps(i, effects, amount)' = ItemRps(i, effects, amount)
  BY <1>18, ContentsStay DEF ItemRps
<1> QED BY <1>2, <1>3, <1>4, <1>5, <1>6, <1>7, <1>8, <1>9, <1>10, <1>11, <1>12, <1>13, <1>14,
     <1>15, <1>16, <1>17, <1>18, <1>19, <1>20, <1>21

\* The same of the restrictions and the answers.
LEMMA ValidationStays ==
  ASSUME UNCHANGED contents
  PROVE  /\ \A S : Charged(S)' = Charged(S)
         /\ \A r : SlotsUsed(r)' = SlotsUsed(r)
         /\ \A Rs : StateTooHigh(Rs)' = StateTooHigh(Rs)
         /\ \A Rs : SkillRequirement(Rs)' = SkillRequirement(Rs)
         /\ LoadedItem' = LoadedItem
         /\ ItemClass' = ItemClass
         /\ \A i, attrs : Values(i, attrs)' = Values(i, attrs)
         /\ \A Rs : CapitalItem(Rs)' = CapitalItem(Rs)
         /\ \A Rs : ChargeSize(Rs)' = ChargeSize(Rs)
         /\ \A Rs : ChargeVolume(Rs)' = ChargeVolume(Rs)
         /\ \A Rs, r, attr : SlotIndex(Rs, r, attr)' = SlotIndex(Rs, r, attr)
         /\ \A Rs : RigSize(Rs)' = RigSize(Rs)
         /\ \A a : ShipAttr(a)' = ShipAttr(a)
         /\ \A S, a : Sum(S, a)' = Sum(S, a)
         /\ LaunchedDroneSlots' = LaunchedDroneSlots
         /\ \A Rs : ChargeGroup(Rs)' = ChargeGroup(Rs)
         /\ \A Rs : DroneGroup(Rs)' = DroneGroup(Rs)
         /\ \A Rs : ShipTypeGroup(Rs)' = ShipTypeGroup(Rs)
         /\ \A Rs, r : MaxGroup(Rs, r)' = MaxGroup(Rs, r)
         /\ \A r : ShipResourceOutput(r)' = ShipResourceOutput(r)
         /\ DronebayOutput' = DronebayOutput
         /\ BandwidthOutput' = BandwidthOutput
         /\ \A r : FighterSlots(r)' = FighterSlots(r)
         /\ \A r : HardpointSlots(r)' = HardpointSlots(r)
         /\ \A r : SlotsTotal(r)' = SlotsTotal(r)
         /\ \A r : Output(r)' = Output(r)
         /\ \A r : AssistedSlots(r)' = AssistedSlots(r)
         /\ \A r : Ordered(r)' = Ordered(r)
         /\ \A r : Unordered(r)' = Unordered(r)
         /\ \A Rs, r : Resource(Rs, r)' = Resource(Rs, r)
         /\ \A Rs, r : Assisted(Rs, r)' = Assisted(Rs, r)
         /\ \A Rs, r : Tainted(Rs, r)' = Tainted(Rs, r)
         /\ \A Rs : validate(Rs)' = validate(Rs)
         /\ \A Rs : Volley(Rs)' = Volley(Rs)
         /\ \A Rs, reload : Dps(Rs, reload)' = Dps(Rs, reload)
         /\ \A Rs : ArmorRps(Rs)' = ArmorRps(Rs)
         /\ \A Rs : ShieldRps(Rs)' = ShieldRps(Rs)
         /\ \A Rs : Answers(Rs)' = Answers(Rs)
<1>1. UNCHANGED <<racks, charge>>
  BY DEF contents
<1>2. \A S : Charged(S)' = Charged(S)
  BY <1>1 DEF Charged
<1>3. \A r : SlotsUsed(r)' = SlotsUsed(r)
  BY <1>1, ContentsStay DEF SlotsUsed
<1>4. \A Rs : StateTooHigh(Rs)' = StateTooHigh(Rs)
  BY ContentsStay DEF StateTooHigh
<1>5. \A Rs : SkillRequirement(Rs)' = SkillRequirement(Rs)
  BY ContentsStay DEF SkillRequirement
<1>6. LoadedItem' = LoadedItem
  BY ContentsStay DEF LoadedItem
<1>7. ItemClass' = ItemClass
  BY ContentsStay DEF ItemClass
<1>8. \A i, attrs : Values(i, attrs)' = Values(i, attrs)
  BY ContentsStay DEF Values
<1>9. \A Rs : CapitalItem(Rs)' = CapitalItem(Rs)
  BY ContentsStay DEF CapitalItem
<1>10. \A Rs : ChargeSize(Rs)' = ChargeSize(Rs)
  BY <1>1, <1>2, ContentsStay DEF ChargeSize
<1>11. \A Rs : ChargeVolume(Rs)' = ChargeVolume(Rs)
  BY <1>1, <1>2, ContentsStay DEF ChargeVolume
<1>12. \A Rs, r, attr : SlotIndex(Rs, r, attr)' = SlotIndex(Rs, r, attr)
  BY ContentsStay DEF SlotIndex
<1>13. \A Rs : RigSize(Rs)' = RigSize(Rs)
  BY ContentsStay DEF RigSize
<1>14. \A a : ShipAttr(a)' = ShipAttr(a)
  BY ContentsStay DEF ShipAttr
<1>15. \A S, a : Sum(S, a)' = Sum(S, a)
  BY ContentsStay DEF Sum
<1>16. LaunchedDroneSlots' = LaunchedDroneSlots
  BY ContentsStay DEF LaunchedDroneSlots
<1>17. \A Rs : ChargeGroup(Rs)' = ChargeGroup(Rs)
  BY <1>1, <1>8, <1>2, ContentsStay DEF ChargeGroup
<1>18. \A Rs : DroneGroup(Rs)' = DroneGroup(Rs)
  <2> SUFFICES ASSUME NEW Rs PROVE DroneGroup(Rs)' = DroneGroup(Rs)
    OBVIOUS
  <2>1. PICK allowed : allowed = Values(Ship, DroneGroups) /\ allowed = Values(Ship, DroneGroups)'
    BY <1>8, ContentsStay
  <2>2. {d \in Rs["drone_group"] : Type(d)'.group \notin allowed}
          = {d \in Rs["drone_group"] : Type(d).group \notin allowed}
    BY ContentsStay
  <2>3. DroneGroup(Rs)' = IF allowed = {} THEN {}
                          ELSE {d \in Rs["drone_group"] : Type(d)'.group \notin allowed}
    BY <2>1 DEF DroneGroup
  <2>4. DroneGroup(Rs) = IF allowed = {} THEN {}
                         ELSE {d \in Rs["drone_group"] : Type(d).group \notin allowed}
    BY <2>1 DEF DroneGroup
  <2> QED BY <2>2, <2>3, <2>4
<1>19. \A Rs : ShipTypeGroup(Rs)' = ShipTypeGroup(Rs)
  BY <1>8, ContentsStay DEF ShipTypeGroup
<1>20. \A Rs, r : MaxGroup(Rs, r)' = MaxGroup(Rs, r)
  <2>1. \A Rs, r, i : {j \in Rs[r] : Type(j)'.group = Type(i)'.group}
                         = {j \in Rs[r] : Type(j).group = Type(i).group}
    BY ContentsStay
  <2> QED BY <2>1, ContentsStay DEF MaxGroup
<1>21. \A r : ShipResourceOutput(r)' = ShipResourceOutput(r)
  BY <1>14 DEF ShipResourceOutput
<1>22. DronebayOutput' = DronebayOutput
  BY <1>14 DEF DronebayOutput
<1>23. BandwidthOutput' = BandwidthOutput
  BY <1>14 DEF BandwidthOutput
<1>24. \A r : FighterSlots(r)' = FighterSlots(r)
  BY <1>14 DEF FighterSlots
<1>25. \A r : HardpointSlots(r)' = HardpointSlots(r)
  BY <1>14 DEF HardpointSlots
<1>26. \A r : SlotsTotal(r)' = SlotsTotal(r)
  BY <1>14 DEF SlotsTotal
<1>27. \A r : Output(r)' = Output(r)
  BY <1>21, <1>22, <1>23 DEF Output
<1>28. \A r : AssistedSlots(r)' = AssistedSlots(r)
  BY <1>16, <1>24, <1>25 DEF AssistedSlots
<1>29. \A r : Ordered(r)' = Ordered(r)
  BY <1>1, <1>3, <1>26 DEF Ordered
<1>30. \A r : Unordered(r)' = Unordered(r)
  BY <1>3, <1>26, ContentsStay DEF Unordered
<1>31. \A Rs, r : Resource(Rs, r)' = Resource(Rs, r)
  BY <1>15, <1>27, ContentsStay DEF Resource
<1>32. \A Rs, r : Assisted(Rs, r)' = Assisted(Rs, r)
  BY <1>28 DEF Assisted
<1>33. \A Rs, r : Tainted(Rs, r)' = Tainted(Rs, r)
  BY <1>9, <1>17, <1>10, <1>11, <1>18, <1>19, <1>5, <1>20, <1>12, <1>4, <1>13, <1>6, <1>7, <1>31,
       <1>32, <1>29, <1>30 DEF Tainted
<1>34. \A Rs : validate(Rs)' = validate(Rs)
  BY <1>33 DEF validate
<1>35. \A Rs : Volley(Rs)' = Volley(Rs)
  BY DamageStays DEF Volley, Combine
<1>36. \A Rs, reload : Dps(Rs, reload)' = Dps(Rs, reload)
  BY DamageStays DEF Dps, Combine
<1>37. \A Rs : ArmorRps(Rs)' = ArmorRps(Rs)
  BY DamageStays DEF ArmorRps
<1>38. \A Rs : ShieldRps(Rs)' = ShieldRps(Rs)
  BY DamageStays DEF ShieldRps
<1>39. \A Rs : Answers(Rs)' = Answers(Rs)
  BY <1>35, <1>37, <1>38, <1>34 DEF Answers
<1> QED BY <1>2, <1>3, <1>4, <1>5, <1>6, <1>7, <1>8, <1>9, <1>10, <1>11, <1>12, <1>13, <1>14,
     <1>15, <1>16, <1>17, <1>18, <1>19, <1>20, <1>21, <1>22, <1>23, <1>24, <1>25, <1>26, <1>27,
     <1>28, <1>29, <1>30, <1>31, <1>32, <1>33, <1>34, <1>35, <1>36, <1>37, <1>38, <1>39
\* What the registers answer, of registers that are given.
Given(S) == <<Answers(S), Dps(S, FALSE), Dps(S, TRUE)>>
Answered == \A S : S = R => <<Answers(R), Dps(R, FALSE), Dps(R, TRUE)>> = Given(S)

\* The answers are those of the registers, given as a value.
LEMMA RegistersAnswer == Answered
BY DEF Answered, Given
LEMMA RegistersAnswerNext == Answered'
BY RegistersAnswer, PTL

\* Nothing changes in the answers when nothing changes.
LEMMA AnswersStay ==
  ASSUME UNCHANGED vars
  PROVE  <<Answers(R), Dps(R, FALSE), Dps(R, TRUE)>>' = <<Answers(R), Dps(R, FALSE), Dps(R, TRUE)>>
<1>1. UNCHANGED contents /\ cast' = cast /\ reg' = reg
  BY DEF vars, contents
<1>2. PICK S : S = R /\ S = R'
  BY <1>1 DEF R
<1>3. Given(S)' = Given(S)
  BY <1>1, ValidationStays DEF Given
<1>4. <<Answers(R), Dps(R, FALSE), Dps(R, TRUE)>> = Given(S)
  BY <1>2, RegistersAnswer DEF Answered
<1>5. <<Answers(R), Dps(R, FALSE), Dps(R, TRUE)>>' = Given(S)'
  BY <1>2, RegistersAnswerNext DEF Answered
<1> QED BY <1>3, <1>4, <1>5

\* Every call changes the contents as the rules say that contents change.
LEMMA CallsChange ==
  ASSUME Next
  PROVE  Rules!Change
<1>1. ASSUME NEW i \in Items, AddToFit(i) PROVE Rules!Change
  BY <1>1, SameContents DEF AddToFit, Rules!Change
<1>2. ASSUME NEW i \in Items, PlaceInRack(i) PROVE Rules!Change
  BY <1>2, SameContents DEF PlaceInRack, Rules!Change
<1>3. ASSUME NEW i \in Items, TakeFromFit(i) PROVE Rules!Change
  BY <1>3, SameContents DEF TakeFromFit, Rules!Change
<1>4. ASSUME NEW i \in Items, ToggleEffects(i) PROVE Rules!Change
  BY <1>4, SameContents DEF ToggleEffects, Rules!Change
<1>5. ASSUME NEW m \in Carriers, NEW c \in Charges \cup {NoItem}, ChangeCharge(m, c)
      PROVE  Rules!Change
  BY <1>5, SameContents DEF ChangeCharge, Rules!Change
<1>6. ASSUME NEW i \in Items, NEW st \in States, ChangeState(i, st) PROVE Rules!Change
  BY <1>6, SameContents DEF ChangeState, Rules!Change
<1>7. ASSUME NEW s \in Sources \cup {NoSource}, ChangeSource(s) PROVE Rules!Change
  BY <1>7, SameContents DEF ChangeSource, Rules!Change
<1>8. CASE Modify
  BY <1>8, SameContents DEF Rules!Change
<1> QED BY <1>1, <1>2, <1>3, <1>4, <1>5, <1>6, <1>7, <1>8 DEF Next

\* Items, their types and where they are stay well formed: each rack holds the modules of its
\* class that are on the fit, each once, no charge is in two modules.
THEOREM TypesHold == Spec => []TypeOK
<1>1. Inv => TypeOK
  BY DEF Inv
<1> QED BY <1>1, InitInv, InvKept, PTL DEF Spec

\* A rack too long for the ship is always blamed on some item, whatever calls made the rack:
\* no rack ends in a hole, which only the trimming of the calls that make holes ensures.
THEOREM RacksHold == Spec => []RackBlamed
<1>1. Inv => RackBlamed
  BY RacksBlamed DEF Inv
<1> QED BY <1>1, InitInv, InvKept, PTL DEF Spec

\* The registers, changed by messages alone, answer at any time as the contents of the fit call
\* for: FitRestrictions implements FitRules.
THEOREM AnswersHold == Spec => AnswersTrue
<1>1. Inv => Kept
  BY PromisesKept DEF Inv
<1>2. Init /\ Kept => Rules!Init
  BY SameContents DEF Init, Rules!Init, Kept
<1>3. Kept' /\ [Next]_vars
        => [Rules!Next]_<<Rules!contents, <<Answers(R), Dps(R, FALSE), Dps(R, TRUE)>>>>
  <2>1. Next /\ Kept' => Rules!Next
    BY CallsChange DEF Rules!Next, Kept
  <2>2. UNCHANGED vars =>
          UNCHANGED <<Rules!contents, <<Answers(R), Dps(R, FALSE), Dps(R, TRUE)>>>>
    <3>1. UNCHANGED vars => UNCHANGED Rules!contents
      BY DEF vars, contents, Rules!contents
    <3> QED BY <3>1, AnswersStay
  <2> QED BY <2>1, <2>2
<1> QED BY <1>1, <1>2, <1>3, InitInv, InvKept, PTL DEF Spec, AnswersTrue, Rules!Spec
=============================================================================
