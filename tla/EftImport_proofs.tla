-------------------------- MODULE EftImport_proofs --------------------------
(***************************************************************************)
(* Proofs about EftImport: the fit that is read is the fit of the text, for *)
(* every text, every table of types and every outcome of the dictionary of *)
(* names.  The invariant says where in the text the reading is: the lines  *)
(* up to r are read, the section that is being read began after line b.    *)
(***************************************************************************)
EXTENDS EftImport, FiniteSetTheorems, SequenceTheorems, TLAPS

N == Len(Lines)
Here == {Lines[k] : k \in DOMAIN Lines}
Blank(k) == Line(k).kind = "empty"

\* q is a copy of the lines after b.
Copied(q, b) == b + Len(q) <= N /\ \A i \in 1..Len(q) : q[i] = Line(b + i)

\* The lines after b, up to e, are a section: as long a run of filled lines as
\* there is.
Opens(b) == b = 0 \/ Blank(b)
Filled(b, e) == \A k \in b+1..e : ~Blank(k)
Whole(b, e) ==
  /\ b < e /\ e <= N /\ Opens(b) /\ Filled(b, e)
  /\ e = N \/ Blank(e + 1)

\* The sections found are those of the lines after r, up to q; the i-th one is
\* the lines after f[i].
End(f, i) == f[i] + Len(sections[i])
Found(f, r, q) ==
  /\ \A i \in 1..Len(sections) :
       /\ r <= f[i] /\ End(f, i) <= q
       /\ Copied(sections[i], f[i]) /\ Whole(f[i], End(f, i))
  /\ \A i, j \in 1..Len(sections) : i < j => End(f, i) < f[j]
  /\ \A k \in r+1..q : ~Blank(k) => \E i \in 1..Len(sections) : k \in f[i]+1..End(f, i)
Sectioned(r, q) == \E f \in [1..Len(sections) -> 0..N] : Found(f, r, q)
-----------------------------------------------------------------------------
(* The invariant. *)

\* What is held is made of lines of the text; a section whose stacks are taken
\* for drones has only drones so far, a section of stacks has nothing else.
Sourced ==
  /\ text \in Texts
  /\ unread \in Seq(Here) /\ current \in Seq(Here) /\ section \in Seq(Here)
  /\ sections \in Seq(Seq(Here))
DronesOnly ==
  areDrones => \A i \in 1..Len(items) : Category(items[i].type) = DroneCategory
StacksOnly ==
  phase = "stacks" => \A i \in 1..Len(section) : section[i].kind = "stack"
Typed == TypeOK /\ Sourced /\ DronesOnly /\ StacksOnly

\* While the text is split nothing has been read.
Untouched ==
  /\ section = <<>> /\ items = <<>>
  /\ modules = <<>> /\ drones = <<>> /\ cargo = <<>>
Splitting ==
  LET p == N - Len(unread)
      q == p - Len(current)
  IN /\ q >= 0 /\ Copied(unread, p) /\ Copied(current, q)
     /\ Opens(q) /\ Filled(q, p)
     /\ Sectioned(0, q)
Start == unread = Lines /\ current = <<>> /\ sections = <<>>

\* Where the reading is.
Placed(b, r) ==
  /\ b <= r /\ Copied(section, r)
  /\ Sectioned(r + Len(section), N)
  /\ IF phase \in {"modules", "stacks"} THEN Whole(b, r + Len(section)) ELSE section = <<>>
  /\ phase = "states" => r = N /\ sections = <<>>

\* The slots counted are those that lines of this section take.
Counted(b, r) ==
  phase = "modules" =>
    \A s \in Slots : moduleSlots[s] = Cardinality({k \in Taking(s) : k \in b+1..r})

\* The modules are those of the lines up to r: the n-th is that of line g[n].
ModuleOf(m, k) ==
  /\ NameOf[m.type] = Line(k).name
  /\ m.slot = TakenBy(Line(k)) /\ m.slot \in Slots
  /\ m.index = Cardinality({j \in Taking(m.slot) : j < k /\ Together({j, k})})
  /\ m.state = IF Line(k).offline THEN "passive" ELSE "active"
Lists(g, r) ==
  /\ \A i, j \in 1..Len(modules) : i < j => g[i] < g[j]
  /\ {g[i] : i \in 1..Len(modules)} = {k \in ModuleLines : k <= r}
ModulesRead(r) ==
  \E g \in [1..Len(modules) -> 1..N] :
    Lists(g, r) /\ \A i \in 1..Len(modules) : ModuleOf(modules[i], g[i])

\* The stacks stored are those of the lines up to w, those held the lines from
\* there to r.  The n-th entry of the cargo is the stack of line g[n].
StackOf(x, k) == x.type = TypeNameToId(Line(k).name) /\ x.quantity = Line(k).quantity
DronesTo(t, w) ==
  {k \in StackLines : k <= w /\ TypeNameToId(Line(k).name) = t /\ OfDrones(k)}
CargoTo(w) == {k \in StackLines : k <= w /\ ~OfDrones(k)}
\* Where in a sequence there is something of a type.
OfType(q, t) == {k \in DOMAIN q : q[k].type = t}
DronesStored(w) ==
  \A t \in Types : Cardinality(OfType(drones, t)) = Cardinality(Pieces(DronesTo(t, w)))
CargoStored(w) ==
  \E g \in [1..Len(cargo) -> 1..N] :
    /\ \A i, j \in 1..Len(cargo) : i < j => g[i] < g[j]
    /\ {g[i] : i \in 1..Len(cargo)} = CargoTo(w)
    /\ \A i \in 1..Len(cargo) : StackOf(cargo[i], g[i])
StacksStored(w) == DronesStored(w) /\ CargoStored(w)
StacksHeld(b, r) ==
  LET w == r - Len(items) IN
    /\ b <= w /\ (section # <<>> => w = b)
    /\ \A k \in b+1..r + Len(section) : Line(k).kind = "stack"
    /\ \A i \in 1..Len(items) : StackOf(items[i], w + i)
    /\ areDrones = \A k \in b+1..r : Category(TypeNameToId(Line(k).name)) = DroneCategory

Reading(b, r) ==
  /\ Placed(b, r) /\ Counted(b, r) /\ ModulesRead(r)
  /\ StacksStored(r - Len(items))
  /\ phase = "stacks" => StacksHeld(b, r)

\* When the passes begin, every module is in the state that is asked of it.
StatesAsked == \A n \in DOMAIN modules : modules[n].state = Asked(n)

EftInv ==
  /\ Typed
  /\ phase \in {"header", "split"} => Untouched
  /\ phase = "header" => Start
  /\ phase = "split" => Splitting
  /\ phase \in {"sections", "modules", "stacks", "states"} =>
       \E b, r \in 0..N : Reading(b, r)
  /\ phase \in {"calculate", "done"} => SlotsTrue /\ StacksKept
  /\ phase = "calculate" => StatesAsked
  /\ phase = "done" => StatesObeyed
-----------------------------------------------------------------------------
(* The text, the names and the types. *)

\* A text is a sequence of lines, each of one of the forms.
LEMMA TextLines ==
  ASSUME text \in Texts
  PROVE  /\ N \in Nat /\ DOMAIN Lines = 1..N /\ Lines \in Seq(Here)
         /\ text.header \in {"ship", "empty", "none"}
         /\ \A k \in 1..N : LineOK(Line(k)) /\ Line(k) \in Here
<1>1. Lines \in Seq(Here) /\ text.header \in {"ship", "empty", "none"}
  BY EftAssumption DEF Lines, Here
<1>2. N \in Nat /\ DOMAIN Lines = 1..N
  BY <1>1, LenProperties DEF N
<1>3. \A k \in 1..N : LineOK(Line(k))
  BY <1>2, EftAssumption DEF Lines, Line
<1> QED BY <1>1, <1>2, <1>3 DEF Line, Here

\* What is a line of the text is of one of the forms.
LEMMA HereOK ==
  ASSUME text \in Texts, NEW x \in Here
  PROVE  LineOK(x)
BY TextLines DEF Here, Line

\* A name leads to a type of that name, or to none.
LEMMA NamedType ==
  ASSUME named \subseteq Types, NEW name
  PROVE  /\ TypeNameToId(name) \in Types \cup {NoType}
         /\ TypeNameToId(name) \in Types => NameOf[TypeNameToId(name)] = name
<1>1. CASE \E t \in named : NameOf[t] = name
  <2>1. TypeNameToId(name) \in named /\ NameOf[TypeNameToId(name)] = name
    BY <1>1 DEF TypeNameToId
  <2> QED BY <2>1
<1>2. CASE ~\E t \in named : NameOf[t] = name
  BY <1>2, EftAssumption DEF TypeNameToId
<1> QED BY <1>1, <1>2

\* A type has a slot or none; what is no type has none.
LEMMA SlotType ==
  ASSUME NEW t
  PROVE  /\ SlotOf(t) \in Slots \cup {NoSlot}
         /\ SlotOf(t) # NoSlot => t \in Types
<1>1. CASE t \in Types /\ EffectSlots[t] # <<>>
  <2>1. EffectSlots[t] \in Seq(Slots)
    BY <1>1, EftAssumption
  <2>2. EffectSlots[t][1] \in Slots
    BY <1>1, <2>1, EmptySeq, ElementOfSeq
  <2> QED BY <1>1, <2>2 DEF SlotOf
<1>2. CASE ~(t \in Types /\ EffectSlots[t] # <<>>)
  BY <1>2 DEF SlotOf
<1> QED BY <1>1, <1>2

\* A line of a module or of a stack that has a slot is a module of a type.
LEMMA FittedLine ==
  ASSUME named \subseteq Types, NEW line, LineOK(line),
         line.kind \in {"module", "stack"}, SlotOf(LineType(line)) # NoSlot
  PROVE  /\ line.kind = "module" /\ line.offline \in BOOLEAN
         /\ LineType(line) \in Types /\ LineType(line) = TypeNameToId(line.name)
         /\ NameOf[LineType(line)] = line.name
         /\ SlotOf(LineType(line)) \in Slots
         /\ TakenBy(line) = SlotOf(LineType(line))
<1>1. LineType(line) \in Types /\ SlotOf(LineType(line)) \in Slots
  BY SlotType
<1>2. line.kind = "module"
  BY <1>1, EftAssumption DEF LineType
<1>3. LineType(line) = TypeNameToId(line.name)
  BY <1>2 DEF LineType
<1>4. line.offline \in BOOLEAN
  BY <1>2 DEF LineOK
<1>5. TakenBy(line) = SlotOf(LineType(line))
  BY <1>2 DEF TakenBy
<1>6. NameOf[LineType(line)] = line.name
  BY <1>1, <1>3, NamedType
<1> QED BY <1>1, <1>2, <1>3, <1>4, <1>5, <1>6

\* What is not a type is in no category of drones.
LEMMA DronesAreTypes ==
  ASSUME NEW t \in Types \cup {NoType}, Category(t) = DroneCategory
  PROVE  t \in Types
BY EftAssumption DEF Category, DroneCategory
-----------------------------------------------------------------------------
(* Types. *)

\* The reading starts with what has its type.
LEMMA InitTyped ==
  ASSUME Init
  PROVE  Typed
<1>1. text \in Texts /\ named \subseteq Types
  BY DEF Init, NameMaps
<1>2. unread \in Seq(Here)
  BY <1>1, TextLines DEF Init, Lines
<1>3. current \in Seq(Here) /\ section \in Seq(Here) /\ sections \in Seq(Seq(Here))
  BY EmptySeq DEF Init
<1>4. modules \in Seq(ModuleType) /\ cargo \in Seq(Stack) /\ items \in Seq(Stack)
      /\ drones \in Seq([type : Types, state : {"active"}])
  BY EmptySeq DEF Init
<1>8. onShip \in Seq(ModuleType)
  BY EmptySeq DEF Init
<1>5. moduleSlots \in [Slots -> Nat]
  BY DEF Init
<1>6. DronesOnly /\ StacksOnly
  BY EmptySeq DEF Init, DronesOnly, StacksOnly
<1>7. TypeOK
  BY <1>1, <1>4, <1>5, <1>8 DEF Init, TypeOK
<1> QED BY <1>1, <1>2, <1>3, <1>6, <1>7 DEF Typed, Sourced

\* A line of a module section counts the slot that it takes.
LEMMA SlotCounted ==
  ASSUME moduleSlots \in [Slots -> Nat], NEW s \in Slots
  PROVE  /\ [moduleSlots EXCEPT ![s] = @ + 1] \in [Slots -> Nat]
         /\ \A x \in Slots : [moduleSlots EXCEPT ![s] = @ + 1][x] =
                               IF x = s THEN moduleSlots[x] + 1 ELSE moduleSlots[x]
OBVIOUS

\* Reading a module keeps the types.
LEMMA ReadModuleTyped ==
  ASSUME Typed, ReadModule
  PROVE  Typed'
<1> DEFINE line == Head(section)
           t == LineType(line)
           slot == SlotOf(t)
           x == [type |-> t, slot |-> slot, index |-> moduleSlots[slot],
                 state |-> IF line.offline THEN "passive" ELSE "active",
                 charge |-> IF line.charge = NoCharge THEN NoCharge
                            ELSE TypeNameToId(line.charge)]
<1>1. TypeOK /\ Sourced /\ DronesOnly /\ StacksOnly
  BY DEF Typed
<1>2. section # <<>> /\ phase = "modules" /\ line.kind \in {"module", "stack"}
  BY DEF ReadModule, ReadingModule
<1>3. line \in Here /\ Tail(section) \in Seq(Here)
  BY <1>1, <1>2, HeadTailProperties DEF Sourced
<1>4. LineOK(line) /\ named \subseteq Types
  BY <1>1, <1>3, HereOK DEF Sourced, TypeOK
<1>5. slot # NoSlot
  BY DEF ReadModule
<1>6. line.offline \in BOOLEAN /\ t \in Types /\ slot \in Slots
  BY <1>2, <1>4, <1>5, FittedLine
<1>7. moduleSlots \in [Slots -> Nat] /\ modules \in Seq(ModuleType)
  BY <1>1 DEF TypeOK
<1>8. modules' = Append(modules, x) /\ moduleSlots' = [moduleSlots EXCEPT ![slot] = @ + 1]
  BY DEF ReadModule
<1>9. TypeNameToId(line.charge) \in Types \cup {NoType}
  BY <1>4, NamedType
<1>10. x \in ModuleType
  BY <1>6, <1>7, <1>9 DEF ModuleType, States
<1> HIDE DEF x, slot, t, line
<1>11. modules' \in Seq(ModuleType)
  BY <1>7, <1>8, <1>10, AppendProperties
<1>12. moduleSlots' \in [Slots -> Nat]
  BY <1>6, <1>7, <1>8, SlotCounted
<1>13. TypeOK'
  BY <1>1, <1>2, <1>11, <1>12 DEF TypeOK, ReadModule, input, iter, ReadingModule
<1>14. Sourced'
  BY <1>1, <1>3 DEF Sourced, ReadModule, input, iter, Here, Lines, line
<1>15. DronesOnly' /\ StacksOnly'
  BY <1>1, <1>2 DEF ReadModule, DronesOnly, StacksOnly, Category
<1> QED BY <1>13, <1>14, <1>15 DEF Typed

\* Holding a stack keeps the types.
LEMMA ReadStackTyped ==
  ASSUME Typed, ReadStack
  PROVE  Typed'
<1> DEFINE line == Head(section)
           t == TypeNameToId(line.name)
           x == [type |-> t, quantity |-> line.quantity]
           n == Len(items)
<1>1. TypeOK /\ Sourced /\ DronesOnly /\ StacksOnly
  BY DEF Typed
<1>2. section # <<>> /\ phase = "stacks"
  BY DEF ReadStack
<1>3. line \in Here /\ Tail(section) \in Seq(Here) /\ section \in Seq(Here)
      /\ Len(Tail(section)) = Len(section) - 1 /\ Len(section) \in Nat /\ Len(section) > 0
      /\ \A i \in 1..Len(Tail(section)) : Tail(section)[i] = section[i + 1]
  BY <1>1, <1>2, HeadTailProperties, EmptySeq DEF Sourced
<1>4. LineOK(line) /\ named \subseteq Types
  BY <1>1, <1>3, HereOK DEF Sourced, TypeOK
<1>5. line.kind = "stack"
  BY <1>1, <1>2, <1>3 DEF StacksOnly
<1>6. line.quantity \in Nat /\ t \in Types \cup {NoType}
  BY <1>4, <1>5, NamedType DEF LineOK
<1>7. x \in Stack /\ x.type = t
  BY <1>6 DEF Stack
<1>8. items \in Seq(Stack) /\ n \in Nat /\ areDrones \in BOOLEAN
  BY <1>1, LenProperties DEF TypeOK
<1>9. items' = Append(items, x) /\ areDrones' = (areDrones /\ Category(t) = DroneCategory)
      /\ section' = Tail(section)
  BY DEF ReadStack
<1> HIDE DEF x, t, line
<1>10. items' \in Seq(Stack) /\ Len(items') = n + 1
       /\ items'[n + 1] = x /\ \A i \in 1..n : items'[i] = items[i]
  BY <1>7, <1>8, <1>9, AppendProperties
<1> HIDE DEF n
<1>11. TypeOK'
  BY <1>1, <1>2, <1>8, <1>9, <1>10 DEF TypeOK, ReadStack, input, iter, fit
<1>12. Sourced'
  BY <1>1, <1>3 DEF Sourced, ReadStack, input, iter, Here, Lines
<1>13. DronesOnly'
  <2> SUFFICES ASSUME areDrones', NEW i \in 1..n + 1
               PROVE  Category(items'[i].type) = DroneCategory
    BY <1>10 DEF DronesOnly
  <2>1. areDrones /\ Category(t) = DroneCategory
    BY <1>8, <1>9
  <2>2. CASE i = n + 1
    BY <1>7, <1>10, <2>1, <2>2
  <2>3. CASE i # n + 1
    <3>1. i \in 1..n
      BY <1>8, <2>3
    <3> QED BY <1>1, <1>10, <2>1, <3>1 DEF DronesOnly, n
  <2> QED BY <2>2, <2>3
<1>14. StacksOnly'
  <2>1. \A i \in 1..Len(Tail(section)) : i + 1 \in 1..Len(section)
    BY <1>3
  <2> QED BY <1>1, <1>2, <1>3, <1>9, <2>1 DEF StacksOnly
<1> QED BY <1>11, <1>12, <1>13, <1>14 DEF Typed

\* Storing a stack keeps the types: what is a drone is of a type.
LEMMA StoreItemTyped ==
  ASSUME Typed, StoreItem
  PROVE  Typed'
<1> DEFINE x == Head(items)
           more == [k \in 1..x.quantity |-> [type |-> x.type, state |-> "active"]]
           Drone == [type : Types, state : {"active"}]
<1>1. TypeOK /\ Sourced /\ DronesOnly /\ StacksOnly
  BY DEF Typed
<1>2. items # <<>> /\ phase = "stacks" /\ section = <<>>
  BY DEF StoreItem
<1>3. items \in Seq(Stack) /\ drones \in Seq(Drone) /\ cargo \in Seq(Stack)
  BY <1>1 DEF TypeOK
<1>4. x \in Stack /\ Tail(items) \in Seq(Stack)
      /\ Len(Tail(items)) = Len(items) - 1 /\ Len(items) \in Nat /\ Len(items) > 0
      /\ \A i \in 1..Len(Tail(items)) : Tail(items)[i] = items[i + 1]
      /\ x = items[1]
  BY <1>2, <1>3, HeadTailProperties, EmptySeq
<1>5. x.quantity \in Nat /\ x.type \in Types \cup {NoType}
  BY <1>4 DEF Stack
<1>6. items' = Tail(items) /\ areDrones' = areDrones /\ phase' = phase /\ section' = section
  BY DEF StoreItem
<1>7. drones' \in Seq(Drone) /\ cargo' \in Seq(Stack)
  <2>1. CASE areDrones
    <3>1. drones' = drones \o more /\ cargo' = cargo
      BY <2>1 DEF StoreItem
    <3>2. Category(x.type) = DroneCategory
      BY <1>1, <1>4, <2>1 DEF DronesOnly
    <3>3. x.type \in Types
      BY <1>5, <3>2, DronesAreTypes
    <3>4. more \in [1..x.quantity -> Drone]
      BY <3>3
    <3> HIDE DEF more, Drone
    <3>5. more \in Seq(Drone)
      BY <1>5, <3>4, SeqDef
    <3> QED BY <1>3, <3>1, <3>5, ConcatProperties
  <2>2. CASE ~areDrones
    <3>1. drones' = drones /\ cargo' = Append(cargo, x)
      BY <2>2 DEF StoreItem
    <3> HIDE DEF Drone, x
    <3>2. cargo' \in Seq(Stack)
      BY <1>3, <1>4, <3>1, AppendProperties
    <3> QED BY <1>3, <3>1, <3>2
  <2> QED BY <2>1, <2>2
<1> HIDE DEF x, more
<1>10. TypeOK'
  BY <1>1, <1>2, <1>4, <1>6, <1>7 DEF TypeOK, StoreItem, input, iter
<1>11. Sourced'
  BY <1>1 DEF Sourced, StoreItem, input, iter, Here, Lines
<1>12. DronesOnly'
  <2>1. \A i \in 1..Len(Tail(items)) : i + 1 \in 1..Len(items)
    BY <1>4
  <2> QED BY <1>1, <1>4, <1>6, <2>1 DEF DronesOnly
<1>13. StacksOnly'
  BY <1>1, <1>6 DEF StacksOnly
<1> QED BY <1>10, <1>11, <1>12, <1>13 DEF Typed

\* A section that is not one of modules has stacks only.
LEMMA NextSectionTyped ==
  ASSUME Typed, NextSection
  PROVE  Typed'
<1>1. TypeOK /\ Sourced
  BY DEF Typed
<1>2. sections # <<>> /\ section' = Head(sections) /\ sections' = Tail(sections)
      /\ items' = <<>> /\ areDrones' = TRUE /\ moduleSlots' = [s \in Slots |-> 0]
      /\ phase' \in {"modules", "stacks"}
      /\ (phase' = "stacks" => ~IsModuleSection(Head(sections)))
  BY DEF NextSection
<1>3. Head(sections) \in Seq(Here) /\ Tail(sections) \in Seq(Seq(Here))
  BY <1>1, <1>2, HeadTailProperties DEF Sourced
<1>4. DOMAIN Head(sections) = 1..Len(Head(sections))
  BY <1>3, LenProperties
<1>5. StacksOnly'
  BY <1>2, <1>4 DEF StacksOnly, IsModuleSection
<1>6. DronesOnly' /\ items' \in Seq(Stack)
  BY <1>2, EmptySeq DEF DronesOnly
<1>7. moduleSlots' \in [Slots -> Nat]
  BY <1>2
<1>8. TypeOK'
  BY <1>1, <1>2, <1>6, <1>7 DEF TypeOK, NextSection, input, iter, fit
<1>9. Sourced'
  BY <1>1, <1>2, <1>3 DEF Sourced, NextSection, input, iter, Here, Lines
<1> QED BY <1>5, <1>6, <1>8, <1>9 DEF Typed

\* The other steps of the splitting and of the reading keep the types.
LEMMA SplitTyped ==
  ASSUME Typed, Header \/ SplitLine \/ SplitEnd
  PROVE  Typed'
<1>1. TypeOK /\ Sourced /\ DronesOnly /\ StacksOnly
  BY DEF Typed
<1>2. CASE Header
  <2>1. phase' \in {"split", "fatal", "thrown"}
    BY <1>1, <1>2, TextLines DEF Header, Sourced
  <2>2. TypeOK'
    BY <1>1, <1>2, <2>1 DEF TypeOK, Header, input, local, fit
  <2> QED BY <1>1, <1>2, <2>1, <2>2
          DEF Typed, Sourced, DronesOnly, StacksOnly, Header, input, iter, local, Here, Lines
<1>3. CASE SplitLine
  <2>1. Head(unread) \in Here /\ Tail(unread) \in Seq(Here)
    BY <1>1, <1>3, HeadTailProperties DEF Sourced, SplitLine
  <2>2. Append(current, Head(unread)) \in Seq(Here)
    BY <1>1, <2>1, AppendProperties DEF Sourced
  <2>3. Append(sections, current) \in Seq(Seq(Here)) /\ <<>> \in Seq(Here)
    BY <1>1, AppendProperties, EmptySeq DEF Sourced
  <2>4. Sourced'
    BY <1>1, <1>3, <2>1, <2>2, <2>3 DEF Sourced, SplitLine, input, Here, Lines
  <2>5. TypeOK'
    BY <1>1, <1>3 DEF TypeOK, SplitLine, input, local, fit
  <2> QED BY <1>1, <1>3, <2>4, <2>5 DEF Typed, DronesOnly, StacksOnly, SplitLine, local
<1>4. CASE SplitEnd
  <2>1. Append(sections, current) \in Seq(Seq(Here)) /\ <<>> \in Seq(Here)
    BY <1>1, AppendProperties, EmptySeq DEF Sourced
  <2>2. Sourced'
    BY <1>1, <1>4, <2>1 DEF Sourced, SplitEnd, input, Here, Lines
  <2>3. TypeOK'
    BY <1>1, <1>4 DEF TypeOK, SplitEnd, input, local, fit
  <2> QED BY <1>1, <1>4, <2>2, <2>3 DEF Typed, DronesOnly, StacksOnly, SplitEnd, local
<1> QED BY <1>2, <1>3, <1>4

\* A line that takes no module keeps the types.
LEMMA ReadHoleTyped ==
  ASSUME Typed, ReadHole
  PROVE  Typed'
<1>1. TypeOK /\ Sourced /\ DronesOnly /\ StacksOnly
  BY DEF Typed
<1>2. section # <<>> /\ phase = "modules" /\ Head(section).kind = "hole"
  BY DEF ReadHole
<1>3. Head(section) \in Here /\ Tail(section) \in Seq(Here)
  BY <1>1, <1>2, HeadTailProperties DEF Sourced
<1>4. Head(section).slot \in Slots
  BY <1>1, <1>2, <1>3, HereOK DEF Sourced, LineOK
<1>5. moduleSlots' \in [Slots -> Nat] /\ phase' \in {"modules", "fatal"}
  BY <1>1, <1>2, <1>4, SlotCounted DEF ReadHole, TypeOK
<1>6. TypeOK'
  BY <1>1, <1>2, <1>5 DEF TypeOK, ReadHole, input, fit
<1> QED BY <1>1, <1>2, <1>3, <1>5, <1>6
        DEF Typed, Sourced, DronesOnly, StacksOnly, ReadHole, input, iter, Here, Lines

\* The steps that only move on keep the types.
LEMMA TurnTyped ==
  ASSUME Typed,
         SectionsEnd \/ ReadBlanks \/ NoFittingSlot \/ ModulesEnd \/ StacksEnd
           \/ WrongCount \/ NoLetters \/ UNCHANGED vars
  PROVE  Typed'
<1>1. TypeOK /\ Sourced /\ DronesOnly /\ StacksOnly
  BY DEF Typed
<1>2. UNCHANGED <<input, iter, section, sections, local, fit, onShip>>
  BY DEF SectionsEnd, ReadBlanks, NoFittingSlot, ModulesEnd, StacksEnd, WrongCount, NoLetters, vars
<1>3. \/ phase' \in {"states", "fatal", "thrown", "sections", "calculate"} /\ items = <<>>
      \/ UNCHANGED phase
  BY <1>1 DEF SectionsEnd, ReadBlanks, NoFittingSlot, ReadingModule, ModulesEnd, StacksEnd,
              WrongCount, NoLetters, vars, TypeOK
<1>4. TypeOK'
  BY <1>1, <1>2, <1>3 DEF TypeOK, input, local, fit
<1> QED BY <1>1, <1>2, <1>3, <1>4
        DEF Typed, Sourced, DronesOnly, StacksOnly, input, iter, local, Here, Lines

\* A state is one of four whatever the letter.
LEMMA Parsed ==
  ASSUME NEW c
  PROVE  ParseState(c) \in States
BY DEF ParseState, States

\* The state string changes states only.
LEMMA StatesSet ==
  ASSUME Typed, SetStates
  PROVE  /\ Typed'
         /\ Len(modules') = Len(modules) /\ DOMAIN modules' = 1..Len(modules)
         /\ Len(modules) \in Nat /\ DOMAIN modules = 1..Len(modules)
         /\ \A k \in 1..Len(modules) :
              /\ modules'[k].type = modules[k].type /\ modules'[k].slot = modules[k].slot
              /\ modules'[k].index = modules[k].index
              /\ modules'[k].state =
                   IF FirstAt(k) /\ LetterAt(modules[k]) # {}
                   THEN ParseState(CHOOSE c \in LetterAt(modules[k]) : TRUE)
                   ELSE modules[k].state
<1> DEFINE n == Len(modules)
           Set(k) == IF FirstAt(k) /\ LetterAt(modules[k]) # {}
                     THEN [modules[k] EXCEPT
                             !.state = ParseState(CHOOSE c \in LetterAt(modules[k]) : TRUE)]
                     ELSE modules[k]
<1>1. TypeOK /\ Sourced /\ DronesOnly /\ StacksOnly
  BY DEF Typed
<1>2. modules \in Seq(ModuleType) /\ n \in Nat /\ DOMAIN modules = 1..n
  BY <1>1, LenProperties DEF TypeOK
<1>3. \A k \in 1..n : modules[k] \in ModuleType
  BY <1>2, ElementOfSeq
<1>4. ASSUME NEW k \in 1..n
      PROVE  /\ Set(k) \in ModuleType
             /\ Set(k).type = modules[k].type /\ Set(k).slot = modules[k].slot
             /\ Set(k).index = modules[k].index
             /\ Set(k).state = IF FirstAt(k) /\ LetterAt(modules[k]) # {}
                               THEN ParseState(CHOOSE c \in LetterAt(modules[k]) : TRUE)
                               ELSE modules[k].state
  <2> DEFINE m == modules[k]
             s == ParseState(CHOOSE c \in LetterAt(modules[k]) : TRUE)
  <2>1. m \in ModuleType /\ s \in States
    BY <1>3, Parsed
  <2>2. [m EXCEPT !.state = s] \in ModuleType
        /\ [m EXCEPT !.state = s].type = m.type /\ [m EXCEPT !.state = s].slot = m.slot
        /\ [m EXCEPT !.state = s].index = m.index /\ [m EXCEPT !.state = s].state = s
    <3> HIDE DEF m, s
    <3> QED BY <2>1 DEF ModuleType
  <2>3. Set(k) = IF FirstAt(k) /\ LetterAt(m) # {} THEN [m EXCEPT !.state = s] ELSE m
    OBVIOUS
  <2>4. CASE FirstAt(k) /\ LetterAt(m) # {}
    <3>1. Set(k) = [m EXCEPT !.state = s]
      BY <2>3, <2>4
    <3> HIDE DEF Set
    <3> QED BY <2>2, <2>4, <3>1
  <2>5. CASE ~(FirstAt(k) /\ LetterAt(m) # {})
    <3>1. Set(k) = m
      BY <2>3, <2>5
    <3> HIDE DEF Set
    <3> QED BY <2>1, <2>5, <3>1
  <2> QED BY <2>4, <2>5
<1>5. modules' = [k \in 1..n |-> Set(k)]
  BY <1>2 DEF SetStates
<1> HIDE DEF Set
<1>6. modules' \in [1..n -> ModuleType]
  BY <1>4, <1>5
<1>7. modules' \in Seq(ModuleType)
  BY <1>2, <1>6, SeqDef
<1>8. DOMAIN modules' = 1..n /\ Len(modules') \in Nat /\ DOMAIN modules' = 1..Len(modules')
  BY <1>6, <1>7, LenProperties
<1>9. Len(modules') = n
  BY <1>2, <1>8
<1>10. TypeOK'
  BY <1>1, <1>7 DEF TypeOK, SetStates, input, local
<1>11. Typed'
  BY <1>1, <1>10 DEF Typed, Sourced, DronesOnly, StacksOnly, SetStates, input, iter, local, Here, Lines
<1> QED BY <1>2, <1>4, <1>5, <1>8, <1>9, <1>11
-----------------------------------------------------------------------------
(* The place in the text. *)

\* What is said of the text stays true while the input stays the same.
LEMMA SameText ==
  ASSUME UNCHANGED input
  PROVE  /\ N' = N /\ Lines' = Lines /\ text' = text /\ named' = named /\ letters' = letters
         /\ \A k : Line(k)' = Line(k)
         /\ \A k : Blank(k)' <=> Blank(k)
         /\ \A b : Opens(b)' <=> Opens(b)
         /\ \A b, e : Filled(b, e)' <=> Filled(b, e)
         /\ \A b, e : Whole(b, e)' <=> Whole(b, e)
         /\ \A q, b : Copied(q, b)' <=> Copied(q, b)
BY DEF input, N, Lines, Line, Blank, Opens, Filled, Whole, Copied

\* The modules and stacks that lines stand for stay the same as well.
LEMMA SameMeaning ==
  ASSUME UNCHANGED input
  PROVE  /\ \A s : Taking(s)' = Taking(s)
         /\ ModuleLines' = ModuleLines /\ StackLines' = StackLines
         /\ \A m, k : ModuleOf(m, k)' <=> ModuleOf(m, k)
         /\ \A x, k : StackOf(x, k)' <=> StackOf(x, k)
         /\ \A name : TypeNameToId(name)' = TypeNameToId(name)
         /\ \A t, w : DronesTo(t, w)' = DronesTo(t, w)
         /\ \A w : CargoTo(w)' = CargoTo(w)
         /\ \A lines : Pieces(lines)' = Pieces(lines)
<1>1. text' = text /\ named' = named
  BY DEF input
<1>2. /\ Lines' = Lines
      /\ \A k : Line(k)' = Line(k)
      /\ \A name : TypeNameToId(name)' = TypeNameToId(name)
  BY <1>1 DEF Lines, Line, TypeNameToId
<1>3. \A line : TakenBy(line)' = TakenBy(line)
  BY <1>1 DEF TakenBy, LineType, TypeNameToId, SlotOf
<1>4. \A s : Taking(s)' = Taking(s)
  BY <1>2, <1>3 DEF Taking
<1>5. ModuleLines' = ModuleLines /\ StackLines' = StackLines
  BY <1>2 DEF ModuleLines, StackLines
<1>6. \A lines : Together(lines)' <=> Together(lines)
  BY <1>2 DEF Together
<1>7. \A m, k : ModuleOf(m, k)' <=> ModuleOf(m, k)
  BY <1>2, <1>3, <1>4, <1>6 DEF ModuleOf
<1>8. \A x, k : StackOf(x, k)' <=> StackOf(x, k)
  BY <1>2 DEF StackOf
<1>9. \A k : OfDrones(k)' <=> OfDrones(k)
  BY <1>2, <1>6 DEF OfDrones, SectionAround, Category
<1>10. (\A t, w : DronesTo(t, w)' = DronesTo(t, w)) /\ \A w : CargoTo(w)' = CargoTo(w)
  BY <1>2, <1>5, <1>9 DEF DronesTo, CargoTo
<1>11. \A lines : Pieces(lines)' = Pieces(lines)
  BY <1>2 DEF Pieces
<1> QED BY <1>2, <1>4, <1>5, <1>7, <1>8, <1>10, <1>11

\* The lines of one section are together, and with no others.
LEMMA Around ==
  ASSUME N \in Nat, NEW b \in 0..N, NEW e \in 0..N, Whole(b, e),
         NEW k \in b+1..e, NEW j \in 1..N
  PROVE  Together({j, k}) <=> j \in b+1..e
<1>1. CASE j \in b+1..e
  <2>1. \A x, y \in {j, k} : \A i \in x..y : i \in b+1..e
    BY <1>1
  <2>2. Together({j, k})
    BY <2>1 DEF Together, Whole, Filled, Blank
  <2> QED BY <1>1, <2>2
<1>2. CASE j <= b
  <2>1. Blank(b) /\ b \in j..k
    BY <1>2 DEF Whole, Opens
  <2>2. ~Together({j, k})
    BY <2>1 DEF Together, Blank
  <2> QED BY <1>2, <2>2
<1>3. CASE j > e
  <2>1. Blank(e + 1) /\ e + 1 \in k..j
    BY <1>3 DEF Whole
  <2>2. ~Together({j, k})
    BY <2>1 DEF Together, Blank
  <2> QED BY <1>3, <2>2
<1> QED BY <1>1, <1>2, <1>3

\* One more section is found behind the others, and blank lines behind it.
LEMMA OneMore ==
  ASSUME UNCHANGED input, N \in Nat, NEW S, sections \in Seq(S), NEW c \in S, Len(c) \in Nat,
         NEW r \in 0..N, NEW q \in 0..N, NEW p \in 0..N, NEW w \in 0..N,
         Sectioned(r, q), r <= q, Copied(c, q), p = q + Len(c), Whole(q, p), p <= w, \A k \in p+1..w : Blank(k),
         sections' = Append(sections, c),
         \A i \in 1..Len(sections) : Len(sections[i]) \in Nat
  PROVE  Sectioned(r, w)'
<1>1. PICK n \in Nat : n = Len(sections)
  BY LenProperties
<1>2. PICK f \in [1..n -> 0..N] : Found(f, r, q)
  BY <1>1 DEF Sectioned
<1>3. Len(sections') = n + 1 /\ sections'[n + 1] = c /\ \A i \in 1..n : sections'[i] = sections[i]
  BY <1>1, AppendProperties
<1>4. PICK g \in [1..n + 1 -> 0..N] : g[n + 1] = q /\ \A i \in 1..n : g[i] = f[i]
  <2> DEFINE h == [i \in 1..n + 1 |-> IF i = n + 1 THEN q ELSE f[i]]
  <2>1. h \in [1..n + 1 -> 0..N] /\ h[n + 1] = q /\ \A i \in 1..n : h[i] = f[i]
    BY <1>1
  <2> QED BY <2>1
<1>5. \A i \in 1..n : End(f, i) = f[i] + Len(sections[i]) /\ f[i] \in 0..N /\ Len(sections[i]) \in Nat
  BY <1>1 DEF End
<1>6. (\A i \in 1..n : End(g, i)' = End(f, i)) /\ End(g, n + 1)' = p
  BY <1>3, <1>4, <1>5 DEF End
<1>7. \A i \in 1..n : End(f, i) < q
  <2> SUFFICES ASSUME NEW i \in 1..n PROVE End(f, i) < q
    OBVIOUS
  <2>1. Whole(f[i], End(f, i)) /\ f[i] \in 0..N /\ End(f, i) \in Nat /\ End(f, i) <= q
    BY <1>1, <1>2, <1>5 DEF Found
  <2>2. End(f, i) \in f[i]+1..End(f, i) /\ End(f, i) # 0
    <3>1. f[i] < End(f, i)
      BY <2>1 DEF Whole
    <3>2. f[i] \in Nat
      BY <2>1
    <3> DEFINE a == f[i]
               z == End(f, i)
    <3>3. a \in Nat /\ z \in Nat /\ a < z
      BY <2>1, <3>1, <3>2
    <3>4. ASSUME NEW u \in Nat, NEW v \in Nat, u < v
          PROVE  v \in u+1..v /\ v # 0
      BY <3>4
    <3> HIDE DEF a, z
    <3>5. z \in a+1..z /\ z # 0
      BY <3>3, <3>4
    <3> QED BY <3>5 DEF a, z
  <2>3. ~Blank(End(f, i))
    BY <2>1, <2>2 DEF Whole, Filled
  <2>4. End(f, i) # q
    BY <2>2, <2>3 DEF Whole, Opens
  <2> QED BY <2>1, <2>4
<1>8. ASSUME NEW i \in 1..n + 1
      PROVE  /\ r <= g[i] /\ End(g, i)' <= p
             /\ Copied(sections[i], g[i])' /\ Whole(g[i], End(g, i))'
  <2>1. CASE i = n + 1
    BY <1>3, <1>4, <1>6, <2>1, SameText
  <2>2. CASE i # n + 1
    <3>1. i \in 1..n
      BY <2>2
    <3>2. /\ r <= f[i] /\ End(f, i) <= q
          /\ Copied(sections[i], f[i]) /\ Whole(f[i], End(f, i))
      BY <1>1, <1>2, <3>1 DEF Found
    <3>3. r <= g[i] /\ End(g, i)' <= p
      <4>1. g[i] = f[i] /\ End(g, i)' = End(f, i) /\ End(f, i) \in Nat
        <5>1. f[i] \in 0..N /\ Len(sections[i]) \in Nat /\ End(f, i) = f[i] + Len(sections[i])
          BY <1>5, <3>1
        <5>2. \A x \in 0..N, y \in Nat : x + y \in Nat
          OBVIOUS
        <5> QED BY <1>4, <1>6, <3>1, <5>1, <5>2
      <4>2. q \in Nat /\ p \in Nat /\ q <= p
        OBVIOUS
      <4>3. \A x \in Nat : x <= q => x <= p
        BY <4>2
      <4> QED BY <3>2, <4>1, <4>3
    <3>4. Copied(sections[i], g[i])' /\ Whole(g[i], End(g, i))'
      <4>1. PICK a : a = f[i] /\ a = g[i]
        BY <1>4, <3>1
      <4>2. PICK e : e = End(f, i) /\ e = End(g, i)'
        BY <1>6, <3>1
      <4>3. PICK x : x = sections[i] /\ x = sections'[i]
        BY <1>3, <3>1
      <4>4. Copied(x, a)' /\ Whole(a, e)'
        BY <3>2, <4>1, <4>2, <4>3, SameText
      <4> QED BY <4>1, <4>2, <4>3, <4>4 DEF Copied, Whole, Opens, Filled
    <3> QED BY <3>3, <3>4
  <2> QED BY <2>1, <2>2
<1>9. ASSUME NEW i \in 1..n + 1, NEW j \in 1..n + 1, i < j
      PROVE  End(g, i)' < g[j]
  <2>1. i \in 1..n
    BY <1>1, <1>9
  <2>2. CASE j = n + 1
    BY <1>4, <1>6, <1>7, <2>1, <2>2
  <2>3. CASE j # n + 1
    <3>1. j \in 1..n
      BY <1>1, <2>3
    <3> QED BY <1>1, <1>2, <1>4, <1>6, <1>9, <2>1, <3>1 DEF Found
  <2> QED BY <2>2, <2>3
<1>10. ASSUME NEW k \in r+1..p, ~Blank(k)'
       PROVE  \E i \in 1..n + 1 : k \in g[i]+1..End(g, i)'
  <2>1. ~Blank(k)
    BY <1>10, SameText
  <2>2. CASE k > q
    <3>1. n + 1 \in 1..n + 1 /\ k \in q+1..p
      BY <1>1, <2>2
    <3>2. k \in g[n + 1]+1..End(g, n + 1)'
      BY <1>4, <1>6, <3>1
    <3> QED BY <3>1, <3>2
  <2>3. CASE k <= q
    <3>1. k \in r+1..q
      BY <2>3
    <3>2. PICK i \in 1..n : k \in f[i]+1..End(f, i)
      BY <1>1, <1>2, <2>1, <3>1 DEF Found
    <3>3. i \in 1..n + 1 /\ k \in g[i]+1..End(g, i)'
      BY <1>1, <1>4, <1>6, <3>2
    <3> QED BY <3>3
  <2> QED BY <2>2, <2>3
<1>11. Found(g, r, w)'
  <2>1. \A i \in 1..n + 1 : End(g, i)' <= w
    <3> SUFFICES ASSUME NEW i \in 1..n + 1 PROVE End(g, i)' <= w
      OBVIOUS
    <3>1. CASE i = n + 1
      BY <1>6, <3>1
    <3>2. CASE i # n + 1
      <4>1. i \in 1..n
        BY <3>2
      <4>2. PICK z : z = End(f, i)
        OBVIOUS
      <4>3. z < q /\ z \in Nat
        <5>1. f[i] \in Nat /\ Len(sections[i]) \in Nat /\ z = f[i] + Len(sections[i])
          <6>1. f[i] \in 0..N /\ Len(sections[i]) \in Nat /\ End(f, i) = f[i] + Len(sections[i])
            BY <1>5, <4>1
          <6>2. \A x \in 0..N : x \in Nat
            OBVIOUS
          <6> QED BY <4>2, <6>1, <6>2
        <5>2. \A x, y \in Nat : x + y \in Nat
          OBVIOUS
        <5>3. z \in Nat
          BY <5>1, <5>2
        <5> QED BY <1>7, <4>1, <4>2, <5>3
      <4>4. q <= p /\ q \in Nat /\ p \in Nat /\ w \in Nat
        BY <1>7
      <4>5. z <= w
        BY <4>3, <4>4
      <4> QED BY <1>6, <4>1, <4>2, <4>5
    <3> QED BY <3>1, <3>2
  <2>2. \A k \in r+1..w : ~Blank(k)' => k \in r+1..p
    BY SameText
  <2> QED BY <1>3, <1>8, <1>9, <1>10, <2>1, <2>2 DEF Found
<1>12. N' = N
  BY SameText
<1> QED BY <1>3, <1>4, <1>11, <1>12 DEF Sectioned

\* With blank lines behind them the sections are those of a longer text.
LEMMA Further ==
  ASSUME N \in Nat,
         NEW r \in 0..N, NEW q \in 0..N, NEW p \in 0..N,
         Sectioned(r, q), q <= p, \A k \in q+1..p : Blank(k),
         \A i \in 1..Len(sections) : Len(sections[i]) \in Nat
  PROVE  Sectioned(r, p)
<1> DEFINE n == Len(sections)
<1>1. PICK f \in [1..n -> 0..N] : Found(f, r, q)
  BY DEF Sectioned
<1>2. \A i \in 1..n : End(f, i) \in Nat /\ f[i] \in 0..N
  BY DEF End
<1>3. /\ \A i \in 1..n : r <= f[i] /\ End(f, i) <= q /\ Copied(sections[i], f[i])
                         /\ Whole(f[i], End(f, i))
      /\ \A i, j \in 1..n : i < j => End(f, i) < f[j]
      /\ \A k \in r+1..q : ~Blank(k) => \E i \in 1..n : k \in f[i]+1..End(f, i)
  BY <1>1 DEF Found
<1>4. \A k \in r+1..p : ~Blank(k) => k \in r+1..q
  OBVIOUS
<1> HIDE DEF n
<1>5. \A i \in 1..n : End(f, i) <= p
  BY <1>2, <1>3
<1>6. Found(f, r, p)
  BY <1>3, <1>4, <1>5 DEF Found, n
<1> QED BY <1>1, <1>6 DEF Sectioned, n

\* The sections stay where they are while nothing changes them.
LEMMA SameSections ==
  ASSUME UNCHANGED <<input, sections>>
  PROVE  \A r, q : Sectioned(r, q)' <=> Sectioned(r, q)
<1>1. \A f, i : End(f, i)' = End(f, i)
  BY DEF End
<1>2. \A f, r, q : Found(f, r, q)' <=> Found(f, r, q)
  BY <1>1, SameText DEF Found
<1> QED BY <1>2, SameText DEF Sectioned

\* The sections are sequences of lines.
LEMMA SectionLines ==
  ASSUME Sourced
  PROVE  /\ N \in Nat /\ Len(sections) \in Nat /\ sections \in Seq(Seq(Here))
         /\ Len(unread) \in Nat /\ Len(current) \in Nat /\ Len(section) \in Nat
         /\ \A i \in 1..Len(sections) : sections[i] \in Seq(Here) /\ Len(sections[i]) \in Nat
BY TextLines, LenProperties, ElementOfSeq DEF Sourced

\* Before the first line there is no section.
LEMMA NoSections ==
  ASSUME N \in Nat, sections = <<>>, NEW r \in 0..N, NEW q \in 0..N,
         \A k \in r+1..q : Blank(k)
  PROVE  Sectioned(r, q)
<1>1. Len(sections) = 0
  BY EmptySeq
<1>2. PICK f \in [1..0 -> 0..N] : TRUE
  <2>1. [i \in 1..0 |-> 0] \in [1..0 -> 0..N]
    OBVIOUS
  <2> QED BY <2>1
<1>3. Found(f, r, q)
  BY <1>1 DEF Found
<1> QED BY <1>1, <1>3 DEF Sectioned

\* At the header all lines are unread.
LEMMA HeaderSplits ==
  ASSUME Typed, Start, Header, phase' = "split"
  PROVE  Splitting'
<1>1. Sourced /\ N \in Nat
  BY SectionLines DEF Typed
<1>2. UNCHANGED input /\ unread' = unread /\ current' = current /\ sections' = sections
  BY DEF Header, iter
<1>3. Len(<<>>) = 0
  BY EmptySeq
<1>4. Copied(Lines, 0) /\ Copied(<<>>, 0)
  BY <1>1, <1>3 DEF Copied, N, Line
<1>5. Opens(0) /\ Filled(0, 0)
  BY DEF Opens, Filled
<1>6. sections = <<>> /\ 0 \in 0..N
  BY <1>1 DEF Start
<1>7. Sectioned(0, 0)
  BY <1>1, <1>6, NoSections
<1>8. N - Len(unread) = 0 /\ 0 - Len(current) = 0
  <2>1. Len(unread) = N /\ Len(current) = 0
    BY <1>3 DEF Start, N
  <2> QED BY <1>1, <2>1
<1>9. Splitting
  BY <1>4, <1>5, <1>7, <1>8 DEF Splitting, Start
<1>10. Sectioned(0, 0)'
  BY <1>2, <1>7, SameSections
<1>11. /\ N' - Len(unread') = 0 /\ 0 - Len(current') = 0
       /\ Copied(unread, 0)' /\ Copied(current, 0)' /\ Opens(0)' /\ Filled(0, 0)'
  BY <1>2, <1>4, <1>5, <1>8, SameText DEF Start
<1> QED BY <1>10, <1>11 DEF Splitting

\* A line that is split off goes to the section it belongs to.
LEMMA SplitLineSplits ==
  ASSUME Typed, Splitting, SplitLine
  PROVE  Splitting'
<1>1. Sourced /\ N \in Nat /\ Len(unread) \in Nat /\ Len(current) \in Nat
      /\ \A i \in 1..Len(sections) : sections[i] \in Seq(Here) /\ Len(sections[i]) \in Nat
  BY SectionLines DEF Typed
<1>2. unread \in Seq(Here) /\ current \in Seq(Here) /\ sections \in Seq(Seq(Here))
  BY <1>1 DEF Sourced
<1>3. UNCHANGED input /\ unread # <<>> /\ unread' = Tail(unread)
  BY DEF SplitLine
<1>4. PICK u \in Seq(Here) : u = unread
  BY <1>2
<1>5. PICK c \in Seq(Here) : c = current
  BY <1>2
<1>6. PICK p \in Int : p = N - Len(unread)
  <2>1. N - Len(unread) \in Int
    BY <1>1
  <2> QED BY <2>1
<1>7. PICK q \in Int : q = p - Len(c)
  <2>1. Len(c) \in Nat
    BY <1>1, <1>5
  <2>2. \A x \in Nat : p - x \in Int
    OBVIOUS
  <2> QED BY <2>1, <2>2
<1>8. /\ q >= 0 /\ Copied(u, p) /\ Copied(c, q) /\ Opens(q) /\ Filled(q, p)
      /\ Sectioned(0, q)
  BY <1>4, <1>5, <1>6, <1>7 DEF Splitting
<1>9. Head(u) \in Here /\ Len(Tail(u)) = Len(u) - 1 /\ Len(u) \in Nat /\ Len(u) > 0
      /\ (\A i \in 1..Len(Tail(u)) : Tail(u)[i] = u[i + 1]) /\ Head(u) = u[1]
  BY <1>3, <1>4, HeadTailProperties, EmptySeq
<1>10. p \in 0..N /\ q \in 0..N /\ q <= p /\ p + 1 \in 1..N /\ p + 1 \in 0..N
       /\ N - Len(Tail(u)) = p + 1 /\ p = q + Len(c) /\ Len(c) \in Nat
  <2>1. Len(u) = Len(unread) /\ Len(c) = Len(current)
    BY <1>4, <1>5
  <2>2. p = N - Len(u) /\ Len(c) \in Nat
    BY <1>1, <1>6, <2>1
  <2>3. p = q + Len(c) /\ q <= p
    BY <1>7, <2>2
  <2>4. PICK n \in Nat : n = Len(u)
    BY <1>9
  <2>5. n > 0 /\ Len(Tail(u)) = n - 1 /\ p = N - n
    BY <1>9, <2>2, <2>4
  <2>6. p + 1 <= N /\ N - (n - 1) = p + 1
    BY <1>1, <2>5
  <2>7. q >= 0
    BY <1>8
  <2>8. p \in 0..N
    BY <1>1, <2>3, <2>6, <2>7
  <2>9. q \in 0..N
    BY <1>1, <2>3, <2>6, <2>7
  <2>10. p + 1 \in 1..N /\ p + 1 \in 0..N
    BY <1>1, <2>3, <2>6, <2>7
  <2> QED BY <2>2, <2>3, <2>5, <2>6, <2>8, <2>9, <2>10
<1>11. Head(u) = Line(p + 1)
  BY <1>8, <1>9 DEF Copied
<1>12. Copied(Tail(u), p + 1)
  <2>1. p + 1 + Len(Tail(u)) <= N
    BY <1>1, <1>9, <1>10
  <2>2. ASSUME NEW i \in 1..Len(Tail(u))
        PROVE  Tail(u)[i] = Line(p + 1 + i)
    <3>1. i + 1 \in 1..Len(u) /\ p + (i + 1) = p + 1 + i
      BY <1>9
    <3> QED BY <1>8, <1>9, <3>1 DEF Copied
  <2> QED BY <2>1, <2>2 DEF Copied
<1>13. N' - Len(unread') = p + 1 /\ Copied(unread, p + 1)'
  BY <1>3, <1>4, <1>10, <1>12, SameText
<1>14. CASE ~Blank(p + 1)
  <2>1. current' = Append(c, Head(u)) /\ sections' = sections
    BY <1>4, <1>5, <1>11, <1>14 DEF SplitLine, Blank
  <2>2. Len(current') = Len(c) + 1 /\ current'[Len(c) + 1] = Line(p + 1)
        /\ \A i \in 1..Len(c) : current'[i] = c[i]
    BY <1>9, <1>11, <2>1, AppendProperties
  <2>3. PICK d : d = current'
    OBVIOUS
  <2>4. Copied(d, q)
    <3>1. q + Len(d) <= N
      BY <1>10, <2>2, <2>3
    <3>2. ASSUME NEW i \in 1..Len(d)
          PROVE  d[i] = Line(q + i)
      <4>1. CASE i = Len(c) + 1
        <5>1. q + i = p + 1
          BY <1>10, <4>1
        <5> QED BY <2>2, <2>3, <4>1, <5>1
      <4>2. CASE i # Len(c) + 1
        <5>1. i \in 1..Len(c)
          BY <1>10, <2>2, <2>3, <4>2
        <5> QED BY <1>8, <2>2, <2>3, <5>1 DEF Copied
      <4> QED BY <4>1, <4>2
    <3> QED BY <3>1, <3>2 DEF Copied
  <2>5. Filled(q, p + 1)
    <3>1. \A k \in q+1..p + 1 : k = p + 1 \/ k \in q+1..p
      BY <1>10
    <3> QED BY <1>8, <1>14, <3>1 DEF Filled
  <2>6. Sectioned(0, q)'
    BY <1>3, <1>8, <2>1, SameSections
  <2>7. p + 1 - Len(current') = q
    BY <1>10, <2>2
  <2>8. Copied(current, q)' /\ Opens(q)' /\ Filled(q, p + 1)'
    BY <1>3, <1>8, <2>3, <2>4, <2>5, SameText
  <2> QED BY <1>10, <1>13, <2>6, <2>7, <2>8 DEF Splitting
<1>15. CASE Blank(p + 1)
  <2>1. current' = <<>> /\ sections' = IF c = <<>> THEN sections ELSE Append(sections, c)
    BY <1>4, <1>5, <1>11, <1>15 DEF SplitLine, Blank
  <2>2. Len(<<>>) = 0 /\ (c # <<>> => Len(c) > 0)
    BY <1>5, EmptySeq
  <2>3. Sectioned(0, p + 1)'
    <3>1. CASE c = <<>>
      <4>1. q = p /\ sections' = sections
        BY <1>10, <2>1, <2>2, <3>1
      <4>2. \A k \in q+1..p + 1 : Blank(k)
        BY <1>10, <1>15, <4>1
      <4>3. Sectioned(0, p + 1)
        <5>1. 0 \in 0..N /\ q <= p + 1
          <6>1. N \in Nat
            BY <1>1
          <6>2. 0 \in 0..N
            BY <6>1
          <6>3. q <= p + 1
            BY <1>10
          <6> QED BY <6>2, <6>3
        <5> QED BY <1>1, <1>8, <1>10, <4>2, <5>1, Further
      <4> QED BY <1>3, <4>1, <4>3, SameSections
    <3>2. CASE c # <<>>
      <4>1. sections' = Append(sections, c)
        BY <2>1, <3>2
      <4>2. Whole(q, p)
        BY <1>8, <1>10, <1>15, <2>2, <3>2 DEF Whole
      <4>3. \A k \in p+1..p + 1 : Blank(k)
        BY <1>10, <1>15
      <4>4. 0 \in 0..N /\ p <= p + 1
        <5>1. N \in Nat
          BY <1>1
        <5>2. p <= p + 1
          OBVIOUS
        <5>3. 0 \in 0..N
          BY <5>1
        <5> QED BY <5>2, <5>3
      <4> QED BY <1>1, <1>2, <1>3, <1>5, <1>8, <1>10, <4>1, <4>2, <4>3, <4>4, OneMore
    <3> QED BY <3>1, <3>2
  <2>4. Copied(<<>>, p + 1) /\ Opens(p + 1) /\ Filled(p + 1, p + 1)
    BY <1>10, <1>15, <2>2 DEF Copied, Opens, Filled
  <2>5. Copied(current, p + 1)' /\ Opens(p + 1)' /\ Filled(p + 1, p + 1)'
    BY <1>3, <2>1, <2>4, SameText
  <2>6. p + 1 - Len(current') = p + 1
    BY <1>10, <2>1, <2>2
  <2> QED BY <1>10, <1>13, <2>3, <2>5, <2>6 DEF Splitting
<1> QED BY <1>14, <1>15
-----------------------------------------------------------------------------
(* What is read is kept. *)

\* No pieces are on no lines.
LEMMA NoPieces == Pieces({}) = {} /\ Cardinality({}) = 0
BY FS_EmptySet DEF Pieces

\* Lines without a module leave the modules as they are.
LEMMA ModulesKept ==
  ASSUME UNCHANGED <<input, modules>>, text \in Texts, NEW r \in 0..N, NEW s \in 0..N, r <= s,
         ModulesRead(r), \A k \in r+1..s : Line(k).kind # "module"
  PROVE  ModulesRead(s)'
<1>1. N \in Nat /\ \A k \in ModuleLines : k \in 1..N /\ Line(k).kind = "module"
  BY TextLines DEF ModuleLines
<1>2. {k \in ModuleLines : k <= s} = {k \in ModuleLines : k <= r}
  <2>1. \A k \in 1..N : k <= s => k <= r \/ k \in r+1..s
    BY <1>1
  <2>2. \A k \in 1..N : k <= r => k <= s
    BY <1>1
  <2> QED BY <1>1, <2>1, <2>2
<1>3. PICK g \in [1..Len(modules) -> 1..N] :
        Lists(g, r) /\ \A i \in 1..Len(modules) : ModuleOf(modules[i], g[i])
  BY DEF ModulesRead
<1>4. Lists(g, s)'
  BY <1>2, <1>3, SameMeaning DEF Lists
<1>5. \A i \in 1..Len(modules') : ModuleOf(modules[i], g[i])'
  BY <1>3, SameMeaning
<1>6. N' = N
  BY SameText
<1> QED BY <1>3, <1>4, <1>5, <1>6 DEF ModulesRead

\* Lines that are no cargo leave it as it is.
LEMMA CargoKept ==
  ASSUME UNCHANGED <<input, cargo>>, NEW w \in 0..N, NEW v \in 0..N,
         CargoStored(w), CargoTo(v) = CargoTo(w)
  PROVE  CargoStored(v)'
<1>1. PICK g \in [1..Len(cargo) -> 1..N] :
        /\ \A i, j \in 1..Len(cargo) : i < j => g[i] < g[j]
        /\ {g[i] : i \in 1..Len(cargo)} = CargoTo(w)
        /\ \A i \in 1..Len(cargo) : StackOf(cargo[i], g[i])
  BY DEF CargoStored
<1>2. N' = N /\ CargoTo(v)' = CargoTo(w)
  BY SameText, SameMeaning
<1>3. \A i \in 1..Len(cargo') : StackOf(cargo[i], g[i])'
  BY <1>1, SameMeaning
<1> QED BY <1>1, <1>2, <1>3 DEF CargoStored

\* Lines without a stack leave the drones and the cargo as they are.
LEMMA StacksKeptOn ==
  ASSUME UNCHANGED <<input, drones, cargo>>, text \in Texts,
         NEW w \in 0..N, NEW v \in 0..N, w <= v,
         StacksStored(w), \A k \in w+1..v : Line(k).kind # "stack"
  PROVE  StacksStored(v)'
<1>1. N \in Nat /\ \A k \in StackLines : k \in 1..N /\ Line(k).kind = "stack"
  BY TextLines DEF StackLines
<1>2. \A k \in StackLines : k <= v <=> k <= w
  <2>1. \A k \in 1..N : k <= v => k <= w \/ k \in w+1..v
    BY <1>1
  <2>2. \A k \in 1..N : k <= w => k <= v
    BY <1>1
  <2> QED BY <1>1, <2>1, <2>2
<1>3. (\A t : DronesTo(t, v) = DronesTo(t, w)) /\ CargoTo(v) = CargoTo(w)
  BY <1>2 DEF DronesTo, CargoTo
<1>4. \A t : DronesTo(t, v)' = DronesTo(t, w) /\ Pieces(DronesTo(t, v))' = Pieces(DronesTo(t, w))
  BY <1>3, SameMeaning
<1>5. DronesStored(v)'
  BY <1>4 DEF StacksStored, DronesStored
<1>6. CargoStored(v)'
  BY <1>3, CargoKept DEF StacksStored
<1> QED BY <1>5, <1>6 DEF StacksStored

\* The next line of the section being read.
LEMMA NextLine ==
  ASSUME Typed, NEW b \in 0..N, NEW r \in 0..N, Placed(b, r), section # <<>>
  PROVE  /\ N \in Nat /\ phase \in {"modules", "stacks"} /\ b <= r
         /\ Len(section) \in Nat /\ Len(Tail(section)) = Len(section) - 1
         /\ r + Len(section) \in 0..N /\ Whole(b, r + Len(section))
         /\ r + 1 \in b+1..r + Len(section) /\ r + 1 \in 1..N /\ r + 1 \in 0..N
         /\ Head(section) = Line(r + 1) /\ LineOK(Line(r + 1))
         /\ Copied(Tail(section), r + 1) /\ r + 1 + Len(Tail(section)) = r + Len(section)
         /\ Tail(section) \in Seq(Here)
<1>1. Sourced
  BY DEF Typed
<1>2. section \in Seq(Here) /\ N \in Nat /\ \A k \in 1..N : LineOK(Line(k))
  BY <1>1, TextLines DEF Sourced
<1>3. PICK n \in Nat : n = Len(section)
  BY <1>2, LenProperties
<1>4. Head(section) = section[1] /\ Len(Tail(section)) = n - 1 /\ n > 0
      /\ (\A i \in 1..Len(Tail(section)) : Tail(section)[i] = section[i + 1])
      /\ Tail(section) \in Seq(Here)
  BY <1>2, <1>3, HeadTailProperties, EmptySeq
<1>5. phase \in {"modules", "stacks"} /\ Whole(b, r + n) /\ b <= r
      /\ r + n <= N /\ \A i \in 1..n : section[i] = Line(r + i)
  BY <1>3 DEF Placed, Copied
<1>6. r + n \in 0..N /\ r + 1 \in b+1..r + n /\ r + 1 \in 1..N /\ r + 1 \in 0..N
      /\ r + 1 + (n - 1) = r + n
  BY <1>2, <1>4, <1>5
<1>7. Head(section) = Line(r + 1)
  BY <1>4, <1>5
<1>8. Copied(Tail(section), r + 1)
  <2>1. \A i \in 1..n - 1 : i + 1 \in 1..n /\ r + (i + 1) = r + 1 + i
    OBVIOUS
  <2> QED BY <1>4, <1>5, <1>6, <2>1 DEF Copied
<1> QED BY <1>2, <1>3, <1>4, <1>5, <1>6, <1>7, <1>8

\* Reading a line is one line on, in the same section.
LEMMA LineRead ==
  ASSUME Typed, NEW b \in 0..N, NEW r \in 0..N, Placed(b, r), section # <<>>,
         UNCHANGED <<input, phase, sections>>, section' = Tail(section)
  PROVE  Placed(b, r + 1)'
<1>1. /\ N \in Nat /\ phase \in {"modules", "stacks"} /\ b <= r
      /\ Whole(b, r + Len(section)) /\ r + 1 \in 0..N
      /\ Copied(Tail(section), r + 1) /\ r + 1 + Len(Tail(section)) = r + Len(section)
  BY NextLine
<1>2. Copied(section, r + 1)'
  BY <1>1, SameText
<1>3. Sectioned(r + Len(section), N) /\ N' = N
  BY SameText DEF Placed
<1>4. PICK e : e = r + Len(section)
  OBVIOUS
<1>5. r + 1 + Len(section') = e
  BY <1>1, <1>4
<1>6. Sectioned(e, N)' /\ Whole(b, e)'
  BY <1>1, <1>3, <1>4, SameText, SameSections
<1>7. b <= r + 1
  BY <1>1
<1> QED BY <1>1, <1>2, <1>5, <1>6, <1>7 DEF Placed
-----------------------------------------------------------------------------
(* Lines of modules. *)

\* A line counts for the slot that it takes.
LEMMA OneTaken ==
  ASSUME text \in Texts, NEW b \in 0..N, NEW r \in 0..N, b <= r, r + 1 \in 1..N, NEW s \in Slots
  PROVE  Cardinality({k \in Taking(s) : k \in b+1..r + 1}) =
           Cardinality({k \in Taking(s) : k \in b+1..r})
             + IF TakenBy(Line(r + 1)) = s THEN 1 ELSE 0
<1> DEFINE A == {k \in Taking(s) : k \in b+1..r}
           B == {k \in Taking(s) : k \in b+1..r + 1}
<1>1. N \in Nat /\ DOMAIN Lines = 1..N
  BY TextLines
<1>2. b \in Nat /\ r \in Nat
  BY <1>1
<1>3. IsFiniteSet(b+1..r)
  BY <1>2, FS_Interval
<1>4. IsFiniteSet(A)
  BY <1>3, FS_Subset
<1>5. Cardinality(A) \in Nat
  BY <1>4, FS_CardinalityType
<1>6. \A k : k \in b+1..r + 1 <=> k \in b+1..r \/ k = r + 1
  BY <1>2
<1>7. r + 1 \notin b+1..r
  BY <1>2
<1>8. r + 1 \in Taking(s) <=> TakenBy(Line(r + 1)) = s
  BY <1>1 DEF Taking
<1>9. CASE TakenBy(Line(r + 1)) = s
  <2>1. B = A \cup {r + 1} /\ r + 1 \notin A
    BY <1>6, <1>7, <1>8, <1>9
  <2>2. Cardinality(B) = Cardinality(A) + 1
    <3> HIDE DEF A, B
    <3> QED BY <1>4, <2>1, FS_AddElement
  <2> QED BY <1>9, <2>2
<1>10. CASE TakenBy(Line(r + 1)) # s
  <2>1. B = A
    BY <1>6, <1>8, <1>10
  <2>2. Cardinality(B) = Cardinality(A) + 0
    <3> HIDE DEF A, B
    <3> QED BY <1>5, <2>1
  <2> QED BY <1>10, <2>2
<1> QED BY <1>9, <1>10

\* After a line that takes slot t the counters are those of one line more.
LEMMA CountedOn ==
  ASSUME Typed, NEW b \in 0..N, NEW r \in 0..N, b <= r, r + 1 \in 1..N,
         Counted(b, r), phase = "modules", UNCHANGED input,
         NEW t \in Slots, TakenBy(Line(r + 1)) = t,
         moduleSlots' = [moduleSlots EXCEPT ![t] = @ + 1]
  PROVE  Counted(b, r + 1)'
<1>1. TypeOK /\ text \in Texts
  BY DEF Typed, Sourced
<1>2. moduleSlots \in [Slots -> Nat]
  BY <1>1 DEF TypeOK
<1>3. ASSUME NEW s \in Slots
      PROVE  moduleSlots'[s] = Cardinality({k \in Taking(s) : k \in b+1..r + 1})
  <2>1. Cardinality({k \in Taking(s) : k \in b+1..r + 1}) =
          moduleSlots[s] + IF t = s THEN 1 ELSE 0
    <3>1. moduleSlots[s] = Cardinality({k \in Taking(s) : k \in b+1..r})
      BY DEF Counted
    <3>2. Cardinality({k \in Taking(s) : k \in b+1..r + 1}) =
            Cardinality({k \in Taking(s) : k \in b+1..r})
              + IF TakenBy(Line(r + 1)) = s THEN 1 ELSE 0
      BY <1>1, OneTaken
    <3> QED BY <3>1, <3>2
  <2>2. moduleSlots'[s] = IF s = t THEN moduleSlots[s] + 1 ELSE moduleSlots[s]
    BY <1>2, SlotCounted
  <2>3. moduleSlots[s] \in Nat
    BY <1>2
  <2> QED BY <2>1, <2>2, <2>3
<1> QED BY <1>3, SameMeaning DEF Counted

\* An empty slot is counted and nothing else.
LEMMA ReadHoleReads ==
  ASSUME Typed, NEW b \in 0..N, NEW r \in 0..N, Reading(b, r), ReadHole, phase' = "modules"
  PROVE  \E d, s \in 0..N' : Reading(d, s)'
<1>1. Placed(b, r) /\ Counted(b, r) /\ ModulesRead(r) /\ StacksStored(r - Len(items))
  BY DEF Reading
<1>2. section # <<>> /\ phase = "modules" /\ Head(section).kind = "hole" /\ UNCHANGED <<input, sections>>
      /\ section' = Tail(section) /\ UNCHANGED <<items, modules, drones, cargo>>
  BY DEF ReadHole, fit
<1>3. /\ N \in Nat /\ b <= r /\ r + 1 \in 1..N /\ r + 1 \in 0..N
      /\ Head(section) = Line(r + 1) /\ LineOK(Line(r + 1))
  BY <1>1, <1>2, NextLine
<1>4. text \in Texts /\ items = <<>>
  BY <1>2 DEF Typed, Sourced, TypeOK
<1>5. Line(r + 1).slot \in Slots /\ TakenBy(Line(r + 1)) = Line(r + 1).slot
      /\ Line(r + 1).slot # "service"
  <2>1. Line(r + 1).kind = "hole"
    BY <1>2, <1>3
  <2>2. Line(r + 1).slot \in Slots /\ TakenBy(Line(r + 1)) = Line(r + 1).slot
    BY <1>3, <2>1 DEF LineOK, TakenBy
  <2>3. Line(r + 1).slot # "service"
    BY <1>3 DEF ReadHole
  <2> QED BY <2>2, <2>3
<1>6. moduleSlots' = [moduleSlots EXCEPT ![Line(r + 1).slot] = @ + 1]
  BY <1>3, <1>5 DEF ReadHole
<1>7. PICK t \in Slots : t = Line(r + 1).slot
  BY <1>5
<1>8. Counted(b, r + 1)'
  BY <1>1, <1>2, <1>3, <1>5, <1>6, <1>7, CountedOn
<1>9. Placed(b, r + 1)'
  BY <1>1, <1>2, LineRead
<1>10. \A k \in r+1..r + 1 : Line(k).kind = "hole"
  BY <1>2, <1>3
<1>11. r <= r + 1 /\ r \in Int
  BY <1>3
<1>12. ModulesRead(r + 1)'
  BY <1>1, <1>2, <1>3, <1>4, <1>10, <1>11, ModulesKept
<1>13. Len(items) = 0 /\ Len(items') = 0
  BY <1>2, <1>4, EmptySeq
<1>14. StacksStored(r)
  BY <1>1, <1>11, <1>13
<1>15. StacksStored(r + 1)'
  BY <1>2, <1>3, <1>4, <1>10, <1>11, <1>14, StacksKeptOn
<1>16. PICK s \in 0..N : s = r + 1
  BY <1>3
<1>17. StacksStored(s - Len(items))'
  BY <1>13, <1>15, <1>16, <1>11
<1>18. Reading(b, s)'
  BY <1>8, <1>9, <1>12, <1>16, <1>17 DEF Reading
<1> QED BY <1>2, <1>16, <1>18, SameText

\* A module is that of its line: the slots that lines before it take in its
\* section have been counted.
LEMMA ModuleOfLine ==
  ASSUME text \in Texts, NEW b \in 0..N, NEW e \in 0..N, Whole(b, e), NEW k \in b+1..e, k \in 1..N,
         NEW s
  PROVE  {j \in Taking(s) : j < k /\ Together({j, k})} = {j \in Taking(s) : j \in b+1..k - 1}
<1>1. N \in Nat /\ \A j \in Taking(s) : j \in 1..N
  BY TextLines DEF Taking
<1>2. \A j \in 1..N : Together({j, k}) <=> j \in b+1..e
  BY <1>1, Around
<1>3. \A j \in 1..N : (j < k /\ j \in b+1..e) <=> j \in b+1..k - 1
  BY <1>1
<1> QED BY <1>1, <1>2, <1>3

\* The lines that the first n places of a list hold.
LinesAt(g, n) == {g[i] : i \in 1..n}
\* The list g holds n lines in their order, up to line r; h holds line k behind them.
Listed(g, n, r) ==
  /\ g \in [1..n -> 1..N] /\ \A i \in 1..n : g[i] <= r
  /\ \A i, j \in 1..n : i < j => g[i] < g[j]
Longer(h, g, n, k) ==
  /\ h[n + 1] = k /\ \A i \in 1..n : h[i] = g[i]
  /\ LinesAt(h, n + 1) = LinesAt(g, n) \cup {k}

\* Lines listed in their order are listed with one more behind them.
LEMMA Appended ==
  ASSUME text \in Texts, NEW n \in Nat, NEW g, NEW r \in 0..N, r + 1 \in 1..N, Listed(g, n, r)
  PROVE  \E h : Listed(h, n + 1, r + 1) /\ Longer(h, g, n, r + 1)
<1> USE DEF Listed
<1>1. N \in Nat
  BY TextLines
<1>2. PICK h \in [1..n + 1 -> 1..N] : h[n + 1] = r + 1 /\ \A i \in 1..n : h[i] = g[i]
  <2> DEFINE y == [i \in 1..n + 1 |-> IF i = n + 1 THEN r + 1 ELSE g[i]]
  <2>1. y \in [1..n + 1 -> 1..N] /\ y[n + 1] = r + 1 /\ \A i \in 1..n : y[i] = g[i]
    OBVIOUS
  <2> QED BY <2>1
<1>3. ASSUME NEW i \in 1..n + 1, NEW j \in 1..n + 1, i < j
      PROVE  h[i] < h[j]
  <2>1. i \in 1..n
    BY <1>3
  <2>2. CASE j = n + 1
    <3>1. h[i] <= r /\ h[i] \in Nat /\ h[j] = r + 1 /\ r \in Nat
      BY <1>1, <1>2, <2>1, <2>2
    <3> QED BY <3>1
  <2>3. CASE j # n + 1
    <3>1. j \in 1..n
      BY <2>3
    <3> QED BY <1>2, <1>3, <2>1, <3>1
  <2> QED BY <2>2, <2>3
<1>4. LinesAt(h, n + 1) = LinesAt(g, n) \cup {r + 1}
  <2>1. \A i : i \in 1..n + 1 <=> i \in 1..n \/ i = n + 1
    OBVIOUS
  <2>2. n + 1 \in 1..n + 1
    OBVIOUS
  <2> QED BY <1>2, <2>1, <2>2 DEF LinesAt
<1>5. \A i \in 1..n + 1 : h[i] <= r + 1
  <2>1. \A i \in 1..n + 1 : i \in 1..n \/ i = n + 1
    OBVIOUS
  <2>2. \A k \in 1..N : k <= r => k <= r + 1
    BY <1>1
  <2> QED BY <1>1, <1>2, <2>1, <2>2
<1> QED BY <1>2, <1>3, <1>4, <1>5 DEF Longer

\* The modules are listed with one more behind them.
LEMMA ListedOn ==
  ASSUME text \in Texts, UNCHANGED input, NEW r \in 0..N, r + 1 \in 1..N,
         NEW S, modules \in Seq(S), NEW x \in S, modules' = Append(modules, x),
         ModulesRead(r), Line(r + 1).kind = "module", ModuleOf(x, r + 1)
  PROVE  ModulesRead(r + 1)'
<1>1. N \in Nat /\ DOMAIN Lines = 1..N
  BY TextLines
<1>2. PICK n \in Nat : n = Len(modules)
  BY LenProperties
<1>3. PICK g \in [1..n -> 1..N] :
        Lists(g, r) /\ \A i \in 1..n : ModuleOf(modules[i], g[i])
  BY <1>2 DEF ModulesRead
<1>4. Len(modules') = n + 1 /\ modules'[n + 1] = x /\ \A i \in 1..n : modules'[i] = modules[i]
  BY <1>2, AppendProperties
<1>5. {g[i] : i \in 1..n} = {k \in ModuleLines : k <= r}
      /\ \A i, j \in 1..n : i < j => g[i] < g[j]
  BY <1>2, <1>3 DEF Lists
<1>6. \A i \in 1..n : g[i] <= r
  BY <1>5
<1>7. PICK h \in [1..n + 1 -> 1..N] :
        /\ h[n + 1] = r + 1 /\ \A i \in 1..n : h[i] = g[i]
        /\ \A i, j \in 1..n + 1 : i < j => h[i] < h[j]
        /\ LinesAt(h, n + 1) = LinesAt(g, n) \cup {r + 1}
  <2>1. Listed(g, n, r)
    BY <1>5, <1>6 DEF Listed
  <2>2. PICK h : Listed(h, n + 1, r + 1) /\ Longer(h, g, n, r + 1)
    BY <2>1, Appended
  <2> QED BY <2>2 DEF Listed, Longer
<1>8. {h[i] : i \in 1..n + 1} = {k \in ModuleLines : k <= r + 1}
  <2> USE DEF LinesAt
  <2>1. r + 1 \in ModuleLines /\ \A k \in ModuleLines : k \in 1..N
    BY <1>1 DEF ModuleLines
  <2>2. \A k \in 1..N : k <= r + 1 <=> k <= r \/ k = r + 1
    BY <1>1
  <2> QED BY <1>5, <1>7, <2>1, <2>2
<1>9. ASSUME NEW i \in 1..n + 1
      PROVE  ModuleOf(modules[i], h[i])'
  <2>1. CASE i = n + 1
    BY <1>4, <1>7, <2>1, SameMeaning
  <2>2. CASE i # n + 1
    <3>1. i \in 1..n
      BY <2>2
    <3> QED BY <1>3, <1>4, <1>7, <3>1, SameMeaning
  <2> QED BY <2>1, <2>2
<1>10. Lists(h, r + 1)'
  BY <1>4, <1>7, <1>8, SameMeaning DEF Lists
<1>11. N' = N
  BY SameText
<1> QED BY <1>4, <1>7, <1>9, <1>10, <1>11 DEF ModulesRead

\* A module is read with the next index of its slot.
LEMMA ReadModuleReads ==
  ASSUME Typed, NEW b \in 0..N, NEW r \in 0..N, Reading(b, r), ReadModule
  PROVE  \E d, s \in 0..N' : Reading(d, s)'
<1>1. Placed(b, r) /\ Counted(b, r) /\ ModulesRead(r) /\ StacksStored(r - Len(items))
  BY DEF Reading
<1>2. section # <<>> /\ phase = "modules" /\ Head(section).kind \in {"module", "stack"}
      /\ UNCHANGED <<input, phase, sections>>
      /\ section' = Tail(section) /\ UNCHANGED <<items, drones, cargo>>
  BY DEF ReadModule, ReadingModule, iter
<1>3. /\ N \in Nat /\ b <= r /\ r + 1 \in 1..N /\ r + 1 \in 0..N
      /\ Head(section) = Line(r + 1) /\ LineOK(Line(r + 1))
      /\ r + Len(section) \in 0..N /\ Whole(b, r + Len(section)) /\ r + 1 \in b+1..r + Len(section)
  BY <1>1, <1>2, NextLine
<1>4. text \in Texts /\ items = <<>> /\ named \subseteq Types /\ modules \in Seq(ModuleType)
      /\ moduleSlots \in [Slots -> Nat]
  BY <1>2 DEF Typed, Sourced, TypeOK
<1>5. PICK line : line = Line(r + 1)
  OBVIOUS
<1>6. SlotOf(LineType(line)) # NoSlot
  BY <1>3, <1>5 DEF ReadModule
<1>7. /\ line.kind = "module" /\ line.offline \in BOOLEAN
      /\ NameOf[LineType(line)] = line.name
      /\ LineType(line) \in Types
      /\ SlotOf(LineType(line)) \in Slots
      /\ TakenBy(line) = SlotOf(LineType(line))
  BY <1>2, <1>3, <1>4, <1>5, <1>6, FittedLine
<1>8. PICK t \in Slots : t = SlotOf(LineType(line))
  BY <1>7
<1>9. moduleSlots' = [moduleSlots EXCEPT ![t] = @ + 1]
  BY <1>3, <1>5, <1>8 DEF ReadModule
<1>10. TakenBy(Line(r + 1)) = t
  BY <1>5, <1>7, <1>8
<1>11. Counted(b, r + 1)'
  BY <1>1, <1>2, <1>3, <1>9, <1>10, CountedOn
<1>12. Placed(b, r + 1)'
  BY <1>1, <1>2, LineRead
<1>13. PICK c : c = IF line.charge = NoCharge THEN NoCharge ELSE TypeNameToId(line.charge)
  OBVIOUS
<1>14. PICK x : x = [type |-> LineType(line), slot |-> t, index |-> moduleSlots[t],
                     state |-> IF line.offline THEN "passive" ELSE "active", charge |-> c]
  OBVIOUS
<1>15. modules' = Append(modules, x)
  BY <1>3, <1>5, <1>8, <1>13, <1>14 DEF ReadModule
<1>16. x \in ModuleType
  <2>1. c \in Types \cup {NoCharge, NoType}
    BY <1>4, <1>13, NamedType
  <2> QED BY <1>4, <1>7, <1>14, <2>1 DEF ModuleType, States
<1>17. x.type = LineType(line) /\ x.slot = t /\ x.index = moduleSlots[t]
       /\ x.state = IF line.offline THEN "passive" ELSE "active"
  BY <1>14
<1>18. moduleSlots[t] = Cardinality({j \in Taking(t) : j < r + 1 /\ Together({j, r + 1})})
  <2>1. PICK e \in 0..N : e = r + Len(section)
    BY <1>3
  <2>2. PICK k \in b+1..e : k = r + 1
    BY <1>3, <2>1
  <2>3. {j \in Taking(t) : j < k /\ Together({j, k})} = {j \in Taking(t) : j \in b+1..k - 1}
    BY <1>3, <1>4, <2>1, <2>2, ModuleOfLine
  <2>4. k - 1 = r
    BY <1>3, <2>2
  <2>5. moduleSlots[t] = Cardinality({j \in Taking(t) : j \in b+1..r})
    BY <1>1, <1>2 DEF Counted
  <2> QED BY <2>2, <2>3, <2>4, <2>5
<1>19. ModuleOf(x, r + 1)
  BY <1>5, <1>7, <1>10, <1>17, <1>18 DEF ModuleOf
<1>20. ModulesRead(r + 1)'
  BY <1>1, <1>2, <1>3, <1>4, <1>5, <1>7, <1>15, <1>16, <1>19, ListedOn
<1>21. Len(items) = 0 /\ Len(items') = 0 /\ r <= r + 1 /\ r \in Int
  BY <1>2, <1>3, <1>4, EmptySeq
<1>22. StacksStored(r)
  BY <1>1, <1>21
<1>23. \A k \in r+1..r + 1 : Line(k).kind = "module"
  BY <1>3, <1>5, <1>7
<1>24. StacksStored(r + 1)'
  BY <1>2, <1>3, <1>4, <1>21, <1>22, <1>23, StacksKeptOn
<1>25. PICK s \in 0..N : s = r + 1
  BY <1>3
<1>26. StacksStored(s - Len(items))'
  BY <1>21, <1>24, <1>25
<1>27. Reading(b, s)'
  BY <1>2, <1>11, <1>12, <1>20, <1>25, <1>26 DEF Reading
<1> QED BY <1>2, <1>25, <1>27, SameText
-----------------------------------------------------------------------------
(* Lines of stacks. *)

\* There are finitely many pieces on finitely many lines.
LEMMA PiecesFinite ==
  ASSUME NEW lines, IsFiniteSet(lines), \A k \in lines : Line(k).quantity \in Nat
  PROVE  IsFiniteSet(Pieces(lines))
<1> DEFINE f == [k \in lines |-> {k} \X (1..Line(k).quantity)]
           T == {{k} \X (1..Line(k).quantity) : k \in lines}
<1>1. f \in Surjection(lines, T)
  <2>1. f \in [lines -> T] /\ \A t \in T : \E k \in lines : f[k] = t
    OBVIOUS
  <2> QED BY <2>1 DEF Surjection
<1>2. IsFiniteSet(T)
  BY <1>1, FS_Surjection
<1>3. \A t \in T : IsFiniteSet(t)
  <2> SUFFICES ASSUME NEW k \in lines PROVE IsFiniteSet({k} \X (1..Line(k).quantity))
    OBVIOUS
  <2>1. PICK q \in Nat : q = Line(k).quantity
    OBVIOUS
  <2>2. IsFiniteSet({k}) /\ IsFiniteSet(1..q)
    <3>1. 1 \in Int /\ q \in Int
      OBVIOUS
    <3> QED BY <3>1, FS_Singleton, FS_Interval
  <2>3. IsFiniteSet({k} \X (1..q))
    BY <2>2, FS_Product
  <2> QED BY <2>1, <2>3
<1> HIDE DEF T
<1>4. IsFiniteSet(UNION T)
  BY <1>2, <1>3, FS_UNION
<1> QED BY <1>4 DEF T, Pieces

\* One line more is as many pieces more as it has.
LEMMA PiecesMore ==
  ASSUME NEW lines, IsFiniteSet(lines), \A k \in lines : Line(k).quantity \in Nat,
         NEW k, k \notin lines, Line(k).quantity \in Nat
  PROVE  /\ Cardinality(Pieces(lines)) \in Nat
         /\ Cardinality(Pieces(lines \cup {k})) = Cardinality(Pieces(lines)) + Line(k).quantity
<1> DEFINE A == Pieces(lines)
           B == {k} \X (1..Line(k).quantity)
           q == Line(k).quantity
<1>1. Pieces(lines \cup {k}) = A \cup B
  BY DEF Pieces
<1>2. A \cap B = {}
  <2> SUFFICES ASSUME NEW x \in A, x \in B PROVE FALSE
    OBVIOUS
  <2>1. PICK j \in lines : x \in {j} \X (1..Line(j).quantity)
    BY DEF Pieces
  <2> QED BY <2>1
<1>3. IsFiniteSet(A) /\ Cardinality(A) \in Nat
  BY PiecesFinite, FS_CardinalityType
<1>4. IsFiniteSet(B) /\ Cardinality(B) = q
  <2>1. IsFiniteSet({k}) /\ Cardinality({k}) = 1
    BY FS_Singleton
  <2>2. IsFiniteSet(1..q) /\ Cardinality(1..q) = q
    <3>1. q \in Nat
      OBVIOUS
    <3> HIDE DEF q
    <3>2. IsFiniteSet(1..q) /\ Cardinality(1..q) = IF 1 > q THEN 0 ELSE q - 1 + 1
      BY <3>1, FS_Interval
    <3> QED BY <3>1, <3>2
  <2>3. IsFiniteSet({k} \X (1..q)) /\ Cardinality({k} \X (1..q)) = 1 * q
    <3> HIDE DEF q
    <3>1. IsFiniteSet({k} \X (1..q)) /\ Cardinality({k} \X (1..q)) = Cardinality({k}) * Cardinality(1..q)
      BY <2>1, <2>2, FS_Product
    <3> QED BY <2>1, <2>2, <3>1
  <2>4. q \in Nat
    OBVIOUS
  <2>5. 1 * q = q
    <3> HIDE DEF q
    <3> QED BY <2>4
  <2> QED BY <2>3, <2>5
<1>5. q \in Nat
  OBVIOUS
<1> HIDE DEF A, B, q
<1>6. Cardinality(A \cup B) = Cardinality(A) + Cardinality(B) - Cardinality({})
  BY <1>2, <1>3, <1>4, FS_Union
<1>7. Cardinality({}) = 0
  BY FS_EmptySet
<1>8. Cardinality(A \cup B) = Cardinality(A) + q
  BY <1>3, <1>4, <1>5, <1>6, <1>7
<1>9. Cardinality(A) \in Nat /\ Cardinality(Pieces(lines \cup {k})) = Cardinality(A) + q
  BY <1>1, <1>3, <1>8
<1> QED BY <1>9 DEF A, q

\* As many drones of a type are added as the stack has of it.
LEMMA DronesAdded ==
  ASSUME NEW D, NEW old \in Seq(D), NEW new \in Seq(D), NEW q \in Nat, NEW u,
         Len(new) = Len(old) + q,
         \A k \in 1..Len(old) : new[k] = old[k],
         \A k \in Len(old)+1..Len(new) : new[k].type = u
  PROVE  Cardinality(OfType(new, u)) = Cardinality(OfType(old, u)) + q
<1> DEFINE A == {k \in DOMAIN old : old[k].type = u}
           C == {k \in DOMAIN new : new[k].type = u}
<1>1. PICK n \in Nat : n = Len(old)
  BY LenProperties
<1>2. Len(new) = n + q
  BY <1>1
<1>3. DOMAIN old = 1..n /\ DOMAIN new = 1..n + q
  BY <1>1, <1>2, LenProperties
<1>4. IsFiniteSet(A) /\ Cardinality(A) \in Nat
  <2>1. 1 \in Int /\ n \in Int
    OBVIOUS
  <2>2. IsFiniteSet(1..n)
    BY <2>1, FS_Interval
  <2>3. A \subseteq 1..n
    BY <1>3
  <2> QED BY <2>2, <2>3, FS_Subset, FS_CardinalityType
<1>5. \A i \in 1..n : i \in 1..n + q /\ new[i] = old[i]
  BY <1>1
<1>6. \A i \in n+1..n + q : i \in 1..n + q /\ new[i].type = u
  BY <1>1, <1>2
<1>7. \A i \in 1..n + q : i \in 1..n \/ i \in n+1..n + q
  OBVIOUS
<1>8. C = A \cup (n+1..n + q)
  BY <1>3, <1>5, <1>6, <1>7
<1>9. IsFiniteSet(n+1..n + q) /\ Cardinality(n+1..n + q) = q
  <2>1. PICK x \in Int : x = n + 1
    OBVIOUS
  <2>2. PICK y \in Int : y = n + q
    OBVIOUS
  <2>3. IsFiniteSet(x..y) /\ Cardinality(x..y) = IF x > y THEN 0 ELSE y - x + 1
    BY FS_Interval
  <2>4. (IF x > y THEN 0 ELSE y - x + 1) = q
    BY <2>1, <2>2
  <2> QED BY <2>1, <2>2, <2>3, <2>4
<1>10. A \cap (n+1..n + q) = {}
  BY <1>3
<1>11. Cardinality({}) = 0
  BY FS_EmptySet
<1>12. A = OfType(old, u) /\ C = OfType(new, u)
  BY DEF OfType
<1> DEFINE B == n+1..n + q
<1>13. C = A \cup B /\ IsFiniteSet(B) /\ Cardinality(B) = q /\ A \cap B = {}
  BY <1>8, <1>9, <1>10
<1> HIDE DEF A, B, C
<1>14. Cardinality(A \cup B) = Cardinality(A) + Cardinality(B) - Cardinality(A \cap B)
  BY <1>4, <1>13, FS_Union
<1>15. Cardinality(A \cap B) = 0
  BY <1>11, <1>13
<1>16. Cardinality(A \cup B) = Cardinality(A) + q
  BY <1>4, <1>13, <1>14, <1>15
<1> QED BY <1>12, <1>13, <1>16

\* Drones of another type are not among them.
LEMMA OthersAdded ==
  ASSUME NEW D, NEW old \in Seq(D), NEW new \in Seq(D), NEW q \in Nat, NEW u,
         Len(new) = Len(old) + q,
         \A k \in 1..Len(old) : new[k] = old[k],
         \A k \in Len(old)+1..Len(new) : new[k].type # u
  PROVE  OfType(new, u) = OfType(old, u)
<1>1. PICK n \in Nat : n = Len(old)
  BY LenProperties
<1>2. DOMAIN old = 1..n /\ DOMAIN new = 1..n + q
  BY <1>1, LenProperties
<1>3. \A i \in 1..n + q : i \in 1..n \/ i \in n+1..n + q
  OBVIOUS
<1>4. \A i \in 1..n : i \in 1..n + q /\ new[i] = old[i]
  BY <1>1
<1>5. \A i \in n+1..n + q : new[i].type # u
  BY <1>1
<1> QED BY <1>2, <1>3, <1>4, <1>5 DEF OfType

\* A stack is held.
LEMMA ReadStackReads ==
  ASSUME Typed, NEW b \in 0..N, NEW r \in 0..N, Reading(b, r), ReadStack
  PROVE  \E d, s \in 0..N' : Reading(d, s)'
<1>1. Placed(b, r) /\ ModulesRead(r) /\ StacksStored(r - Len(items))
      /\ (phase = "stacks" => StacksHeld(b, r))
  BY DEF Reading
<1>2. section # <<>> /\ phase = "stacks" /\ UNCHANGED <<input, phase, sections>>
      /\ section' = Tail(section) /\ UNCHANGED <<modules, drones, cargo>>
  BY DEF ReadStack, iter, fit
<1>3. /\ N \in Nat /\ b <= r /\ r + 1 \in 1..N /\ r + 1 \in 0..N
      /\ Head(section) = Line(r + 1) /\ LineOK(Line(r + 1))
      /\ r + 1 + Len(Tail(section)) = r + Len(section)
      /\ r + 1 \in b+1..r + Len(section)
  BY <1>1, <1>2, NextLine
<1>4. text \in Texts /\ items \in Seq(Stack) /\ named \subseteq Types /\ areDrones \in BOOLEAN
  BY DEF Typed, Sourced, TypeOK
<1>5. PICK n \in Nat : n = Len(items)
  BY <1>4, LenProperties
<1>6. PICK w : w = r - n
  OBVIOUS
<1>7. StacksHeld(b, r)
  BY <1>1, <1>2
<1>8. /\ w = b
      /\ \A k \in b+1..r + Len(section) : Line(k).kind = "stack"
      /\ \A i \in 1..n : StackOf(items[i], w + i)
      /\ areDrones = \A k \in b+1..r : Category(TypeNameToId(Line(k).name)) = DroneCategory
  BY <1>2, <1>5, <1>6, <1>7 DEF StacksHeld
<1>9. Line(r + 1).kind = "stack"
  BY <1>3, <1>8
<1>10. PICK t : t = TypeNameToId(Line(r + 1).name)
  OBVIOUS
<1>11. PICK x : x = [type |-> t, quantity |-> Line(r + 1).quantity]
  OBVIOUS
<1>12. items' = Append(items, x) /\ areDrones' = (areDrones /\ Category(t) = DroneCategory)
  BY <1>3, <1>10, <1>11 DEF ReadStack
<1>13. x \in Stack /\ StackOf(x, r + 1)
  <2>1. t \in Types \cup {NoType} /\ Line(r + 1).quantity \in Nat
    BY <1>3, <1>4, <1>9, <1>10, NamedType DEF LineOK
  <2> QED BY <1>10, <1>11, <2>1 DEF Stack, StackOf
<1>14. Len(items') = n + 1 /\ items'[n + 1] = x /\ \A i \in 1..n : items'[i] = items[i]
  BY <1>4, <1>5, <1>12, <1>13, AppendProperties
<1>15. r \in Nat /\ b \in Nat /\ b <= w /\ w \in 0..N /\ r = w + n /\ r + 1 = w + (n + 1)
       /\ (r + 1) - (n + 1) = w
  <2>1. r \in Nat /\ b \in Nat
    BY <1>3
  <2>2. w \in Int /\ r = w + n /\ r + 1 = w + (n + 1) /\ (r + 1) - (n + 1) = w
    BY <1>6, <2>1
  <2> QED BY <1>8, <2>1, <2>2
<1>16. Placed(b, r + 1)'
  BY <1>1, <1>2, LineRead
<1>17. Counted(b, r + 1)'
  BY <1>2 DEF Counted
<1>18. r <= r + 1
  BY <1>15
<1>19. \A k \in r+1..r + 1 : Line(k).kind = "stack"
  BY <1>3, <1>9
<1>20. ModulesRead(r + 1)'
  BY <1>1, <1>2, <1>3, <1>4, <1>18, <1>19, ModulesKept
<1>21. StacksStored(w)'
  <2>1. StacksStored(w)
    BY <1>1, <1>5, <1>6
  <2>2. \A k \in w+1..w : FALSE
    BY <1>15
  <2>3. w <= w
    BY <1>15
  <2> QED BY <1>2, <1>4, <1>15, <2>1, <2>2, <2>3, StacksKeptOn
<1>22. PICK s \in 0..N : s = r + 1
  BY <1>3
<1>23. s - Len(items') = w
  BY <1>14, <1>15, <1>22
<1>24. \A i \in 1..Len(items') : StackOf(items[i], w + i)'
  <2> SUFFICES ASSUME NEW i \in 1..n + 1 PROVE StackOf(items[i], w + i)'
    BY <1>14
  <2>1. CASE i = n + 1
    BY <1>2, <1>13, <1>14, <1>15, <2>1, SameMeaning
  <2>2. CASE i # n + 1
    <3>1. i \in 1..n
      BY <2>2
    <3> QED BY <1>2, <1>8, <1>14, <3>1, SameMeaning
  <2> QED BY <2>1, <2>2
<1>25. areDrones' = \A k \in b+1..s : Category(TypeNameToId(Line(k).name))' = DroneCategory
  <2>1. \A k : k \in b+1..s <=> k \in b+1..r \/ k = s
    BY <1>15, <1>22, <1>3
  <2>2. \A k : Category(TypeNameToId(Line(k).name))' = Category(TypeNameToId(Line(k).name))
    BY <1>2, SameText, SameMeaning DEF Category
  <2> QED BY <1>4, <1>8, <1>10, <1>12, <1>22, <2>1, <2>2
<1>26. \A k \in b+1..s + Len(section') : Line(k)'.kind = "stack"
  <2>1. s + Len(section') = r + Len(section)
    BY <1>2, <1>3, <1>22
  <2> QED BY <1>2, <1>8, <2>1, SameText
<1>27. StacksHeld(b, s)'
  BY <1>8, <1>15, <1>23, <1>24, <1>25, <1>26 DEF StacksHeld
<1>28. StacksStored(s - Len(items))'
  BY <1>21, <1>23
<1>29. Reading(b, s)'
  BY <1>16, <1>17, <1>20, <1>22, <1>27, <1>28 DEF Reading
<1> QED BY <1>2, <1>22, <1>29, SameText

\* A section is stored as drones if all of it is drones.
LEMMA SectionOfDrones ==
  ASSUME text \in Texts, NEW b \in 0..N, NEW e \in 0..N, Whole(b, e), NEW k \in b+1..e, k \in 1..N
  PROVE  OfDrones(k) <=> \A j \in b+1..e : Category(TypeNameToId(Line(j).name)) = DroneCategory
<1>1. N \in Nat /\ DOMAIN Lines = 1..N
  BY TextLines
<1>2. \A j \in 1..N : Together({j, k}) <=> j \in b+1..e
  BY <1>1, Around
<1>3. \A j \in b+1..e : j \in 1..N
  BY <1>1
<1>4. SectionAround(k) = b+1..e
  BY <1>1, <1>2, <1>3 DEF SectionAround
<1> QED BY <1>4 DEF OfDrones

\* The lines of stacks have numbers, and there are finitely many.
LEMMA StacksOfLines ==
  ASSUME text \in Texts, NEW w \in 0..N, NEW t
  PROVE  /\ IsFiniteSet(DronesTo(t, w)) /\ w + 1 \notin DronesTo(t, w)
         /\ \A k \in DronesTo(t, w) : Line(k).quantity \in Nat
<1>1. N \in Nat /\ DOMAIN Lines = 1..N /\ w \in Nat /\ \A k \in 1..N : LineOK(Line(k))
  BY TextLines
<1>2. StackLines \subseteq 1..N /\ \A k \in StackLines : Line(k).quantity \in Nat
  BY <1>1 DEF StackLines, LineOK
<1>3. IsFiniteSet(1..N)
  BY <1>1, FS_Interval
<1>4. DronesTo(t, w) \subseteq 1..N
  BY <1>2 DEF DronesTo
<1>5. ~(w + 1 <= w)
  BY <1>1
<1> QED BY <1>2, <1>3, <1>4, <1>5, FS_Subset DEF DronesTo

\* What the line of a stack adds to the drones and the cargo of the text.
LEMMA OneStack ==
  ASSUME text \in Texts, NEW w \in 0..N, w + 1 \in StackLines, NEW t
  PROVE  /\ DronesTo(t, w + 1) =
              IF OfDrones(w + 1) /\ TypeNameToId(Line(w + 1).name) = t
              THEN DronesTo(t, w) \cup {w + 1} ELSE DronesTo(t, w)
         /\ CargoTo(w + 1) =
              IF OfDrones(w + 1) THEN CargoTo(w) ELSE CargoTo(w) \cup {w + 1}
<1>1. N \in Nat /\ w \in Nat /\ StackLines \subseteq 1..N
  BY TextLines DEF StackLines
<1>2. \A k \in StackLines : k <= w + 1 <=> k <= w \/ k = w + 1
  BY <1>1
<1> QED BY <1>2 DEF DronesTo, CargoTo

\* The cargo is listed with one more stack behind it.
LEMMA CargoAdded ==
  ASSUME text \in Texts, UNCHANGED input, NEW w \in 0..N, w + 1 \in 1..N,
         cargo \in Seq(Stack), NEW x \in Stack, cargo' = Append(cargo, x),
         CargoStored(w), CargoTo(w + 1) = CargoTo(w) \cup {w + 1}, StackOf(x, w + 1)
  PROVE  CargoStored(w + 1)'
<1>1. PICK n \in Nat : n = Len(cargo)
  BY LenProperties
<1>2. PICK g \in [1..n -> 1..N] :
        /\ \A i, j \in 1..n : i < j => g[i] < g[j]
        /\ {g[i] : i \in 1..n} = CargoTo(w)
        /\ \A i \in 1..n : StackOf(cargo[i], g[i])
  BY <1>1 DEF CargoStored
<1>3. Len(cargo') = n + 1 /\ cargo'[n + 1] = x /\ \A i \in 1..n : cargo'[i] = cargo[i]
  BY <1>1, AppendProperties
<1>4. \A i \in 1..n : g[i] <= w
  BY <1>2 DEF CargoTo
<1>5. PICK h \in [1..n + 1 -> 1..N] :
        /\ h[n + 1] = w + 1 /\ \A i \in 1..n : h[i] = g[i]
        /\ \A i, j \in 1..n + 1 : i < j => h[i] < h[j]
        /\ LinesAt(h, n + 1) = LinesAt(g, n) \cup {w + 1}
  <2>1. Listed(g, n, w)
    BY <1>2, <1>4 DEF Listed
  <2>2. PICK h : Listed(h, n + 1, w + 1) /\ Longer(h, g, n, w + 1)
    BY <2>1, Appended
  <2> QED BY <2>2 DEF Listed, Longer
<1>6. CargoTo(w + 1)' = {h[i] : i \in 1..n + 1} /\ N' = N
  BY <1>2, <1>5, SameText, SameMeaning DEF LinesAt
<1>7. ASSUME NEW i \in 1..n + 1
      PROVE  StackOf(cargo[i], h[i])'
  <2>1. CASE i = n + 1
    BY <1>3, <1>5, <2>1, SameMeaning
  <2>2. CASE i # n + 1
    <3>1. i \in 1..n
      BY <2>2
    <3> QED BY <1>2, <1>3, <1>5, <3>1, SameMeaning
  <2> QED BY <2>1, <2>2
<1> QED BY <1>3, <1>5, <1>6, <1>7 DEF CargoStored

\* A stack is stored as drones or as cargo.
LEMMA StoreItemReads ==
  ASSUME Typed, NEW b \in 0..N, NEW r \in 0..N, Reading(b, r), StoreItem
  PROVE  \E d, s \in 0..N' : Reading(d, s)'
<1>1. Placed(b, r) /\ ModulesRead(r) /\ StacksStored(r - Len(items))
      /\ (phase = "stacks" => StacksHeld(b, r))
  BY DEF Reading
<1>2. section = <<>> /\ items # <<>> /\ phase = "stacks" /\ UNCHANGED <<input, phase, sections, section>>
      /\ items' = Tail(items) /\ UNCHANGED <<modules, areDrones>>
  BY DEF StoreItem, iter
<1>3. text \in Texts /\ items \in Seq(Stack) /\ named \subseteq Types /\ areDrones \in BOOLEAN
      /\ drones \in Seq([type : Types, state : {"active"}]) /\ cargo \in Seq(Stack)
      /\ DronesOnly
  BY DEF Typed, Sourced, TypeOK
<1>4. PICK n \in Nat : n = Len(items)
  BY <1>3, LenProperties
<1>5. PICK w : w = r - n
  OBVIOUS
<1>6. StacksHeld(b, r)
  BY <1>1, <1>2
<1>7. Len(section) = 0
  BY <1>2, EmptySeq
<1>8. N \in Nat /\ r \in Nat /\ b \in Nat /\ DOMAIN Lines = 1..N
      /\ \A k \in 1..N : LineOK(Line(k))
  BY <1>3, TextLines
<1>9. r + Len(section) = r
  BY <1>7, <1>8
<1>10. /\ b <= w
       /\ \A k \in b+1..r : Line(k).kind = "stack"
       /\ \A i \in 1..n : StackOf(items[i], w + i)
       /\ areDrones = \A k \in b+1..r : Category(TypeNameToId(Line(k).name)) = DroneCategory
  BY <1>4, <1>5, <1>6, <1>9 DEF StacksHeld
<1>11. Head(items) = items[1] /\ Len(Tail(items)) = n - 1 /\ n > 0
       /\ (\A i \in 1..n - 1 : Tail(items)[i] = items[i + 1])
       /\ Head(items) \in Stack
  BY <1>2, <1>3, <1>4, HeadTailProperties, EmptySeq
<1>12. w \in 0..N /\ w + 1 \in 0..N /\ w + 1 \in 1..N /\ w + 1 \in b+1..r /\ w + 1 = r - (n - 1)
       /\ b <= w + 1
  <2>1. w \in Int /\ r = w + n /\ n >= 1 /\ b <= w /\ r <= N
    BY <1>5, <1>8, <1>10, <1>11
  <2> QED BY <1>8, <2>1
<1>13. Whole(b, r)
  BY <1>1, <1>2, <1>9 DEF Placed
<1>14. OfDrones(w + 1) <=> areDrones
  BY <1>3, <1>10, <1>12, <1>13, SectionOfDrones
<1>15. Line(w + 1).kind = "stack"
  BY <1>10, <1>12
<1>16. w + 1 \in StackLines /\ Line(w + 1).quantity \in Nat
  BY <1>8, <1>12, <1>15 DEF StackLines, LineOK
<1>17. PICK x \in Stack : x = Head(items)
  BY <1>11
<1>18. PICK t : t = x.type
  OBVIOUS
<1>19. PICK q \in Nat : q = x.quantity
  BY DEF Stack
<1>20. t = TypeNameToId(Line(w + 1).name) /\ q = Line(w + 1).quantity
  <2>1. StackOf(x, w + 1)
    BY <1>10, <1>11, <1>17
  <2> QED BY <1>18, <1>19, <2>1 DEF StackOf
<1>21. StacksStored(w)
  BY <1>1, <1>4, <1>5
<1>22. StacksStored(w + 1)'
  <2>1. ASSUME NEW u \in Types
        PROVE  Cardinality(OfType(drones', u)) =
                 Cardinality(Pieces(DronesTo(u, w + 1)))
    <3>1. Cardinality(OfType(drones, u)) =
            Cardinality(Pieces(DronesTo(u, w)))
      BY <1>21 DEF StacksStored, DronesStored
    <3>2. DronesTo(u, w + 1) = IF areDrones /\ t = u THEN DronesTo(u, w) \cup {w + 1} ELSE DronesTo(u, w)
      BY <1>3, <1>12, <1>14, <1>16, <1>20, OneStack
    <3>3. IsFiniteSet(DronesTo(u, w)) /\ w + 1 \notin DronesTo(u, w)
          /\ \A k \in DronesTo(u, w) : Line(k).quantity \in Nat
      BY <1>3, <1>12, StacksOfLines
    <3>4. /\ Cardinality(Pieces(DronesTo(u, w))) \in Nat
          /\ Cardinality(Pieces(DronesTo(u, w) \cup {w + 1})) = Cardinality(Pieces(DronesTo(u, w))) + q
      BY <1>16, <1>20, <3>3, PiecesMore
    <3>5. CASE areDrones
      <4> DEFINE more == [k \in 1..q |-> [type |-> t, state |-> "active"]]
                 Drone == [type : Types, state : {"active"}]
      <4>1. drones' = drones \o more
        BY <1>17, <1>18, <1>19, <3>5 DEF StoreItem
      <4>2. Category(x.type) = DroneCategory
        <5>1. 1 \in 1..Len(items)
          BY <1>4, <1>11
        <5> QED BY <1>3, <1>11, <1>17, <3>5, <5>1 DEF DronesOnly
      <4>3. t \in Types
        BY <1>17, <1>18, <4>2, DronesAreTypes DEF Stack
      <4>4. more \in [1..q -> Drone] /\ \A k \in 1..q : more[k].type = t
        BY <4>3
      <4> HIDE DEF more, Drone
      <4>5. more \in Seq(Drone)
        BY <4>4, SeqDef
      <4>6. Len(more) = q
        BY <4>4, <4>5, LenProperties
      <4>7. drones \in Seq(Drone)
        BY <1>3 DEF Drone
      <4>8. Cardinality(OfType(drones', u)) =
              Cardinality(OfType(drones, u)) + IF u = t THEN q ELSE 0
        <5>1. PICK old \in Seq(Drone) : old = drones
          BY <4>7
        <5>2. PICK had \in Nat : had = Len(old)
          BY LenProperties
        <5>3. /\ old \o more \in Seq(Drone) /\ Len(old \o more) = had + q
              /\ \A i \in 1..had + q : (old \o more)[i] = IF i <= had THEN old[i] ELSE more[i - had]
          BY <4>5, <4>6, <5>2, ConcatProperties
        <5>4. PICK new \in Seq(Drone) : new = drones'
          BY <4>1, <5>1, <5>3
        <5>5. Len(new) = had + q /\ \A i \in 1..had + q : new[i] = IF i <= had THEN old[i] ELSE more[i - had]
          BY <4>1, <5>1, <5>3, <5>4
        <5>6. \A i \in 1..Len(old) : new[i] = old[i]
          BY <5>2, <5>5
        <5>7. \A i \in Len(old)+1..Len(new) : new[i].type = t
          <6> SUFFICES ASSUME NEW i \in had+1..had + q PROVE new[i].type = t
            BY <5>2, <5>5
          <6>1. i \in 1..had + q /\ ~(i <= had) /\ i - had \in 1..q
            OBVIOUS
          <6> QED BY <4>4, <5>5, <6>1
        <5>8. /\ u = t => Cardinality(OfType(new, u)) = Cardinality(OfType(old, u)) + q
              /\ u # t => Cardinality(OfType(new, u)) = Cardinality(OfType(old, u))
          <6>1. Len(new) = Len(old) + q
            BY <5>2, <5>5
          <6>2. CASE u = t
            <7>1. \A i \in Len(old)+1..Len(new) : new[i].type = u
              BY <5>7, <6>2
            <7> QED BY <5>6, <6>1, <6>2, <7>1, DronesAdded
          <6>3. CASE u # t
            <7>1. \A i \in Len(old)+1..Len(new) : new[i].type # u
              BY <5>7, <6>3
            <7> QED BY <5>6, <6>1, <6>3, <7>1, OthersAdded
          <6> QED BY <6>2, <6>3
        <5>9. Cardinality(OfType(old, u)) \in Nat
          BY <3>1, <3>4, <5>1
        <5> QED BY <5>1, <5>4, <5>8, <5>9
      <4>9. CASE u = t
        BY <3>1, <3>2, <3>4, <3>5, <4>8, <4>9
      <4>10. CASE u # t
        <5>1. Cardinality(OfType(drones', u)) =
                Cardinality(Pieces(DronesTo(u, w))) + 0
          BY <3>1, <4>8, <4>10
        <5> QED BY <3>2, <3>4, <4>10, <5>1
      <4> QED BY <4>9, <4>10
    <3>6. CASE ~areDrones
      <4>1. drones' = drones
        BY <3>6 DEF StoreItem
      <4> QED BY <3>1, <3>2, <3>6, <4>1
    <3> QED BY <3>5, <3>6
  <2>2. DronesStored(w + 1)'
    BY <1>2, <2>1, SameMeaning DEF DronesStored
  <2>3. CargoStored(w + 1)'
    <3>1. CargoStored(w)
      BY <1>21 DEF StacksStored
    <3>2. CargoTo(w + 1) = IF areDrones THEN CargoTo(w) ELSE CargoTo(w) \cup {w + 1}
      BY <1>3, <1>12, <1>14, <1>16, OneStack
    <3>3. CASE areDrones
      <4>1. cargo' = cargo
        BY <3>3 DEF StoreItem
      <4> QED BY <1>2, <1>12, <3>1, <3>2, <3>3, <4>1, CargoKept
    <3>4. CASE ~areDrones
      <4>1. cargo' = Append(cargo, x)
        BY <1>17, <3>4 DEF StoreItem
      <4>2. StackOf(x, w + 1)
        BY <1>18, <1>19, <1>20 DEF StackOf
      <4> QED BY <1>2, <1>3, <1>12, <3>1, <3>2, <3>4, <4>1, <4>2, CargoAdded
    <3> QED BY <3>3, <3>4
  <2> QED BY <2>2, <2>3 DEF StacksStored
<1>23. Len(items') = n - 1 /\ r - Len(items') = w + 1
  BY <1>2, <1>11, <1>12
<1>24. PICK v \in 0..N : v = w + 1
  BY <1>12
<1>25. \A i \in 1..Len(items') : StackOf(items[i], v + i)'
  <2> SUFFICES ASSUME NEW i \in 1..n - 1 PROVE StackOf(items[i], v + i)'
    BY <1>23
  <2>1. i + 1 \in 1..n /\ w + (i + 1) = v + i
    BY <1>12, <1>24
  <2>2. StackOf(items[i + 1], v + i)
    BY <1>10, <2>1
  <2>3. items'[i] = items[i + 1]
    BY <1>2, <1>11
  <2> QED BY <1>2, <2>2, <2>3, SameMeaning
<1>26. areDrones' = \A k \in b+1..r : Category(TypeNameToId(Line(k).name))' = DroneCategory
  <2>1. \A k : Category(TypeNameToId(Line(k).name))' = Category(TypeNameToId(Line(k).name))
    BY <1>2, SameText, SameMeaning DEF Category
  <2> QED BY <1>2, <1>10, <2>1
<1>27. \A k \in b+1..r + Len(section') : Line(k)'.kind = "stack"
  BY <1>2, <1>9, <1>10, SameText
<1>28. StacksHeld(b, r)'
  BY <1>2, <1>12, <1>23, <1>24, <1>25, <1>26, <1>27 DEF StacksHeld
<1>29. Placed(b, r)'
  BY <1>1, <1>2, SameText, SameSections DEF Placed
<1>30. Counted(b, r)'
  BY <1>2 DEF Counted
<1>31. \A k \in r+1..r : FALSE
  BY <1>8
<1>32. r <= r
  BY <1>8
<1>33. ModulesRead(r)'
  BY <1>1, <1>2, <1>3, <1>31, <1>32, ModulesKept
<1>34. StacksStored(r - Len(items))'
  BY <1>22, <1>23
<1>35. Reading(b, r)'
  BY <1>28, <1>29, <1>30, <1>33, <1>34 DEF Reading
<1> QED BY <1>2, <1>35, SameText
-----------------------------------------------------------------------------
(* From section to section. *)

\* When the text is split its sections are found and nothing is read.
LEMMA SplitEndReads ==
  ASSUME Typed, Untouched, Splitting, SplitEnd
  PROVE  \E d, s \in 0..N' : Reading(d, s)'
<1>1. Sourced /\ N \in Nat /\ Len(current) \in Nat /\ sections \in Seq(Seq(Here))
      /\ \A i \in 1..Len(sections) : sections[i] \in Seq(Here) /\ Len(sections[i]) \in Nat
  BY SectionLines DEF Typed
<1>2. unread = <<>> /\ phase' = "sections" /\ UNCHANGED <<input, unread, section, local, fit>>
      /\ sections' = IF current = <<>> THEN sections ELSE Append(sections, current)
  BY DEF SplitEnd
<1>3. PICK c \in Seq(Here) : c = current
  BY <1>1 DEF Sourced
<1>4. Len(<<>>) = 0 /\ (c # <<>> => Len(c) > 0) /\ Len(c) \in Nat
  BY <1>1, <1>3, EmptySeq
<1>5. PICK q \in Int : q = N - Len(c)
  <2>1. N - Len(c) \in Int
    BY <1>1, <1>4
  <2> QED BY <2>1
<1>6. q >= 0 /\ Copied(c, q) /\ Opens(q) /\ Filled(q, N) /\ Sectioned(0, q)
  <2>1. N - Len(unread) = N
    BY <1>1, <1>2, <1>4
  <2> QED BY <1>3, <1>5, <2>1 DEF Splitting
<1>7. q \in 0..N /\ N = q + Len(c) /\ 0 \in 0..N /\ N \in 0..N /\ 0 <= q /\ q <= N /\ N <= N
  <2>1. PICK n \in Nat : n = N
    BY <1>1
  <2>2. PICK m \in Nat : m = Len(c)
    BY <1>4
  <2>3. q = n - m /\ q >= 0
    BY <1>5, <1>6, <2>1, <2>2
  <2>4. q \in 0..n /\ n = q + m /\ 0 \in 0..n /\ n \in 0..n /\ q <= n /\ n <= n
    BY <2>3
  <2> QED BY <1>6, <2>1, <2>2, <2>4
<1>8. \A k \in N+1..N : FALSE
  BY <1>1
<1>9. Sectioned(0, N)'
  <2>1. CASE c = <<>>
    <3>1. q = N /\ UNCHANGED <<input, sections>>
      BY <1>2, <1>3, <1>4, <1>7, <2>1
    <3>2. N' = N
      BY <3>1, SameText
    <3> QED BY <1>6, <3>1, <3>2, SameSections
  <2>2. CASE c # <<>>
    <3>1. sections' = Append(sections, c) /\ UNCHANGED input
      BY <1>2, <1>3, <2>2
    <3>2. PICK n \in 0..N : n = N
      BY <1>7
    <3>3. q < n
      BY <1>1, <1>4, <1>7, <2>2, <3>2
    <3>4. Whole(q, n)
      BY <1>6, <3>2, <3>3 DEF Whole
    <3>5. n = q + Len(c) /\ n <= n /\ \A k \in n+1..n : Blank(k)
      BY <1>1, <1>7, <1>8, <3>2
    <3>6. Sectioned(0, n)'
      BY <1>1, <1>4, <1>6, <1>7, <3>1, <3>4, <3>5, OneMore
    <3>7. N' = n
      BY <3>1, <3>2, SameText
    <3> QED BY <3>6, <3>7
  <2> QED BY <2>1, <2>2
<1>10. section' = <<>> /\ items' = <<>> /\ modules' = <<>> /\ drones' = <<>> /\ cargo' = <<>>
  BY <1>2 DEF Untouched, local, fit
<1>11. N' = N /\ 0 + Len(section') = 0 /\ 0 - Len(items') = 0
  <2>1. Len(section') = 0 /\ Len(items') = 0
    BY <1>4, <1>10
  <2>2. N' = N
    BY <1>2, SameText
  <2> QED BY <2>1, <2>2
<1>12. Copied(<<>>, 0)
  BY <1>1, <1>4 DEF Copied
<1>13. Copied(section, 0)'
  BY <1>2, <1>10, <1>12, SameText
<1>14. Placed(0, 0)'
  BY <1>2, <1>9, <1>10, <1>11, <1>13 DEF Placed
<1>15. Counted(0, 0)'
  BY <1>2 DEF Counted
<1>16. ModulesRead(0)'
  <2>1. PICK g \in [1..0 -> 1..N] : TRUE
    <3>1. [i \in 1..0 |-> 1] \in [1..0 -> 1..N]
      OBVIOUS
    <3> QED BY <3>1
  <2>2. {k \in ModuleLines : k <= 0} = {}
    <3>1. ModuleLines \subseteq 1..N
      BY <1>1, TextLines DEF ModuleLines, Sourced
    <3>2. \A k \in 1..N : ~(k <= 0)
      BY <1>1
    <3> QED BY <3>1, <3>2
  <2>3. {g[i] : i \in 1..0} = {}
    OBVIOUS
  <2>4. Len(modules') = 0
    BY <1>4, <1>10
  <2>5. Lists(g, 0)'
    BY <1>2, <2>2, <2>3, <2>4, SameMeaning DEF Lists
  <2>6. g \in [1..Len(modules') -> 1..N'] /\ \A i \in 1..Len(modules') : FALSE
    BY <1>11, <2>1, <2>4
  <2> QED BY <2>5, <2>6 DEF ModulesRead
<1>17. StacksStored(0)'
  <2>1. \A t : DronesTo(t, 0) = {}
    <3>1. StackLines \subseteq 1..N
      BY <1>1, TextLines DEF StackLines, Sourced
    <3>2. \A k \in 1..N : ~(k <= 0)
      BY <1>1
    <3> QED BY <3>1, <3>2 DEF DronesTo
  <2>2. CargoTo(0) = {}
    <3>1. StackLines \subseteq 1..N
      BY <1>1, TextLines DEF StackLines, Sourced
    <3>2. \A k \in 1..N : ~(k <= 0)
      BY <1>1
    <3> QED BY <3>1, <3>2 DEF CargoTo
  <2>3. \A t : OfType(<<>>, t) = {}
    BY DEF OfType
  <2>4. \A t : Pieces(DronesTo(t, 0))' = {}
    BY <1>2, <2>1, NoPieces, SameMeaning
  <2>5. CargoTo(0)' = {}
    BY <1>2, <2>2, SameMeaning
  <2>6. \A t : Cardinality(OfType(drones, t))' = 0
    BY <1>10, <2>3, NoPieces DEF OfType
  <2>7. Len(cargo') = 0
    BY <1>4, <1>10
  <2>8. DronesStored(0)'
    BY <2>4, <2>6, NoPieces DEF DronesStored
  <2>9. PICK g : g \in [1..0 -> 1..N]
    <3>1. [i \in 1..0 |-> 1] \in [1..0 -> 1..N]
      OBVIOUS
    <3> QED BY <3>1
  <2>10. {g[i] : i \in 1..0} = {} /\ \A i \in 1..0 : FALSE
    OBVIOUS
  <2>11. N' = N
    BY <1>2, SameText
  <2>12. CargoStored(0)'
    BY <2>5, <2>7, <2>9, <2>10, <2>11 DEF CargoStored
  <2> QED BY <2>8, <2>12 DEF StacksStored
<1>18. phase' # "stacks"
  BY <1>2
<1>19. StacksStored(0 - Len(items))'
  BY <1>11, <1>17
<1>20. Reading(0, 0)'
  BY <1>14, <1>15, <1>16, <1>18, <1>19 DEF Reading
<1> QED BY <1>7, <1>11, <1>20

\* The sections of a text that is read up to r, when one has been taken.
LEMMA SectionTaken ==
  ASSUME N \in Nat, UNCHANGED input, NEW S, sections \in Seq(S), sections # <<>>,
         sections' = Tail(sections), \A i \in 1..Len(sections) : Len(sections[i]) \in Nat,
         NEW r \in 0..N, Sectioned(r, N)
  PROVE  \E b \in r..N, e \in 0..N :
           /\ e = b + Len(Head(sections))
           /\ Copied(Head(sections), b) /\ Whole(b, e)
           /\ \A k \in r+1..b : Blank(k)
           /\ Sectioned(e, N)'
<1>1. PICK n \in Nat : n = Len(sections)
  BY LenProperties
<1>2. n > 0 /\ Head(sections) = sections[1] /\ Len(sections') = n - 1
      /\ \A i \in 1..n - 1 : sections'[i] = sections[i + 1]
  BY <1>1, HeadTailProperties, EmptySeq
<1>3. PICK f \in [1..n -> 0..N] : Found(f, r, N)
  BY <1>1 DEF Sectioned
<1>4. PICK b \in 0..N : b = f[1]
  BY <1>2
<1>5. PICK e : e = b + Len(Head(sections))
  OBVIOUS
<1>6. e = End(f, 1)
  BY <1>2, <1>4, <1>5 DEF End
<1>7. /\ \A i \in 1..n : /\ r <= f[i] /\ End(f, i) <= N
                         /\ Copied(sections[i], f[i]) /\ Whole(f[i], End(f, i))
      /\ \A i, j \in 1..n : i < j => End(f, i) < f[j]
      /\ \A k \in r+1..N : ~Blank(k) => \E i \in 1..n : k \in f[i]+1..End(f, i)
  BY <1>1, <1>3 DEF Found
<1>8. r <= b /\ e <= N /\ Copied(Head(sections), b) /\ Whole(b, e)
  BY <1>2, <1>4, <1>6, <1>7
<1>9. e \in 0..N /\ b \in r..N /\ e \in Nat /\ b < e
  <2>1. 1 \in 1..n
    BY <1>2
  <2>2. Len(Head(sections)) \in Nat
    BY <1>1, <1>2, <2>1
  <2>3. b < e
    BY <1>8 DEF Whole
  <2>4. e \in Int
    BY <1>5, <2>2
  <2> QED BY <1>8, <2>3, <2>4
<1>10. \A i \in 2..n : e < f[i]
  <2>1. \A i \in 2..n : 1 \in 1..n /\ i \in 1..n /\ 1 < i
    BY <1>2
  <2> QED BY <1>6, <1>7, <2>1
<1>11. \A k \in r+1..b : Blank(k)
  <2> SUFFICES ASSUME NEW k \in r+1..b, ~Blank(k) PROVE FALSE
    OBVIOUS
  <2>1. k \in r+1..N /\ k <= b
    BY <1>9
  <2>2. PICK i \in 1..n : k \in f[i]+1..End(f, i)
    BY <1>7, <2>1
  <2>3. f[i] < k /\ f[i] \in Nat
    BY <2>2
  <2>4. CASE i = 1
    BY <1>4, <2>1, <2>3, <2>4
  <2>5. CASE i # 1
    <3>1. i \in 2..n
      BY <2>5
    <3>2. e < f[i]
      BY <1>10, <3>1
    <3> QED BY <1>9, <2>1, <2>3, <3>2
  <2> QED BY <2>4, <2>5
<1>12. PICK g \in [1..n - 1 -> 0..N] : \A i \in 1..n - 1 : g[i] = f[i + 1]
  <2> DEFINE h == [i \in 1..n - 1 |-> f[i + 1]]
  <2>1. h \in [1..n - 1 -> 0..N] /\ \A i \in 1..n - 1 : h[i] = f[i + 1]
    OBVIOUS
  <2> QED BY <2>1
<1>13. \A i \in 1..n - 1 : i + 1 \in 1..n /\ i + 1 \in 2..n
  OBVIOUS
<1>14. \A i \in 1..n - 1 : End(g, i)' = End(f, i + 1)
  BY <1>2, <1>12, <1>13 DEF End
<1>15. Found(g, e, N)'
  <2>1. ASSUME NEW i \in 1..n - 1
        PROVE  /\ e <= g[i] /\ End(g, i)' <= N
               /\ Copied(sections[i], g[i])' /\ Whole(g[i], End(g, i))'
    <3>1. PICK j : j = i + 1
      OBVIOUS
    <3>2. j \in 1..n /\ j \in 2..n
      BY <1>13, <3>1
    <3>3. g[i] = f[j] /\ End(g, i)' = End(f, j) /\ sections'[i] = sections[j]
      BY <1>2, <1>12, <1>14, <3>1
    <3>4. End(f, j) <= N /\ Copied(sections[j], f[j]) /\ Whole(f[j], End(f, j)) /\ e < f[j]
      BY <1>7, <1>10, <3>2
    <3>5. f[j] \in Nat
      BY <3>2
    <3>6. e <= f[j]
      BY <1>9, <3>4, <3>5
    <3> QED BY <3>3, <3>4, <3>6, SameText
  <2>2. ASSUME NEW i \in 1..n - 1, NEW j \in 1..n - 1, i < j
        PROVE  End(g, i)' < g[j]
    <3>1. i + 1 \in 1..n /\ j + 1 \in 1..n /\ i + 1 < j + 1
      BY <2>2
    <3>2. End(f, i + 1) < f[j + 1]
      BY <1>7, <3>1
    <3> QED BY <1>12, <1>14, <3>2
  <2>3. ASSUME NEW k \in e+1..N, ~Blank(k)'
        PROVE  \E i \in 1..n - 1 : k \in g[i]+1..End(g, i)'
    <3>1. k \in r+1..N /\ ~Blank(k) /\ k > e
      BY <1>9, <2>3, SameText
    <3>2. PICK i \in 1..n : k \in f[i]+1..End(f, i)
      BY <1>7, <3>1
    <3>3. i # 1
      <4> SUFFICES ASSUME i = 1 PROVE FALSE
        OBVIOUS
      <4>1. k \in f[1]+1..e
        BY <1>6, <3>2
      <4> QED BY <1>9, <3>1, <4>1
    <3>4. PICK j \in 1..n - 1 : i = j + 1
      <4>1. i - 1 \in 1..n - 1 /\ i = (i - 1) + 1
        BY <3>3
      <4> QED BY <4>1
    <3>5. k \in g[j]+1..End(g, j)'
      BY <1>12, <1>14, <3>2, <3>4
    <3> QED BY <3>5
  <2>4. N' = N
    BY SameText
  <2> QED BY <1>2, <2>1, <2>2, <2>3, <2>4 DEF Found
<1>16. Sectioned(e, N)'
  BY <1>2, <1>15, SameText DEF Sectioned
<1> QED BY <1>5, <1>8, <1>9, <1>11, <1>16

\* The next section is begun: the lines before it are blank.
LEMMA NextSectionReads ==
  ASSUME Typed, NEW b \in 0..N, NEW r \in 0..N, Reading(b, r), NextSection
  PROVE  \E d, s \in 0..N' : Reading(d, s)'
<1>1. Placed(b, r) /\ ModulesRead(r) /\ StacksStored(r - Len(items)) /\ text \in Texts /\ Sourced
  BY DEF Reading, Typed, Sourced
<1>2. /\ phase = "sections" /\ sections # <<>> /\ section' = Head(sections) /\ sections' = Tail(sections)
      /\ phase' = IF IsModuleSection(Head(sections)) THEN "modules" ELSE "stacks"
      /\ moduleSlots' = [s \in Slots |-> 0] /\ items' = <<>> /\ areDrones' = TRUE
      /\ UNCHANGED input /\ UNCHANGED <<modules, drones, cargo>>
  BY DEF NextSection, fit
<1>3. items = <<>> /\ section = <<>>
  BY <1>1, <1>2 DEF Placed, Typed, TypeOK
<1>4. N \in Nat /\ sections \in Seq(Seq(Here))
      /\ \A i \in 1..Len(sections) : sections[i] \in Seq(Here) /\ Len(sections[i]) \in Nat
  BY <1>1, SectionLines
<1>5. Len(<<>>) = 0
  BY EmptySeq
<1>6. r \in Nat /\ r + 0 = r /\ r - 0 = r
  BY <1>4
<1>7. Sectioned(r, N) /\ StacksStored(r)
  BY <1>1, <1>3, <1>5, <1>6 DEF Placed
<1>8. PICK c \in Seq(Here) : c = Head(sections)
  BY <1>2, <1>4, HeadTailProperties
<1>9. PICK n \in Nat : n = Len(c)
  BY LenProperties
<1>10. PICK d \in r..N, e \in 0..N :
         /\ e = d + n /\ Copied(c, d) /\ Whole(d, e)
         /\ \A k \in r+1..d : Blank(k)
         /\ Sectioned(e, N)'
  BY <1>2, <1>4, <1>7, <1>8, <1>9, SectionTaken
<1>11. d \in 0..N /\ r <= d /\ d \in Nat /\ d - 0 = d /\ d <= d
  BY <1>6, <1>4
<1>12. N' = N /\ section' = c /\ Len(section') = n /\ Len(items') = 0
  BY <1>2, <1>5, <1>8, <1>9, SameText
<1>13. Copied(section, d)' /\ Whole(d, e)'
  BY <1>2, <1>10, <1>12, SameText
<1>14. phase' \in {"modules", "stacks"} /\ (phase' = "stacks" => ~IsModuleSection(c))
  BY <1>2, <1>8
<1>15. Placed(d, d)'
  BY <1>10, <1>11, <1>12, <1>13, <1>14 DEF Placed
<1>16. Counted(d, d)'
  <2>1. \A k : k \notin d+1..d
    BY <1>11
  <2>2. \A s : {k \in Taking(s) : k \in d+1..d} = {}
    BY <2>1
  <2>3. \A s \in Slots : moduleSlots'[s] = Cardinality({k \in Taking(s) : k \in d+1..d})
    BY <1>2, <2>2, NoPieces
  <2> QED BY <1>2, <2>3, SameMeaning DEF Counted
<1>17. ModulesRead(d)'
  <2>1. \A k \in r+1..d : Line(k).kind # "module"
    BY <1>10 DEF Blank
  <2> QED BY <1>1, <1>2, <1>11, <2>1, ModulesKept
<1>18. StacksStored(d)'
  <2>1. \A k \in r+1..d : Line(k).kind # "stack"
    BY <1>10 DEF Blank
  <2> QED BY <1>1, <1>2, <1>7, <1>11, <2>1, StacksKeptOn
<1>19. d - Len(items') = d
  BY <1>11, <1>12
<1>20. StacksStored(d - Len(items))'
  BY <1>18, <1>19
<1>21. phase' = "stacks" => StacksHeld(d, d)'
  <2> SUFFICES ASSUME phase' = "stacks" PROVE StacksHeld(d, d)'
    OBVIOUS
  <2>1. DOMAIN c = 1..n
    BY <1>9, LenProperties
  <2>2. \A i \in 1..n : c[i].kind = "stack"
    BY <1>14, <2>1 DEF IsModuleSection
  <2>3. \A k \in d+1..d + n : Line(k).kind = "stack"
    <3> SUFFICES ASSUME NEW k \in d+1..d + n PROVE Line(k).kind = "stack"
      OBVIOUS
    <3>1. k - d \in 1..n /\ d + (k - d) = k
      BY <1>11
    <3>2. c[k - d] = Line(k)
      BY <1>9, <1>10, <3>1 DEF Copied
    <3> QED BY <2>2, <3>1, <3>2
  <2>4. \A k \in d+1..d + Len(section') : Line(k)'.kind = "stack"
    BY <1>2, <1>12, <2>3, SameText
  <2>5. \A k : k \notin d+1..d
    BY <1>11
  <2>6. \A i \in 1..Len(items') : FALSE
    BY <1>12
  <2>7. areDrones' = TRUE
    BY <1>2
  <2> QED BY <1>11, <1>19, <2>4, <2>5, <2>6, <2>7 DEF StacksHeld
<1>22. Reading(d, d)'
  BY <1>15, <1>16, <1>17, <1>20, <1>21 DEF Reading
<1> QED BY <1>11, <1>12, <1>22

\* When no section is left the rest of the text is blank.
LEMMA SectionsEndReads ==
  ASSUME Typed, NEW b \in 0..N, NEW r \in 0..N, Reading(b, r), SectionsEnd
  PROVE  \E d, s \in 0..N' : Reading(d, s)'
<1>1. Placed(b, r) /\ ModulesRead(r) /\ StacksStored(r - Len(items)) /\ text \in Texts /\ Sourced
  BY DEF Reading, Typed, Sourced
<1>2. /\ phase = "sections" /\ sections = <<>> /\ phase' = "states"
      /\ UNCHANGED input /\ UNCHANGED <<sections, section, items, modules, drones, cargo>>
  BY DEF SectionsEnd, local, fit
<1>3. items = <<>> /\ section = <<>>
  BY <1>1, <1>2 DEF Placed, Typed, TypeOK
<1>4. Len(<<>>) = 0 /\ N \in Nat
  BY <1>1, EmptySeq, SectionLines
<1>5. r \in Nat /\ r + 0 = r /\ r - 0 = r
  BY <1>4
<1>6. Sectioned(r, N) /\ StacksStored(r)
  BY <1>1, <1>3, <1>4, <1>5 DEF Placed
<1>7. \A k \in r+1..N : Blank(k)
  <2>1. PICK f \in [1..Len(sections) -> 0..N] : Found(f, r, N)
    BY <1>6 DEF Sectioned
  <2>2. \A i \in 1..Len(sections) : FALSE
    BY <1>2, <1>4
  <2> QED BY <2>1, <2>2 DEF Found
<1>8. PICK n \in 0..N : n = N
  BY <1>4
<1>9. n + 0 = n /\ n - 0 = n /\ n <= n /\ r <= n /\ n \in Nat
  BY <1>4, <1>8
<1>10. N' = n /\ Len(section') = 0 /\ Len(items') = 0
  BY <1>2, <1>3, <1>4, <1>8, SameText
<1>11. Placed(n, n)'
  <2>1. Sectioned(n, n)
    <3>1. \A k \in n+1..n : Blank(k)
      BY <1>9
    <3> QED BY <1>2, <1>4, <3>1, NoSections
  <2>2. Sectioned(n, n)'
    BY <1>2, <2>1, SameSections
  <2>3. n + Len(section') = n
    BY <1>9, <1>10
  <2>4. Copied(section, n)'
    <3>1. Copied(<<>>, n)
      BY <1>4, <1>8, <1>9 DEF Copied
    <3> QED BY <1>2, <1>3, <3>1, SameText
  <2> QED BY <1>2, <1>3, <1>9, <1>10, <2>2, <2>3, <2>4 DEF Placed
<1>12. ModulesRead(n)'
  <2>1. \A k \in r+1..n : Line(k).kind # "module"
    BY <1>7, <1>8 DEF Blank
  <2> QED BY <1>1, <1>2, <1>9, <2>1, ModulesKept
<1>13. StacksStored(n)'
  <2>1. \A k \in r+1..n : Line(k).kind # "stack"
    BY <1>7, <1>8 DEF Blank
  <2> QED BY <1>1, <1>2, <1>6, <1>9, <2>1, StacksKeptOn
<1>14. n - Len(items') = n
  BY <1>9, <1>10
<1>15. StacksStored(n - Len(items))'
  BY <1>13, <1>14
<1>16. Counted(n, n)' /\ phase' # "stacks"
  BY <1>2 DEF Counted
<1>17. Reading(n, n)'
  BY <1>11, <1>12, <1>15, <1>16 DEF Reading
<1>18. n \in 0..N'
  BY <1>9, <1>10
<1> QED BY <1>17, <1>18

\* A section that is read is left.
LEMMA SectionLeft ==
  ASSUME Typed, NEW b \in 0..N, NEW r \in 0..N, Reading(b, r), ModulesEnd \/ StacksEnd
  PROVE  \E d, s \in 0..N' : Reading(d, s)'
<1>1. Placed(b, r) /\ ModulesRead(r) /\ StacksStored(r - Len(items)) /\ text \in Texts /\ Sourced
  BY DEF Reading, Typed, Sourced
<1>2. /\ phase \in {"modules", "stacks"} /\ phase' = "sections" /\ section = <<>> /\ items = <<>>
      /\ UNCHANGED input /\ UNCHANGED <<sections, section, items, modules, drones, cargo>>
  BY DEF ModulesEnd, StacksEnd, local, fit, Typed, TypeOK
<1>3. Len(<<>>) = 0 /\ N \in Nat
  BY <1>1, EmptySeq, SectionLines
<1>4. r \in Nat /\ r - 0 = r /\ r <= r /\ \A k \in r+1..r : FALSE
  BY <1>3
<1>5. Placed(b, r)'
  BY <1>1, <1>2, SameText, SameSections DEF Placed
<1>6. ModulesRead(r)'
  BY <1>1, <1>2, <1>4, ModulesKept
<1>7. r - Len(items) = r /\ r - Len(items') = r
  BY <1>2, <1>3, <1>4
<1>8. StacksStored(r)'
  BY <1>1, <1>2, <1>4, <1>7, StacksKeptOn
<1>9. StacksStored(r - Len(items))'
  BY <1>7, <1>8
<1>10. Counted(b, r)' /\ phase' # "stacks"
  BY <1>2 DEF Counted
<1>11. Reading(b, r)'
  BY <1>5, <1>6, <1>9, <1>10 DEF Reading
<1> QED BY <1>2, <1>11, SameText
-----------------------------------------------------------------------------
(* The fit that is read. *)

\* g gives m lines in their order ...
Rises(g, m) == g \in [1..m -> 1..N] /\ \A i, j \in 1..m : i < j => g[i] < g[j]

\* ... and they are the lines L by number.
Numbers(g, m, L) ==
  Cardinality(L) = m /\ \A n \in 1..m : Nth(L, n) = g[n] /\ g[n] \in L

\* Lines of a text are numbered by what lists them in their order.
LEMMA Numbered ==
  ASSUME text \in Texts, NEW m \in Nat, NEW g, Rises(g, m)
  PROVE  Numbers(g, m, LinesAt(g, m))
<1> DEFINE L == LinesAt(g, m)
<1>0. g \in [1..m -> 1..N] /\ \A i, j \in 1..m : i < j => g[i] < g[j]
  BY DEF Rises
<1> HIDE DEF L
<1>1. N \in Nat
  BY TextLines
<1>2. \A i, j \in 1..m : i # j => g[i] # g[j]
  <2>1. \A i, j \in 1..m : i # j => i < j \/ j < i
    OBVIOUS
  <2>2. \A i \in 1..m : g[i] \in Nat
    BY <1>0, <1>1
  <2>3. \A x, y \in Nat : x < y => x # y
    OBVIOUS
  <2> QED BY <1>0, <2>1, <2>2, <2>3
<1>3. ASSUME NEW n \in 0..m
      PROVE  Cardinality({g[i] : i \in 1..n}) = n
  <2> DEFINE S == {g[i] : i \in 1..n}
             h == [i \in 1..n |-> g[i]]
  <2>1. \A i \in 1..n : i \in 1..m
    OBVIOUS
  <2>2. h \in [1..n -> S] /\ \A t \in S : \E i \in 1..n : h[i] = t
    OBVIOUS
  <2>3. \A i, j \in 1..n : h[i] = h[j] => i = j
    BY <1>2, <2>1
  <2> HIDE DEF h, S
  <2>4. h \in Bijection(1..n, S)
    BY <2>2, <2>3 DEF Bijection, Injection, IsInjective, Surjection
  <2>5. ExistsBijection(1..n, S)
    BY <2>4 DEF ExistsBijection
  <2>6. n \in Nat
    OBVIOUS
  <2>7. Cardinality(S) = n
    BY <2>5, <2>6, FS_CountingElements
  <2> QED BY <2>7 DEF S
<1>4. m \in 0..m
  OBVIOUS
<1>5. Cardinality(L) = m /\ L = {g[i] : i \in 1..m}
  BY <1>3, <1>4 DEF L, LinesAt
<1>6. ASSUME NEW n \in 1..m
      PROVE  Cardinality({j \in L : j <= g[n]}) = n
  <2>1. {j \in L : j <= g[n]} = {g[i] : i \in 1..n}
    <3>1. \A i \in 1..n : i \in 1..m
      OBVIOUS
    <3>2. \A i \in 1..m : g[i] <= g[n] <=> i \in 1..n
      <4> SUFFICES ASSUME NEW i \in 1..m PROVE g[i] <= g[n] <=> i \in 1..n
        OBVIOUS
      <4>1. g[i] \in Nat /\ g[n] \in Nat
        BY <1>0, <1>1
      <4>2. CASE i < n
        <5>1. g[i] < g[n]
          BY <1>0, <4>2
        <5> QED BY <4>1, <4>2, <5>1
      <4>3. CASE i = n
        BY <4>1, <4>3
      <4>4. CASE n < i
        <5>1. g[n] < g[i]
          BY <1>0, <4>4
        <5> QED BY <4>1, <4>4, <5>1
      <4> QED BY <4>2, <4>3, <4>4
    <3> QED BY <1>5, <3>1, <3>2
  <2>2. n \in 0..m
    OBVIOUS
  <2> QED BY <1>3, <2>1, <2>2
<1>7. ASSUME NEW n \in 1..m
      PROVE  Nth(L, n) = g[n] /\ g[n] \in L
  <2>1. g[n] \in L /\ \A k \in L : \E i \in 1..m : k = g[i]
    BY <1>5
  <2>2. ASSUME NEW k \in L, Cardinality({j \in L : j <= k}) = n
        PROVE  k = g[n]
    <3>1. PICK i \in 1..m : k = g[i]
      BY <2>1
    <3>2. Cardinality({j \in L : j <= g[i]}) = i
      BY <1>6
    <3> QED BY <2>2, <3>1, <3>2
  <2>3. Cardinality({j \in L : j <= g[n]}) = n
    BY <1>6
  <2> QED BY <2>1, <2>2, <2>3 DEF Nth
<1> QED BY <1>5, <1>7 DEF L, Numbers

\* The modules read are those of the text, by number.
LEMMA ModulesByNumber ==
  ASSUME Typed, ModulesRead(N)
  PROVE  /\ Len(modules) = Cardinality(ModuleLines)
         /\ DOMAIN modules = 1..Len(modules)
         /\ \A n \in 1..Len(modules) :
              ModuleOf(modules[n], NthModule(n)) /\ NthModule(n) \in ModuleLines
<1>1. text \in Texts /\ modules \in Seq(ModuleType)
  BY DEF Typed, Sourced, TypeOK
<1>2. PICK m \in Nat : m = Len(modules) /\ DOMAIN modules = 1..m
  BY <1>1, LenProperties
<1>3. PICK g \in [1..m -> 1..N] :
        Lists(g, N) /\ \A i \in 1..m : ModuleOf(modules[i], g[i])
  BY <1>2 DEF ModulesRead
<1>4. {k \in ModuleLines : k <= N} = ModuleLines
  <2>1. N \in Nat /\ ModuleLines \subseteq 1..N
    BY <1>1, TextLines DEF ModuleLines
  <2>2. \A k \in 1..N : k <= N
    BY <2>1
  <2> QED BY <2>1, <2>2
<1>5. (\A i, j \in 1..m : i < j => g[i] < g[j]) /\ {g[i] : i \in 1..m} = ModuleLines
  BY <1>2, <1>3, <1>4 DEF Lists
<1>6. /\ Cardinality(ModuleLines) = m
      /\ \A n \in 1..m : NthModule(n) = g[n] /\ g[n] \in ModuleLines
  <2>1. LinesAt(g, m) = ModuleLines
    BY <1>5 DEF LinesAt
  <2>2. Rises(g, m)
    BY <1>3, <1>5 DEF Rises
  <2>3. Numbers(g, m, LinesAt(g, m))
    BY <1>1, <2>2, Numbered
  <2>4. Numbers(g, m, ModuleLines)
    BY <2>1, <2>3
  <2> QED BY <2>4 DEF Numbers, NthModule
<1> QED BY <1>2, <1>3, <1>6

\* A fit that is read whole has the modules of its text.
LEMMA SlotsRead ==
  ASSUME Typed, ModulesRead(N)
  PROVE  SlotsTrue
<1>1. /\ Len(modules) = Cardinality(ModuleLines)
      /\ DOMAIN modules = 1..Len(modules)
      /\ \A n \in 1..Len(modules) :
           ModuleOf(modules[n], NthModule(n)) /\ NthModule(n) \in ModuleLines
  BY ModulesByNumber
<1> QED BY <1>1 DEF SlotsTrue, ModuleOf

\* A fit that is read whole has the stacks of its text.
LEMMA StacksRead ==
  ASSUME text \in Texts, cargo \in Seq(Stack), StacksStored(N)
  PROVE  StacksKept
<1>1. N \in Nat /\ StackLines \subseteq 1..N
  BY TextLines DEF StackLines
<1>2. \A k \in StackLines : k <= N
  BY <1>1
<1>3. (\A t : DronesTo(t, N) = DroneLines(t)) /\ CargoTo(N) = CargoLines
  BY <1>2 DEF DronesTo, DroneLines, CargoTo, CargoLines
<1>4. \A t : OfType(drones, t) = {k \in DOMAIN drones : drones[k].type = t}
  BY DEF OfType
<1>5. PICK m \in Nat : m = Len(cargo) /\ DOMAIN cargo = 1..m
  BY LenProperties
<1>6. PICK g \in [1..m -> 1..N] :
        /\ \A i, j \in 1..m : i < j => g[i] < g[j]
        /\ {g[i] : i \in 1..m} = CargoLines
        /\ \A i \in 1..m : StackOf(cargo[i], g[i])
  BY <1>3, <1>5 DEF StacksStored, CargoStored
<1>7. Cardinality(CargoLines) = m /\ \A n \in 1..m : NthCargo(n) = g[n]
  <2>1. LinesAt(g, m) = CargoLines
    BY <1>6 DEF LinesAt
  <2>2. Rises(g, m)
    BY <1>6 DEF Rises
  <2>3. Numbers(g, m, LinesAt(g, m))
    BY <2>2, Numbered
  <2>4. Numbers(g, m, CargoLines)
    BY <2>1, <2>3
  <2> QED BY <2>4 DEF Numbers, NthCargo
<1>8. \A n \in DOMAIN cargo :
        /\ cargo[n].type = TypeNameToId(Line(NthCargo(n)).name)
        /\ cargo[n].quantity = Line(NthCargo(n)).quantity
  BY <1>5, <1>6, <1>7 DEF StackOf
<1>9. \A t \in Types :
        Cardinality({k \in DOMAIN drones : drones[k].type = t}) =
          Cardinality(Pieces(DroneLines(t)))
  BY <1>3, <1>4 DEF StacksStored, DronesStored
<1> QED BY <1>5, <1>7, <1>8, <1>9 DEF StacksKept

\* The letter of a module is the one of its rack and index.
LEMMA LetterOf ==
  ASSUME NEW m, m.index \in Nat
  PROVE  LetterAt(m) =
           IF m.slot \in {"high", "medium", "low"} /\ m.index < PerRack
           THEN {letters[(CASE m.slot = "high" -> 0 [] m.slot = "medium" -> PerRack
                            [] OTHER -> 2 * PerRack) + m.index + 1]}
           ELSE {}
<1>1. PerRack \in Nat
  BY EftAssumption
<1>2. DOMAIN Racks = 1..3 /\ Racks[1] = "high" /\ Racks[2] = "medium" /\ Racks[3] = "low"
  BY DEF Racks
<1>3. (1 - 1) * PerRack = 0 /\ (2 - 1) * PerRack = PerRack /\ (3 - 1) * PerRack = 2 * PerRack
  BY <1>1
<1>4. \A q \in 1..3 : q = 1 \/ q = 2 \/ q = 3
  OBVIOUS
<1> DEFINE R == {q \in DOMAIN Racks : Racks[q] = m.slot /\ m.index < PerRack}
<1>5. LetterAt(m) = {letters[(r - 1) * PerRack + m.index + 1] : r \in R}
  BY DEF LetterAt
<1>6. CASE ~(m.slot \in {"high", "medium", "low"} /\ m.index < PerRack)
  <2>1. R = {}
    BY <1>2, <1>4, <1>6
  <2> HIDE DEF R
  <2> QED BY <1>5, <1>6, <2>1
<1>7. CASE m.slot = "high" /\ m.index < PerRack
  <2>1. R = {1}
    BY <1>2, <1>4, <1>7
  <2> HIDE DEF R
  <2>2. LetterAt(m) = {letters[(1 - 1) * PerRack + m.index + 1]}
    BY <1>5, <2>1
  <2>3. LetterAt(m) = {letters[0 + m.index + 1]}
    BY <1>3, <2>2
  <2> QED BY <1>7, <2>3
<1>8. CASE m.slot = "medium" /\ m.index < PerRack
  <2>1. R = {2}
    BY <1>2, <1>4, <1>8
  <2> HIDE DEF R
  <2>2. LetterAt(m) = {letters[(2 - 1) * PerRack + m.index + 1]}
    BY <1>5, <2>1
  <2>3. LetterAt(m) = {letters[PerRack + m.index + 1]}
    BY <1>3, <2>2
  <2> QED BY <1>8, <2>3
<1>9. CASE m.slot = "low" /\ m.index < PerRack
  <2>1. R = {3}
    BY <1>2, <1>4, <1>9
  <2> HIDE DEF R
  <2>2. LetterAt(m) = {letters[(3 - 1) * PerRack + m.index + 1]}
    BY <1>5, <2>1
  <2>3. LetterAt(m) = {letters[2 * PerRack + m.index + 1]}
    BY <1>3, <2>2
  <2> QED BY <1>9, <2>3
<1> QED BY <1>6, <1>7, <1>8, <1>9

\* The fit is read whole when its states are to be set.
LEMMA WholeRead ==
  ASSUME Typed, NEW b \in 0..N, NEW r \in 0..N, Reading(b, r), phase = "states"
  PROVE  ModulesRead(N) /\ StacksStored(N)
<1>1. items = <<>> /\ text \in Texts
  BY DEF Typed, Sourced, TypeOK
<1>2. r = N /\ N \in Nat
  BY <1>1, TextLines DEF Reading, Placed
<1>3. r - Len(items) = N
  BY <1>1, <1>2
<1> QED BY <1>2, <1>3 DEF Reading

\* Setting states leaves the slots of the fit.
LEMMA SlotsStay ==
  ASSUME UNCHANGED input, phase \in {"states", "calculate"}, SlotsTrue,
         Len(modules') = Len(modules), DOMAIN modules' = DOMAIN modules,
         \A k \in DOMAIN modules :
           /\ modules'[k].type = modules[k].type /\ modules'[k].slot = modules[k].slot
           /\ modules'[k].index = modules[k].index
  PROVE  SlotsTrue'
<1> DEFINE Index(s, place) == Cardinality({k \in Taking(s) : k < place /\ Together({k, place})})
<1>1. /\ \A s : Taking(s)' = Taking(s)
      /\ ModuleLines' = ModuleLines
      /\ \A k : Line(k)' = Line(k)
  BY SameMeaning, SameText
<1>2. \A n : NthModule(n)' = NthModule(n)
  BY <1>1 DEF NthModule, Nth
<1>3. \A lines : Together(lines)' <=> Together(lines)
  BY <1>1 DEF Together
<1>4. \A k : TakenBy(Line(k))' = TakenBy(Line(k))
  BY <1>1 DEF input, TakenBy, LineType, TypeNameToId, SlotOf
<1>5. \A s, place : Index(s, place)' = Index(s, place)
  BY <1>1, <1>3
<1> HIDE DEF Index
<1>6. /\ Len(modules) = Cardinality(ModuleLines)
      /\ \A n \in DOMAIN modules :
           /\ NameOf[modules[n].type] = Line(NthModule(n)).name
           /\ modules[n].slot = TakenBy(Line(NthModule(n)))
           /\ modules[n].index = Index(modules[n].slot, NthModule(n))
  BY DEF SlotsTrue, Index
<1>7. PICK M : M = modules'
  OBVIOUS
<1>8. ASSUME NEW n \in DOMAIN M
      PROVE  /\ NameOf[M[n].type] = Line(NthModule(n))'.name
             /\ M[n].slot = TakenBy(Line(NthModule(n)))'
             /\ M[n].index = Index(M[n].slot, NthModule(n))'
  <2>1. M[n].type = modules[n].type /\ M[n].slot = modules[n].slot
        /\ M[n].index = modules[n].index /\ n \in DOMAIN modules
    BY <1>7
  <2>2. PICK k : k = NthModule(n) /\ k = NthModule(n)'
    BY <1>2
  <2>3. PICK s : s = M[n].slot
    OBVIOUS
  <2>4. Line(NthModule(n))' = Line(k) /\ TakenBy(Line(NthModule(n)))' = TakenBy(Line(k))
    BY <1>1, <1>4, <2>2
  <2>5. Index(M[n].slot, NthModule(n))' = Index(s, k)
    BY <1>5, <1>7, <2>2, <2>3
  <2>6. /\ NameOf[modules[n].type] = Line(k).name
        /\ modules[n].slot = TakenBy(Line(k))
        /\ modules[n].index = Index(s, k)
    BY <1>6, <2>1, <2>2, <2>3
  <2> QED BY <2>1, <2>4, <2>5, <2>6
<1>9. Len(M) = Cardinality(ModuleLines')
  BY <1>1, <1>6, <1>7
<1> QED BY <1>7, <1>8, <1>9 DEF SlotsTrue, Index

\* Setting states leaves the stacks of the fit.
LEMMA StacksStay ==
  ASSUME UNCHANGED <<input, drones, cargo>>, phase \in {"states", "calculate"}, StacksKept
  PROVE  StacksKept'
<1>1. UNCHANGED input /\ drones' = drones /\ cargo' = cargo
  OBVIOUS
<1>2. StackLines' = StackLines /\ (\A name : TypeNameToId(name)' = TypeNameToId(name))
      /\ (\A lines : Pieces(lines)' = Pieces(lines))
      /\ (\A k : Line(k)' = Line(k)) /\ Lines' = Lines
  BY <1>1, SameMeaning, SameText
<1>3. \A k : OfDrones(k)' <=> OfDrones(k)
  BY <1>2 DEF OfDrones, SectionAround, Together
<1>4. CargoLines' = CargoLines
  BY <1>2, <1>3 DEF CargoLines
<1>5. ASSUME NEW t
      PROVE  Pieces(DroneLines(t))' = Pieces(DroneLines(t))
  <2>1. DroneLines(t)' = DroneLines(t)
    BY <1>2, <1>3 DEF DroneLines
  <2> QED BY <1>2, <2>1
<1>6. ASSUME NEW n
      PROVE  /\ TypeNameToId(Line(NthCargo(n)).name)' = TypeNameToId(Line(NthCargo(n)).name)
             /\ (Line(NthCargo(n)).quantity)' = Line(NthCargo(n)).quantity
  <2>1. PICK k : k = NthCargo(n) /\ k = NthCargo(n)'
    BY <1>4 DEF NthCargo, Nth
  <2> QED BY <1>2, <2>1
<1>7. /\ \A t \in Types :
           Cardinality({k \in DOMAIN drones : drones[k].type = t}) =
             Cardinality(Pieces(DroneLines(t)))
      /\ Len(cargo) = Cardinality(CargoLines)
      /\ \A n \in DOMAIN cargo :
           /\ cargo[n].type = TypeNameToId(Line(NthCargo(n)).name)
           /\ cargo[n].quantity = Line(NthCargo(n)).quantity
  BY DEF StacksKept
<1>8. PICK C : C = cargo /\ C = cargo'
  BY <1>1
<1>9. \A n \in DOMAIN C :
        /\ C[n].type = TypeNameToId(Line(NthCargo(n)).name)'
        /\ C[n].quantity = Line(NthCargo(n))'.quantity
  BY <1>6, <1>7, <1>8
<1> QED BY <1>1, <1>4, <1>5, <1>7, <1>8, <1>9 DEF StacksKept
-----------------------------------------------------------------------------
(* The states of the modules. *)

\* What is asked of a module goes by its place, not by its state.
LEMMA AskedSame ==
  ASSUME UNCHANGED input, DOMAIN modules = 1..Len(modules), Len(modules) \in Nat,
         DOMAIN modules' = DOMAIN modules,
         \A k \in DOMAIN modules :
           modules'[k].slot = modules[k].slot /\ modules'[k].index = modules[k].index,
         NEW n \in DOMAIN modules
  PROVE  Asked(n)' = Asked(n)
<1>1. ModuleLines' = ModuleLines /\ (\A k : Line(k)' = Line(k)) /\ letters' = letters
  BY SameMeaning, SameText
<1>2. PICK M : M = modules'
  OBVIOUS
<1>3. \A k \in DOMAIN modules : M[k].slot = modules[k].slot /\ M[k].index = modules[k].index
  BY <1>2
<1>4. \A j \in 1..(n - 1) : j \in DOMAIN modules
  OBVIOUS
<1>5. FirstAt(n)' <=> FirstAt(n)
  BY <1>2, <1>3, <1>4 DEF FirstAt, SameSlot
<1>6. PICK k : k = NthModule(n) /\ k = NthModule(n)'
  BY <1>1 DEF NthModule, Nth
<1>7. Line(NthModule(n))' = Line(NthModule(n))
  BY <1>1, <1>6
<1> QED BY <1>1, <1>2, <1>3, <1>5, <1>7 DEF Asked

\* The modules of a fit that is read are in the states that their lines say.
LEMMA Said ==
  ASSUME Typed, ModulesRead(N)
  PROVE  /\ DOMAIN modules = 1..Len(modules) /\ Len(modules) \in Nat
         /\ \A n \in DOMAIN modules :
              /\ modules[n] \in ModuleType
              /\ modules[n].state = IF Line(NthModule(n)).offline THEN "passive" ELSE "active"
<1>1. modules \in Seq(ModuleType)
  BY DEF Typed, TypeOK
<1>2. \A n \in 1..Len(modules) : ModuleOf(modules[n], NthModule(n))
  BY ModulesByNumber
<1> QED BY <1>1, <1>2, LenProperties, ElementOfSeq DEF ModuleOf

\* Without a state string modules are as the text has them.
LEMMA StatesUnset ==
  ASSUME Typed, ModulesRead(N), NoLetters
  PROVE  StatesAsked'
<1>1. UNCHANGED input /\ modules' = modules /\ letters = NoState
  BY DEF NoLetters, fit
<1>2. \A n \in DOMAIN modules : modules[n].state = Asked(n)
  BY <1>1, Said DEF Asked
<1>3. \A n \in DOMAIN modules : Asked(n)' = Asked(n)
  BY <1>1, Said, AskedSame
<1>4. PICK M : M = modules /\ M = modules'
  BY <1>1
<1>5. \A n \in DOMAIN M : M[n].state = Asked(n)'
  BY <1>2, <1>3, <1>4
<1> QED BY <1>4, <1>5 DEF StatesAsked

\* With a state string they are as it says.
LEMMA StatesRuled ==
  ASSUME Typed, ModulesRead(N), SetStates
  PROVE  StatesAsked'
<1>1. UNCHANGED input /\ letters # NoState
  BY DEF SetStates
<1>2. PICK M : M = modules'
  OBVIOUS
<1>3. /\ DOMAIN M = 1..Len(modules) /\ DOMAIN modules = 1..Len(modules) /\ Len(modules) \in Nat
      /\ \A k \in 1..Len(modules) :
           /\ M[k].slot = modules[k].slot /\ M[k].index = modules[k].index
           /\ M[k].state = IF FirstAt(k) /\ LetterAt(modules[k]) # {}
                           THEN ParseState(CHOOSE c \in LetterAt(modules[k]) : TRUE)
                           ELSE modules[k].state
  BY <1>2, StatesSet
<1>4. ASSUME NEW n \in DOMAIN modules
      PROVE  M[n].state = Asked(n)
  <2>1. PICK m : m = modules[n]
    OBVIOUS
  <2>2. m.index \in Nat /\ m.state = IF Line(NthModule(n)).offline THEN "passive" ELSE "active"
    BY <2>1, Said DEF ModuleType
  <2> DEFINE place == (CASE m.slot = "high" -> 0 [] m.slot = "medium" -> PerRack
                         [] OTHER -> 2 * PerRack) + m.index + 1
             ruled == m.slot \in {"high", "medium", "low"} /\ m.index < PerRack
  <2>3. LetterAt(m) = IF ruled THEN {letters[place]} ELSE {}
    BY <2>2, LetterOf
  <2>4. Asked(n) = IF ruled /\ FirstAt(n) THEN ParseState(letters[place]) ELSE m.state
    BY <1>1, <2>1, <2>2 DEF Asked
  <2>5. M[n].state = IF FirstAt(n) /\ LetterAt(m) # {}
                     THEN ParseState(CHOOSE c \in LetterAt(m) : TRUE) ELSE m.state
    BY <1>3, <2>1
  <2> HIDE DEF ruled, place
  <2>6. (CHOOSE c \in {letters[place]} : TRUE) = letters[place]
    OBVIOUS
  <2> QED BY <2>3, <2>4, <2>5, <2>6
<1>5. \A n \in DOMAIN modules : Asked(n)' = Asked(n)
  BY <1>1, <1>2, <1>3, AskedSame
<1>6. \A n \in DOMAIN M : M[n].state = Asked(n)'
  BY <1>3, <1>4, <1>5
<1> QED BY <1>2, <1>6 DEF StatesAsked

\* The four states are of four ranks.
LEMMA Ranks ==
  /\ Rank("passive") = 0 /\ Rank("online") = 1 /\ Rank("active") = 2 /\ Rank("overload") = 3
  /\ \A s \in States : Rank(s) \in 0..3
  /\ \A r, s \in States : Rank(r) = Rank(s) => r = s
<1>1. Rank("passive") = 0 /\ Rank("online") = 1
  BY DEF Rank
<1>2. Rank("active") = 2 /\ Rank("overload") = 3
  BY DEF Rank
<1> QED BY <1>1, <1>2 DEF States

\* A type permits the states up to its highest, and no other.
LEMMA Permitted ==
  ASSUME NEW t \in Types
  PROVE  /\ MaxState(t) \in States
         /\ \A s \in States : Permits(t, s) <=> Rank(s) <= Rank(MaxState(t))
<1> DEFINE raised == {"passive"} \cup EffectStates[t] \cup {s \in {"active"} : t \in NeedsCapacitor}
<1>1. raised \subseteq States /\ "passive" \in raised
  BY EftAssumption DEF States
<1>2. \A s \in States : Permits(t, s) <=> \E r \in raised : Rank(s) <= Rank(r)
  <2>1. \A r \in {"active"} : r = "active"
    OBVIOUS
  <2>2. \A r : r \in raised <=> r = "passive" \/ r \in EffectStates[t] \/ (r = "active" /\ t \in NeedsCapacitor)
    OBVIOUS
  <2>3. \A s \in States : Rank(s) <= Rank("passive") => s = "passive"
    BY Ranks DEF States
  <2>4. Rank("passive") <= Rank("passive")
    BY Ranks
  <2> HIDE DEF raised
  <2> QED BY <2>2, <2>3, <2>4 DEF Permits
<1> HIDE DEF raised
<1>3. \E s \in raised : \A r \in raised : Rank(r) <= Rank(s)
  <2>1. CASE "overload" \in raised
    BY <1>1, <2>1, Ranks
  <2>2. CASE "overload" \notin raised /\ "active" \in raised
    BY <1>1, <2>2, Ranks DEF States
  <2>3. CASE "overload" \notin raised /\ "active" \notin raised /\ "online" \in raised
    BY <1>1, <2>3, Ranks DEF States
  <2>4. CASE "overload" \notin raised /\ "active" \notin raised /\ "online" \notin raised
    BY <1>1, <2>4, Ranks DEF States
  <2> QED BY <2>1, <2>2, <2>3, <2>4
<1>4. MaxState(t) = CHOOSE s \in raised : \A r \in raised : Rank(r) <= Rank(s)
  BY DEF MaxState, raised
<1>5. PICK max : max = MaxState(t)
  OBVIOUS
<1>6. max \in raised /\ \A r \in raised : Rank(r) <= Rank(max)
  BY <1>3, <1>4, <1>5
<1>7. \A s \in States : (\E r \in raised : Rank(s) <= Rank(r)) <=> Rank(s) <= Rank(max)
  BY <1>1, <1>6, Ranks
<1> QED BY <1>1, <1>2, <1>5, <1>6, <1>7

\* Pass 2 leaves a module the highest state up to its own that its type permits.
LEMMA ClampedHighest ==
  ASSUME NEW m \in ModuleType
  PROVE  /\ Clamped(m) \in ModuleType
         /\ Clamped(m).slot = m.slot /\ Clamped(m).index = m.index
         /\ HighestUpTo(m.state, m.type, Clamped(m).state)
<1>1. PICK max : max = MaxState(m.type)
  OBVIOUS
<1>2. m.type \in Types /\ m.state \in States
  BY DEF ModuleType
<1>3. max \in States /\ \A s \in States : Permits(m.type, s) <=> Rank(s) <= Rank(max)
  BY <1>1, <1>2, Permitted
<1>4. Clamped(m) = IF Rank(m.state) <= Rank(max) THEN m ELSE [m EXCEPT !.state = max]
  BY <1>1 DEF Clamped
<1>5. [m EXCEPT !.state = max] \in ModuleType /\ [m EXCEPT !.state = max].slot = m.slot
      /\ [m EXCEPT !.state = max].index = m.index /\ [m EXCEPT !.state = max].state = max
  BY <1>3 DEF ModuleType
<1>6. CASE Rank(m.state) <= Rank(max)
  <2>1. Clamped(m) = m
    BY <1>4, <1>6
  <2>2. HighestUpTo(m.state, m.type, m.state)
    BY <1>2, <1>3, <1>6, Ranks DEF HighestUpTo
  <2> QED BY <2>1, <2>2
<1>7. CASE ~(Rank(m.state) <= Rank(max))
  <2>1. Clamped(m) = [m EXCEPT !.state = max]
    BY <1>4, <1>7
  <2>2. HighestUpTo(m.state, m.type, max)
    BY <1>2, <1>3, <1>7, Ranks DEF HighestUpTo
  <2> QED BY <1>5, <2>1, <2>2
<1> QED BY <1>6, <1>7

\* The output shows for a slot the first module that is there.
LEMMA ShownFirst ==
  ASSUME NEW q, q = onShip', NEW l \in Nat, DOMAIN q = 1..l,
         \A k \in 1..l : q[k].slot = modules'[k].slot /\ q[k].index = modules'[k].index,
         NEW n \in 1..l, FirstAt(n)'
  PROVE  Shown(modules[n].slot, modules[n].index)' = q[n].state
<1> DEFINE at == {k \in DOMAIN q : q[k].slot = q[n].slot /\ q[k].index = q[n].index}
<1>1. n \in at /\ n \in Nat /\ at \subseteq 1..l
  OBVIOUS
<1>2. PICK M : M = modules'
  OBVIOUS
<1>3. \A j \in 1..(n - 1) : j \notin at
  <2>1. \A j \in 1..(n - 1) : j \in 1..l /\ ~SameSlot(M[j], M[n])
    BY <1>1, <1>2 DEF FirstAt
  <2> QED BY <1>2, <2>1 DEF SameSlot
<1>4. Shown(modules[n].slot, modules[n].index)' =
        IF at = {} THEN "empty" ELSE q[CHOOSE k \in at : \A j \in at : k <= j].state
  <2>1. PICK slot, index : slot = M[n].slot /\ index = M[n].index
    OBVIOUS
  <2>2. at = {k \in DOMAIN onShip' : onShip'[k].slot = slot /\ onShip'[k].index = index}
    BY <1>1, <1>2, <2>1
  <2> HIDE DEF at
  <2>3. Shown(slot, index)' =
          IF at = {} THEN "empty" ELSE onShip'[CHOOSE k \in at : \A j \in at : k <= j].state
    BY <2>2 DEF Shown
  <2> QED BY <1>2, <2>1, <2>3
<1> HIDE DEF at
<1>5. \A j \in at : n <= j
  <2>1. \A j \in 1..l : j \in 1..(n - 1) \/ n <= j
    BY <1>1
  <2> QED BY <1>1, <1>3, <2>1
<1>6. (CHOOSE k \in at : \A j \in at : k <= j) = n
  <2>1. \A k \in at : (\A j \in at : k <= j) => k = n
    <3> SUFFICES ASSUME NEW k \in at, \A j \in at : k <= j PROVE k = n
      OBVIOUS
    <3>1. k <= n /\ n <= k /\ k \in Nat /\ n \in Nat
      BY <1>1, <1>5
    <3> QED BY <3>1
  <2> QED BY <1>1, <1>5, <2>1
<1> QED BY <1>1, <1>4, <1>6

\* The calculation leaves every module the highest state up to the one asked for.
LEMMA StatesShown ==
  ASSUME Typed, StatesAsked, Calculate
  PROVE  Typed' /\ StatesObeyed'
<1>1. TypeOK /\ Sourced /\ DronesOnly /\ StacksOnly /\ phase = "calculate" /\ phase' = "done"
      /\ UNCHANGED <<input, iter, sections, section, local, fit>>
  BY DEF Typed, Calculate
<1>2. PICK l \in Nat : l = Len(modules) /\ DOMAIN modules = 1..l
  BY <1>1, LenProperties DEF TypeOK
<1>3. PICK q : q = onShip' /\ q = [k \in 1..l |-> Clamped(modules[k])]
  BY <1>2 DEF Calculate
<1>4. \A k \in 1..l : modules[k] \in ModuleType
  BY <1>1, <1>2, ElementOfSeq DEF TypeOK
<1>5. \A k \in 1..l :
        /\ q[k] \in ModuleType
        /\ q[k].slot = modules[k].slot /\ q[k].index = modules[k].index
        /\ HighestUpTo(modules[k].state, modules[k].type, q[k].state)
  BY <1>3, <1>4, ClampedHighest
<1>6. q \in Seq(ModuleType) /\ DOMAIN q = 1..l
  <2>1. q \in [1..l -> ModuleType]
    BY <1>3, <1>5
  <2> QED BY <1>3, <2>1, SeqDef
<1>7. TypeOK'
  BY <1>1, <1>3, <1>6 DEF TypeOK, input, local, fit
<1>8. Typed'
  BY <1>1, <1>7 DEF Typed, Sourced, DronesOnly, StacksOnly, input, iter, local, Here, Lines
<1>9. PICK M : M = modules /\ M = modules'
  BY <1>1 DEF fit
<1>10. \A n \in 1..l : Asked(n)' = Asked(n)
  <2>1. UNCHANGED input /\ modules' = modules
    BY <1>1 DEF fit
  <2> QED BY <1>2, <2>1, AskedSame
<1>11. ASSUME NEW n \in 1..l
       PROVE  HighestUpTo(Asked(n)', M[n].type,
                          IF FirstAt(n)' THEN Shown(modules[n].slot, modules[n].index)' ELSE q[n].state)
  <2>1. HighestUpTo(Asked(n)', M[n].type, q[n].state)
    BY <1>2, <1>5, <1>9, <1>10 DEF StatesAsked
  <2>2. FirstAt(n)' => Shown(modules[n].slot, modules[n].index)' = q[n].state
    BY <1>3, <1>5, <1>6, <1>9, ShownFirst
  <2> QED BY <2>1, <2>2
<1>12. StatesObeyed'
  BY <1>2, <1>3, <1>9, <1>11 DEF StatesObeyed, HighestUpTo
<1> QED BY <1>8, <1>12

-----------------------------------------------------------------------------
(* The steps of Next. *)

\* While a text is split the invariant is kept.
LEMMA SplitKeeps ==
  ASSUME EftInv, Header \/ SplitLine \/ SplitEnd
  PROVE  EftInv'
<1>1. Typed /\ Typed'
  BY SplitTyped DEF EftInv
<1>2. CASE Header
  <2>1. phase = "header" /\ phase' \in {"split", "fatal", "thrown"}
    <3>1. text.header \in {"ship", "empty", "none"}
      BY <1>1, EftAssumption DEF Typed, Sourced
    <3> QED BY <1>2, <3>1 DEF Header
  <2>2. Untouched'
    BY <1>2, <2>1 DEF EftInv, Header, Untouched, local, fit
  <2>3. phase' = "split" => Splitting'
    BY <1>1, <1>2, <2>1, HeaderSplits DEF EftInv
  <2> QED BY <1>1, <2>1, <2>2, <2>3 DEF EftInv
<1>3. CASE SplitLine
  <2>1. phase = "split" /\ phase' = "split" /\ Untouched'
    BY <1>3 DEF EftInv, SplitLine, Untouched, local, fit
  <2>2. Splitting'
    BY <1>1, <1>3, <2>1, SplitLineSplits DEF EftInv
  <2> QED BY <1>1, <2>1, <2>2 DEF EftInv
<1>4. CASE SplitEnd
  <2>1. phase = "split" /\ phase' = "sections"
    BY <1>4 DEF SplitEnd
  <2>2. \E d, s \in 0..N' : Reading(d, s)'
    BY <1>1, <1>4, <2>1, SplitEndReads DEF EftInv
  <2> QED BY <1>1, <2>1, <2>2 DEF EftInv
<1> QED BY <1>2, <1>3, <1>4

\* While sections are read it is kept as well.
LEMMA ReadingKeeps ==
  ASSUME EftInv,
         NextSection \/ SectionsEnd \/ ReadHole \/ ReadModule \/ ModulesEnd
           \/ ReadStack \/ StoreItem \/ StacksEnd
  PROVE  EftInv'
<1>1. Typed /\ Typed'
  BY NextSectionTyped, TurnTyped, ReadHoleTyped, ReadModuleTyped, ReadStackTyped, StoreItemTyped
     DEF EftInv
<1>2. phase \in {"sections", "modules", "stacks"}
  BY DEF NextSection, SectionsEnd, ReadHole, ReadModule, ReadingModule, ModulesEnd,
         ReadStack, StoreItem, StacksEnd
<1>3. PICK b, r \in 0..N : Reading(b, r)
  BY <1>2 DEF EftInv
<1>4. phase' \in {"sections", "modules", "stacks", "states", "fatal"}
  BY <1>2 DEF NextSection, SectionsEnd, ReadHole, ReadModule, ReadingModule, ModulesEnd,
         ReadStack, StoreItem, StacksEnd
<1>5. CASE phase' = "fatal"
  BY <1>1, <1>5 DEF EftInv
<1>6. CASE phase' # "fatal"
  <2>1. \E d, s \in 0..N' : Reading(d, s)'
    <3>1. CASE NextSection
      BY <1>1, <1>3, <3>1, NextSectionReads
    <3>2. CASE SectionsEnd
      BY <1>1, <1>3, <3>2, SectionsEndReads
    <3>3. CASE ReadHole
      <4>1. phase' = "modules"
        BY <1>6, <3>3 DEF ReadHole
      <4> QED BY <1>1, <1>3, <3>3, <4>1, ReadHoleReads
    <3>4. CASE ReadModule
      BY <1>1, <1>3, <3>4, ReadModuleReads
    <3>5. CASE ModulesEnd \/ StacksEnd
      BY <1>1, <1>3, <3>5, SectionLeft
    <3>6. CASE ReadStack
      BY <1>1, <1>3, <3>6, ReadStackReads
    <3>7. CASE StoreItem
      BY <1>1, <1>3, <3>7, StoreItemReads
    <3> QED BY <3>1, <3>2, <3>3, <3>4, <3>5, <3>6, <3>7
  <2> QED BY <1>1, <1>4, <1>6, <2>1 DEF EftInv
<1> QED BY <1>5, <1>6

\* A fit that is to be calculated is true to its text and its letters.
LEMMA StatesKeep ==
  ASSUME EftInv, SetStates \/ NoLetters
  PROVE  EftInv'
<1>1. Typed /\ phase = "states" /\ phase' = "calculate"
  BY DEF EftInv, SetStates, NoLetters
<1>2. Typed'
  BY <1>1, StatesSet, TurnTyped
<1>3. PICK b, r \in 0..N : Reading(b, r)
  BY <1>1 DEF EftInv
<1>4. ModulesRead(N) /\ StacksStored(N)
  BY <1>1, <1>3, WholeRead
<1>5. SlotsTrue /\ StacksKept
  BY <1>1, <1>4, SlotsRead, StacksRead DEF Typed, Sourced, TypeOK
<1>6. UNCHANGED input /\ UNCHANGED <<input, drones, cargo>>
  BY DEF SetStates, NoLetters, fit
<1>7. StacksKept'
  BY <1>1, <1>5, <1>6, StacksStay
<1>8. SlotsTrue' /\ StatesAsked'
  <2>1. CASE SetStates
    <3>1. /\ Len(modules') = Len(modules) /\ DOMAIN modules' = DOMAIN modules
          /\ \A k \in DOMAIN modules :
               /\ modules'[k].type = modules[k].type /\ modules'[k].slot = modules[k].slot
               /\ modules'[k].index = modules[k].index
      <4>1. /\ DOMAIN modules' = 1..Len(modules) /\ DOMAIN modules = 1..Len(modules)
            /\ Typed' /\ Len(modules) \in Nat
        BY <1>1, <2>1, StatesSet
      <4> QED BY <1>1, <2>1, <4>1, StatesSet
    <3> QED BY <1>1, <1>4, <1>5, <1>6, <2>1, <3>1, SlotsStay, StatesRuled
  <2>2. CASE NoLetters
    <3>1. modules' = modules
      BY <2>2 DEF NoLetters, fit
    <3> QED BY <1>1, <1>4, <1>5, <1>6, <2>2, <3>1, SlotsStay, StatesUnset
  <2> QED BY <2>1, <2>2
<1> QED BY <1>1, <1>2, <1>7, <1>8 DEF EftInv

\* What is shown of a fit is true to its letters, and the fit stays as it is.
LEMMA CalculateKeeps ==
  ASSUME EftInv, Calculate
  PROVE  EftInv'
<1>1. phase = "calculate" /\ phase' = "done" /\ Typed /\ StatesAsked /\ SlotsTrue /\ StacksKept
  BY DEF EftInv, Calculate
<1>2. UNCHANGED input /\ UNCHANGED <<input, drones, cargo>> /\ modules' = modules
  BY DEF Calculate, fit
<1>3. Typed' /\ StatesObeyed'
  BY <1>1, StatesShown
<1>4. SlotsTrue' /\ StacksKept'
  BY <1>1, <1>2, SlotsStay, StacksStay
<1> QED BY <1>1, <1>3, <1>4 DEF EftInv

\* An import that fails leaves its types.
LEMMA FailureKeeps ==
  ASSUME EftInv, ReadBlanks \/ NoFittingSlot \/ WrongCount
  PROVE  EftInv'
<1>1. phase' \in {"fatal", "thrown"}
  BY DEF ReadBlanks, NoFittingSlot, WrongCount
<1>2. Typed'
  BY TurnTyped DEF EftInv
<1> QED BY <1>1, <1>2 DEF EftInv

\* What is over changes no more.
LEMMA StutterKeeps ==
  ASSUME EftInv, UNCHANGED vars
  PROVE  EftInv'
<1>1. /\ UNCHANGED <<text, letters, named, phase, unread, current, sections, section>>
      /\ UNCHANGED <<moduleSlots, items, areDrones, modules, drones, cargo, onShip>>
  BY DEF vars, input, iter, local, fit
<1>2. Typed'
  BY TurnTyped DEF EftInv
<1>3. N' = N
  BY <1>1 DEF N, Lines
<1>4. Untouched' = Untouched /\ Start' = Start /\ Splitting' = Splitting
  BY <1>1 DEF Untouched, Start, Splitting, Sectioned, Found, End, Copied, Opens, Filled,
              Whole, Blank, N, Line, Lines
<1>5. \A b, r : Reading(b, r)' <=> Reading(b, r)
  BY <1>1 DEF Reading, Placed, Counted, ModulesRead, Lists, ModuleOf, StacksStored, DronesStored,
              CargoStored, StacksHeld, StackOf, DronesTo, CargoTo, OfType, Sectioned, Found, End, Copied, Opens, Filled,
              Whole, Blank, N, Line, Lines, Taking, TakenBy, LineType, ModuleLines, StackLines,
              Together, OfDrones, SectionAround, Pieces, TypeNameToId
<1>6. SlotsTrue' = SlotsTrue /\ StacksKept' = StacksKept
  BY <1>1 DEF SlotsTrue, StacksKept, Taking, TakenBy, LineType, ModuleLines, StackLines, NthModule,
              NthCargo, Nth, Together, OfDrones, SectionAround, Pieces, TypeNameToId, Line, Lines, DroneLines,
              CargoLines
<1>7. StatesObeyed' = StatesObeyed /\ StatesAsked' = StatesAsked
  BY <1>1 DEF StatesObeyed, StatesAsked, Asked, FirstAt, SameSlot, Shown, ModuleLines, NthModule, Nth,
              Line, Lines
<1> QED BY <1>1, <1>2, <1>3, <1>4, <1>5, <1>6, <1>7 DEF EftInv
-----------------------------------------------------------------------------
(* The theorems. *)

\* The reading of every text keeps its place in it: what has been read is what
\* its lines up to there say.
THEOREM EftInductive == Spec => []EftInv
<1>1. Init => EftInv
  <2> SUFFICES ASSUME Init PROVE EftInv
    OBVIOUS
  <2>1. Typed
    BY InitTyped
  <2>2. Untouched /\ Start /\ phase = "header"
    BY DEF Init, Untouched, Start, Lines
  <2> QED BY <2>1, <2>2 DEF EftInv
<1>2. EftInv /\ [Next]_vars => EftInv'
  <2> SUFFICES ASSUME EftInv, [Next]_vars PROVE EftInv'
    OBVIOUS
  <2> QED BY SplitKeeps, ReadingKeeps, StatesKeep, CalculateKeeps, FailureKeeps, StutterKeeps
          DEF Next, LoadEft, Over
<1> QED BY <1>1, <1>2, PTL DEF Spec

\* Whatever is imported, every variable keeps its type (Eft.swift loadEft).
THEOREM TypesHold == Spec => []TypeOK
<1>1. EftInv => TypeOK
  BY DEF EftInv, Typed
<1> QED BY <1>1, EftInductive, PTL

\* What the invariant says of a fit whose states are to be set.
LEMMA ReadWhole ==
  ASSUME EftInv
  PROVE  SlotsTrue /\ StacksKept
<1>1. CASE phase = "states"
  <2>1. PICK b, r \in 0..N : Reading(b, r)
    BY <1>1 DEF EftInv
  <2>2. Typed /\ text \in Texts
    BY DEF EftInv, Typed, Sourced
  <2>3. ModulesRead(N) /\ StacksStored(N)
    BY <1>1, <2>1, <2>2, WholeRead
  <2> QED BY <2>2, <2>3, SlotsRead, StacksRead DEF Typed, TypeOK
<1>2. CASE phase \in {"calculate", "done"}
  BY <1>2 DEF EftInv
<1>3. CASE phase \notin {"states", "calculate", "done"}
  BY <1>3 DEF SlotsTrue, StacksKept
<1> QED BY <1>1, <1>2, <1>3

\* For every text a fit is read whole: it has the modules of the text in their
\* order, each in the slot and with the index that its line has in its section
\* (EFT.swift loadEft).
THEOREM SlotsHold == Spec => []SlotsTrue
<1>1. EftInv => SlotsTrue
  BY ReadWhole
<1> QED BY <1>1, EftInductive, PTL

\* For every text what is stacked is there: as many drones of each type as there
\* are pieces in sections of drones, and the cargo of the other sections stack by
\* stack, with its types and quantities (EFT.swift loadEft).
THEOREM StacksHold == Spec => []StacksKept
<1>1. EftInv => StacksKept
  BY ReadWhole
<1> QED BY <1>1, EftInductive, PTL

\* For every text, state string and table of effects the output shows for a slot
\* the highest state that the type of the first module there permits, up to the
\* one its letter asks for (DogmaEngine.swift runDogmaEngine, after Pass2.swift
\* collectEffects).
THEOREM StatesHold == Spec => []StatesObeyed
<1>1. EftInv => StatesObeyed
  BY DEF EftInv, StatesObeyed
<1> QED BY <1>1, EftInductive, PTL
=============================================================================
