----------------------------- MODULE EftImport ------------------------------
(***************************************************************************)
(* What runDogmaEngine does around its calculation: loadEft reads a fit    *)
(* from EFT text, line by line and section by section, and the state       *)
(* string then sets the modules of the three racks by their slots.  The    *)
(* result is the fit that DogmaPasses starts from; of its passes this has  *)
(* what the output shows of a module, the state that pass 2 leaves it.     *)
(*                                                                         *)
(* A line is a record of what it says: nothing, blanks only, an empty slot, *)
(* a module with its charge, or a stack, "name x5".  What ends a line is   *)
(* any newline character: in a text with \r\n every other line is empty.   *)
(***************************************************************************)
EXTENDS Integers, Sequences, FiniteSets

CONSTANTS
  Texts,      \* the texts: header and lines
  Letters,    \* what state may be given: NoState, or a sequence of letters
  NoState, NoCharge, NoSlot,
  Types,      \* keys of Data.types
  NameOf,     \* name of each type
  EffectSlots,\* for each type the slot effects among its effects, in order
  GroupOf, OwnCategory, GroupCategory,   \* of Data.types and Data.groups
  EffectStates,    \* for each type the categories of its effects, up to overload
  NeedsCapacitor,  \* types with attribute capacitorNeed
  PerRack     \* letters for each rack: 8

Racks == <<"high", "medium", "low">>
Slots == {"high", "medium", "low", "rig", "subSystem", "service"}
States == {"passive", "online", "active", "overload"}
DroneCategory == 18
NoType == 0

LineOK(line) ==
  \/ line.kind \in {"empty", "blanks"}
  \/ line.kind = "hole" /\ line.slot \in Slots
  \/ line.kind = "module" /\ line.offline \in BOOLEAN
  \/ line.kind = "stack" /\ line.quantity \in Nat

ASSUME EftAssumption ==
  /\ NoType \notin Types /\ PerRack \in Nat /\ NoSlot \notin Slots
  /\ \A t \in Types : EffectSlots[t] \in Seq(Slots)
  /\ \A t \in Types : EffectStates[t] \subseteq States
  /\ \A given \in Texts :
       /\ given.header \in {"ship", "empty", "none"}
       /\ given.lines \in Seq({given.lines[k] : k \in DOMAIN given.lines})
       /\ \A k \in DOMAIN given.lines : LineOK(given.lines[k])

VARIABLES
  text, letters,   \* arguments eftString and state
  named,           \* the types that SimpleInfo.typeNameToIdMap leads to
  phase,
  unread,          \* lines sectionIter has still to read
  current,         \* lines of the section sectionIter is at
  sections,        \* the sections found and not yet read
  section,         \* what is left of the one being read
  moduleSlots,     \* counters of the section's slots
  items, areDrones,\* locals for a section of stacks
  modules, drones, cargo,
  onShip           \* Ship.items as calculate() returns them, the modules of them

input == <<text, letters, named>>
iter == <<unread, current>>
local == <<moduleSlots, items, areDrones>>
fit == <<modules, drones, cargo>>
vars == <<input, phase, iter, sections, section, local, fit, onShip>>
-----------------------------------------------------------------------------
(* Data and SimpleInfo. *)

\* The category of the type's group, if the group is known.
Category(t) ==
  IF t \notin Types THEN 0
  ELSE IF GroupOf[t] \in DOMAIN GroupCategory THEN GroupCategory[GroupOf[t]]
  ELSE OwnCategory[t]

\* The map is filled in the random order of a dictionary: of types with one
\* name the last one stays.
NameMaps ==
  {kept \in SUBSET Types :
     /\ \A t \in Types : \E u \in kept : NameOf[u] = NameOf[t]
     /\ \A t, u \in kept : NameOf[t] = NameOf[u] => t = u}
TypeNameToId(name) ==
  IF \E t \in named : NameOf[t] = name
  THEN CHOOSE t \in named : NameOf[t] = name
  ELSE NoType

\* findSlotTypeIndex goes by the first effect that is one of a slot.
SlotOf(t) ==
  IF t \in Types /\ EffectSlots[t] # <<>> THEN EffectSlots[t][1] ELSE NoSlot
-----------------------------------------------------------------------------
(* loadEft *)

Init ==
  /\ text \in Texts /\ letters \in Letters
  /\ named \in NameMaps
  /\ phase = "header"
  /\ unread = text.lines
  /\ current = <<>> /\ sections = <<>> /\ section = <<>>
  /\ moduleSlots = [s \in Slots |-> 0]
  /\ items = <<>> /\ areDrones = TRUE
  /\ modules = <<>> /\ drones = <<>> /\ cargo = <<>>
  /\ onShip = <<>>

\* A header is "[ship, name]", "[]", whose parts[0] there is not, or none.
Header ==
  /\ phase = "header"
  /\ phase' = CASE text.header = "ship" -> "split"
                [] text.header = "empty" -> "fatal"
                [] text.header = "none" -> "thrown"
  /\ UNCHANGED <<input, iter, sections, section, local, fit, onShip>>

\* sectionIter: an empty line ends a section, if there is one to end.
SplitLine ==
  /\ phase = "split" /\ unread # <<>>
  /\ unread' = Tail(unread)
  /\ IF Head(unread).kind # "empty"
     THEN current' = Append(current, Head(unread)) /\ sections' = sections
     ELSE /\ current' = <<>>
          /\ sections' = IF current = <<>> THEN sections ELSE Append(sections, current)
  /\ UNCHANGED <<input, phase, section, local, fit, onShip>>

SplitEnd ==
  /\ phase = "split" /\ unread = <<>>
  /\ phase' = "sections"
  /\ current' = <<>>
  /\ sections' = IF current = <<>> THEN sections ELSE Append(sections, current)
  /\ UNCHANGED <<input, unread, section, local, fit, onShip>>

IsModuleSection(lines) == \E k \in DOMAIN lines : lines[k].kind # "stack"

\* Slots are counted anew, and stacks taken for drones, in each section.
NextSection ==
  /\ phase = "sections" /\ sections # <<>>
  /\ section' = Head(sections) /\ sections' = Tail(sections)
  /\ phase' = IF IsModuleSection(Head(sections)) THEN "modules" ELSE "stacks"
  /\ moduleSlots' = [s \in Slots |-> 0]
  /\ items' = <<>> /\ areDrones' = TRUE
  /\ UNCHANGED <<input, iter, fit, onShip>>

SectionsEnd ==
  /\ phase = "sections" /\ sections = <<>>
  /\ phase' = "states"
  /\ UNCHANGED <<input, iter, sections, section, local, fit, onShip>>

\* Mutant of ReadHole: an empty slot is skipped without being counted.
ReadHoleUncounted ==
  /\ phase = "modules" /\ section # <<>> /\ Head(section).kind = "hole"
  /\ section' = Tail(section)
  /\ phase' = IF Head(section).slot = "service" THEN "fatal" ELSE phase
  /\ moduleSlots' = moduleSlots
  /\ UNCHANGED <<input, iter, sections, items, areDrones, fit, onShip>>

\* An empty slot; there is no form of it for service slots.
ReadHole ==
  /\ phase = "modules" /\ section # <<>> /\ Head(section).kind = "hole"
  /\ section' = Tail(section)
  /\ IF Head(section).slot = "service"
     THEN phase' = "fatal" /\ moduleSlots' = moduleSlots
     ELSE phase' = phase /\ moduleSlots' = [moduleSlots EXCEPT ![Head(section).slot] = @ + 1]
  /\ UNCHANGED <<input, iter, sections, items, areDrones, fit, onShip>>

\* A line of blanks has no part that could name a module: parts[0].
ReadBlanks ==
  /\ phase = "modules" /\ section # <<>> /\ Head(section).kind = "blanks"
  /\ phase' = "fatal"
  /\ UNCHANGED <<input, iter, sections, section, local, fit, onShip>>

\* The type a line of a section of modules stands for.  "name x5" is no name.
LineType(line) == IF line.kind = "module" THEN TypeNameToId(line.name) ELSE NoType
ReadingModule ==
  phase = "modules" /\ section # <<>> /\ Head(section).kind \in {"module", "stack"}

ReadModule ==
  /\ ReadingModule
  /\ LET line == Head(section)
         slot == SlotOf(LineType(line))
     IN /\ slot # NoSlot
        /\ moduleSlots' = [moduleSlots EXCEPT ![slot] = @ + 1]
        /\ modules' = Append(modules,
             [type |-> LineType(line), slot |-> slot, index |-> moduleSlots[slot],
              state |-> IF line.offline THEN "passive" ELSE "active",
              charge |-> IF line.charge = NoCharge THEN NoCharge
                         ELSE TypeNameToId(line.charge)])
  /\ section' = Tail(section)
  /\ UNCHANGED <<input, phase, iter, sections, items, areDrones, drones, cargo, onShip>>

NoFittingSlot ==
  /\ ReadingModule
  /\ SlotOf(LineType(Head(section))) = NoSlot
  /\ phase' = "thrown"
  /\ UNCHANGED <<input, iter, sections, section, local, fit, onShip>>

ModulesEnd ==
  /\ phase = "modules" /\ section = <<>>
  /\ phase' = "sections"
  /\ UNCHANGED <<input, iter, sections, section, local, fit, onShip>>

\* Mutant of ReadStack: the last stack alone decides.
ReadStackLast ==
  /\ phase = "stacks" /\ section # <<>>
  /\ LET t == TypeNameToId(Head(section).name)
     IN /\ areDrones' = (Category(t) = DroneCategory)
        /\ items' = Append(items, [type |-> t, quantity |-> Head(section).quantity])
  /\ section' = Tail(section)
  /\ UNCHANGED <<input, phase, iter, sections, moduleSlots, fit, onShip>>

ReadStack ==
  /\ phase = "stacks" /\ section # <<>>
  /\ LET t == TypeNameToId(Head(section).name)
     IN /\ areDrones' = (areDrones /\ Category(t) = DroneCategory)
        /\ items' = Append(items, [type |-> t, quantity |-> Head(section).quantity])
  /\ section' = Tail(section)
  /\ UNCHANGED <<input, phase, iter, sections, moduleSlots, fit, onShip>>

\* The loop over items: drones one by one, or cargo.
StoreItem ==
  /\ phase = "stacks" /\ section = <<>> /\ items # <<>>
  /\ IF areDrones
     THEN /\ drones' = drones \o [k \in 1..Head(items).quantity |->
                                    [type |-> Head(items).type, state |-> "active"]]
          /\ cargo' = cargo
     ELSE drones' = drones /\ cargo' = Append(cargo, Head(items))
  /\ items' = Tail(items)
  /\ UNCHANGED <<input, phase, iter, sections, section, moduleSlots, areDrones, modules, onShip>>

\* Mutant of StacksEnd: the section may be left before all items are stored.
StacksEndEarly ==
  /\ phase = "stacks" /\ section = <<>>
  /\ phase' = "sections"
  /\ UNCHANGED <<input, iter, sections, section, local, fit, onShip>>

StacksEnd ==
  /\ phase = "stacks" /\ section = <<>> /\ items = <<>>
  /\ phase' = "sections"
  /\ UNCHANGED <<input, iter, sections, section, local, fit, onShip>>
-----------------------------------------------------------------------------
(* The state string. *)

ParseState(letter) ==
  CASE letter = "P" -> "passive" [] letter = "O" -> "online"
    [] letter = "V" -> "overload" [] OTHER -> "active"

SameSlot(m, n) == m.slot = n.slot /\ m.index = n.index
\* The module that firstIndex finds for its slot.
FirstAt(k) == \A j \in 1..(k - 1) : ~SameSlot(modules[j], modules[k])

\* Mutant of LetterAt: low slots have the second eight letters.
LetterAtMixed(m) ==
  {letters[(r - 1) * PerRack + m.index + 1] :
     r \in {q \in DOMAIN Racks : Racks[IF q = 1 THEN 1 ELSE 5 - q] = m.slot /\ m.index < PerRack}}

\* The letter for the slot of a module, if there is one.
LetterAt(m) ==
  {letters[(r - 1) * PerRack + m.index + 1] :
     r \in {q \in DOMAIN Racks : Racks[q] = m.slot /\ m.index < PerRack}}

SetStates ==
  /\ phase = "states" /\ letters # NoState
  /\ Len(letters) = Len(Racks) * PerRack
  /\ modules' = [k \in DOMAIN modules |->
       IF FirstAt(k) /\ LetterAt(modules[k]) # {}
       THEN [modules[k] EXCEPT !.state = ParseState(CHOOSE c \in LetterAt(modules[k]) : TRUE)]
       ELSE modules[k]]
  /\ phase' = "calculate"
  /\ UNCHANGED <<input, iter, sections, section, local, drones, cargo, onShip>>

WrongCount ==
  /\ phase = "states" /\ letters # NoState
  /\ Len(letters) # Len(Racks) * PerRack
  /\ phase' = "thrown"
  /\ UNCHANGED <<input, iter, sections, section, local, fit, onShip>>

NoLetters ==
  /\ phase = "states" /\ letters = NoState
  /\ phase' = "calculate"
  /\ UNCHANGED <<input, iter, sections, section, local, fit, onShip>>
-----------------------------------------------------------------------------
(* The calculation, and the states in its output. *)

\* EffectCategory goes up from passive to overload.
Rank(s) == CASE s = "passive" -> 0 [] s = "online" -> 1 [] s = "active" -> 2 [] OTHER -> 3

\* The highest of passive, the categories of the effects, and active if the type
\* needs capacitor.
MaxState(t) ==
  LET raised == {"passive"} \cup EffectStates[t] \cup {s \in {"active"} : t \in NeedsCapacitor}
  IN CHOOSE s \in raised : \A r \in raised : Rank(r) <= Rank(s)
Clamped(m) ==
  IF Rank(m.state) <= Rank(MaxState(m.type)) THEN m ELSE [m EXCEPT !.state = MaxState(m.type)]

Calculate ==
  /\ phase = "calculate"
  /\ phase' = "done"
  /\ onShip' = [k \in DOMAIN modules |-> Clamped(modules[k])]
  /\ UNCHANGED <<input, iter, sections, section, local, fit>>

\* effectCategoryToName
Shown(slot, index) ==
  LET at == {k \in DOMAIN onShip : onShip[k].slot = slot /\ onShip[k].index = index}
  IN IF at = {} THEN "empty"
     ELSE onShip[CHOOSE k \in at : \A j \in at : k <= j].state

Over == phase \in {"done", "thrown", "fatal"} /\ UNCHANGED vars

LoadEft ==
  \/ Header \/ SplitLine \/ SplitEnd \/ NextSection \/ SectionsEnd
  \/ ReadHole \/ ReadBlanks \/ ReadModule \/ NoFittingSlot \/ ModulesEnd
  \/ ReadStack \/ StoreItem \/ StacksEnd
Next == LoadEft \/ SetStates \/ WrongCount \/ NoLetters \/ Calculate \/ Over

Spec == Init /\ [][Next]_vars
-----------------------------------------------------------------------------
ModuleType ==
  [type : Types, slot : Slots, index : Nat, state : States, charge : Types \cup {NoCharge, NoType}]
Stack == [type : Types \cup {NoType}, quantity : Nat]

\* Every variable keeps its type; stacks are held only while they are read.
TypeOK ==
  /\ phase \in {"header", "split", "sections", "modules", "stacks", "states",
                "calculate", "done", "thrown", "fatal"}
  /\ named \subseteq Types
  /\ moduleSlots \in [Slots -> Nat]
  /\ modules \in Seq(ModuleType) /\ onShip \in Seq(ModuleType) /\ cargo \in Seq(Stack)
  /\ drones \in Seq([type : Types, state : {"active"}])
  /\ items \in Seq(Stack) /\ (items # <<>> => phase = "stacks")
  /\ areDrones \in BOOLEAN

\* Lines of the text, as a reader of the fit counts them: the module lines, the
\* lines that take a slot of a rack, whether those are all in one section.
Lines == text.lines
Line(k) == Lines[k]
TakenBy(line) ==
  IF line.kind = "hole" THEN line.slot
  ELSE IF line.kind = "module" THEN SlotOf(LineType(line)) ELSE NoSlot
Taking(slot) == {k \in DOMAIN Lines : TakenBy(Line(k)) = slot}
Together(lines) ==
  \A j, k \in lines : \A i \in j..k : Line(i).kind # "empty"
ModuleLines == {k \in DOMAIN Lines : Line(k).kind = "module"}
\* The n-th of some lines.
Nth(lines, n) == CHOOSE k \in lines : Cardinality({j \in lines : j <= k}) = n
NthModule(n) == Nth(ModuleLines, n)

\* A fit is read whole: its modules are those of the text, in order and under
\* their names, in the slots of their types, and the index of each is the number
\* of lines before it in its own section that take such a slot, empty slots
\* being counted: two sections may give one slot to two modules.
SlotsTrue ==
  phase \in {"states", "calculate", "done"} =>
    /\ Len(modules) = Cardinality(ModuleLines)
    /\ \A n \in DOMAIN modules :
         LET m == modules[n] place == NthModule(n)
         IN /\ NameOf[m.type] = Line(place).name
            /\ m.slot = TakenBy(Line(place))
            /\ m.index = Cardinality({k \in Taking(m.slot) : k < place /\ Together({k, place})})

\* All that is stacked is a drone or cargo: it is drones where its section is of
\* drones only, of each type as many as its stacks have pieces, and elsewhere it
\* is cargo, stack by stack in the text's order, in the text's quantities.
StackLines == {k \in DOMAIN Lines : Line(k).kind = "stack"}
SectionAround(k) == {j \in DOMAIN Lines : Together({j, k})}
OfDrones(k) ==
  \A j \in SectionAround(k) : Category(TypeNameToId(Line(j).name)) = DroneCategory
DroneLines(t) == {k \in StackLines : TypeNameToId(Line(k).name) = t /\ OfDrones(k)}
CargoLines == {k \in StackLines : ~OfDrones(k)}
\* Each piece of the stacks on these lines.
Pieces(lines) == UNION {{k} \X (1..Line(k).quantity) : k \in lines}
NthCargo(n) == Nth(CargoLines, n)
StacksKept ==
  phase \in {"states", "calculate", "done"} =>
    /\ \A t \in Types :
         Cardinality({k \in DOMAIN drones : drones[k].type = t}) =
           Cardinality(Pieces(DroneLines(t)))
    /\ Len(cargo) = Cardinality(CargoLines)
    /\ \A n \in DOMAIN cargo :
         /\ cargo[n].type = TypeNameToId(Line(NthCargo(n)).name)
         /\ cargo[n].quantity = Line(NthCargo(n)).quantity

\* What is asked of the n-th module: the state that the letter of its slot says,
\* if it is the first there, and else the one that its line says.
Asked(n) ==
  LET m == modules[n]
      ruled == /\ letters # NoState
               /\ m.slot \in {"high", "medium", "low"} /\ m.index < PerRack
      place == (CASE m.slot = "high" -> 0 [] m.slot = "medium" -> PerRack
                  [] OTHER -> 2 * PerRack) + m.index + 1
  IN IF ruled /\ FirstAt(n) THEN ParseState(letters[place])
     ELSE IF Line(NthModule(n)).offline THEN "passive" ELSE "active"

\* The states a type can be in: every one up to that of one of its effects, up
\* to active if it needs capacitor.
Permits(t, s) ==
  \/ s = "passive"
  \/ \E c \in EffectStates[t] : Rank(s) <= Rank(c)
  \/ t \in NeedsCapacitor /\ Rank(s) <= Rank("active")
HighestUpTo(asked, t, s) ==
  /\ s \in States /\ Rank(s) <= Rank(asked) /\ Permits(t, s)
  /\ \A r \in States : Rank(r) <= Rank(asked) /\ Permits(t, r) => Rank(r) <= Rank(s)

\* The state string is obeyed as far as the types permit: for the slot of a
\* module that is the first there the output shows the highest state that its
\* type permits and that is not above the one asked for, and a module behind
\* another one in its slot is left to its line in the same way.
StatesObeyed ==
  phase = "done" =>
    \A n \in DOMAIN modules :
      HighestUpTo(Asked(n), modules[n].type,
                  IF FirstAt(n) THEN Shown(modules[n].slot, modules[n].index)
                                ELSE onShip[n].state)
=============================================================================
