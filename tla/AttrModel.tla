------------------------------ MODULE AttrModel ------------------------------
(***************************************************************************)
(* What an attribute is worth, from the contents of the fits alone: the    *)
(* reference that the calculation service of eos/calculator is measured    *)
(* against, and the parts of it that are pure (which modifiers act on what,*)
(* what a modifier reads).                                                 *)
(*                                                                         *)
(* Items sit in seats: the ship and character of a fit, a place in one of  *)
(* its racks, the charge of a module.  A cell <<i, a>> is attribute a of   *)
(* item i.  An affector spec is an item with one of the modifiers of its   *)
(* running effects.                                                        *)
(***************************************************************************)
EXTENDS Naturals, FiniteSets

CONSTANTS
  None,
  Fits,
  Items,
  FitOf,        \* the fit each item may sit on
  Seats,
  SeatOf,       \* the seat each item may sit in
  Owner,        \* the module whose charge sits in this seat; None: the fit's
  ShipSeat, CharacterSeat,   \* of each fit
  Attrs,
  MaxAttr,      \* Attribute.max_attr_id, or None
  Cells,        \* cells with a base value, on the type or by default
  Keys,         \* <<filter, domain, extra argument>> of en-masse modifiers
  KeysOf,       \* the keys under which AffectionRegister stores each item
  Effects,
  EffectsOf,    \* Type.effects of each item
  Modifiers,    \* Effect.local_modifiers of each effect
  Mass,         \* AttrId.mass, which propulsion modifiers read off the ship
  Paste,        \* items of type nanite repair paste
  Depth,        \* of a cell: what it is calculated from lies deeper down
  Compute(_, _, _)  \* value of a cell from its modifications and its cap

Filters == {"self", "ship", "character", "other", "mass"}
Modifier == [filter : Filters, key : Keys \cup {None}, attr : Attrs,
             from : Attrs, kind : {"dogma", "propulsion", "ancillary"}]

ASSUME ModelAssumption ==
  /\ FitOf \in [Items -> Fits]
  /\ SeatOf \in [Items -> Seats]
  /\ Owner \in [Seats -> Items \cup {None}]
  /\ ShipSeat \in [Fits -> Seats] /\ CharacterSeat \in [Fits -> Seats]
  /\ MaxAttr \in [Attrs -> Attrs \cup {None}]
  /\ Cells \subseteq Items \X Attrs
  /\ KeysOf \in [Items -> SUBSET Keys]
  /\ EffectsOf \in [Items -> SUBSET Effects]
  /\ Modifiers \in [Effects -> SUBSET Modifier]
  /\ \A d, e \in Effects : d # e => Modifiers[d] \cap Modifiers[e] = {}
  \* A charge sits in a module of its fit, and nothing sits in a charge.
  /\ \A i, j \in Items :
       Owner[SeatOf[i]] = j => FitOf[i] = FitOf[j] /\ Owner[SeatOf[j]] = None
  /\ \A f \in Fits, i \in Items :
       SeatOf[i] \in {ShipSeat[f], CharacterSeat[f]} => FitOf[i] = f
  /\ None \notin Items \cup Seats \cup Attrs \cup Keys
  /\ IsFiniteSet(Cells) /\ Paste \subseteq Items
  \* The python modifiers name their filter: a propulsion module acts on its
  \* ship, an ancillary repairer on itself.
  /\ \A e \in Effects : \A m \in Modifiers[e] :
       /\ m.kind = "propulsion" => m.filter = "ship"
       /\ m.kind = "ancillary" => m.filter = "self"

LocalSpecs(i, effects) ==
  {[item |-> i, mod |-> m] : m \in UNION {Modifiers[e] : e \in effects}}
Specs == UNION {LocalSpecs(i, EffectsOf[i]) : i \in Items}
-----------------------------------------------------------------------------
(* The operators below take seat, the contents of the seats.               *)

Seated(seat, i) == seat[SeatOf[i]] = i
OnFit(seat, i) ==
  /\ Seated(seat, i)
  /\ Owner[SeatOf[i]] # None => Seated(seat, Owner[SeatOf[i]])

Ship(seat, f) == seat[ShipSeat[f]]
Character(seat, f) == seat[CharacterSeat[f]]

\* BaseItemMixin._others: a charge and the module it sits in.
Others(seat, i) ==
  {j \in Items : \/ Owner[SeatOf[j]] = i /\ Seated(seat, j)
                 \/ Owner[SeatOf[i]] = j /\ Seated(seat, i)}

\* The one item that a self, ship or character modifier acts on.
Target(seat, s) ==
  CASE s.mod.filter = "self" -> s.item
    [] s.mod.filter = "ship" -> Ship(seat, FitOf[s.item])
    [] s.mod.filter = "character" -> Character(seat, FitOf[s.item])

InMass(s, i) == s.mod.key \in KeysOf[i] /\ FitOf[s.item] = FitOf[i]

\* Whether affector spec s is meant to modify item i.
Affects(seat, s, i) ==
  CASE s.mod.filter = "mass" -> InMass(s, i)
    [] s.mod.filter = "other" -> i \in Others(seat, s.item)
    [] OTHER -> i = Target(seat, s)

\* The cells that get_modification of each kind of modifier reads.
HasPaste(seat, i) == \E c \in Paste : Owner[SeatOf[c]] = i /\ Seated(seat, c)
ModReads(seat, s) ==
  CASE s.mod.kind = "dogma" -> {<<s.item, s.mod.from>>}
    [] s.mod.kind = "propulsion" ->
         {<<s.item, s.mod.from>>, <<Ship(seat, FitOf[s.item]), Mass>>}
    [] s.mod.kind = "ancillary" ->
         IF HasPaste(seat, s.item) THEN {<<s.item, s.mod.from>>} ELSE {}

\* A modifier whose reads fail adds nothing, an unreadable cap caps nothing.
Modifying(seat, specs, a) ==
  {s \in specs : s.mod.attr = a /\ ModReads(seat, s) \subseteq Cells}
CapOf(c) ==
  {d \in Cells : d[1] = c[1] /\ d[2] = MaxAttr[c[2]]}
Reads(seat, specs, c) ==
  CapOf(c) \cup UNION {ModReads(seat, s) : s \in Modifying(seat, specs, c[2])}

\* MutableAttrMap.__calculate: value is what reading other cells returns.
Calculated(seat, specs, c, value) ==
  Compute(c,
          {<<s, {<<d, value[d]>> : d \in ModReads(seat, s)}>> :
             s \in Modifying(seat, specs, c[2])},
          {value[d] : d \in CapOf(c)})

\* What is calculated from itself, however far around, has no value: the
\* recursion of __getitem__ would not end.
Seatings ==
  {st \in [Seats -> Items \cup {None}] :
     \A p \in Seats : st[p] # None => SeatOf[st[p]] = p}
ASSUME DepthAssumption ==
  /\ Depth \in [Cells -> 0..Cardinality(Cells)]
  /\ \A c \in Cells : \A d \in CapOf(c) : Depth[d] < Depth[c]
  /\ \A st \in Seatings, s \in Specs, c \in Cells :
       Affects(st, s, c[1]) /\ c[2] = s.mod.attr =>
         \A d \in ModReads(st, s) \cap Cells : Depth[d] < Depth[c]

\* The specs that act on item i, from the loaded items and what they run.
ActingOn(seat, loaded, running, i) ==
  {s \in UNION {LocalSpecs(j, running[j]) : j \in loaded} : Affects(seat, s, i)}

\* A value calculated from these values, and the values of all cells, from the
\* loaded items and what they run alone.
ValueFrom(seat, loaded, running, c, all) ==
  LET specs == ActingOn(seat, loaded, running, c[1])
  IN Calculated(seat, specs, c, [d \in Reads(seat, specs, c) |-> all[d]])
Ideal(seat, loaded, running, override) ==
  LET exposed[c \in Cells] ==
        IF c \in DOMAIN override THEN override[c]
        ELSE ValueFrom(seat, loaded, running, c, exposed)
  IN [c \in Cells |-> ValueFrom(seat, loaded, running, c, exposed)]
=============================================================================
