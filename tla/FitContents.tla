---------------------------- MODULE FitContents ----------------------------
(***************************************************************************)
(* What is on one fit and the calls of its user that change it: eos/fit.py *)
(* with its containers, charges, item states, effect modes and the source  *)
(* of its solar system, as far as the registers of eos/restriction and     *)
(* eos/stats can tell contents apart.                                      *)
(***************************************************************************)
EXTENDS Integers, FiniteSets, Sequences, FiniteSetsExt, SequencesExt

CONSTANTS
    Items,          \* items of the user
    NoItem,         \* Python's None, also a hole in a rack
    Class,          \* [Items -> name of the item class]
    TypeId,         \* [Items -> type]
    Sources,        \* data sources
    NoSource,
    Catalogue,      \* [Sources -> [types known to it -> type record]]
    EffectState,    \* [effects -> state from which it runs]
    Boost,          \* [attributes -> what other modifiers add when boosted]
    Toggled,        \* bound: items whose effects the user may force to stop
    Casts,          \* bound: the items of one behaviour
    States,         \* bound: states the user sets
    MaxRack         \* bound: positions of a rack

offline == 1
online == 2
active == 3
overload == 4
State == offline..overload

Modules == {"ModuleHigh", "ModuleMid", "ModuleLow"}
Singles == {"Ship", "Character", "Stance", "EffectBeacon"}
Of(class) == {i \in Items : Class[i] = class}
Charges == Of("Charge")
Carriers == {i \in Items : Class[i] \in Modules}
Stateful == Carriers \cup Of("Drone") \cup Of("FighterSquad")

ASSUME ContentsAssumption ==
    /\ NoItem \notin Items /\ NoSource \notin Sources
    /\ Toggled \subseteq Items /\ States \subseteq State /\ MaxRack \in Nat
    /\ \A c \in Casts : c \subseteq Items /\ IsFiniteSet(c)

VARIABLES
    cast,           \* the items of this behaviour
    on,             \* the items in the containers of the fit
    racks,          \* the three racks of modules, with holes
    charge,         \* the charge of each module, or NoItem
    state,          \* the state of each item that has one of its own
    source,         \* the source of the fit's solar system
    boosted,        \* whether other modifiers act on attributes
    stopped         \* items whose passive effects are forced to stop

contents == <<cast, on, racks, charge, state, source, boosted, stopped>>

-----------------------------------------------------------------------------
(* The items of the fit.                                                   *)

Fit(class) == {i \in on : Class[i] = class}
\* Fit._item_iter without autocharges, on which no rule bears.
Fitted == on \cup ({charge[m] : m \in on \cap Carriers} \ {NoItem})
OnFit(i) == i \in on \/ (i \in Charges /\ \E m \in on \cap Carriers : charge[m] = i)
\* BaseItemMixin._load: an item is loaded when the source has its type.
IsLoaded(i) == source # NoSource /\ OnFit(i) /\ TypeId[i] \in DOMAIN Catalogue[source]
Type(i) == Catalogue[source][TypeId[i]]
\* A charge takes the state of its module; items of other classes have a fixed one.
StateOf(i) == IF i \in Charges
              THEN Max({state[m] : m \in {c \in Carriers : charge[c] = i}} \cup {offline})
              ELSE state[i]

\* _type_attrs: an empty dictionary when the item is not loaded.
TypeAttrs(i) == IF IsLoaded(i) THEN Type(i).attrs ELSE <<>>
Has(i, a) == i # NoItem /\ a \in DOMAIN TypeAttrs(i)
TypeAttr(i, a) == IF Has(i, a) THEN TypeAttrs(i)[a] ELSE 0
\* Modified attributes: what other modifiers add is one number here.
Attr(i, a) == IF ~Has(i, a) THEN 0
              ELSE TypeAttr(i, a) + (IF boosted /\ a \in DOMAIN Boost THEN Boost[a] ELSE 0)
\* What an attribute of a type can be, for assumptions on the catalogue.
Worths(type, a) ==
    {type.attrs[a]} \cup {type.attrs[a] + Boost[b] : b \in DOMAIN Boost \cap {a}}

Running(i) ==
    IF ~IsLoaded(i) THEN {}
    ELSE {e \in Type(i).effects :
            StateOf(i) >= EffectState[e] /\ (EffectState[e] = offline => i \notin stopped)}

Single(class) == IF Fit(class) = {} THEN NoItem ELSE CHOOSE i \in on : Class[i] = class
Ship == Single("Ship")

TypeOK ==
    /\ cast \in Casts
    /\ on \subseteq cast \ Charges
    /\ \A class \in Singles : \A i, j \in Fit(class) : i = j
    /\ racks \in [Modules -> Seq(Carriers \cup {NoItem})]
    /\ \A class \in Modules :
         LET rack == racks[class] IN
         /\ Len(rack) <= MaxRack
         /\ ToSet(rack) \ {NoItem} = Fit(class)
         /\ \A p, q \in DOMAIN rack : rack[p] = rack[q] /\ rack[p] # NoItem => p = q
    /\ charge \in [Carriers -> (cast \cap Charges) \cup {NoItem}]
    /\ \A m, n \in Carriers : charge[m] = charge[n] /\ charge[m] # NoItem => m = n
    /\ state \in [Items -> State]
    /\ source \in Sources \cup {NoSource}
    /\ boosted \in BOOLEAN /\ stopped \subseteq Toggled

-----------------------------------------------------------------------------
(* The calls.                                                              *)

\* ItemList._cleanup: no hole ends a rack.
Trim(rack) ==
    LET filled == {p \in DOMAIN rack : rack[p] # NoItem}
    IN  SubSeq(rack, 1, Max(filled \cup {0}))
\* ItemList._allocate
Allocate(rack, n) == [p \in 1..Max({n, Len(rack)}) |->
                        IF p \in DOMAIN rack THEN rack[p] ELSE NoItem]
Position(i) == CHOOSE p \in DOMAIN racks[Class[i]] : racks[Class[i]][p] = i
Rack(class, rack) == racks' = [racks EXCEPT ![class] = rack]
Aside == UNCHANGED <<cast, charge, state, source, boosted, stopped>>

\* A new item in a set, or as the fit's one item of a class, which it replaces.
Add(i) ==
    /\ i \in cast \ (on \cup Charges \cup Carriers)
    /\ Class[i] = "Skill" => \A s \in Fit("Skill") : TypeId[s] # TypeId[i]
    /\ on' = (IF Class[i] \in Singles THEN on \ Fit(Class[i]) ELSE on) \cup {i}
    /\ UNCHANGED racks /\ Aside

\* Mutant of Place: the position may be taken.
Place_taken(i, p) ==
    LET rack == racks[Class[i]] IN
    /\ i \in (cast \cap Carriers) \ on /\ p \in 1..MaxRack
    /\ on' = on \cup {i}
    /\ Rack(Class[i], [Allocate(rack, p) EXCEPT ![p] = i]) /\ Aside

\* ItemList.place, and append and equip, which place at the end and in the first hole.
Place(i, p) ==
    LET rack == racks[Class[i]] IN
    /\ i \in (cast \cap Carriers) \ on /\ p \in 1..MaxRack
    /\ p \in DOMAIN rack => rack[p] = NoItem
    /\ on' = on \cup {i}
    /\ Rack(Class[i], [Allocate(rack, p) EXCEPT ![p] = i]) /\ Aside

\* ItemList.insert shifts the tail of the rack.
Insert(i, p) ==
    LET rack == racks[Class[i]] IN
    /\ i \in (cast \cap Carriers) \ on /\ p \in DOMAIN rack /\ Len(rack) < MaxRack
    /\ on' = on \cup {i}
    /\ Rack(Class[i], InsertAt(rack, p, i)) /\ Aside

\* remove or discard of a set, None to the fit's one item of a class, ItemList.remove.
RemoveItem(i) ==
    /\ i \in on
    /\ on' = on \ {i}
    /\ IF i \in Carriers THEN Rack(Class[i], Trim(RemoveAt(racks[Class[i]], Position(i))))
                         ELSE UNCHANGED racks
    /\ Aside

\* Mutant of Free: empty positions stay at the end.
Free_untrimmed(i) ==
    /\ i \in on \cap Carriers
    /\ on' = on \ {i}
    /\ Rack(Class[i], [racks[Class[i]] EXCEPT ![Position(i)] = NoItem]) /\ Aside

\* ItemList.free leaves a hole.
Free(i) ==
    /\ i \in on \cap Carriers
    /\ on' = on \ {i}
    /\ Rack(Class[i], Trim([racks[Class[i]] EXCEPT ![Position(i)] = NoItem])) /\ Aside

\* The charge of a module is set, replaced or taken out.
SetCharge(m, c) ==
    /\ m \in cast \cap Carriers /\ c \in (cast \cap Charges) \cup {NoItem} /\ c # charge[m]
    /\ c # NoItem => \A n \in Carriers : charge[n] # c
    /\ charge' = [charge EXCEPT ![m] = c]
    /\ UNCHANGED <<cast, on, racks, state, source, boosted, stopped>>

SetState(i, st) ==
    /\ i \in on \cap Stateful /\ st # state[i]
    /\ state' = [state EXCEPT ![i] = st]
    /\ UNCHANGED <<cast, on, racks, charge, source, boosted, stopped>>

\* SolarSystem.source
SetSource(s) ==
    /\ s # source /\ source' = s
    /\ UNCHANGED <<cast, on, racks, charge, state, boosted, stopped>>

\* set_effect_mode, between full compliance and force stop.
Toggle(i) ==
    /\ i \in Toggled \cap cast
    /\ stopped' = (stopped \ {i}) \cup ({i} \ stopped)
    /\ UNCHANGED <<cast, on, racks, charge, state, source, boosted>>

\* Something that no register listens to changes what the attributes are.
Modify ==
    /\ boosted' = ~boosted
    /\ UNCHANGED <<cast, on, racks, charge, state, source, stopped>>

InitContents ==
    /\ cast \in Casts
    /\ on = {} /\ racks = [class \in Modules |-> <<>>]
    /\ charge = [m \in Carriers |-> NoItem]
    /\ state = [i \in Items |-> offline]
    /\ source = NoSource /\ boosted = FALSE /\ stopped = {}
=============================================================================
