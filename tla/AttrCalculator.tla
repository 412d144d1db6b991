--------------------------- MODULE AttrCalculator ---------------------------
(***************************************************************************)
(* CalculationService, AffectionRegister and MutableAttrMap: attribute     *)
(* values are calculated when they are read, kept, and dropped again when  *)
(* a message says that something they were calculated from may have        *)
(* changed.                                                                *)
(*                                                                         *)
(* The code is one thread, and a message is delivered inside the call that *)
(* published it.  agenda is what is left of the call the user made: steps  *)
(* of eos and messages still to deliver, the innermost first.  The user    *)
(* acts, and reads values, when it is empty.                               *)
(***************************************************************************)
EXTENDS AttrModel, Sequences

CONSTANTS
  Sources,
  Known,        \* items whose type each source has
  LoadOrder,    \* Fit._item_iter, as the order of all items
  Overridden,   \* bound: cells that get override callbacks
  Callbacks     \* bound: values that the callbacks return

VARIABLES
  source,       \* SolarSystem.source
  seat,         \* the item descriptors and racks of the fits
  running,      \* BaseItemMixin._running_effect_ids
  override,     \* MutableAttrMap.__override_callbacks
  cache,        \* MutableAttrMap.__modified_attrs of all items
  capped,       \* MutableAttrMap.__cap_map: <<item, capping, capped>>
  affectees,    \* AffectionRegister.__affectees
  awaiting,     \* AffectionRegister.__affectors_item_awaiting
  active,       \* AffectionRegister.__affectors_item_active
  other,        \* AffectionRegister.__affectors_item_other
  mass,         \* AffectionRegister.__affectors_domain, _group, _skillrq
  listeners,    \* CalculationService.__subscribed_affectors
  hears,        \* message types the service is subscribed to, by fit
  agenda

registers == <<affectees, awaiting, active, other, mass>>
python == <<listeners, hears>>
values == <<cache, capped>>
vars == <<source, seat, running, override, values, registers, python, agenda>>

ASSUME CalculatorAssumption ==
  /\ None \notin Sources
  /\ Known \in [Sources -> SUBSET Items]
  /\ IsFiniteSet(Items)
  /\ LoadOrder \in [1..Cardinality(Items) -> Items]
  /\ \A i \in Items : \E k \in DOMAIN LoadOrder : LoadOrder[k] = i
  /\ \A k, l \in DOMAIN LoadOrder : k # l => LoadOrder[k] # LoadOrder[l]
  /\ Overridden \subseteq Cells
-----------------------------------------------------------------------------
(* Agenda entries. *)

Step(do, i) == [do |-> do, item |-> i]
Effects_(do, i, effects) == [do |-> do, item |-> i, effects |-> effects]
Changed(cells) == [do |-> "changed", cells |-> cells]

Then(steps) == agenda' = steps \o Tail(agenda)
Doing(do) == agenda # <<>> /\ Head(agenda).do = do
Idle == agenda = <<>>

\* __publish_attr_changes: attributes hidden by an override are published as
\* a message no one in the calculator handles.
Publish(dropped) ==
  LET visible == dropped \ DOMAIN override
  IN IF visible = {} THEN <<>> ELSE <<Changed(visible)>>

\* MutableAttrMap._force_recalc: only a value that was there counts.
Recalculated(cells) == cells \cap DOMAIN cache
Drop(cells) == cache' = [c \in DOMAIN cache \ cells |-> cache[c]]

\* AffectionRegister.get_local_affectee_items
LocalAffectees(s) ==
  CASE s.mod.filter = "self" -> {s.item}
    [] s.mod.filter = "mass" -> {i \in affectees : InMass(s, i)}
    [] s.mod.filter = "other" -> Others(seat, s.item) \cap affectees
    [] OTHER -> {Target(seat, s)} \cap affectees
AffectedBy(specs) ==
  UNION {LocalAffectees(s) \X {s.mod.attr} : s \in specs}

\* AffectionRegister.get_affector_specs
AffectorSpecs(i) ==
  {p[2] : p \in {q \in active : q[1] = i}} \cup {s \in mass : InMass(s, i)}
-----------------------------------------------------------------------------
(* Loading and unloading: the steps of a call, and the messages they make. *)

\* BaseItemMixin._load; which effects run is for the resolver to say.
LoadItem ==
  /\ Doing("load")
  /\ LET i == Head(agenda).item IN
       IF source # None /\ i \in Known[source]
       THEN \E effects \in SUBSET EffectsOf[i] :
              /\ running' = [running EXCEPT ![i] = effects]
              /\ Then(<<Step("loaded", i)>> \o
                      IF effects = {} THEN <<>>
                      ELSE <<Effects_("started", i, effects)>>)
       ELSE running' = running /\ Then(<<>>)
  /\ UNCHANGED <<source, seat, override, values, registers, python>>

\* BaseItemMixin._unload: the item's set of running effects is cleared when
\* the messages are made, before they are delivered.
UnloadItem ==
  /\ Doing("unload")
  /\ LET i == Head(agenda).item IN
       /\ running' = [running EXCEPT ![i] = {}]
       /\ Then((IF running[i] = {} THEN <<>>
                ELSE <<Effects_("stopped", i, running[i])>>) \o
               (IF i \in affectees THEN <<Step("unloaded", i)>> ELSE <<>>) \o
               <<Step("clear", i)>>)
  /\ UNCHANGED <<source, seat, override, values, registers, python>>

\* MutableAttrMap._clear, without a message about the values cleared.
ClearItem ==
  /\ Doing("clear")
  /\ LET i == Head(agenda).item IN
       /\ Drop({i} \X Attrs)
       /\ capped' = {t \in capped : t[1] # i}
  /\ Then(<<>>)
  /\ UNCHANGED <<source, seat, running, override, registers, python>>

\* The assignments in the middle of ItemDescriptor.__set__ and of
\* SolarSystem.source.
SetSeat ==
  /\ Doing("seat")
  /\ seat' = [seat EXCEPT ![Head(agenda).seat] = Head(agenda).item]
  /\ Then(<<>>)
  /\ UNCHANGED <<source, running, override, values, registers, python>>

SetSourceValue ==
  /\ Doing("source")
  /\ source' = Head(agenda).item
  /\ Then(<<>>)
  /\ UNCHANGED <<seat, running, override, values, registers, python>>
-----------------------------------------------------------------------------
(* Messages. *)

Single == {"self", "ship", "character"}

\* _handle_item_loaded: specs that wait for a ship, a character or for their
\* own item start to act; those from 'other' items are never taken off other.
ItemLoaded ==
  /\ Doing("loaded")
  /\ LET i == Head(agenda).item
         woken == {s \in awaiting :
                     /\ FitOf[s.item] = FitOf[i]
                     /\ \/ s.mod.filter = "ship" /\ SeatOf[i] = ShipSeat[FitOf[i]]
                        \/ s.mod.filter = "character"
                             /\ SeatOf[i] = CharacterSeat[FitOf[i]]
                        \/ s.mod.filter = "self" /\ s.item = i}
     IN /\ affectees' = affectees \cup {i}
        /\ awaiting' = awaiting \ woken
        /\ active' = active \cup
             ({i} \X (woken \cup {s \in other : i \in Others(seat, s.item)}))
  /\ Then(<<>>)
  /\ UNCHANGED <<source, seat, running, override, values, other, mass, python>>

\* _handle_item_unloaded
ItemUnloaded ==
  /\ Doing("unloaded")
  /\ LET i == Head(agenda).item IN
       /\ affectees' = affectees \ {i}
       /\ awaiting' = awaiting \cup
             {p[2] : p \in {q \in active : q[1] = i /\ q[2].mod.filter \in Single}}
       /\ active' = {p \in active : p[1] # i}
  /\ Then(<<>>)
  /\ UNCHANGED <<source, seat, running, override, values, other, mass, python>>

\* Mutant of Waiting: a target that is there but not loaded is not waited for.
WaitingForSeat(specs) ==
  {s \in specs : s.mod.filter \in Single /\ Target(seat, s) = None}

\* __get_local_affector_storages: where specs are stored, now.
Waiting(specs) ==
  {s \in specs : s.mod.filter \in Single /\ Target(seat, s) \notin affectees}

\* Mutant of Acting: specs act on items that are there but not loaded.
ActingBlindly(specs) ==
  {p \in Items \X specs :
     \/ p[2].mod.filter \in Single /\ p[1] = Target(seat, p[2])
     \/ p[2].mod.filter = "other" /\ p[1] \in Others(seat, p[2].item)}

Acting(specs) ==
  {p \in affectees \X specs :
     \/ p[2].mod.filter \in Single /\ p[1] = Target(seat, p[2])
     \/ p[2].mod.filter = "other" /\ p[1] \in Others(seat, p[2].item)}
Filtered(specs, filter) == {s \in specs : s.mod.filter = filter}

\* Mutant of RevisesOn: the paste in an ancillary repairer may come and go.
RevisesOnValues(s) == IF s.mod.kind = "dogma" THEN {} ELSE {"changed"}

\* Modifier.revise_msg_types: the messages a python modifier wants to see.
\* The service handles AttrsValueChanged on every fit in any case.
RevisesOn(s) == IF s.mod.kind = "ancillary" THEN {"added", "removed", "changed"}
                ELSE IF s.mod.kind = "propulsion" THEN {"changed"} ELSE {}
Wishes(specs) == UNION {RevisesOn(s) \X {s} : s \in specs}
Types(wishes) == {w[1] : w \in wishes} \ {"changed"}

\* __subscribe_python_affector_spec: the service subscribes to a message type
\* on the fit of the first affector that wants it.
Subscribe(f, specs) ==
  LET wanted == Types(Wishes(specs)) \ Types(listeners)
  IN /\ listeners' = listeners \cup Wishes(specs)
     /\ hears' = hears \cup ({f} \X wanted)

\* __unsubscribe_python_affector_spec: and unsubscribes on the fit of the last.
Unsubscribe(f, specs) ==
  LET left == listeners \ Wishes(specs)
      unwanted == Types(Wishes(specs)) \ Types(left)
  IN /\ listeners' = left
     /\ hears' = hears \ ({f} \X unwanted)

\* _handle_effects_started
EffectsStarted ==
  /\ Doing("started")
  /\ LET i == Head(agenda).item
         specs == LocalSpecs(i, Head(agenda).effects)
     IN /\ Subscribe(FitOf[i], specs)
        /\ awaiting' = awaiting \cup Waiting(specs)
        /\ active' = active \cup Acting(specs)
        /\ other' = other \cup Filtered(specs, "other")
        /\ mass' = mass \cup Filtered(specs, "mass")
        /\ Drop(AffectedBy(specs))
        /\ Then(Publish(Recalculated(AffectedBy(specs))))
  /\ UNCHANGED <<source, seat, running, override, capped, affectees>>

\* _handle_effects_stopped
EffectsStopped ==
  /\ Doing("stopped")
  /\ LET i == Head(agenda).item
         specs == LocalSpecs(i, Head(agenda).effects)
     IN /\ Unsubscribe(FitOf[i], specs)
        /\ awaiting' = awaiting \ Waiting(specs)
        /\ active' = active \ Acting(specs)
        /\ other' = other \ Filtered(specs, "other")
        /\ mass' = mass \ Filtered(specs, "mass")
        /\ Drop(AffectedBy(specs))
        /\ Then(Publish(Recalculated(AffectedBy(specs))))
  /\ UNCHANGED <<source, seat, running, override, capped, affectees>>

\* Mutant of Dependents: the attributes that changed ones cap are forgotten.
DependentsUncapped(cells) ==
  AffectedBy({s \in UNION {LocalSpecs(c[1], running[c[1]]) : c \in cells} :
                s.mod.kind = "dogma" /\ <<s.item, s.mod.from>> \in cells})

\* What _revise_regular_attr_dependents finds depending on changed cells.
\* It goes by the running effects of the items, not by the registers.
Dependents(cells) ==
  {<<t[1], t[3]>> : t \in {u \in capped : <<u[1], u[2]>> \in cells}} \cup
  AffectedBy({s \in UNION {LocalSpecs(c[1], running[c[1]]) : c \in cells} :
                s.mod.kind = "dogma" /\ <<s.item, s.mod.from>> \in cells})

\* _revise_regular_attr_dependents publishes the changes it finds twice; the
\* python modifiers see the message when all that is done.
AttrsValueChanged ==
  /\ Doing("changed")
  /\ LET cells == Head(agenda).cells
         news == Publish(Recalculated(Dependents(cells)))
     IN /\ Drop(Dependents(cells))
        /\ Then(news \o news \o <<[Head(agenda) EXCEPT !.do = "revise"]>>)
  /\ UNCHANGED <<source, seat, running, override, capped, registers, python>>

\* _revise_python_attr_dependents.  A modifier whose revise_modification says
\* that its value may have changed has the cells it modifies dropped.
Revise(revised) ==
  /\ Drop(AffectedBy(revised))
  /\ Then(Publish(Recalculated(AffectedBy(revised))))
  /\ UNCHANGED <<source, seat, running, override, capped, registers, python>>

ReviseOnChange ==
  /\ Doing("revise")
  /\ LET cells == Head(agenda).cells IN
       Revise({s \in Specs :
                 /\ <<"changed", s>> \in listeners
                 /\ \/ <<s.item, s.mod.from>> \in cells
                    \/ /\ s.mod.kind = "propulsion"
                       /\ <<Ship(seat, FitOf[s.item]), Mass>> \in cells})

\* ItemAdded and ItemRemoved reach the service only where it subscribed.
ReviseOnPaste ==
  /\ Doing("added") \/ Doing("removed")
  /\ LET i == Head(agenda).item
         type == Head(agenda).do
     IN Revise({s \in Specs :
                  /\ <<type, s>> \in listeners
                  /\ <<FitOf[i], type>> \in hears
                  /\ Owner[SeatOf[i]] = s.item /\ Seated(seat, i) /\ i \in Paste})

Deliver ==
  \/ LoadItem \/ UnloadItem \/ ClearItem \/ SetSeat \/ SetSourceValue
  \/ ItemLoaded \/ ItemUnloaded \/ EffectsStarted \/ EffectsStopped
  \/ AttrsValueChanged \/ ReviseOnChange \/ ReviseOnPaste
-----------------------------------------------------------------------------
(* What the user does. *)

\* The steps do1, do2 for every item of a sequence.
ForEach(is, do1, do2) ==
  [k \in 1..(2 * Len(is)) |-> IF k % 2 = 1 THEN Step(do1, is[(k + 1) \div 2])
                              ELSE Step(do2, is[k \div 2])]

\* Some of the items, in the order in which a fit goes through them.
Picked(list, e) == IF e[1] \in e[2] THEN Append(list, e[1]) ELSE list
Pick == INSTANCE Iteration WITH Step <- Picked
InOrder(items) ==
  Pick!All(<<>>, [k \in 1..Len(LoadOrder) |-> <<LoadOrder[k], items>>])

\* ItemContainerBase.__subitem_iter: an item and the charge it holds.
Subitems(i) ==
  InOrder({j \in Items : j = i \/ (Owner[SeatOf[j]] = i /\ Seated(seat, j))})

\* ItemDescriptor.__set__ (and append, remove of a rack): the old item is
\* unloaded and taken off the fit, then the new one put in and loaded.
Assign(p, new) ==
  LET old == seat[p]
      onFit == Owner[p] # None => Seated(seat, Owner[p])
  IN /\ Idle /\ new # old
     /\ new # None => SeatOf[new] = p
     /\ agenda' =
          (IF onFit /\ old # None THEN ForEach(Subitems(old), "unload", "removed")
           ELSE <<>>) \o
          <<[do |-> "seat", item |-> new, seat |-> p]>> \o
          (IF onFit /\ new # None THEN ForEach(Subitems(new), "added", "load")
           ELSE <<>>)
     /\ UNCHANGED <<source, seat, running, override, values, registers, python>>

\* SolarSystem.source
SetSource(s) ==
  LET items == InOrder({i \in Items : OnFit(seat, i)})
      all(do) == [k \in 1..Len(items) |-> Step(do, items[k])]
  IN /\ Idle /\ s # source
     /\ agenda' = (IF source = None THEN <<>> ELSE all("unload")) \o
                  <<Step("source", s)>> \o
                  (IF s = None THEN <<>> ELSE all("load"))
     /\ UNCHANGED <<source, seat, running, override, values, registers, python>>

\* A new state or run mode: MsgHelper.get_effects_status_update_msgs updates
\* the set of running effects before any message about it is delivered.
SetRunning(i, effects) ==
  LET start == effects \ running[i]
      stop == running[i] \ effects
  IN /\ Idle /\ i \in affectees /\ effects # running[i]
     /\ running' = [running EXCEPT ![i] = effects]
     /\ agenda' =
          (IF start = {} THEN <<>> ELSE <<Effects_("started", i, start)>>) \o
          (IF stop = {} THEN <<>> ELSE <<Effects_("stopped", i, stop)>>)
     /\ UNCHANGED <<source, seat, override, values, registers, python>>

\* _set_override_callback, _override_value_may_change, _del_override_callback;
\* off a fit there is no one to tell.
Announce(c) == agenda' = IF OnFit(seat, c[1]) THEN <<Changed({c})>> ELSE <<>>
SetOverride(c, v) ==
  /\ Idle /\ ~(c \in DOMAIN override /\ override[c] = v)
  /\ override' = [d \in DOMAIN override \cup {c} |->
                    IF d = c THEN v ELSE override[d]]
  /\ Announce(c)
  /\ UNCHANGED <<source, seat, running, values, registers, python>>
DelOverride(c) ==
  /\ Idle /\ c \in DOMAIN override
  /\ override' = [d \in DOMAIN override \ {c} |-> override[d]]
  /\ Announce(c)
  /\ UNCHANGED <<source, seat, running, values, registers, python>>

\* MutableAttrMap.__getitem__ of a value that is not there.  The code reads
\* what the value depends on by recursion; here those reads come first, which
\* is a legal sequence of reads of the user's.
Exposed(c) == IF c \in DOMAIN override THEN override[c] ELSE cache[c]
Read(c) ==
  LET reads == Reads(seat, AffectorSpecs(c[1]), c) IN
  /\ Idle /\ c[1] \in affectees /\ c \notin DOMAIN cache
  /\ reads \subseteq DOMAIN cache \cup DOMAIN override
  /\ cache' = [d \in DOMAIN cache \cup {c} |->
                 IF d = c
                 THEN Calculated(seat, AffectorSpecs(c[1]), c,
                                 [e \in reads |-> Exposed(e)])
                 ELSE cache[d]]
  /\ capped' = capped \cup {<<c[1], d[2], c[2]>> : d \in CapOf(c)}
  /\ UNCHANGED <<source, seat, running, override, registers, python, agenda>>

Init ==
  /\ source = None
  /\ seat = [p \in Seats |-> None]
  /\ running = [i \in Items |-> {}]
  /\ override = <<>>
  /\ cache = <<>> /\ capped = {}
  /\ affectees = {} /\ awaiting = {} /\ active = {} /\ other = {} /\ mass = {}
  /\ listeners = {} /\ hears = {}
  /\ agenda = <<>>

Next ==
  \/ Deliver
  \/ \E p \in Seats, new \in Items \cup {None} : Assign(p, new)
  \/ \E s \in Sources \cup {None} : SetSource(s)
  \/ \E i \in Items : \E effects \in SUBSET EffectsOf[i] : SetRunning(i, effects)
  \/ \E c \in Overridden : DelOverride(c) \/ \E v \in Callbacks : SetOverride(c, v)
  \/ \E c \in Cells : Read(c)

Spec == Init /\ [][Next]_vars
-----------------------------------------------------------------------------
Loaded == {i \in Items : OnFit(seat, i) /\ source # None /\ i \in Known[source]}

\* Every variable keeps its type; the registers hold specs of known items.
TypeOK ==
  /\ source \in Sources \cup {None}
  /\ seat \in [Seats -> Items \cup {None}]
  /\ running \in [Items -> SUBSET Effects]
  /\ DOMAIN override \subseteq Overridden /\ DOMAIN cache \subseteq Cells
  /\ capped \subseteq Items \X Attrs \X Attrs
  /\ affectees \subseteq Items
  /\ awaiting \cup other \cup mass \subseteq Specs
  /\ active \subseteq affectees \X Specs
  /\ listeners \subseteq {"added", "removed", "changed"} \X Specs
  /\ hears \subseteq Fits \X {"added", "removed"}

\* What is kept is what a calculation from scratch would give: "If value is
\* stored in modified map, it's considered valid" (MutableAttrMap).  However
\* items, charges, effects, overrides and sources came and went in between.
Fresh ==
  Idle => LET ideal == Ideal(seat, Loaded, running, override)
          IN \A c \in DOMAIN cache : cache[c] = ideal[c]

\* A value is only there while all it was calculated from is there too: this
\* is what lets _force_recalc stop at a value that is not there.
Supported ==
  Idle => \A c \in DOMAIN cache :
            /\ Reads(seat, AffectorSpecs(c[1]), c)
                 \subseteq DOMAIN cache \cup DOMAIN override
            /\ \A d \in CapOf(c) : <<c[1], d[2], c[2]>> \in capped

\* The affection register, kept by moving specs between its storages as their
\* targets come and go, holds what the fits' contents say: every spec in
\* force is stored once, where its target finds it or waiting for a target.
RegistersTrue ==
  Idle => LET inForce == UNION {LocalSpecs(i, running[i]) : i \in Loaded}
          IN /\ affectees = Loaded
             /\ \A i \in Loaded :
                  AffectorSpecs(i) = {s \in inForce : Affects(seat, s, i)}
             /\ awaiting = {s \in inForce :
                              /\ s.mod.filter \in Single
                              /\ ~ \E i \in Loaded : Affects(seat, s, i)}
             /\ other = Filtered(inForce, "other")
             /\ mass = Filtered(inForce, "mass")

\* What the theorems about values suppose, and no part of the specification:
\* all ancillary repairers, whose modifiers revise on paste, are on one fit, for
\* the service subscribes to ItemAdded and ItemRemoved on the first one's alone.
OneListens ==
  \A s, t \in Specs :
    s.mod.kind = "ancillary" /\ t.mod.kind = "ancillary" =>
      FitOf[s.item] = FitOf[t.item]
=============================================================================
