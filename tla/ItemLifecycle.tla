---------------------------- MODULE ItemLifecycle ----------------------------
(***************************************************************************)
(* The life of items on the fits of one solar system: they are put into    *)
(* and taken out of containers, loaded from and unloaded with the solar    *)
(* system's source, switched between states and effect run modes.  Every   *)
(* such operation tells the subscribers of the item's fit about it with    *)
(* messages that carry DIFFERENCES (states activated, effects stopped,     *)
(* ...), and the subscribers keep their registers from nothing else.       *)
(*                                                                         *)
(* One cell holds what eos/item/mixin/base.py keeps of an item together    *)
(* with what the fit's registers and the calculation service were told of  *)
(* it.  A module may hold a charge, and an autocharge that its type's      *)
(* effects load; both take their state from the module.                    *)
(***************************************************************************)
EXTENDS EffectStatus, FiniteSets

CONSTANTS
  Modules,       \* items a user puts on a fit
  Charges,       \* items a user puts into a module
  Fits,
  ModuleType,    \* type id of each module
  ChargeType,    \* type id of each charge
  UserStates,    \* bound: the states a user switches modules to
  UserModes,     \* bound: the run modes a user sets ...
  Overridable    \* ... and the effects he sets them for

ASSUME ItemAssumption ==
  /\ ModuleType \in [Modules -> TypeIds]
  /\ ChargeType \in [Charges -> TypeIds]
  /\ UserStates \subseteq State
  /\ UserModes \subseteq Mode
  /\ Overridable \subseteq Effects
  /\ None \notin Modules \cup Charges \cup Fits

VARIABLES
  fits,        \* SolarSystem.fits
  source,      \* SolarSystem.source
  subscribed,  \* fits the calculation service is subscribed to
  container,   \* Module._container, as the fit that owns it
  charge,      \* Module.charge
  holder,      \* Charge._container
  autocharged, \* modules whose autocharge map is not None
  state,       \* MutableStateMixin.__state of each module
  modules,     \* cell of each module
  charges,     \* cell of each charge
  autos        \* cell of each module's autocharge

config == <<fits, source, subscribed, container, charge, holder, state>>
vars == <<config, autocharged, modules, charges, autos>>
-----------------------------------------------------------------------------
(* Cells.  src is the source the item was loaded from (None: _type is      *)
(* None), mode and running are the item's own; known, states, loaded,      *)
(* loadedStates and effects are what the fit's registers were told, calc*  *)
(* what the calculation service was told.                                  *)

FullCompliance == [e \in Effects |-> "full_compliance"]

Cell == [src : Sources \cup {None}, mode : [Effects -> Mode],
         running : SUBSET Effects,
         known : BOOLEAN, states : SUBSET State,
         loaded : BOOLEAN, loadedStates : SUBSET State,
         effects : SUBSET Effects,
         calcLoaded : BOOLEAN, calcEffects : SUBSET Effects]

NewCell == [src |-> None, mode |-> FullCompliance, running |-> {},
            known |-> FALSE, states |-> {}, loaded |-> FALSE,
            loadedStates |-> {}, effects |-> {},
            calcLoaded |-> FALSE, calcEffects |-> {}]

\* MsgHelper.get_item_added_msgs, delivered.
Added(c, st) == [c EXCEPT !.known = TRUE, !.states = @ \cup UpTo(st)]

\* Mutant of Removed: only the item's own state is deactivated.
RemovedOneState(c, st) == [c EXCEPT !.states = @ \ {st}, !.known = FALSE]

\* MsgHelper.get_item_removed_msgs, delivered.
Removed(c, st) == [c EXCEPT !.states = @ \ UpTo(st), !.known = FALSE]

\* The effects an item should run; an item without a type has none.
Wanted(c, tid, st) ==
  IF c.src = None THEN {} ELSE Resolved(Catalogue[c.src][tid], st, c.mode)

\* MsgHelper.get_effects_status_update_msgs, delivered: subscribers hear of
\* the effects to start and of the effects to stop, not of the new set.
StatusUpdate(c, tid, st, heard) ==
  LET want == Wanted(c, tid, st)
      start == want \ c.running
      stop == c.running \ want
  IN [c EXCEPT !.running = (@ \cup start) \ stop,
               !.effects = (@ \cup start) \ stop,
               !.calcEffects = IF heard THEN (@ \cup start) \ stop ELSE @]

\* BaseItemMixin._load without its autocharges, on a solar system source s.
Load(c, tid, st, s, heard) ==
  IF ~Fetchable(s, tid) THEN c
  ELSE StatusUpdate([c EXCEPT !.src = s, !.loaded = TRUE,
                              !.loadedStates = @ \cup UpTo(st),
                              !.calcLoaded = @ \/ heard], tid, st, heard)

\* Mutant of Unload: the message about stopped effects shares the item's set,
\* which is cleared before the message is delivered.
UnloadShared(c, st, heard) ==
  IF c.src = None THEN c
  ELSE [c EXCEPT !.running = {}, !.loadedStates = @ \ UpTo(st),
                 !.loaded = FALSE, !.calcLoaded = @ /\ ~heard, !.src = None]

\* BaseItemMixin._unload without its autocharges.
Unload(c, st, heard) ==
  IF c.src = None THEN c
  ELSE [c EXCEPT !.effects = @ \ c.running,
                 !.calcEffects = IF heard THEN @ \ c.running ELSE @,
                 !.running = {},
                 !.loadedStates = @ \ UpTo(st),
                 !.loaded = FALSE,
                 !.calcLoaded = @ /\ ~heard,
                 !.src = None]

\* MsgHelper.get_item_state_update_msgs, delivered.
StateUpdate(c, tid, old, new, heard) ==
  LET up == UpTo(new) \ UpTo(old)
      down == UpTo(old) \ UpTo(new)
      told == [c EXCEPT !.states = (@ \cup up) \ down,
                        !.loadedStates = IF c.src = None THEN @
                                         ELSE (@ \cup up) \ down]
  IN IF c.src = None THEN told ELSE StatusUpdate(told, tid, new, heard)

Attach(c, tid, st, s, heard) == Load(Added(c, st), tid, st, s, heard)
Detach(c, st, heard) == Removed(Unload(c, st, heard), st)
-----------------------------------------------------------------------------
(* A module's autocharge is a fresh item, created when the module is       *)
(* loaded and thrown away when it is unloaded.                             *)

AutoType(m, s) == IF Fetchable(s, ModuleType[m])
                  THEN Catalogue[s][ModuleType[m]].autocharge ELSE None

Spawn(c, m, st, s, heard) ==
  IF AutoType(m, s) = None THEN c ELSE Attach(c, AutoType(m, s), st, s, heard)

\* Mutant of Discard: unloading an item forgets its autocharges.
KeepAutocharge(m, st, heard) == autos[m]

Discard(m, st, heard) ==
  IF m \in autocharged
  THEN [Detach(autos[m], st, heard) EXCEPT !.mode = FullCompliance]
  ELSE autos[m]

\* Mutant of Spawning: autocharges kept by their type ids.
SpawningTypes(ms, s) == {AutoType(m, s) : m \in ms} \ {None}

Spawning(ms, s) == {m \in ms : AutoType(m, s) # None}
-----------------------------------------------------------------------------
SourceOn(f, fs, s) == IF f # None /\ f \in fs THEN s ELSE None

On(fs) == {m \in Modules : container[m] # None /\ container[m] \in fs}
ChargesOn(fs) == {c \in Charges : holder[c] # None /\ holder[c] \in On(fs)}

Heard(m) == container[m] \in subscribed

TypeOK ==
  /\ fits \subseteq Fits
  /\ source \in Sources \cup {None}
  /\ subscribed \subseteq Fits
  /\ container \in [Modules -> Fits \cup {None}]
  /\ charge \in [Modules -> Charges \cup {None}]
  /\ holder \in [Charges -> Modules \cup {None}]
  /\ autocharged \subseteq Modules
  /\ state \in [Modules -> State]
  /\ modules \in [Modules -> Cell]
  /\ charges \in [Charges -> Cell]
  /\ autos \in [Modules -> Cell]

Init ==
  /\ fits = {}
  /\ source \in Sources \cup {None}
  /\ subscribed = {}
  /\ container = [m \in Modules |-> None]
  /\ charge = [m \in Modules |-> None]
  /\ holder = [c \in Charges |-> None]
  /\ autocharged = {}
  /\ state \in [Modules -> UserStates]
  /\ modules = [m \in Modules |-> NewCell]
  /\ charges = [c \in Charges |-> NewCell]
  /\ autos = [m \in Modules |-> NewCell]

\* A container of fit f takes module m, with its charge, and the fit loads them.
AddModule(m, f) ==
  /\ container[m] = None
  /\ container' = [container EXCEPT ![m] = f]
  /\ LET st == state[m]
         s == SourceOn(f, fits, source)
         h == f \in subscribed
     IN /\ modules' = [modules EXCEPT
             ![m] = Attach(@, ModuleType[m], st, s, h)]
        /\ autos' = [autos EXCEPT ![m] = Spawn(@, m, st, s, h)]
        /\ autocharged' = autocharged \cup Spawning({m}, s)
        /\ charges' = [c \in Charges |->
             IF c = charge[m] THEN Attach(charges[c], ChargeType[c], st, s, h)
             ELSE charges[c]]
  /\ UNCHANGED <<fits, source, subscribed, charge, holder, state>>

\* The container of module m lets it go, with its charge.
RemoveModule(m) ==
  /\ container[m] # None
  /\ container' = [container EXCEPT ![m] = None]
  /\ LET st == state[m]
         h == Heard(m)
     IN /\ modules' = [modules EXCEPT ![m] = Detach(@, st, h)]
        /\ autos' = [autos EXCEPT ![m] = Discard(m, st, h)]
        /\ autocharged' = autocharged \ {m}
        /\ charges' = [c \in Charges |->
             IF c = charge[m] THEN Detach(charges[c], st, h) ELSE charges[c]]
  /\ UNCHANGED <<fits, source, subscribed, charge, holder, state>>

\* What replacing the charge of m by c (or by None) does to charge x.
Recharged(m, c, x) ==
  LET st == state[m]
      s == SourceOn(container[m], fits, source)
      out == IF x = charge[m] THEN Detach(charges[x], st, Heard(m))
             ELSE charges[x]
  IN IF container[m] = None THEN charges[x]
     ELSE IF x = c THEN Attach(out, ChargeType[x], st, s, Heard(m)) ELSE out

\* Module.charge is set to a free charge, or to None.
SetCharge(m, c) ==
  /\ c # None => holder[c] \in {None, m}
  /\ charges' = [x \in Charges |-> Recharged(m, c, x)]
  /\ charge' = [charge EXCEPT ![m] = c]
  /\ holder' = [x \in Charges |-> IF x = c THEN m
                                  ELSE IF x = charge[m] THEN None ELSE holder[x]]
  /\ UNCHANGED <<fits, source, subscribed, container, state, autocharged,
                 modules, autos>>

\* Mutant of SetTakenCharge: the descriptor raises without restoring the slot.
SetTakenChargeUnrestored(m, c) ==
  /\ holder[c] \notin {None, m}
  /\ charge' = [charge EXCEPT ![m] = c]
  /\ charges' = [x \in Charges |-> Recharged(m, None, x)]
  /\ UNCHANGED <<fits, source, subscribed, container, holder, state,
                 autocharged, modules, autos>>

\* Module.charge is set to a charge another module holds: the descriptor has
\* already removed the old charge, and puts it back before it raises.
SetTakenCharge(m, c) ==
  /\ holder[c] \notin {None, m}
  /\ charges' = [x \in Charges |-> Recharged(m, charge[m], x)]
  /\ UNCHANGED <<config, autocharged, modules, autos>>

\* Module.state is set: the module's charge and autocharge go with it.
SetState(m, st) ==
  /\ st # state[m]
  /\ state' = [state EXCEPT ![m] = st]
  /\ IF container[m] = None THEN UNCHANGED <<modules, charges, autos>>
     ELSE LET Change(c, tid) == StateUpdate(c, tid, state[m], st, Heard(m))
          IN /\ modules' = [modules EXCEPT ![m] = Change(@, ModuleType[m])]
             /\ charges' = [c \in Charges |->
                  IF c = charge[m] THEN Change(charges[c], ChargeType[c])
                  ELSE charges[c]]
             /\ autos' = [autos EXCEPT
                  ![m] = IF m \in autocharged
                         THEN Change(@, AutoType(m, modules[m].src)) ELSE @]
  /\ UNCHANGED <<fits, source, subscribed, container, charge, holder,
                 autocharged>>

\* BaseItemMixin._set_effects_modes on one item: the item may be on no fit, and
\* an item that is not loaded has no effects to update.
Overridden(c, e, mode) == [c EXCEPT !.mode = [@ EXCEPT ![e] = mode]]

\* Mutant of WithMode: a new run mode waits for the next status update.
WithModeLater(c, e, mode, tid, st, onFit, heard) == Overridden(c, e, mode)

WithMode(c, e, mode, tid, st, onFit, heard) ==
  IF onFit THEN StatusUpdate(Overridden(c, e, mode), tid, st, heard)
  ELSE Overridden(c, e, mode)

SetModuleMode(m, e, mode) ==
  /\ modules' = [modules EXCEPT
       ![m] = WithMode(@, e, mode, ModuleType[m], state[m],
                       container[m] # None, Heard(m))]
  /\ UNCHANGED <<config, autocharged, charges, autos>>

SetChargeMode(c, e, mode) ==
  /\ charges' = [charges EXCEPT
       ![c] = LET m == holder[c]
                  onFit == m # None /\ container[m] # None
              IN IF onFit
                 THEN WithMode(@, e, mode, ChargeType[c], state[m], TRUE,
                               Heard(m))
                 ELSE Overridden(@, e, mode)]
  /\ UNCHANGED <<config, autocharged, modules, autos>>

SetAutochargeMode(m, e, mode) ==
  /\ m \in autocharged
  /\ autos' = [autos EXCEPT
       ![m] = WithMode(@, e, mode, AutoType(m, modules[m].src), state[m],
                       container[m] # None, Heard(m))]
  /\ UNCHANGED <<config, autocharged, modules, charges>>
-----------------------------------------------------------------------------
(* Whole fits are unloaded and loaded: old is unloaded, then loaded from s *)
(* (None: left unloaded).                                                  *)

Reload(ms, s) ==
  LET In(m) == m \in ms
      Unloaded(c, m) == Unload(c, state[m], Heard(m))
  IN /\ modules' = [m \in Modules |->
          IF In(m) THEN Load(Unloaded(modules[m], m), ModuleType[m], state[m], s,
                             container[m] \in subscribed')
          ELSE modules[m]]
     /\ autos' = [m \in Modules |->
          IF In(m) THEN Spawn(Discard(m, state[m], Heard(m)), m, state[m], s,
                              container[m] \in subscribed')
          ELSE autos[m]]
     /\ autocharged' = (autocharged \ ms) \cup Spawning(ms, s)
     /\ charges' = [c \in Charges |->
          IF holder[c] # None /\ holder[c] \in ms
          THEN Load(Unloaded(charges[c], holder[c]), ChargeType[c],
                    state[holder[c]], s, container[holder[c]] \in subscribed')
          ELSE charges[c]]

\* FitSet.add: the calculation service subscribes first, then items are loaded.
AddFit(f) ==
  /\ f \notin fits
  /\ fits' = fits \cup {f}
  /\ subscribed' = subscribed \cup {f}
  /\ Reload(On({f}), source)
  /\ UNCHANGED <<source, container, charge, holder, state>>

\* FitSet.remove: items are unloaded first, then the service unsubscribes.
RemoveFit(f) ==
  /\ f \in fits
  /\ fits' = fits \ {f}
  /\ subscribed' = subscribed \ {f}
  /\ Reload(On({f}), None)
  /\ UNCHANGED <<source, container, charge, holder, state>>

\* FitSet.clear.
ClearFits ==
  /\ fits # {}
  /\ fits' = {}
  /\ subscribed' = subscribed \ fits
  /\ Reload(On(fits), None)
  /\ UNCHANGED <<source, container, charge, holder, state>>

\* SolarSystem.source is set.
SetSource(s) ==
  /\ s # source
  /\ source' = s
  /\ subscribed' = subscribed
  /\ Reload(On(fits), s)
  /\ UNCHANGED <<fits, container, charge, holder, state>>

Next ==
  \/ \E m \in Modules :
       \/ \E f \in Fits : AddModule(m, f)
       \/ RemoveModule(m)
       \/ \E c \in Charges \cup {None} : SetCharge(m, c)
       \/ \E c \in Charges : SetTakenCharge(m, c)
       \/ \E st \in UserStates : SetState(m, st)
       \/ \E e \in Overridable, mode \in UserModes :
            SetModuleMode(m, e, mode) \/ SetAutochargeMode(m, e, mode)
  \/ \E c \in Charges, e \in Overridable, mode \in UserModes :
       SetChargeMode(c, e, mode)
  \/ \E f \in Fits : AddFit(f) \/ RemoveFit(f)
  \/ ClearFits
  \/ \E s \in Sources \cup {None} : SetSource(s)

Spec == Init /\ [][Next]_vars
-----------------------------------------------------------------------------
(* Where an item is, for its properties.                                   *)

ChargeState(c) == IF holder[c] = None THEN offline ELSE state[holder[c]]
ModuleSource(m) == SourceOn(container[m], fits, source)
ChargeSource(c) == IF holder[c] = None THEN None ELSE ModuleSource(holder[c])
ModuleOnFit(m) == container[m] # None
ChargeOnFit(c) == holder[c] # None /\ container[holder[c]] # None
AutochargeType(m) == AutoType(m, ModuleSource(m))
AutochargeOnFit(m) == m \in autocharged

ResolvedCell(c, tid, st) == c.running = Wanted(c, tid, st)

\* At the end of every operation the effects of an item that run are those the
\* resolver picks for its type, state and modes (MsgHelper applies differences
\* to _running_effect_ids, and state changes reach the charge and the autocharge
\* only through _child_item_iter); nothing runs on an item that is not loaded.
RunningIsResolved ==
  /\ \A m \in Modules : ResolvedCell(modules[m], ModuleType[m], state[m])
  /\ \A c \in Charges : ResolvedCell(charges[c], ChargeType[c], ChargeState(c))
  /\ \A m \in Modules : ResolvedCell(autos[m], AutochargeType(m), state[m])

LoadedCell(c, tid, s, onFit) ==
  c.src = IF onFit /\ Fetchable(s, tid) THEN s ELSE None

\* An item has a type exactly when it is on a fit of the solar system whose
\* source knows it, and it has it from that source: no switch of source, move of
\* a module, change of charge or membership of a fit leaves an item behind.
LoadedFromSource ==
  /\ \A m \in Modules :
       LoadedCell(modules[m], ModuleType[m], ModuleSource(m), ModuleOnFit(m))
  /\ \A c \in Charges :
       LoadedCell(charges[c], ChargeType[c], ChargeSource(c), ChargeOnFit(c))
  /\ \A m \in Modules :
       LoadedCell(autos[m], AutochargeType(m), ModuleSource(m),
                  AutochargeOnFit(m))
  /\ autocharged = {m \in Modules : AutochargeType(m) # None}

KnownCell(c, st, onFit) ==
  /\ c.known = onFit
  /\ c.states = IF onFit THEN UpTo(st) ELSE {}
  /\ c.loaded = (c.src # None)
  /\ c.loadedStates = IF c.src = None THEN {} ELSE UpTo(st)
  /\ c.effects = c.running

\* A register that only adds up the differences in the messages it receives has
\* the true picture of every item: which are on the fit, in which states, which
\* are loaded, which effects run.  It holds nothing of an item that left.
RegistersAgree ==
  /\ \A m \in Modules : KnownCell(modules[m], state[m], ModuleOnFit(m))
  /\ \A c \in Charges : KnownCell(charges[c], ChargeState(c), ChargeOnFit(c))
  /\ \A m \in Modules : KnownCell(autos[m], state[m], AutochargeOnFit(m))

CalcCell(c) == c.calcLoaded = (c.src # None) /\ c.calcEffects = c.running

\* The calculation service, which listens to a fit only while the fit is in the
\* solar system, misses no load or unload: it subscribes before a fit's items
\* are loaded and unsubscribes after they are unloaded.
CalculatorAgrees ==
  /\ \A m \in Modules : CalcCell(modules[m]) /\ CalcCell(autos[m])
  /\ \A c \in Charges : CalcCell(charges[c])
  /\ subscribed = fits

\* A module and its charge point at each other, through every replacement of a
\* charge and every failed one (ItemDescriptor.__set__).
ChargeLinked ==
  \A m \in Modules, c \in Charges : charge[m] = c <=> holder[c] = m
=============================================================================
