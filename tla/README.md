# DogmaEngine: TLA+ models, model checking and proofs

The repository computes the attributes of EVE Online ship fittings. It holds three programs:

* **DogmaEngine** (`src/Sources/DogmaEngine`, Swift, about 2000 lines), the package itself: a fit goes
  through four passes, once, and a structure with its attributes comes out.
* **Eos** (`src/PyfaReference/eos`, Python, about 19000 lines), kept as a reference: fits are objects
  that live on, attributes are calculated when they are read, kept, and dropped when a message says
  that something behind them has changed. Most of what is hard in this repository is here.
* the **Rust engine** (`src/RustReference`), which the Swift passes are ported from. It is used only
  to say what the port should do.

Paths below are relative to `src/`; Eos paths to `src/PyfaReference/eos`.

## 1. Inventory

| Component | State | Operations | What is hard, and what makes it correct |
|---|---|---|---|
| Swift passes 1-3 (`calculate/Pass1..3.swift`) | `Ship`, its items with states, attributes, effects; `Cache` | make items, collect and distribute modifiers, calculate by recursion | dictionaries in random order, states clamped after modifiers were collected, memoised recursion without a test for cycles; values must be those the data determine |
| Swift pass 4 (`Pass4/Capacitor.swift`) and output | hull attributes | simulate the capacitor, read attributes | modules that drain at moments of their own; a loop whose only end is an empty capacitor |
| Swift EFT import, state strings (`EFT.swift`, `DogmaEngine.swift`) | a fit | split into sections, read modules and stacks, set states by slot | slot indexes must tell modules apart; names lead to types in random order |
| Eos items (`item/mixin`, `effect_status.py`) | type, state, effect modes, running effects, charge, autocharge | load, unload, set state, mode, charge | maintained by *differences*; subscribers are told only those |
| Eos fits, solar system (`fit.py`, `solar_system`) | fits, source | add and remove fits, switch source | order of subscribing, loading, unloading |
| Eos containers (`item_container`) | lists with holes, sets, sets unique by type, slots; the item's link back | add, place, insert, remove, free, replace | a refused call must undo what it did |
| Eos broker (`pubsub`) | subscribers by fit and message type | subscribe, publish | synchronous, re-entrant delivery |
| Eos calculator (`calculator/service.py`, `affection.py`, `map.py`) | affectors waiting, active, by domain; cached values; caps; overrides; listeners of Python modifiers | start and stop effects, load and unload items, recalculate, override, read | cache invalidation: a kept value must be the one a calculation from scratch gives |
| Eos projection (`calculator/projection.py`, `affection.py`, `targetable.py`) | projectors, carriers, targets, projected specs | apply, unapply, move, target | two fits that change in any order |
| Eos fleets, warfare buffs (`fleet`, `service.py`) | fits of a fleet, buffs and the ships they act on | join, leave, disband, start, stop, change the buff | ships that come or go while a buff acts on them |
| Eos reactive armor hardeners (`sim`) | results, a running flag | simulate tick by tick, override, drop results | reads values that rest on its own results; ignores messages while it runs |
| Eos restrictions, statistics (`restriction`, `stats`) | registers that follow messages | register, validate, sum up, damage per second | what messages left must be what the fit holds |
| Eos eve objects, builder (`eve_obj_builder`) | static data | clean, convert, build modifiers, validate | references between records |
| Eos sources and cache (`source`, `cache_handler`, `data_handler`) | sources, memory and file cache, fingerprint | add, remove, rebuild, read | an interrupted or failed write of the file |

Eos is single-threaded and synchronous: a setter publishes a message, each subscriber handles it inside
that call, and may publish more. The interleavings are those of *calls by the user* and, within a call,
the order in which messages reach the handlers while the state they read has already moved on. Nothing
is sent asynchronously, nothing times out. Only the file cache survives the process. The Swift engine
is one call; its only nondeterminism is the iteration order of dictionaries.

`PROJECT.json` lists every part with what is modelled of it, and the hazards at their lines.

## 2. Modules

| Module | Models | Depends on |
|---|---|---|
| `EffectStatus` | `effect_status.py`: which effects of a type run in a state under the item's modes | |
| `ItemLifecycle` | items on fits on a solar system with a source: the *Eos items*, *fits* rows above | `EffectStatus` |
| `ItemLifecycle_proofs` | its inductive invariant and theorems | `ItemLifecycle`, TLAPS |
| `AttrModel` | the declarative reference of attribute values and the pure part of modifiers | |
| `Iteration` | loops: a value goes through a step for each element of a sequence; with the two lemmas that proofs about loops use | TLAPS |
| `AttrCalculator` | service, affection register and attribute maps, local effects | `AttrModel`, `Iteration` |
| `AttrCalculator_proofs` | the inductive invariants of its registers and of its values, and theorems | `AttrCalculator`, TLAPS |
| `Projection` | projected effects: projection register, projected half of the affection register | `Iteration` |
| `Projection_proofs` | the inductive invariants of the projection register and of the values, and theorems | `Projection`, TLAPS |
| `Fleet` | fleets and warfare buffs, with what the registers hold of them | `Iteration` |
| `Fleet_proofs` | its inductive invariant and theorems | `Fleet`, TLAPS |
| `RahSimulation` | the simulator of reactive armor hardeners, with the cached values it depends on | `Iteration` |
| `FitContents` | what is on a fit and the calls that change it | |
| `FitDamage` | volley, cycles, damage per second, local repairs | `FitContents` |
| `FitValidation` | what restrictions and statistics answer, given the contents of their registers | `FitDamage` |
| `FitRules` | **abstract**: answers are those the contents of the fit call for | `FitValidation` |
| `FitRestrictions` | the registers, changed by messages alone; implements `FitRules` | `FitValidation`, `FitRules`, `Iteration` |
| `FitRestrictions_proofs` | its inductive invariant and theorems, the refinement among them | `FitRestrictions`, TLAPS |
| `ItemContainers` | lists, sets, unique sets and slots | |
| `FitParts_proofs` | the inductive invariants of the containers and of the hardeners' simulator, and theorems | `ItemContainers`, `RahSimulation`, TLAPS |
| `DogmaPasses` | the Swift passes | |
| `EftImport` | EFT text and state string to the fit that `DogmaPasses` starts from, and the states shown after it | |
| `EftImport_proofs` | its inductive invariant and theorems | `EftImport`, TLAPS |
| `EveObjBuilder` | the stages that make Eos objects of the game's tables, modifiers included | |
| `Sources` | source manager, cache handlers, the cache file; the world around them | `EveObjBuilder` |
| `MC*` | instances for TLC: each gives a module's constants their values | |

Conventions. Operators carry the source's names. A mutant (an operator that a comment calls so and that stands
before what it replaces) is a plausible bug; `PROJECT.json` pairs each property with one that breaks it.

### ItemLifecycle

A *cell* is an item as it knows itself (`src`: the source it is loaded from; `mode`, `running`) with
what its fit's subscribers (`known`, `states`, `loaded`, `loadedStates`, `effects`) and the
calculation service (`calcLoaded`, `calcEffects`) were told of it. An action is one call of the user with all that
it sets off: `AddModule`, `SetCharge`, `SetState`, `SetModuleMode`, `AddFit`, `SetSource`, ... As the
messages of these calls change only the receivers' own registers, one call is one step here; what handlers do in between is
the subject of the next two modules. `Removed`, `Load`, `Unload`, `StatusUpdate` are the messages of `MsgHelper`
applied to a register. A module has a charge that the user sets, and an autocharge that loading makes and unloading discards.

### AttrModel, AttrCalculator

Items sit in *seats* (ship, character, a rack position, the charge of a module); a *cell* `<<i, a>>` is attribute `a`
of item `i`; an affector spec is an item with one of the modifiers of its running effects. `AttrModel!Ideal`
computes all values from contents, loaded items and running effects alone. `Depth` ranks cells so that what a cell is calculated from has a lower rank, whatever sits in the seats. `AttrCalculator` has the storages
of `AffectionRegister` (`affectees`, `awaiting`, `active`, `other`, `mass`), the caches and cap records
of `MutableAttrMap`, and the subscriptions that the service makes for Python modifiers. **`agenda`** is the rest of the
call under way: the steps of eos still to take and the messages still to deliver, innermost first.
`Deliver` takes the first. Users act when it is empty. That keeps what makes this code subtle: a handler runs when
other parts of the state have already been changed by the caller. Deadlock is checked, so an agenda entry that nobody handles, or a handler
that waits for a state that does not come, would be found.

Deviations, each on purpose: one message for the changed attributes of all fits instead of one per fit; a read of an
attribute is preceded by the reads it makes (the recursion of `__getitem__`, from the inside out); values of unloaded items are never read;
attributes that depend on themselves are excluded by `DepthAssumption` (the code ends in `RecursionError`). Values are what `Compute` makes of
modifications: penalties, rounding and operators are left to `DogmaPasses`.

### Projection

Guns with one targeted effect, ships that move between fits, gadgets in a ship's domain; the same `agenda`. The local part of a value is a number that
`Shift` changes and announces. `raised` is set when the code raises; a call that raised is not continued. `strayed` is history: a projection met a ship that
was not loaded at the time. It separates what holds always (`TargetsTrue`) from what holds only before (`ProjectionFresh`).

### Fleet

One call is one action here. `calc` is the record of what the service and its registers hold: the fits it listens to, affectees, projectors, the specs of warfare buffs, projectors
with their targets, specs that act directly on ships and on the items around them, kept values. Handlers are operators from `calc` to `calc` (`Started`, `Stopped`, `Revised`, `Joined`, ...), composed in the
order the code publishes its messages. `Direct` and `Wide` are the storages that `__get_projected_affector_storages` picks: for ships that are loaded *now*, and for the fit on which the target is *now*, which is where
this code errs. `strayed` and `calc.missed` are history and say when that has happened: a ship left unheard while a buff had it as target; a ship came after the buff, or a booster left the fleet.

### RahSimulation

`data` has the results of each hardener whose effect runs (none, or its resonances); `sim` the locals of the simulation under way. `ReadRah` and `ReadShip` are the reads that start it; `SimTick` is a tick (cycling hardeners, damage through the ship's resonances *as
the attribute maps give them at that moment*, adaptation, override), `SimLoops` a state met before, `SimExhausted` the last tick without one, `SimRaises` the exceptions, `Finish` the announcement of new resonances at the end, which drops kept values of the ship.
All other actions are what the simulator hears, or does not: ships, profiles, hardeners that start and stop, modifiers that change a shift amount, a cycle time, a base resonance or a resonance of the ship.
Resonances are integers; what the code rounds to recognise a state it has met is exact. `strayed` is history: a change that nothing announced.
`FromScratch` is the reference that kept results are compared with: all ticks at once (`Run`), each with the resonances of the ship worked out anew, and what the first tick that ends a simulation makes of them (`Outcome`). It has no handlers, no kept values and no messages.

### FitContents, FitDamage, FitValidation, FitRules, FitRestrictions

`FitContents` is the fit as its user sees it, and the calls. `FitValidation` translates the restrictions and statistics as operators on a *register contents* `S`: slots, hardpoints, rigs, fighter squads, drones, resources, group limits (fitted, online, active), skills, charges
(group, size, volume), capital modules, ship types and groups, implants and boosters of one slot, states. `FitDamage` adds charges and cycles until reload, cycle parameters with and without reload, volley, damage per second, local repairs.
`FitRestrictions` keeps each register as the code does, by its own messages (`Gains`, `Loses`), a message at a time, in the order of `pubsub/message/helper.py`; `FitRules` knows no registers: its answers are those of
`Subjects`, the items on the fit that the register is about, and its damage per second runs through the cycles of an effect one by one. `FitRestrictions` implements it under the mapping that answers are what the registers say (`AnswersTrue`).
Simplifications: a type has at most one effect that a given register follows; dealers and repairers have a duration (the code divides by zero otherwise); ammunition that a module has loaded of itself, fighters' abilities as damage dealers and repairs of other ships are left out; attributes change by `Modify` as a whole.
What the catalogue is taken to be is said by `DamageAssumption` (amounts of damage, charges and reload are natural numbers, volumes and durations not zero, dealers have a duration) and `CatalogueAssumption` (the simplification above; numbers of slots are natural).

### ItemContainers

State: what each container holds, what each item says holds it, what subscribers were told. An action is one call, which succeeds or raises; a raise includes the undoing that the code does (`Assign` takes the old item off, and puts it on again when the new one is refused).
`Assigned` is Python's truth of `item._container`: an empty list or set that an item refers to counts as none.
`Careless` is a bound: whether the user adds an item again to the `ItemSet` that holds it or inserts a refused item at a negative position. Both leave wrong containers (below); runs and theorems are for users who do neither.

### DogmaPasses, EftImport

One behaviour of `DogmaPasses` is one `calculate()`. `item[o]` is an `Item` with its `attrs` (`base` and `effects`; `value` is kept apart, as it is nil until pass 3 stores it), `pending` the collected
`Pass2Effect`s, `queue` and `keys` what the loops have still to visit, `stack` the recursion of `calculateValue`, `cache` the `Cache`. Skills and keys are visited in any order.
Numbers are fixed point. The penalty factor of a rank is a constant of the instance, in the model's precision. The reference, `Worth`, says in one definition what each attribute is worth,
from the data of the types and the final states alone: which modifiers act on it, in sets, and the operators in their order.
An attribute that is wanted for its own calculation makes the recursion go on for ever: `RecurseForever` ends the behaviour in phase `overflow`, where the program runs out of stack. `Cyclic` says of the data when that has to happen.
Pass 4 goes through the moments of the capacitor's simulation one by one: `Simulate` is what comes before the loop, `DrainCycle` once around it (the recharge since the last moment, what all modules that are `due` take, their next moments), `Deplete` what comes after, `Trap` the forced unwrapping of an attribute that the hull lacks. The recharge is
a share (`Shares`) of what the capacitor lacks, chosen anew each time, in place of the formula with square root and exponential, which lies between none and all of it. `regained` is history: what has been recharged in all.
Left out: `Item.effects`, never read; `fatalError` on malformed data, excluded by `DataAssumption`.

`EftImport` comes before it. A line is a record of what it says; the text is split (`SplitLine`), each section read as modules, or, from its first line that is none, as stacks (`ReadModule`, `ReadStack`, `StacksEnd`), with the section's counters of slots;
then the state string goes over the racks (`SetStates`). `Calculate` stands for the passes, of which it has what pass 2 does to the states of modules (`Clamped`), and `Shown`, the states in the output, reads what it leaves (`onShip`), as the program does. Exceptions and `fatalError` are phases. Which of two types with one name is found is chosen at the start (`NameMaps`).

### EveObjBuilder, Sources

`data` and `trash` are the cleaner's tables, sets of rows; the stages are operators on tables, taken one after the other by `stage`; the tables are read one by one, and the cleaner's
loop goes round by round, so that a patch, a stop or an exception can come in between. `Converted` includes the modifiers that `ModBuilder` makes of a modifierInfo and of the buff collections. `Sources` adds what each alias's handler has in `memory`, the `file`, the recorded `sources`, and the call of `add` under way (`adding`, `wanted`).
The environment, which is not in this repository, is `Patch` (the folder of game data is replaced, by data with a version of its own or without any), `WriteFails` and `Restart` (with either version of Eos).
Columns of `dgmeffects` that are treated alike are one, as are the built-in attributes of a type; objects have `by`, for what another version of Eos would build otherwise. Equal buff templates count once, though the code would keep both.
`Held` is the reference: what tables hold, from the first row of each key and a search along all columns that name rows of other tables, defined apart from the cleaner's rounds; it shares `Moved`, `Checked` and `Converted` with the model, and
`ObjectsSound` says what those must ensure, with what the calculator can register of a modifier. Left out: `default` of the source manager, the effects that the code customises.

## 3. Runs

All passing runs are exhaustive and take at most two and a half minutes on two cores. No symmetry is used.

| Run | Asks | States |
|---|---|---|
| `item_lifecycle` | Do type, running effects and subscribers' registers of every item follow from where it is, through any sequence of calls? | 36288 |
| `attr_calculator` | Is every kept value the one a calculation from scratch gives, are the values it rests on kept too, and does the register say what the fits say? | 177478 |
| `attr_two_fits` | The first of these with Python modifiers on two fits. **Violated.** | |
| `projection` | Do targets follow the gun, and are values fresh as long as no projection met an unloaded ship? | 1.64 million |
| `fleet` | Does a buff act on the ships it is meant for and on no other, and do kept values follow? | 252762 |
| `rah_simulation` | Are results those of a simulation from scratch as long as changes were announced, is what the ship keeps made of them, and is resistance moved and not made? | 340476 |
| `rah_stale` | The first of these whatever was announced. **Violated.** | |
| `restrictions` | Do registers fed by messages give the answers that the fit calls for? | 7290 |
| `item_containers` | Is each item in exactly the place it refers to, are subscribers right, does a refused call change nothing? | 64383 |
| `dogma_passes` | Are states clamped to what types permit, are the values those the data determine, does the recursion end unless an attribute depends on itself, is the capacitor drained when and by what the modules say? | 29436 |
| `eft_import` | Are modules, drones and cargo those of the text, and does the output show the states asked for as far as types permit them? | 841516 |
| `sources` | Is a cache that has the current fingerprint current and sound, whatever was replaced, failed or stopped while it was made, and does every call of `add` end? | 138403 |

Bounds, and why they are enough:

* `MCItemLifecycle`: two modules compete for one charge; two fits so that modules move; two sources that differ in each thing a type supplies (no autocharge type, no online effect, no default effect), three states and two modes, as each rule of
  the resolver turns on one of them. Everything an item does depends on its fit, its source, its module: one more of each adds no new case.
* `MCAttrCalculator`: two ships that replace each other, a module and a charge, so that affectors wait for ship, charge and module; a chain charge - module - ship - items in the ship's domain; a capped attribute; a propulsion and an
  ancillary modifier, which are the Python modifiers; an overridden attribute; a source that does not know a ship. `MCAttrTwoFits` has the smallest case of its question.
* `MCProjection`: a gun on one fit, two ships that sit on either, a gadget on one; two levels of strength and resistance. A second gun would only act on values like the first.
  Bound: nothing is read any more once `strayed`.
* `MCFleet`: two fits with a booster each, so that each receives the other's; one changes to a buff that reaches wider, or its strength; two ships that sit on either fit or none; one gadget in a domain. A third fit would only receive like the second.
* `MCRahSimulation`: three hardeners of different cycle times, of which two run at a time (`MaxRahs`); one without a shift amount; ships of which one has a resonance of zero; profiles of four damage types and of one, so that none, one, three or all four do no damage; one changed cell at a time (`MaxTweaks`); seven ticks, enough for a
  loop to close and for the limit to be met. Resonances keep a factor of two per tick, so that halving is exact as long as the code's is.
* `MCFitRestrictions`: thirteen groups of two to five items that are fitted together (`Casts`): each restriction has a group that can violate it and obey it, by another item, another state, another ship, another attribute value or another source. Restrictions do not read each other's registers, so groups need not be combined. Racks of two.
* `MCItemContainers`: of each container two, so that items move; two modules with positions 0 to 2 and lists of at most 4, so that lists get holes, are filled and are cut back; skills of which two share a type.
* `MCDogmaPasses`: 30 fits: every state of a gun or a web, with and without ammunition, with two skills; pairs of modules that penalise each other and drain the capacitor at moments that fall together and apart; drones; a coil whose attributes depend on each other when it is overloaded; a hull that lacks its capacitor; a gun in a service slot, which drains nothing.
  Values reach four levels deep (level, bonus, power, speed). The capacitor regains nothing or half of what it lacks at a time (`Shares`), and the simulation is followed for eight seconds (`MaxTime`), in which most drains end; one that goes on is left there.
* `MCEftImport`: every text of up to five common lines (an empty line, an empty slot, modules with and without charge, stacks of drones and cargo), so that two sections of one kind fit in, and of up to three of any kind; two letters per rack where the code has eight (`PerRack`); state strings that fit, are too short, or are not given.
* `MCSources`: two sources of one file, so that one's handler can be behind what the other wrote; one patch and one restart, as each can fall into any step of a call, and what follows starts from a file that is complete or broken, of the current fingerprint or another.
  The tables have a row of each kind of reference and of each kind the validators know (a second row of a key, a missing key, a colliding rack and a second default, abilities unknown, colliding and without effect, a text for a number, modifiers of each function and some that it cannot make); one kind makes the cleaner raise, one the converter.

Deadlock is checked in every run. Fairness is assumed in one place, `Sources`: weak fairness of `AddStep`, the rest of a call of `add` that has begun, which is one call on one thread that nothing blocks; `Ends` needs it. The other models
state no liveness: every call is synchronous, and what happens within a call is covered by the check for deadlock and by properties that speak of the moment it has returned; that the hardeners' simulation ends is by its bound on ticks, and each of its steps counts one; whether the Swift recursion ends is `RecursionEnds`, a statement about states, and the loop of the capacitor need not end.

### What the violations show

1. `attr_two_fits`: the service subscribes for a Python modifier's messages on the fit of the first affector only, and unsubscribes with the last; a repairer on another fit keeps its value when its charge changes. Confirmed on the code.
2. `rah_stale`: results of hardeners are kept when the fit gets, loses or changes its ship, and when a resonance changes that the ship's map does not hold at the moment, against the class's docstring. Confirmed on the code: after another ship is set the resonances stay those for the first.

### Met on the way

Disagreements and limits that the models describe as they are, and that properties are stated around. Those marked * were also run on the code.

* **Projection.** A projected spec is stored for targets that are loaded when the effect is applied; a ship that is loaded later is never affected, against the comment in `register_affectee_item`. A projector is taken out of the storage that its carrier names at that moment, which need not be the one it was put into, so the
  set of projectors without carrier keeps stopped ones, against `projection.py:36`. Specs of domain modifiers are stored under the fit of the targeted ship, and looked for under no fit once the ship has left.
* **Fleets.**\* A fit that joins gets buffs applied to `[fit.ship]` of the members, also when that is `None`; a fit that leaves loses its own buffs too; a ship set after the buff has started is never a target; the set of targets that is applied is the live one of the register, so that removing it leaves entries in `__tgt_projectors`;
  leaving the fleet while out of the solar system keeps a domain buff; a ship that left leaves its domain specs.
* **Containers.**\* `ItemSet.add` undoes a refused addition by removing the item, also when it was a member before; `ItemList.insert` with a negative index undoes at an index of the longer list and deletes another item. With `Careless = TRUE` TLC finds `HeldTrue` violated by either.
* **Capacitor.** The loop of the simulation has no end but an empty capacitor: where the recharge makes up for the modules' needs, or none needs anything, it goes on for ever. A hull with a negative `capacitorPeakDelta` and no `capacitorCapacity` or `rechargeRate` stops the program (`trapped`). Pass 4 stores its result as base value and leaves the value nil, and the output reads the value or else the attribute's default: the time of depletion is never shown.
* **EFT import.** In a text with `\r\n` every other line is empty, each line is a section of its own, and all modules get index 0, so that the state string reaches only the first of a rack. A section that begins with a line of blanks or with `[Empty Service slot]`, and the header `[]`, end in `fatalError`. Two sections of modules for one rack share indexes: a state string reaches the first module of a slot, and the output shows that one (`SlotsTrue` and `StatesObeyed` say it of every text). Of two
  types with one name another may be found at each start.
* **Cache.**\* A handler that loaded the cache of old data and is then updated keeps the old buff templates beside the new, as `__update_memory_cache` clears all storages but that one; the next start is right again.
* **Builder.**\* The cleaner follows `resistanceID`, as `data_handler/base.py` documents and `test_effect.py` of the converter asserts, while the converter reads `resistanceAttributeID`; a value that is no number
  in an attribute that names a charge or a buff ends the build with `ValueError`, though the validator after the cleanup would remove the row; a `modifierInfo` that is no list raises in the converter, though the cleaner tolerates it.
* **Restrictions and statistics.** The ordered slot restriction reports `None` among the items when a hole lies beyond the slots of the ship, as `test_high_slot.py:71` intends. Without a ship `get_armor_rps` and `get_shield_rps` count repairers whose carrier is `None`. Damage per second divides by zero for a type without a duration.

Hazards that no property reaches, and that `PROJECT.json` leaves out. `pubsub/broker.py:58` iterates over a set of subscribers that a handler could change; the only handler that subscribes is the service's, for Python modifiers while it handles `EffectsStarted`, and for other types than that. `eve_obj_builder/converter.py:106`: the column that the cleaner does not follow, above.
`Pass2.swift:296`: a modifier is put on an item once for each of six skill attributes that names the skill, so twice on a type that named one twice.

## 4. Proofs

### ItemLifecycle_proofs

For any number of modules, charges, fits and sources and for any catalogue that satisfies `DataAssumption` and `ItemAssumption`:

| Theorem | States |
|---|---|
| `TypeCorrect` | `Spec => []TypeOK` |
| `ChargesStayLinked` | a module and its charge point at each other |
| `EffectsResolved` | at the end of each operation the running effects are those the resolver picks |
| `LoadedFromCurrentSource` | an item has a type exactly when its fit is in the solar system and the source knows it, and has it from that source |
| `RegistersStayTrue`, `CalculatorStaysTrue` | what subscribers and the calculation service were told is the truth |

The properties are not inductive one by one: `RunningIsResolved` needs to know that an item off every fit runs nothing, and that needs that it was
told to stop before it left, which is what the registers say. The inductive invariant `IInv` therefore says of each cell, at once, that it is
**Absent** (on no fit: loaded from nothing, running nothing, known to no one) or **Present** (on a fit: loaded from the current source if that knows the type, running what the resolver picks, and every register
in step), and that links are mutual. **Registered** is Present without the claim on running effects: what holds between the differences
of one operation and its status update. Lemmas say what each message does to a cell in one of these three conditions; `StepInvariant` has one case per action, and
`Invariance` puts `InitInvariant` and it together. The assumptions are those of the modules: that constants have the form the code's data have.

### FitParts_proofs: containers

For any containers, items, types, fits and lengths that satisfy `ContainersAssumption`, of users who are not `Careless`:

| Theorem | States |
|---|---|
| `ListsTidy` | `Spec => []TypeOK`: lists keep no empty position at their end |
| `ItemsHeldOnce` | `Spec => []HeldTrue`: an item has exactly the place it refers to |
| `ItemsAnnounced` | `Spec => []AnnouncedTrue`: subscribers know what containers hold |
| `RefusalsUndone` | `Spec => RaisesUndone`: a call that raises changes nothing |

`HeldTrue` counts places, which no step can be argued from. `IInv` says instead that a container holds just the items that refer to it (`Placed`), that lists hold none twice and do not end in an empty position (`Shapes`), that a set of skills knows each item by its type (`Typed`), and what is announced. `Placed` is also why
`Assigned` is right: a container that an item refers to is not empty (`AssignedWhenHeld`), so that an item that sits elsewhere is refused; that is what fails for careless users. `Shapes` is what makes refusals undone: positions that were added for the item are cut off again, and cutting can take nothing else, as the list did not end in an empty position (`TrimmedBack`).
The lemmas before say what `_allocate`, `_cleanup`, insertion, removal and replacement do to a list, cell by cell, and then to what it holds; `Moved` what items that leave and enter a container do to the invariant; each call has a lemma, and `StepIInv` puts them together.

### FitParts_proofs: hardeners

For any finite number of hardeners, any ships, resonances, shifts, cycle times, damage profiles, penalties and modifiers, and any limit of two ticks or more, that satisfy `RahAssumption` (cycles take time and shifts are not negative, whatever modifies them):

| Theorem | States |
|---|---|
| `RahTypeHolds` | `RahSpec => []RahTypeOK` |
| `ShipTrueHolds` | `RahSpec => []ShipTrue`: what the ship keeps is what the hardeners' resonances make of it, and between calls all hardeners have results or none |
| `ResultsFreshHolds` | `RahSpec => []ResultsFresh`: results that are kept are those of a simulation from scratch, if all that changed was announced |
| `RahInductive` | `RahSpec => []RahInv`, the invariant below |

`ResultsFresh` is not inductive: that results are right now does not say that the next change which makes them wrong is announced, as a value of a hardener is announced only if its map keeps it. `Settled` says both. There is a sequence of ticks from the start, each the `Following` one of the last (`Walk`), that no tick before the last could have ended (`Going`), whose last ends the simulation in one of four ways with just these results; and the maps of the hardeners keep each value these ticks have rested on (`Seen`): all base resonances, the shifts of those that ended a cycle, the cycle times if there is more than one hardener.
`UnderWay` says of a simulation that has begun that the ticks it has recorded are such a walk, and `RahHull` that what the ship keeps is of the resonances of this tick: the damage of a tick then is that of the reference, though it is worked out from kept values (`HullNow`).

`SettledKept` is what changes of no concern are argued by: a change that leaves the values behind a walk as they are leaves it a walk. It has one case that is not obvious. The handler ignores the cycle time of a hardener that is alone, although damage is multiplied by it. The proof is that this scales all damage of a cycle alike (`Scaled`), that the order of damage types and which of them are unhurt stay (`NextOrder`), and so do the resonances and the ticks, all of which begin a cycle (`SoleWalk`).
`SettledScratch` then turns a walk that has ended into the run of the reference, by which tick is the first that ends it. Divisions, averages and penalties are of integers throughout, and nothing is said of their sizes.

### Iteration

The loops of `AttrCalculator`, `Projection`, `Fleet` and `FitRestrictions` (over the fits of a fleet, the items of a fit, the fits of a solar system, the messages of a call) are `All(base, q)` of instances of `Iteration`, a recursive function over positions. The lemma `Trace` says once what such a loop is: a chain of values from `base` to the result, one step for each element.
`Upward` carries a fact along it: a set that has 0, and each number whose predecessor it has, has all. With these two, which follow from the definition and say nothing of the program, a proof about a loop names what is true after `k` elements and proves one step of it; induction as the libraries state it, over an operator, is out of the prover's reach.

### Fleet_proofs

For any finite number of fits, boosters and gadgets, any fleets and ships, and any templates that satisfy `FleetAssumption` (homes are fits; the three kinds of items are distinct; a template acts on ships or domains; some template is not empty, as `fleet_templates` is never):

| Theorem | States |
|---|---|
| `TypesHold` | `FleetSpec => []TypeOK` |
| `EntitledHolds` | `FleetSpec => []BuffsEntitled`: whatever acts on a ship is the buff that a running booster of its fit or fleet has now |
| `FreshHolds` | `FleetSpec => []BuffsFresh`: the same around the ships, and kept values are those of what acts, unless a ship strayed |
| `ReachHolds` | `FleetSpec => []BuffsReach`: no loaded ship is left out, unless one came late or a booster's fit left |
| `FleetInductive` | the invariant below is kept by every call |

A call changes the registers handler by handler, so the invariant `Settled(c, fleet, ship, buff, strayed)` is said of registers `c` under *given* fleets, ships and buffs: half way through a call the registers are settled for the fleets as they were, or for those that will be. It relates the storages to each other, which the properties do not:
a spec acts on a ship only if its buff is registered, by a projector that is loaded, and the ship is recorded as target of the booster (`ActiveSound`, `DomainSound`); only so can `Stopped`, which asks the targets where to take specs away, be shown to leave none behind. `DomainSound` needs that a fit's ship has not strayed, which is why `BuffsFresh` says so too.
`ReachHolds` needs the converse (`BuffsThere`, `Reaches`). Loops over the members of a fleet and the items of a fit are by `Iteration`: what is settled after `k` of them.

### AttrCalculator_proofs

For any items, seats, effects and modifiers that satisfy `ModelAssumption`, `DepthAssumption` and `CalculatorAssumption` (a charge sits in a module of its own fit; effects do not share modifiers; a propulsion modifier acts on the ship and an ancillary one on its own item, as their constructors say; no cell is calculated from itself; the load order names each item once):

| Theorem | States |
|---|---|
| `TypesHold` | `Spec => []TypeOK` |
| `RegistersHold` | `Spec => []RegistersTrue`: between calls the affection register finds for each loaded item the specs in force that are meant for it, and no others |
| `SupportedHolds` | `OneListens` implies `Spec => []Supported`: between calls a kept value has all that it was calculated from, and its caps are on record |
| `FreshHolds` | `OneListens` implies `Spec => []Fresh`: between calls every kept value is the one a calculation from scratch gives |
| `AttrInductive`, `ValueInductive` | the two invariants below are kept by every step of every call |

Inside a call the registers say something else than the fits do. The invariant says by how much. It takes the agenda as a *set* of what is due (`Of`) and its order as ranks (`InTurn`): news of values before what is loaded, before what starts, ..., before items that are still to be unloaded, before the assignment, before items that are to be loaded.
`Presence`: as long as an assignment of a seat or of the source is to come, what is loaded is what stays throughout or is due to be unloaded, and what the new contents call for is due to be loaded; afterwards what is not loaded yet is due. `Runs`: which effects run, but for items not loaded yet.
`Told`: the service has heard of the running effects, less those whose `started` is due, and with those whose `stopped` is. `Stored`: the storages hold exactly the specs told, each where its target of the moment finds it: waiting, active, or by what it filters. Each step is then about one entry: `LoadedStep` and `UnloadedStep` move specs between waiting and active, `StartedStep` and `StoppedStep` add and remove them, and the assignment (`SetSeatStep`, `SetSourceStep`) is the one moment at which targets change: nothing that stays loaded can be affected by what moves.

`ValueInv` is the invariant of values. `Keeping`: a kept value of an affectee is `Right`, which is what `Read` would put there now, from values that are all there, or an entry of the agenda `Reaches` it, which is to say that its handler will drop it; a value of another item is due to be cleared.
`Right` looks one level down, at the values *kept now*, never at `Ideal`. That is what makes it inductive: a step that drops a value has only the values directly calculated from it to answer for, and the news it publishes reaches them (`KeptOrReached`), though not what lies further up, which is still right with respect to values that are yet to go.
That the news reaches them is `AllFollowed`, where the two halves of the service meet: `_revise_regular_attr_dependents` goes by the effects that run, the register by the effects told, and what is in the register and does not run any more is due to be stopped, which drops the value as well (`ForcedRuns`).
The other parts are about what that rests on. `Clearing`: values go when their item does, and nothing is loaded in between, so that an item comes to no values of its former stay. `Pasting`: a change of the paste in an ancillary repairer changes what its modifier reads without any attribute changing, so it is due to be reported before or after the assignment, whichever side the paste is on (`ValueSeat`). `Listening`: the service hears of paste on the fit of every repairer it knows of.

`Listening` is where `OneListens` comes in, the hypothesis that all ancillary repairers are on one fit. It is no assumption of the module: without it `Fresh` is false, as `attr_two_fits` shows, and the proof of `ValueStarted` needs it at just the place where the run goes wrong, a second fit that is not subscribed to (`SubscribedHears`). `MCAttrCalculator` satisfies it.

From `ValueInv` to `Fresh`: `Ideal` is a recursive function, so first there must be one (`Settled`: by `Upward` along `Depth`, there are values of all cells each calculated from the others), and then kept values are its values, again along `Depth` (`ValuesFresh`), with what `RegistersHold` says of the specs.

### Projection_proofs

For any finite number of fits, guns and gadgets and any ships and sources that satisfy `ProjectionAssumption` (ships, guns and gadgets are distinct, each gun and gadget has a fit, there is a level):

| Theorem | States |
|---|---|
| `TypesHold` | `Spec => []TypeOK` |
| `TargetsHold` | `Spec => []TargetsTrue`: between calls the register's targets are those of the running guns, and these are the loaded guns whose state lets them run |
| `FreshHolds` | `Spec => []ProjectionFresh`: between calls, unless a projection met a ship that was not loaded, the guns that act on a ship and its gadgets are those that run and target the ship, and each kept value is the one a calculation from nothing gives |
| `ProjInvariance`, `FreshInvariance` | the two invariants below hold at every moment of every call that does not raise |

For the register the method is that of `AttrCalculator_proofs`. `Presence` is said of guns only: two assignments can end a gun's stay (`off` and `source`), while a ship that moves leaves them alone. `Projecting` and `Targeting` say what differs between guns and register: a projector that does not run is due to be stopped, a recorded target that is not the gun's is due to be left, a target that is not recorded is due to be taken. The delicate step is the setter of a target, which lets go of the old one before the assignment and takes the new one after:
in between the register agrees with neither, and `Targeting` holds because both are due and the assignment lies between them (`Retargeted`). When a call raises, the rest of it is lost and nothing but types can be claimed, and is.

`FreshInv` is the same for values, and rests on `ProjInv`. `Keeping` is its heart: a kept value of a loaded item is what the guns in the register and the values *kept now* give (`Right`), or a message is due whose handler will drop it (`Dependents`); a value of an item that is not loaded is due to be cleared.
`Right` speaks of what the register stores, `ProjectionFresh` of the targets that guns have, so the two halves of the register must agree: `Storing` says that for each recorded target both specs are stored and nothing else is, and that target and gun are loaded. This is what fails once a projection meets an unloaded ship, which is why both are claimed `~strayed` only.
Three parts keep it going. `Seating`: a ship sits on one fit and what is loaded is on one, and a ship is unloaded before it leaves; so specs stored under a fit are those stored for its ship (`ActsHold`), and dropping what is hit with a ship is dropping just what reads the gun (`HitsHold`, `DropKeeps`). `Departing`: values of an item are cleared once it is not loaded any more, and guns that run are loaded.
`Arriving`: when an item gets loaded nothing is left to unload, clear or assign, so that it comes to values that are all right. With these a value that a step makes wrong is one that the step drops or announces: `ChangedFresh` and `ShiftFresh` for changes of values, `AppliedFresh` and `UnappliedFresh` for targets, `LoadedFresh` and `UnloadedFresh` for a resistance that appears or goes. Read values read none themselves, which bounds the recursion in `ProjectionFresh` (`IdealsAre`).

### EftImport_proofs

For texts of any length, any table of types, any letters per rack and every outcome of the map of names, under `EftAssumption` (types have slot effects of the six kinds, or none; a line has what its kind calls for):

| Theorem | States |
|---|---|
| `TypesHold` | `Spec => []TypeOK` |
| `SlotsHold` | `Spec => []SlotsTrue`: modules are those of the text in order, indexes those of their lines among the lines of their section that take such a slot |
| `StacksHold` | `Spec => []StacksKept`: as many drones of each type as their stacks have pieces, cargo stack by stack with type and quantity, each where its section puts it |
| `StatesHold` | `Spec => []StatesObeyed`: for the first module in a slot the output shows the highest permitted state up to the one its letter asks for |
| `EftInductive` | the invariant below is kept by every step |

The properties speak of the text as a whole and say nothing until it is read. `EftInv` says *where* the reading is: a line `r` up to which all has been read and a line `b` after which the section under way began (`Reading(b, r)`). `Placed`: what is left of the section, and the sections still to come, are copies of the lines after `r`, and a section is as long a run of filled lines as there is (`Whole`), which
`Splitting` establishes while the text is split. `Counted`: a counter has the number of lines of its slot between `b` and `r`. `ModulesRead`: the modules are listed by an increasing map to the module lines up to `r`, which is why the n-th of them is `NthModule(n)` (`Numbered`). `StacksStored` counts pieces up to the stacks still held, `StacksHeld` says which lines those are; that a section has drones only is known of it when it is read whole, and is `OfDrones` of each of its lines because
the section is just `SectionAround` them. At the end `r` is the last line and the properties are read off.
`StackOf` says of the n-th stack which line it is of, so cargo is counted and compared by one increasing map, like modules (`Appended`, `Numbered`). Of states, `StatesAsked` says what each module is to be in once the letters have been read, `ClampedHighest` that clamping leaves the highest state up to that which its type permits, and `ShownFirst` that the output finds the first module of a slot.
A lemma per action says how `b` and `r` move on. Counting is by the library's theorems on cardinalities; nothing is computed by recursion, though the code goes line by line.

### FitRestrictions_proofs

For any items and any groups of them that are fitted together (`Casts`, finite), any sources and any catalogue that satisfy `ContentsAssumption`, `DamageAssumption` and `CatalogueAssumption`:

| Theorem | States |
|---|---|
| `TypesHold` | `Spec => []TypeOK` |
| `RacksHold` | `Spec => []RackBlamed`: a rack too long for the ship is blamed on an item |
| `AnswersHold` | `Spec => AnswersTrue`: `FitRestrictions` implements `FitRules` |

The invariant is `Inv == TypeOK /\ Trimmed /\ Followed`. `Followed` says of each item, by itself, that it is in the registers due to it in its *situation* (`Due(Sit(i))`: whether it is on the fit and loaded, its state, what it runs, and which registers' tests its type passes), which is all that handlers see of an item.
`Due` names the registers by what makes them take an item (loading, a state, an effect); `RegistersTrue` says that these are the registers that have it among their `Subjects`. Each call then is a matter of the items whose situation it changes and of the messages about them, in their order: the lemmas before say what one message of each kind does to an item that is where it should be for the messages before.
Two things make that work and are not obvious. A status update announces effects that start *before* those that stop, which is right only because a register follows one effect of a type (`CatalogueAssumption`); and a charge has the state and the fit of its module, so that a call about a module is one about its charge (`With`).
`Trimmed`, that no rack ends in a hole, is what `RackBlamed` needs: the last position of a rack too long then is an item. Each call of a list has a lemma on what it leaves at the end.

The refinement has a part that is no step: `FitRules` says damage per second as cycles run through one by one, the code as a closed formula, and `DpsOfTrue` proves them equal. Sums are over functions on finite sets (`SumFunction`, a recursive function, so that lemmas can unfold it element by element: `ElementByElement`).
Calls change `contents`, so that each step of `FitRestrictions` is one of `FitRules`, whose answers are those of the registers by `Followed`; `SameContents`, `SameDamage` and `SameValidation` say that definitions seen through the instance are those of the module itself.

### Only model-checked

Everything of the other modules: the properties of `DogmaPasses`, `Sources` and `EveObjBuilder`; of `RahSimulation`, `ResistanceConserved`, which needs donations to halve exactly, as they do on the instance; `Fresh` where several fits have ancillary repairers (it is false there); and liveness. `Worth` and `Held` are recursive functions or folds, which TLC evaluates; what they yield for every input
is beyond the prover (no induction over data; of `Ideal`, whose recursion is bounded by a rank, the equation is proved), and so are temporal properties under fairness.

## 5. Not modelled, and why

* Statistics on damage profiles, tanking, agility, locking times, neutralizers, effects of fighters: floating-point formulas over what the modelled registers hold, without state of their own.
* Stacking penalties and rounding of the Eos calculator, distances in a solar system, the formula by which the Swift capacitor recharges: arithmetic; the penalties of the Swift passes are in `DogmaPasses`, and so is the rest of the capacitor's simulation.
* The effects that Eos customises (`eve_obj/custom`), side effects of boosters, abilities of fighters: tables of data for what the calculator and the items, which are modelled, do with them.
* Reading data files, constants, representations, errors' texts.
* Type errors and out-of-range calls that raise on their first check.
* The Rust engine: the model is of its port.

## 6. What could follow

* `AttrCalculator` with more than one domain, and with the stacking penalties of `DogmaPasses`; `Fleet` on top of it, so that the numbers that buffs aggregate are those of the calculator.
* Theorems: that a cache file with the current fingerprint is current (`CacheFresh`).
