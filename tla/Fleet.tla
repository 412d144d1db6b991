------------------------------- MODULE Fleet --------------------------------
(***************************************************************************)
(* Fleets and warfare buffs: Fleet.fits, and the part of CalculationService *)
(* that applies the buffs of a running booster to the ships of the fleet.  *)
(* What a buff does is said by the templates of the buff id found on the   *)
(* booster: a template modifies either the targeted ship, or the items in  *)
(* the domain of that ship.                                                *)
(*                                                                         *)
(* A call is one action: messages are delivered within it.  calc holds the *)
(* registers of the service, and a handler is an operator from registers   *)
(* to registers.  The fit a booster or gadget is on does not change here.  *)
(***************************************************************************)
EXTENDS Naturals, Sequences, FiniteSets, SequencesExt, FiniteSetsExt

CONSTANTS
  None,
  Fits, Fleets,
  Ships, Boosters, Gadgets,
  Home,        \* the fit of each booster and gadget
  Templates,   \* buff id -> "ship" and "domain" templates the source has
  Tuned,       \* bound: boosters whose buff id and strength change
  Levels       \* bound: the strengths

Items == Ships \cup Boosters \cup Gadgets

ASSUME FleetAssumption ==
  /\ Home \in [Boosters \cup Gadgets -> Fits]
  /\ \A id \in DOMAIN Templates : Templates[id] \subseteq {"ship", "domain"}
  /\ \E id \in DOMAIN Templates : Templates[id] # {}
  /\ Tuned \subseteq Boosters /\ Levels \subseteq Nat
  /\ IsFiniteSet(Fits) /\ IsFiniteSet(Boosters \cup Gadgets)
  /\ Ships \cap (Boosters \cup Gadgets) = {} /\ Boosters \cap Gadgets = {}
  /\ None \notin Fits \cup Fleets \cup Items

VARIABLES
  source,    \* whether SolarSystem.source is set
  ship,      \* Fit.ship of each fit
  fleet,     \* Fit.fleet of each fit, and turned round FitSet.__set
  ready,     \* boosters whose state lets their effect run
  buff,      \* warfare_buff_1_id of each booster
  strength,  \* warfare_buff_1_value of each booster
  calc,      \* solar system and its calculation service, see TypeOK
  strayed    \* history: a ship left its fit, or its fit the fleet unheard by the
             \* service, while a buff had the ship as target

fitVars == <<source, ship, fleet, ready, buff, strength>>
vars == <<fitVars, calc, strayed>>
-----------------------------------------------------------------------------
FitOf(i) ==
  IF i \in Boosters \cup Gadgets THEN Home[i]
  ELSE IF \E f \in Fits : ship[f] = i THEN CHOOSE f \in Fits : ship[f] = i ELSE None

Mates(fl, f, g) == fl[f] # None /\ fl[f] = fl[g]
Spec(b, id, filter) == [item |-> b, buff |-> id, filter |-> filter]

\* AffectionRegister: affectees in the domain of a fit's ship.
InDomain(c, f) == {i \in c.affectees \cap Gadgets : Home[i] = f}

\* Mutant of Direct: the specs are stored for ships that are not loaded, too.
DirectBlindly(c, uses) ==
  {<<u[2], s>> : u \in uses, s \in {t \in c.buffs : t.filter = "ship"}}

\* Where specs of the buffs in use go, by __get_projected_affector_storages:
\* to targets that are affectees, and under the fits of targets that are ships.
\* A use is a booster and a target, which may be None.
Direct(c, uses) ==
  UNION {{<<u[2], s>> : s \in {t \in c.buffs : t.item = u[1] /\ t.filter = "ship"}} :
           u \in {v \in uses : v[2] \in c.affectees}}
Wide(c, uses) ==
  UNION {{<<FitOf(u[2]), s>> : s \in {t \in c.buffs : t.item = u[1] /\ t.filter = "domain"}} :
           u \in {v \in uses : v[2] \in Ships}}

\* get_projected_affectee_items of these specs
Hit(c, uses) ==
  {p[1] : p \in Direct(c, uses)} \cup UNION {InDomain(c, p[1]) : p \in Wide(c, uses)}

Recalc(cache, items) == [i \in DOMAIN cache \ items |-> cache[i]]
Uses(c, b) == {u \in c.tgts : u[1] = b}

\* _handle_effect_applied and ProjectionRegister.apply_projector
Applied(c, uses) ==
  [c EXCEPT !.active = @ \cup Direct(c, uses), !.domain = @ \cup Wide(c, uses),
            !.cache = Recalc(@, Hit(c, uses)), !.tgts = @ \cup uses]

\* _handle_effect_unapplied and unapply_projector.  __tgt_projectors, which
\* nothing that is modelled here reads, is left out.
Unapplied(c, uses) ==
  [c EXCEPT !.active = @ \ Direct(c, uses), !.domain = @ \ Wide(c, uses),
            !.cache = Recalc(@, Hit(c, uses)), !.tgts = @ \ uses]

\* Mutant of Reach: a buff is started on the ship of its own fit only.
ReachOwn(c, b) == {b} \X ({ship[f] : f \in {Home[b]} \cap c.fits} \ {None})

\* Ships of the booster's fit and of fits of its fleet in the solar system.
Reach(c, b) ==
  {b} \X ({ship[f] : f \in {g \in c.fits : g = Home[b] \/ Mates(fleet, Home[b], g)}} \ {None})

\* Registration of the buff, as _handle_effects_started and the end of
\* _revise_regular_attr_dependents do it.
Registered(c, b, id) ==
  IF Templates[id] = {} THEN c
  ELSE Applied([c EXCEPT !.buffs = @ \cup {Spec(b, id, t) : t \in Templates[id]}],
               Reach(c, b))

\* Projectors with a buff are unapplied, and the buff is forgotten.
Unregistered(c, b) ==
  IF \A s \in c.buffs : s.item # b THEN c
  ELSE [Unapplied(c, Uses(c, b)) EXCEPT !.buffs = {s \in @ : s.item # b}]

\* _handle_effects_started and _stopped
Started(c, b) == Registered([c EXCEPT !.projectors = @ \cup {b}], b, buff[b])
Stopped(c, b) == [Unregistered(c, b) EXCEPT !.projectors = @ \ {b}]

\* Mutant of Revised: the old buff is forgotten without being unapplied.
RevisedOnly(c, b, id) ==
  IF b \notin c.projectors THEN c
  ELSE Registered([c EXCEPT !.buffs = {s \in @ : s.item # b}], b, id)

\* _revise_regular_attr_dependents when the buff id of a booster changed
Revised(c, b, id) ==
  IF b \notin c.projectors THEN c ELSE Registered(Unregistered(c, b), b, id)
-----------------------------------------------------------------------------
(* Items that get loaded and unloaded. *)

\* Running buffs that a ship that appears on this fit would be owed.
Owed(c, f) == {b \in c.projectors : Home[b] = f \/ Mates(fleet, Home[b], f)}

\* ItemLoaded, then EffectsStarted
LoadItem(c, i) ==
  LET known == [c EXCEPT !.affectees = @ \cup {i},
                         !.missed = @ \/ (i \in Ships /\ Owed(c, FitOf(i)) # {})]
  IN IF i \in ready THEN Started(known, i) ELSE known

\* EffectsStopped, then ItemUnloaded: specs that act on the item are forgotten;
\* then its attributes are cleared.
UnloadItem(c, i) ==
  LET halted == IF i \in c.projectors THEN Stopped(c, i) ELSE c
  IN [halted EXCEPT !.affectees = @ \ {i},
                    !.active = {p \in @ : p[1] # i},
                    !.cache = Recalc(@, {i})]

\* Fit._item_iter: the ship before the rest
InFit(f) ==
  (IF ship[f] = None THEN <<>> ELSE <<ship[f]>>) \o
  SetToSeq({i \in Boosters \cup Gadgets : Home[i] = f})

\* Fit._load_items and _unload_items
Load == INSTANCE Iteration WITH Step <- LoadItem
Unload == INSTANCE Iteration WITH Step <- UnloadItem
LoadFit(c, f) == Load!All(c, InFit(f))
UnloadFit(c, f) == Unload!All(c, InFit(f))
-----------------------------------------------------------------------------
(* What the user does. *)

\* FitSet.add.  The fit is in the fleet already when the service hears of it,
\* if the fit is in the solar system.  Ships of the others are not asked for:
\* they may be missing, or not loaded.
Join(f, fl) ==
  /\ fleet[f] = None
  /\ fleet' = [fleet EXCEPT ![f] = fl]
  /\ LET onThis == {b \in calc.projectors : fleet'[Home[b]] = fl} \X ({ship[f]} \ {None})
         onOthers == {b \in calc.projectors : Home[b] = f} \X
                     {ship[g] : g \in {h \in Fits \ {f} : fleet[h] = fl}}
     IN calc' = IF f \in calc.fits THEN Applied(calc, onThis \cup onOthers) ELSE calc
  /\ UNCHANGED <<source, ship, ready, buff, strength, strayed>>

\* Mutant of Left: the buffs of the fit that leaves stay on the others.
LeftBehind(c, fl, f) ==
  {b \in c.projectors : fl[Home[b]] = fl[f]} \X ({ship[f]} \ {None})

\* What _handle_fleet_fit_removed unapplies: buffs of the fleet from this fit's
\* ship, those of the fit itself among them, and this fit's buffs from others.
Left(c, fl, f) ==
  ({b \in c.projectors : fl[Home[b]] = fl[f]} \X ({ship[f]} \ {None})) \cup
  ({b \in c.projectors : Home[b] = f} \X {ship[g] : g \in {h \in Fits \ {f} : fl[h] = fl[f]}})

\* One fit that leaves: the fleets as they are, and the fit, which is in its
\* fleet still when the service hears.
Leaves(c, leaver) ==
  LET fl == leaver[1]  f == leaver[2]
  IN IF f \notin c.fits THEN c
     ELSE [Unapplied(c, Left(c, fl, f)) EXCEPT
             !.missed = @ \/ \E b \in c.projectors : Home[b] = f]

Targeted(s) == \E u \in calc.tgts : u[2] = s
Unheard(f) == f \notin calc.fits /\ ship[f] # None /\ Targeted(ship[f])

\* FitSet.remove
Leave(f) ==
  /\ fleet[f] # None
  /\ calc' = Leaves(calc, <<fleet, f>>)
  /\ fleet' = [fleet EXCEPT ![f] = None]
  /\ strayed' = (strayed \/ Unheard(f))
  /\ UNCHANGED <<source, ship, ready, buff, strength>>

\* FitSet.clear: the fits leave one after the other.
Depart == INSTANCE Iteration WITH Step <- Leaves
Disband(fl, order) ==
  /\ {order[k] : k \in DOMAIN order} = {f \in Fits : fleet[f] = fl}
  /\ order # <<>>
  /\ LET without(k) == [f \in Fits |-> IF \E j \in 1..(k - 1) : order[j] = f THEN None
                                       ELSE fleet[f]]
     IN calc' = Depart!All(calc, [k \in 1..Len(order) |-> <<without(k), order[k]>>])
  /\ fleet' = [f \in Fits |-> IF fleet[f] = fl THEN None ELSE fleet[f]]
  /\ strayed' = (strayed \/ \E k \in DOMAIN order : Unheard(order[k]))
  /\ UNCHANGED <<source, ship, ready, buff, strength>>

\* Fit.ship: the old ship is unloaded while it is on the fit, the new one
\* loaded once it is.
SetShip(f, s) ==
  /\ s # ship[f] /\ (s # None => FitOf(s) = None)
  /\ ship' = [ship EXCEPT ![f] = s]
  /\ LET old == ship[f]
         loads == source /\ f \in calc.fits
         gone == IF loads /\ old # None THEN UnloadItem(calc, old) ELSE calc
     IN /\ calc' = IF loads /\ s # None
                   THEN [gone EXCEPT !.affectees = @ \cup {s},
                                     !.missed = @ \/ Owed(gone, f) # {}]
                   ELSE gone
        /\ strayed' = (strayed \/ (old # None /\ Targeted(old)))
  /\ UNCHANGED <<source, fleet, ready, buff, strength>>

\* SolarSystem.fits.add and remove
AddFit(f) ==
  /\ f \notin calc.fits
  /\ LET more == [calc EXCEPT !.fits = @ \cup {f}]
     IN calc' = IF source THEN LoadFit(more, f) ELSE more
  /\ UNCHANGED <<fitVars, strayed>>
RemoveFit(f) ==
  /\ f \in calc.fits
  /\ calc' = [(IF source THEN UnloadFit(calc, f) ELSE calc) EXCEPT !.fits = @ \ {f}]
  /\ UNCHANGED <<fitVars, strayed>>

\* SolarSystem.source: fits in the order in which the set is gone through.
LoadFits == INSTANCE Iteration WITH Step <- LoadFit
UnloadFits == INSTANCE Iteration WITH Step <- UnloadFit
SetSource(order) ==
  /\ {order[k] : k \in DOMAIN order} = calc.fits
  /\ source' = ~source
  /\ calc' = IF source THEN UnloadFits!All(calc, order) ELSE LoadFits!All(calc, order)
  /\ UNCHANGED <<ship, fleet, ready, buff, strength, strayed>>

\* MutableStateMixin.state of a booster
SetState(b) ==
  /\ ready' = IF b \in ready THEN ready \ {b} ELSE ready \cup {b}
  /\ calc' = IF b \notin calc.affectees THEN calc
             ELSE IF b \in ready THEN Stopped(calc, b) ELSE Started(calc, b)
  /\ UNCHANGED <<source, ship, fleet, buff, strength, strayed>>

\* The buff id of a booster changes, as does that of a booster whose charge is
\* swapped.  A running booster has had its id read.
SetBuff(b, id) ==
  /\ id # buff[b]
  /\ buff' = [buff EXCEPT ![b] = id]
  /\ calc' = Revised(calc, b, id)
  /\ UNCHANGED <<source, ship, fleet, ready, strength, strayed>>

\* The strength of a booster changes: values on its targets are dropped.
SetStrength(b, v) ==
  /\ v # strength[b]
  /\ strength' = [strength EXCEPT ![b] = v]
  /\ calc' = IF b \in calc.projectors
             THEN [calc EXCEPT !.cache = Recalc(@, Hit(calc, Uses(calc, b)))]
             ELSE calc
  /\ UNCHANGED <<source, ship, fleet, ready, buff, strayed>>

\* CalculationService.get_modifications: specs that act on an item.  Boosters
\* that are not loaded have no strength.
ActingOn(c, i) ==
  {s \in {p[2] : p \in IF i \in Ships THEN {q \in c.active : q[1] = i}
                       ELSE {q \in c.domain : q[1] = Home[i]}} : s.item \in c.affectees}

\* Of modifications with the same buff id only the strongest counts.
Value(specs) ==
  [id \in {s.buff : s \in specs} |->
     Max({strength[s.item] : s \in {t \in specs : t.buff = id}})]

\* MutableAttrMap.__getitem__.  Bound: nothing is read any more once strayed,
\* when nothing is claimed of values.
Read(i) ==
  /\ ~strayed /\ i \in calc.affectees \ (Boosters \cup DOMAIN calc.cache)
  /\ calc' = [calc EXCEPT !.cache = [j \in DOMAIN @ \cup {i} |->
                IF j = i THEN Value(ActingOn(calc, i)) ELSE @[j]]]
  /\ UNCHANGED <<fitVars, strayed>>

Init ==
  /\ source = FALSE
  /\ ship = [f \in Fits |-> None]
  /\ fleet = [f \in Fits |-> None]
  /\ ready = {}
  /\ buff = [b \in Boosters |-> CHOOSE id \in DOMAIN Templates : Templates[id] # {}]
  /\ strength = [b \in Boosters |-> CHOOSE v \in Levels : TRUE]
  /\ calc = [fits |-> {}, affectees |-> {}, projectors |-> {}, buffs |-> {},
             tgts |-> {}, active |-> {}, domain |-> {},
             cache |-> <<>>, missed |-> FALSE]
  /\ strayed = FALSE

Orders(fits) == SetToSeqs(fits)

Next ==
  \/ \E f \in Fits, fl \in Fleets : Join(f, fl)
  \/ \E f \in Fits : Leave(f) \/ AddFit(f) \/ RemoveFit(f)
  \/ \E fl \in Fleets : \E order \in Orders({f \in Fits : fleet[f] = fl}) : Disband(fl, order)
  \/ \E f \in Fits, s \in Ships \cup {None} : SetShip(f, s)
  \/ \E order \in Orders(calc.fits) : SetSource(order)
  \/ \E b \in Boosters : SetState(b)
  \/ \E b \in Tuned : \/ \E id \in DOMAIN Templates : SetBuff(b, id)
                      \/ \E v \in Levels : SetStrength(b, v)
  \/ \E i \in Ships \cup Gadgets : Read(i)

FleetSpec == Init /\ [][Next]_vars
-----------------------------------------------------------------------------
Specs == [item : Boosters, buff : DOMAIN Templates, filter : {"ship", "domain"}]

\* Every variable keeps its type: specs act directly on loaded ships only, and
\* a buff is registered for running boosters only.
TypeOK ==
  /\ ship \in [Fits -> Ships \cup {None}]
  /\ fleet \in [Fits -> Fleets \cup {None}]
  /\ ready \subseteq Boosters
  /\ calc.fits \subseteq Fits                      \* SolarSystem.fits
  /\ calc.affectees \subseteq Items                \* AffectionRegister.__affectees
  /\ calc.projectors \subseteq Boosters            \* ProjectionRegister.__projectors
  /\ calc.buffs \subseteq Specs                    \* __warfare_buffs
  /\ {s.item : s \in calc.buffs} \subseteq calc.projectors
  /\ calc.tgts \subseteq Boosters \X (Ships \cup {None})   \* __projector_tgts
  /\ calc.active \subseteq (Ships \cap calc.affectees) \X Specs
                                                   \* __affectors_item_active
  /\ calc.domain \subseteq (Fits \cup {None}) \X Specs     \* __affectors_domain
  /\ DOMAIN calc.cache \subseteq Items             \* __modified_attrs

Entitled(b, f) == Home[b] = f \/ Mates(fleet, Home[b], f)

\* No buff acts on a ship but one that its booster has now and while it runs,
\* nor on a ship that is neither its own nor of the same fleet: stops, changes
\* of the buff, fits that leave or go, in any order.
BuffsEntitled ==
  \A p \in calc.active :
    /\ p[2] \in calc.buffs /\ p[2].buff = buff[p[2].item]
    /\ <<p[2].item, p[1]>> \in calc.tgts
    /\ Entitled(p[2].item, FitOf(p[1]))

\* Unless a targeted ship strayed, the same is true of what acts on the
\* items around the ships, and values kept are those of the buffs that act.
BuffsFresh ==
  ~strayed =>
    /\ \A p \in calc.domain :
         /\ p[2] \in calc.buffs /\ p[2].buff = buff[p[2].item]
         /\ p[1] # None /\ Entitled(p[2].item, p[1])
    /\ \A i \in DOMAIN calc.cache : calc.cache[i] = Value(ActingOn(calc, i))

\* Where no ship came late and no booster's fit left a fleet, every running
\* buff acts on all ships in the solar system it is meant for.
BuffsReach ==
  ~strayed /\ ~calc.missed =>
    \A b \in calc.projectors, f \in calc.fits :
      ship[f] \in calc.affectees /\ Entitled(b, f) =>
        \A t \in Templates[buff[b]] :
          IF t = "ship" THEN <<ship[f], Spec(b, buff[b], t)>> \in calc.active
          ELSE <<f, Spec(b, buff[b], t)>> \in calc.domain
=============================================================================
