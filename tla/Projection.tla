----------------------------- MODULE Projection -----------------------------
(***************************************************************************)
(* Effects that items on one fit project onto ships of another: the        *)
(* projected part of CalculationService and AffectionRegister, and the     *)
(* ProjectionRegister.  A projector is a gun with its one 'target' effect; *)
(* the effect has a modifier for the targeted ship itself and one for the  *)
(* gadgets in that ship's domain.  Ships resist it with an attribute.      *)
(*                                                                         *)
(* Local modifications are AttrCalculator's subject; here they appear as   *)
(* Shift, which changes the local part of a value and announces it.  As    *)
(* there, agenda is what is left of the call the user made.                *)
(***************************************************************************)
EXTENDS Naturals, Sequences, FiniteSets, SequencesExt

CONSTANTS
  None,
  Fits,
  Ships, Guns, Gadgets,
  Home,        \* the fit of each gun and gadget
  Sources,
  Known,       \* items whose type each source has
  Shifted,     \* bound: cells whose local part changes
  Levels       \* bound: the local parts

Items == Ships \cup Guns \cup Gadgets
\* strength is what guns project, resist and hit attributes of the targets.
Cells == (Guns \X {"strength"}) \cup (Ships \X {"resist", "hit"}) \cup
         (Gadgets \X {"hit"})

ASSUME ProjectionAssumption ==
  /\ Home \in [Guns \cup Gadgets -> Fits]
  /\ Known \in [Sources -> SUBSET Items]
  /\ Shifted \subseteq Cells /\ Levels \subseteq Nat
  /\ None \notin Sources \cup Fits \cup Items
  /\ Ships \cap (Guns \cup Gadgets) = {} /\ Guns \cap Gadgets = {}
  /\ IsFiniteSet(Fits) /\ IsFiniteSet(Guns \cup Gadgets)
  /\ Levels # {}

VARIABLES
  source,      \* SolarSystem.source
  ship,        \* Fit.ship of each fit
  fitted,      \* guns and gadgets that are on their fit
  ready,       \* guns whose state lets their effect run
  target,      \* SingleTargetableMixin.__target
  running,     \* guns with the effect in _running_effect_ids
  local,       \* local part of the value of each cell
  cache,       \* MutableAttrMap.__modified_attrs
  affectees,   \* AffectionRegister.__affectees
  active,      \* ...__affectors_item_active, projected specs: <<ship, gun>>
  domain,      \* ...__affectors_domain, projected specs: <<fit, gun>>
  projectors,  \* ProjectionRegister.__projectors
  carried,     \* ...__carrier_projectors: <<ship, gun>>
  carrierless, \* ...__carrierless_projectors
  tgts,        \* ...__projector_tgts, and turned round __tgt_projectors
  agenda,
  raised,      \* a call ended with an exception
  strayed      \* history: a ship was applied to, or left, while not loaded

fitVars == <<source, ship, fitted, ready, target, running, local>>
affection == <<affectees, active, domain>>
projection == <<projectors, carried, carrierless, tgts>>
vars == <<fitVars, cache, affection, projection, agenda, raised, strayed>>
-----------------------------------------------------------------------------
Fit(i) ==
  IF i \in Ships
  THEN IF \E f \in Fits : ship[f] = i THEN CHOOSE f \in Fits : ship[f] = i ELSE None
  ELSE IF i \in fitted THEN Home[i] ELSE None

Step(do, i) == [do |-> do, item |-> i]
Aimed(do, g, s) == [do |-> do, item |-> g, ship |-> s]
Doing(do) == agenda # <<>> /\ Head(agenda).do = do
Then(steps) == agenda' = steps \o Tail(agenda)
Idle == agenda = <<>> /\ ~raised

Drop(cells) == cache' = [c \in DOMAIN cache \ cells |-> cache[c]]
News(cells) ==
  LET dropped == cells \cap DOMAIN cache
  IN IF dropped = {} THEN <<>> ELSE <<[do |-> "changed", cells |-> dropped]>>

\* AffectionRegister.get_projected_affectee_items for both modifiers; ships
\* that are on no fit have no domain.
Hit(s) ==
  LET on == {s} \cup {d \in Gadgets : Fit(s) # None /\ Fit(d) = Fit(s)}
  IN (on \cap affectees) \X {"hit"}
Targets(g) == {p[2] : p \in {q \in tgts : q[1] = g}}
HitBy(guns) == UNION {Hit(s) : s \in UNION {Targets(g) : g \in guns}}

\* Mutant of Applying: those of a projector that stops are left out.
ApplyingOnly(do, g) ==
  IF target[g] = None \/ do = "unapplied" THEN <<>> ELSE <<Aimed(do, g, target[g])>>

\* Messages about effects that get applied and unapplied.
Applying(do, g) == IF target[g] = None THEN <<>> ELSE <<Aimed(do, g, target[g])>>
-----------------------------------------------------------------------------
(* Steps of eos. *)

\* BaseItemMixin._load
LoadItem ==
  /\ Doing("load")
  /\ LET i == Head(agenda).item IN
       IF source = None \/ i \notin Known[source]
       THEN running' = running /\ Then(<<>>)
       ELSE IF i \in Guns /\ i \in ready
       THEN /\ running' = running \cup {i}
            /\ Then(<<Step("loaded", i), Step("started", i)>> \o Applying("applied", i))
       ELSE running' = running /\ Then(<<Step("loaded", i)>>)
  /\ UNCHANGED <<source, ship, fitted, ready, target, local, cache, affection,
                 projection, raised, strayed>>

\* BaseItemMixin._unload
UnloadItem ==
  /\ Doing("unload")
  /\ LET i == Head(agenda).item IN
       /\ running' = running \ {i}
       /\ Then((IF i \in running THEN Applying("unapplied", i) \o <<Step("stopped", i)>>
                ELSE <<>>) \o
               (IF i \in affectees THEN <<Step("unloaded", i)>> ELSE <<>>) \o
               <<Step("clear", i)>>)
  /\ UNCHANGED <<source, ship, fitted, ready, target, local, cache, affection,
                 projection, raised, strayed>>

\* MutableAttrMap._clear
ClearItem ==
  /\ Doing("clear")
  /\ Drop({c \in Cells : c[1] = Head(agenda).item})
  /\ Then(<<>>)
  /\ UNCHANGED <<fitVars, affection, projection, raised, strayed>>

\* The assignments inside the setters of Fit.ship, target and source.
Assign ==
  /\ Doing("ship") \/ Doing("target") \/ Doing("source") \/ Doing("off")
  /\ LET h == Head(agenda) IN
       /\ ship' = IF h.do = "ship" THEN [ship EXCEPT ![h.fit] = h.ship] ELSE ship
       /\ target' = IF h.do = "target" THEN [target EXCEPT ![h.item] = h.ship] ELSE target
       /\ source' = IF h.do = "source" THEN h.item ELSE source
       /\ fitted' = IF h.do = "off" THEN fitted \ {h.item} ELSE fitted
  /\ Then(<<>>)
  /\ UNCHANGED <<ready, running, local, cache, affection, projection, raised, strayed>>
-----------------------------------------------------------------------------
(* Messages, handled by the calculation service. *)

\* Items that _solsys_carrier of a module cannot be asked of: it goes through
\* the module's fit without asking whether there is one.
Unasked(guns) == {g \in guns : Fit(g) = None}
Carrier(g) == ship[Home[g]]

\* _handle_item_loaded.  A projected spec for this very ship is not looked for.
ItemLoaded ==
  /\ Doing("loaded")
  /\ LET i == Head(agenda).item
         own == {g \in carrierless : Carrier(g) = i}
     IN /\ affectees' = affectees \cup {i}
        /\ IF i \in Ships /\ Unasked(carrierless) # {}
           THEN /\ raised' = TRUE /\ agenda' = <<>>
                /\ UNCHANGED <<carried, carrierless>>
           ELSE /\ raised' = raised /\ Then(<<>>)
                /\ carrierless' = carrierless \ own
                /\ carried' = carried \cup ({i} \X own)
  /\ UNCHANGED <<fitVars, cache, active, domain, projectors, tgts, strayed>>

\* _handle_item_unloaded: specs that act on the item directly are forgotten.
ItemUnloaded ==
  /\ Doing("unloaded")
  /\ LET i == Head(agenda).item IN
       /\ affectees' = affectees \ {i}
       /\ active' = {p \in active : p[1] # i}
       /\ carrierless' = carrierless \cup {p[2] : p \in {q \in carried : q[1] = i}}
       /\ carried' = {p \in carried : p[1] # i}
       /\ strayed' = (strayed \/ \E p \in tgts : p[2] = i)
  /\ Then(<<>>)
  /\ UNCHANGED <<fitVars, cache, domain, projectors, tgts, raised>>

\* _handle_effects_started, the projector's part.
EffectsStarted ==
  /\ Doing("started")
  /\ LET g == Head(agenda).item IN
       /\ projectors' = projectors \cup {g}
       /\ carried' = IF Carrier(g) = None THEN carried ELSE carried \cup {<<Carrier(g), g>>}
       /\ carrierless' = IF Carrier(g) = None THEN carrierless \cup {g} ELSE carrierless
  /\ Then(<<>>)
  /\ UNCHANGED <<fitVars, cache, affection, tgts, raised, strayed>>

\* _handle_effects_stopped, the projector's part: it is taken out of the one
\* storage where it should be.
EffectsStopped ==
  /\ Doing("stopped")
  /\ LET g == Head(agenda).item IN
       /\ projectors' = projectors \ {g}
       /\ carried' = IF Carrier(g) = None THEN carried ELSE carried \ {<<Carrier(g), g>>}
       /\ carrierless' = IF Carrier(g) = None THEN carrierless \ {g} ELSE carrierless
  /\ Then(<<>>)
  /\ UNCHANGED <<fitVars, cache, affection, tgts, raised, strayed>>

\* Mutant of Reached: the spec is stored for a ship that is not loaded.
ReachedBlindly(s) == {s}

\* __get_projected_affector_storages: where the spec for the ship itself goes,
\* now; for a ship that is not loaded, nowhere.
Reached(s) == {s} \cap affectees

\* _handle_effect_applied: register both specs with the target as it is now,
\* drop the values they modify, then record the target.
EffectApplied ==
  /\ Doing("applied")
  /\ LET g == Head(agenda).item
         s == Head(agenda).ship
     IN /\ active' = active \cup (Reached(s) \X {g})
        /\ domain' = domain \cup {<<Fit(s), g>>}
        /\ Drop(Hit(s))
        /\ tgts' = tgts \cup {<<g, s>>}
        /\ Then(News(Hit(s)))
        /\ strayed' = (strayed \/ s \notin affectees)
  /\ UNCHANGED <<fitVars, affectees, projectors, carried, carrierless, raised>>

\* _handle_effect_unapplied
EffectUnapplied ==
  /\ Doing("unapplied")
  /\ LET g == Head(agenda).item
         s == Head(agenda).ship
     IN /\ Drop(Hit(s))
        /\ active' = active \ (Reached(s) \X {g})
        /\ domain' = domain \ {<<Fit(s), g>>}
        /\ tgts' = tgts \ {<<g, s>>}
        /\ Then(News(Hit(s)))
  /\ UNCHANGED <<fitVars, affectees, projectors, carried, carrierless, raised, strayed>>

\* Mutant of Dependents: the resistance of a target is not looked at.
DependentsUnresisted(cells) ==
  HitBy({g \in running : <<g, "strength">> \in cells})

\* _revise_regular_attr_dependents: what guns with changed strength hit, and
\* all that is hit by a gun one of whose targets has a changed resistance.
Dependents(cells) ==
  HitBy({g \in running : <<g, "strength">> \in cells}) \cup
  HitBy({p[1] : p \in {q \in tgts : <<q[2], "resist">> \in cells}})

AttrsValueChanged ==
  /\ Doing("changed")
  /\ LET stale == Dependents(Head(agenda).cells)
     IN Drop(stale) /\ Then(News(stale) \o News(stale))
  /\ UNCHANGED <<fitVars, affection, projection, raised, strayed>>
-----------------------------------------------------------------------------
(* What the user does. *)

\* The items of the fits, in the order in which SolarSystem.fits, a set, is
\* gone through; on a fit the ship comes first.
InFit(f) ==
  (IF ship[f] = None THEN <<>> ELSE <<ship[f]>>) \o
  SetToSeq({i \in fitted : Home[i] = f})
Chained(items, more) == items \o more
Chain == INSTANCE Iteration WITH Step <- Chained
ForAll(order, do) ==
  LET items == Chain!All(<<>>, [k \in 1..Len(order) |-> InFit(order[k])])
  IN [k \in 1..Len(items) |-> Step(do, items[k])]

Begin(steps) == Idle /\ agenda' = steps
Untouched == UNCHANGED <<source, ship, fitted, ready, target, running, local,
                         cache, affection, projection, raised, strayed>>

\* Fit.ship; a ship that sits on a fit already cannot be taken (ValueError).
SetShip(f, s) ==
  /\ s # ship[f] /\ (s # None => Fit(s) = None)
  /\ Begin((IF ship[f] = None THEN <<>> ELSE <<Step("unload", ship[f])>>) \o
           <<[do |-> "ship", fit |-> f, ship |-> s]>> \o
           (IF s = None THEN <<>> ELSE <<Step("load", s)>>))
  /\ Untouched

\* ItemList.append and remove
AddItem(i) ==
  /\ i \notin fitted
  /\ Begin(<<Step("load", i)>>)
  /\ fitted' = fitted \cup {i}
  /\ UNCHANGED <<source, ship, ready, target, running, local, cache, affection,
                 projection, raised, strayed>>
RemoveItem(i) ==
  i \in fitted /\ Begin(<<Step("unload", i), Step("off", i)>>) /\ Untouched

\* SolarSystem.source
SetSource(s, order) ==
  /\ s # source
  /\ Begin((IF source = None THEN <<>> ELSE ForAll(order, "unload")) \o
           <<Step("source", s)>> \o
           (IF s = None THEN <<>> ELSE ForAll(order, "load")))
  /\ Untouched

\* MutableStateMixin.state of a gun: whether its effect may run.
SetState(g) ==
  /\ ready' = IF g \in ready THEN ready \ {g} ELSE ready \cup {g}
  /\ IF g \notin affectees THEN running' = running /\ Begin(<<>>)
     ELSE IF g \in ready
     THEN /\ running' = running \ {g}
          /\ Begin(Applying("unapplied", g) \o <<Step("stopped", g)>>)
     ELSE /\ running' = running \cup {g}
          /\ Begin(<<Step("started", g)>> \o Applying("applied", g))
  /\ UNCHANGED <<source, ship, fitted, target, local, cache, affection,
                 projection, raised, strayed>>

\* SingleTargetableMixin.target: the old target is let go of before, the new
\* one taken after the assignment.  Off a fit there is no one to tell.
SetTarget(g, s) ==
  /\ s # target[g]
  /\ Begin((IF g \in running THEN Applying("unapplied", g) ELSE <<>>) \o
           <<Aimed("target", g, s)>> \o
           (IF g \in running /\ s # None THEN <<Aimed("applied", g, s)>> ELSE <<>>))
  /\ Untouched

\* A local modification of a loaded item's cell.
Shift(c, v) ==
  /\ Idle /\ c[1] \in affectees /\ v # local[c]
  /\ local' = [local EXCEPT ![c] = v]
  /\ Drop({c}) /\ agenda' = News({c})
  /\ UNCHANGED <<source, ship, fitted, ready, target, running, affection,
                 projection, raised, strayed>>

\* What value a cell has, given the guns that act on it: the sum of their
\* strengths, each weakened by the resistance of the item's carrier.
SolsysCarrier(i) == IF i \in Ships THEN i ELSE ship[Home[i]]
Resist(i) == {<<SolsysCarrier(i), "resist">>} \cap (affectees \X {"resist"})
Reads(c, guns) ==
  IF c[2] # "hit" \/ guns = {} THEN {}
  ELSE Resist(c[1]) \cup (guns \X {"strength"})
Value(c, guns, value) ==
  IF c[2] # "hit" THEN <<local[c]>>
  ELSE <<local[c], {<<g, value[<<g, "strength">>]>> : g \in guns},
         IF guns = {} THEN {} ELSE {value[r] : r \in Resist(c[1])}>>

\* The guns CalculationService.get_modifications finds for an item.  A gun
\* that is not loaded has no strength and modifies nothing.
ActingOn(i) ==
  {g \in affectees \cap Guns :
     IF i \in Ships THEN <<i, g>> \in active
     ELSE i \in Gadgets /\ <<Fit(i), g>> \in domain}

\* MutableAttrMap.__getitem__, what it reads in turn being read first.  Bound:
\* nothing is read any more once strayed, when nothing is claimed of values.
Read(c) ==
  LET reads == Reads(c, ActingOn(c[1])) IN
  /\ Idle /\ ~strayed /\ c[1] \in affectees /\ c \notin DOMAIN cache
  /\ reads \subseteq DOMAIN cache
  /\ cache' = [d \in DOMAIN cache \cup {c} |->
                 IF d = c THEN Value(c, ActingOn(c[1]), cache) ELSE cache[d]]
  /\ UNCHANGED <<fitVars, affection, projection, agenda, raised, strayed>>

Init ==
  /\ source = None
  /\ ship = [f \in Fits |-> None]
  /\ fitted = {} /\ ready = {} /\ running = {}
  /\ target = [g \in Guns |-> None]
  /\ local \in [Cells -> {CHOOSE v \in Levels : TRUE}]
  /\ cache = <<>>
  /\ affectees = {} /\ active = {} /\ domain = {}
  /\ projectors = {} /\ carried = {} /\ carrierless = {} /\ tgts = {}
  /\ agenda = <<>> /\ raised = FALSE /\ strayed = FALSE

Deliver ==
  \/ LoadItem \/ UnloadItem \/ ClearItem \/ Assign
  \/ ItemLoaded \/ ItemUnloaded \/ EffectsStarted \/ EffectsStopped
  \/ EffectApplied \/ EffectUnapplied \/ AttrsValueChanged

\* The caller of a call that raised is on his own.
Over == raised /\ UNCHANGED vars

Next ==
  \/ Deliver \/ Over
  \/ \E f \in Fits, s \in Ships \cup {None} : SetShip(f, s)
  \/ \E i \in Guns \cup Gadgets : AddItem(i) \/ RemoveItem(i)
  \/ \E s \in Sources \cup {None}, order \in SetToSeqs(Fits) : SetSource(s, order)
  \/ \E g \in Guns : SetState(g) \/ \E s \in Ships \cup {None} : SetTarget(g, s)
  \/ \E c \in Shifted, v \in Levels : Shift(c, v)
  \/ \E c \in Cells : Read(c)

Spec == Init /\ [][Next]_vars
-----------------------------------------------------------------------------
Loaded == {i \in Items : Fit(i) # None /\ source # None /\ i \in Known[source]}

\* Every variable keeps its type; only ships and guns that exist are linked.
TypeOK ==
  /\ source \in Sources \cup {None}
  /\ ship \in [Fits -> Ships \cup {None}]
  /\ target \in [Guns -> Ships \cup {None}]
  /\ fitted \subseteq Guns \cup Gadgets /\ running \subseteq Guns
  /\ local \in [Cells -> Levels] /\ DOMAIN cache \subseteq Cells
  /\ affectees \subseteq Items /\ active \subseteq affectees \X Guns
  /\ domain \subseteq (Fits \cup {None}) \X Guns
  /\ carried \subseteq Ships \X Guns
  /\ tgts \subseteq Guns \X Ships

\* Whatever came between, a projector's targets are those of the gun while it
\* runs: targets set and cleared, states, source and gun on and off the fit.
TargetsTrue ==
  Idle => /\ tgts = {<<g, target[g]>> : g \in {h \in running : target[h] # None}}
          /\ projectors = running
          /\ running = ready \cap Loaded

\* Guns that run and target what carries an item.
Shooting(i) == {g \in running : target[g] \in {SolsysCarrier(i)} \ {None}}

\* While no projection met a ship that was not loaded, what acts on ships and
\* their gadgets are the guns that run and target the ship, and every value
\* kept is the one a calculation from that would give.
ProjectionFresh ==
  Idle /\ ~strayed =>
    LET ideal[c \in Cells] ==
          Value(c, Shooting(c[1]), [r \in Reads(c, Shooting(c[1])) |-> ideal[r]])
    IN /\ \A i \in Loaded \cap (Ships \cup Gadgets) : ActingOn(i) = Shooting(i)
       /\ \A c \in DOMAIN cache : cache[c] = ideal[c]
       /\ \A c \in DOMAIN cache : Reads(c, Shooting(c[1])) \subseteq DOMAIN cache
=============================================================================
