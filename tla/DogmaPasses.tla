---------------------------- MODULE DogmaPasses ----------------------------
(***************************************************************************)
(* The DogmaEngine package, src/Sources/DogmaEngine: calculate() takes a   *)
(* fit through four passes.  Pass 1 makes the items and their base values, *)
(* pass 2 collects the modifiers of all items and puts them on the         *)
(* attributes they act on, pass 3 calculates the values, each by recursion *)
(* into the attributes its modifiers read, pass 4 adds what no modifier    *)
(* yields.  Skills and the attributes of an item are kept in dictionaries, *)
(* which Swift iterates in any order.                                      *)
(*                                                                         *)
(* Numbers are in fixed point, Unit standing for 1.0.                      *)
(***************************************************************************)
EXTENDS Integers, Sequences, FiniteSets
LOCAL INSTANCE SequencesExt
LOCAL INSTANCE FiniteSetsExt
LOCAL INSTANCE TLC

CONSTANTS
  None,
  Unit,
  Types,        \* type ids
  CharType,     \* the type of Ship.char
  NoType,       \* the type of Ship.structure and Ship.target
  GroupOf,      \* Type.groupID
  Exempt,       \* types of a category in EXEMPT_PENALTY_CATEGORY_IDS
  DogmaAttrs,   \* Info.getDogmaAttributes of each type
  InfoAttrs,    \* mass, capacity, volume and radius of each type, if it has them
  EffectsOf,    \* Info.getDogmaEffects of each type
  Default, Stackable, HighIsGood,   \* Info.getDogmaAttribute
  SkillAttrs,   \* ATTRIBUTE_SKILLS
  Level, Need, Peak, Capacity, RechargeRate, CycleTime, DepletesIn,
  Penalty,      \* PENALTY_FACTOR to the square of the rank, first rank first
  Shares,       \* of what the capacitor lacks, what it may regain between two
                \* moments; Unit: all of it
  MaxTime,      \* bound on the moments of the simulation of the capacitor
  Fits          \* the fits, with their skills, to calculate

\* EffectCategory by its raw values.
Passive == 0   Online == 1   Active == 2   Overload == 3
Operators == <<"preAssign", "preMul", "preDiv", "modAdd", "modSub",
               "postMul", "postDiv", "postPercent", "postAssign">>
Assigning == {"preAssign", "postAssign"}
Adding == {"modAdd", "modSub"}

Hull == <<"ship", 0>>   Char == <<"char", 0>>
Structure == <<"structure", 0>>   Target == <<"target", 0>>
Located(o) == o[1] \in {"ship", "item", "charge"}
NoAttrs == [a \in {} |-> None]

Whole(n) == n * Unit
Product(x, y) == (x * y) \div Unit
Abs(x) == IF x < 0 THEN -x ELSE x
ModifiersOf(t) == UNION {ToSet(e.modifiers) : e \in ToSet(EffectsOf[t])}

\* What the data must satisfy for pass 2 to come to an end without a stop: no
\* modifier in domain otherID but of modules, drones and charges, no type id
\* that is the default of a required-skill attribute.  That divisors and cycle
\* times are not zero is left to the instances.
ASSUME DataAssumption ==
  /\ Unit \in Nat \ {0}
  /\ {CharType, NoType} \cup {f.ship : f \in Fits} \subseteq Types
  /\ Shares \subseteq 0..Unit /\ MaxTime \in Nat
  /\ \A a \in SkillAttrs, t \in Types : Default[a] # Whole(t)
  /\ \A f \in Fits : \A t \in {f.ship, CharType} \cup DOMAIN f.skills :
       \A mod \in ModifiersOf(t) : mod.domain # "other"

VARIABLES
  fit,          \* Info.fit() and Info.skills()
  phase,
  skillsLeft,   \* skills the loop of pass 1 has still to visit
  item,         \* the items of Ship
  pending,      \* the Pass2Effects collected and not yet distributed
  queue,        \* the items a loop has still to visit, in its order
  keys,         \* the attributes of the first of them it has still to visit
  stack,        \* calls of calculateValue under way, innermost first
  cache,        \* Cache
  value,        \* Attribute.value, where it is not nil
  capacitor,
  due,          \* timeNext of each module that drains the capacitor
  last,         \* timeLast
  regained,     \* history: what the capacitor has regained in all
  depletesIn    \* attributeCapacitorDepletesIn's result; None: it returned

drain == <<capacitor, due, last, regained>>
vars == <<fit, phase, skillsLeft, item, pending, queue, keys, stack, cache,
          value, drain, depletesIn>>
pass3 == <<keys, stack, cache, value>>
pass4 == <<drain, depletesIn>>
-----------------------------------------------------------------------------
(* Pass 1.                                                                 *)

SetAttributes(t) ==
  [a \in DOMAIN DogmaAttrs[t] \cup DOMAIN InfoAttrs[t] |->
     [base |-> IF a \in DOMAIN InfoAttrs[t] THEN InfoAttrs[t][a] ELSE DogmaAttrs[t][a],
      effects |-> <<>>]]

NewItem(t, state, maxState, attrs) ==
  [type |-> t, state |-> state, maxState |-> maxState, attrs |-> attrs]
NewFake(t, attrs) == NewItem(t, Active, Active, attrs)

\* The hull is the only one of the four that gets the attributes of its type.
Init ==
  /\ fit \in Fits
  /\ phase = "skills"
  /\ skillsLeft = DOMAIN fit.skills
  /\ item = Hull :> NewFake(fit.ship, SetAttributes(fit.ship)) @@
            Char :> NewFake(CharType, NoAttrs) @@
            Structure :> NewFake(NoType, NoAttrs) @@
            Target :> NewFake(NoType, NoAttrs)
  /\ pending = <<>> /\ queue = <<>> /\ keys = {} /\ stack = <<>>
  /\ cache = NoAttrs /\ value = NoAttrs
  /\ capacitor = 0 /\ due = NoAttrs /\ last = 0 /\ regained = 0
  /\ depletesIn = None

NewSkill(s) ==
  LET attrs == SetAttributes(s)
  IN NewFake(s, (Level :> [base |-> Whole(fit.skills[s]), effects |-> <<>>]) @@ attrs)

ApplySkill(s) ==
  /\ phase = "skills"
  /\ s \in skillsLeft
  /\ skillsLeft' = skillsLeft \ {s}
  /\ item' = item @@
       <<"skill", Cardinality(DOMAIN fit.skills \ skillsLeft) + 1>> :> NewSkill(s)
  /\ UNCHANGED <<fit, phase, pending, queue, pass3, pass4>>

ItemCount == Len(fit.modules) + Len(fit.drones)
Module(mod) == NewItem(mod.type, mod.state, Passive, SetAttributes(mod.type))
Charge(mod) == NewItem(mod.charge, Active, Active, SetAttributes(mod.charge))
Drone(drone) ==
  NewItem(drone.type, IF drone.state = Passive THEN Passive ELSE Active, Active,
          SetAttributes(drone.type))

ChargedAt == {n \in DOMAIN fit.modules : fit.modules[n].charge # None}
ItemOrder ==
  FlattenSeq([n \in 1..ItemCount |->
    IF n \in ChargedAt THEN << <<"item", n>>, <<"charge", n>> >> ELSE << <<"item", n>> >>])
SkillOrder == [n \in 1..Cardinality(DOMAIN fit.skills) |-> <<"skill", n>>]

\* The modules with their charges, then the drones; pass 2 begins.
ApplyFit ==
  /\ phase = "skills" /\ skillsLeft = {}
  /\ phase' = "collect"
  /\ item' = item @@
       [o \in {<<"item", n>> : n \in 1..ItemCount} |->
          IF o[2] \in DOMAIN fit.modules THEN Module(fit.modules[o[2]])
          ELSE Drone(fit.drones[o[2] - Len(fit.modules)])] @@
       [o \in {<<"charge", n>> : n \in ChargedAt} |-> Charge(fit.modules[o[2]])]
  /\ queue' = <<Hull, Char>> \o ItemOrder \o SkillOrder
  /\ UNCHANGED <<fit, skillsLeft, pending, pass3, pass4>>
-----------------------------------------------------------------------------
(* Pass 2.                                                                 *)

GetTargetObject(domain, o) ==
  CASE domain = "ship" -> Hull
    [] domain = "char" -> Char
    [] domain = "structure" -> Structure
    [] domain = "target" -> Target
    [] domain = "item" -> o
    [] domain = "other" -> <<IF o[1] = "item" THEN "charge" ELSE "item", o[2]>>

\* No function or operator for it, or nothing it could read or act on.
Collected(o, mod) ==
  /\ mod.func # "stopper"
  /\ mod.func \in {"group", "ownerSkill", "locationSkill"} => mod.arg # None
  /\ mod.op \in ToSet(Operators)
  /\ ~(o[1] = "item" /\ mod.domain = "other" /\ o[2] \notin ChargedAt)
  /\ mod.from # None /\ mod.to # None

CollectedFrom(o, effect) ==
  LET mods == SelectSeq(effect.modifiers, LAMBDA mod : Collected(o, mod))
  IN [k \in DOMAIN mods |->
        [func |-> mods[k].func, arg |-> mods[k].arg, op |-> mods[k].op,
         source |-> o, category |-> effect.category, from |-> mods[k].from,
         target |-> GetTargetObject(mods[k].domain, o), to |-> mods[k].to]]

\* maxState after the categories of the effects and the need for capacitor.
Raised(it) ==
  Max({it.maxState} \cup
      {c \in Passive..Overload : \E e \in ToSet(EffectsOf[it.type]) : e.category = c} \cup
      {c \in {Active} : Need \in DOMAIN it.attrs})

\* Mutant: the state that was asked for stands.
Unclamped(it) == [it EXCEPT !.maxState = Raised(it)]

Clamped(it) ==
  LET max == Raised(it)
  IN [it EXCEPT !.maxState = max, !.state = Min({@, max})]

CollectEffects ==
  /\ phase = "collect" /\ queue # <<>>
  /\ LET o == Head(queue)
         effects == EffectsOf[item[o].type]
     IN /\ item' = [item EXCEPT ![o] = Clamped(@)]
        /\ pending' = pending \o
             FlattenSeq([k \in DOMAIN effects |-> CollectedFrom(o, effects[k])])
  /\ queue' = Tail(queue)
  /\ phase' = IF queue' = <<>> THEN "distribute" ELSE phase
  /\ UNCHANGED <<fit, skillsLeft, pass3, pass4>>

Requires(it, skill) ==
  {a \in SkillAttrs \cap DOMAIN it.attrs : it.attrs[a].base = Whole(skill)}

\* How often the modifier is put on o.
Landings(e, o) ==
  CASE e.func = "item" -> Cardinality({o} \cap {e.target})
    [] e.func = "location" -> IF Located(o) THEN 1 ELSE 0
    [] e.func = "group" ->
         IF Located(o) /\ GroupOf[item[o].type] = e.arg THEN 1 ELSE 0
    [] OTHER ->
         LET skill == IF e.arg = -1 THEN item[e.source].type ELSE e.arg
         IN IF Located(o) THEN Cardinality(Requires(item[o], skill)) ELSE 0

AddEffect(it, e, times) ==
  LET old == IF e.to \in DOMAIN it.attrs THEN it.attrs[e.to]
             ELSE [base |-> Default[e.to], effects |-> <<>>]
      effect == [op |-> e.op, source |-> e.source, category |-> e.category,
                 penalty |-> e.to \notin Stackable /\ item[e.source].type \notin Exempt,
                 from |-> e.from]
      new == [old EXCEPT !.effects = @ \o [k \in 1..times |-> effect]]
  IN IF times = 0 THEN it ELSE [it EXCEPT !.attrs = (e.to :> new) @@ @]

Distribute ==
  /\ phase = "distribute" /\ pending # <<>>
  /\ LET e == Head(pending)
     IN item' = [o \in DOMAIN item |-> AddEffect(item[o], e, Landings(e, o))]
  /\ pending' = Tail(pending)
  /\ UNCHANGED <<fit, phase, skillsLeft, queue, pass3, pass4>>

\* Pass 3 goes over the hull first.
BeginCalculation ==
  /\ phase = "distribute" /\ pending = <<>>
  /\ phase' = "calculate"
  /\ queue' = <<Hull, Char, Structure, Target>> \o ItemOrder \o SkillOrder
  /\ keys' = DOMAIN item[Hull].attrs
  /\ UNCHANGED <<fit, skillsLeft, item, pending, stack, cache, value, pass4>>
-----------------------------------------------------------------------------
(* Pass 3.  A cell <<o, a>> is attribute a of item o.                      *)

\* Mutant: no effect is skipped for the state of its source.
RunsAlways(effect) == TRUE

\* Not skipped: the source is in a state that the effect's category runs in.
Runs(effect) == effect.category <= item[effect.source].state
ActiveOf(c, op) ==
  SelectSeq(item[c[1]].attrs[c[2]].effects, LAMBDA e : e.op = op /\ Runs(e))

Stored(e) == e.from \in DOMAIN item[e.source].attrs
SourcesOf(c) ==
  FlattenSeq([k \in DOMAIN Operators |->
    LET read == SelectSeq(ActiveOf(c, Operators[k]), Stored)
    IN [j \in DOMAIN read |-> <<read[j].source, read[j].from>>]])

Known(c) == c \in DOMAIN value \cup DOMAIN cache
Read(c) == IF c \in DOMAIN value THEN value[c] ELSE cache[c]
RawValue(e) == IF Stored(e) THEN Read(<<e.source, e.from>>) ELSE Default[e.from]

Simplified(op, raw) ==
  CASE op \in Assigning \cup {"modAdd"} -> raw
    [] op \in {"preMul", "postMul"} -> raw - Unit
    [] op \in {"preDiv", "postDiv"} -> (Unit * Unit) \div raw - Unit
    [] op = "postPercent" -> raw \div 100
    [] op = "modSub" -> -raw

Scaled(current, v) == Product(current, Unit + v)

\* Mutant: penalties by the order of the effects.
RankedUnsorted(current, values) ==
  FoldLeft(Scaled, current, [k \in DOMAIN values |-> Product(values[k], Penalty[k])])

Ranked(current, values) ==
  LET sorted == SortSeq(values, LAMBDA v, w : Abs(v) > Abs(w))
  IN FoldLeft(Scaled, current,
              [k \in DOMAIN sorted |-> Product(sorted[k], Penalty[k])])

\* The values of one operator, put on what the operators before it made.
Applied(a, op, current, effects) ==
  LET amount(e) == Simplified(op, RawValue(e))
      Of(Test(_)) == LET kept == SelectSeq(effects, Test)
                     IN [k \in DOMAIN kept |-> amount(kept[k])]
      assigned(v, w) ==
        IF IF a \in HighIsGood THEN Abs(v) < Abs(w) ELSE Abs(w) < Abs(v) THEN w ELSE v
      all == Of(LAMBDA e : TRUE)
  IN CASE effects = <<>> -> current
       [] op \in Assigning -> FoldLeft(assigned, all[1], all)
       [] op \in Adding -> FoldLeft(LAMBDA v, w : v + w, current, all)
       [] OTHER ->
            Ranked(Ranked(FoldLeft(Scaled, current, Of(LAMBDA e : ~e.penalty)),
                          Of(LAMBDA e : e.penalty /\ amount(e) >= 0)),
                   Of(LAMBDA e : e.penalty /\ amount(e) < 0))

Calculated(c) ==
  FoldLeft(LAMBDA current, op : Applied(c[2], op, current, ActiveOf(c, op)),
           item[c[1]].attrs[c[2]].base, Operators)

\* A loop over a dictionary's keys, and over the items.
VisitAttribute(a) ==
  /\ phase = "calculate" /\ stack = <<>> /\ queue # <<>>
  /\ a \in keys
  /\ keys' = keys \ {a}
  /\ stack' = IF Known(<<Head(queue), a>>) THEN <<>> ELSE << <<Head(queue), a>> >>
  /\ UNCHANGED <<fit, phase, skillsLeft, item, pending, queue, cache, value, pass4>>

VisitItem ==
  /\ phase = "calculate" /\ stack = <<>> /\ queue # <<>> /\ keys = {}
  /\ queue' = Tail(queue)
  /\ keys' = IF queue' = <<>> THEN {} ELSE DOMAIN item[Head(queue')].attrs
  /\ UNCHANGED <<fit, phase, skillsLeft, item, pending, stack, cache, value, pass4>>

Unknown(c) == SelectSeq(SourcesOf(c), LAMBDA d : ~Known(d))

Recurse ==
  /\ phase = "calculate" /\ stack # <<>>
  /\ Unknown(Head(stack)) # <<>>
  /\ Head(Unknown(Head(stack))) \notin ToSet(stack)
  /\ stack' = <<Head(Unknown(Head(stack)))>> \o stack
  /\ UNCHANGED <<fit, phase, skillsLeft, item, pending, queue, keys, cache, value, pass4>>

\* A value is wanted for its own calculation: there is no test for it, the cache
\* does not have it, and the same calls follow each other without end.
RecurseForever ==
  /\ phase = "calculate" /\ stack # <<>>
  /\ Unknown(Head(stack)) # <<>>
  /\ Head(Unknown(Head(stack))) \in ToSet(stack)
  /\ phase' = "overflow"
  /\ UNCHANGED <<fit, skillsLeft, item, pending, queue, pass3, pass4>>

Return ==
  /\ phase = "calculate" /\ stack # <<>>
  /\ Unknown(Head(stack)) = <<>>
  /\ cache' = Head(stack) :> Calculated(Head(stack)) @@ cache
  /\ stack' = Tail(stack)
  /\ UNCHANGED <<fit, phase, skillsLeft, item, pending, queue, keys, value, pass4>>

StoreCachedValues ==
  /\ phase = "calculate" /\ stack = <<>> /\ queue = <<>>
  /\ phase' = "capacitor"
  /\ value' = cache
  /\ UNCHANGED <<fit, skillsLeft, item, pending, queue, keys, stack, cache, pass4>>
-----------------------------------------------------------------------------
(* Pass 4.                                                                 *)

\* The fit's modules that the simulation drains the capacitor by.
Consumers ==
  {n \in DOMAIN fit.modules :
     /\ fit.modules[n].slot # "service"
     /\ item[<<"item", n>>].state \in {Active, Overload}
     /\ \A a \in {Need, CycleTime} : Known(<< <<"item", n>>, a>>)}

NeedOf(n) == Read(<< <<"item", n>>, Need>>)
DurationOf(n) == Read(<< <<"item", n>>, CycleTime>>)
Drained == Known(<<Hull, Peak>>) /\ Read(<<Hull, Peak>>) < 0

Stable ==
  /\ phase = "capacitor" /\ ~Drained
  /\ phase' = "done"
  /\ UNCHANGED <<fit, skillsLeft, item, pending, queue, pass3, pass4>>

\* Both are unwrapped by force.
HullComplete == Known(<<Hull, Capacity>>) /\ Known(<<Hull, RechargeRate>>)
Trap ==
  /\ phase = "capacitor" /\ Drained /\ ~HullComplete
  /\ phase' = "trapped"
  /\ UNCHANGED <<fit, skillsLeft, item, pending, queue, pass3, pass4>>

Simulate ==
  /\ phase = "capacitor" /\ Drained /\ HullComplete
  /\ phase' = "drain"
  /\ capacitor' = Read(<<Hull, Capacity>>)
  /\ due' = [n \in Consumers |-> 0]
  /\ UNCHANGED <<fit, skillsLeft, item, pending, queue, pass3, last, regained, depletesIn>>

\* Mutant: the latest of the modules' moments.
LatestDue == Max({due[n] : n \in DOMAIN due})

\* timeNext, the earliest of them.
TimeNext == Min({due[n] : n \in DOMAIN due})

Draining == phase = "drain" /\ DOMAIN due # {} /\ capacitor > 0

\* Once around the loop.  The capacitor comes closer to its capacity by a share
\* of what it lacks, by none when no time has passed.
DrainCycle(share) ==
  /\ Draining /\ TimeNext <= MaxTime
  /\ LET lacks == Read(<<Hull, Capacity>>) - capacitor
         gain == IF TimeNext = last THEN 0 ELSE Product(lacks, share)
         now == {n \in DOMAIN due : due[n] <= TimeNext}
     IN /\ due' = [n \in DOMAIN due |-> IF n \in now THEN due[n] + DurationOf(n) ELSE due[n]]
        /\ capacitor' = capacitor + gain - MapThenSumSet(NeedOf, now)
        /\ regained' = regained + gain
  /\ last' = TimeNext
  /\ UNCHANGED <<fit, phase, skillsLeft, item, pending, queue, pass3, depletesIn>>

\* setAttribute makes a new Attribute, without a value.
Deplete ==
  /\ phase = "drain" /\ ~Draining
  /\ phase' = "done"
  /\ depletesIn' = IF DOMAIN due = {} THEN Whole(-1) ELSE last \div 1000
  /\ item' = [item EXCEPT ![Hull].attrs =
                DepletesIn :> [base |-> depletesIn', effects |-> <<>>] @@ @]
  /\ value' = [c \in DOMAIN value \ {<<Hull, DepletesIn>>} |-> value[c]]
  /\ UNCHANGED <<fit, skillsLeft, pending, queue, keys, stack, cache, drain>>

\* calculate() has returned, or the program has stopped, or a drain goes on past
\* the bound: the loop goes on for as long as there is something left.
Stopped ==
  /\ \/ phase \in {"done", "trapped", "overflow"}
     \/ Draining /\ TimeNext > MaxTime
  /\ UNCHANGED vars

Next ==
  \/ \E s \in skillsLeft : ApplySkill(s)
  \/ ApplyFit
  \/ CollectEffects
  \/ Distribute
  \/ BeginCalculation
  \/ \E a \in keys : VisitAttribute(a)
  \/ VisitItem
  \/ Recurse
  \/ RecurseForever
  \/ Return
  \/ StoreCachedValues
  \/ Stable
  \/ Trap
  \/ Simulate
  \/ \E share \in Shares : DrainCycle(share)
  \/ Deplete
  \/ Stopped

Spec == Init /\ [][Next]_vars

-----------------------------------------------------------------------------
(* The reference: what a fit's data say of its items, in no order.         *)

\* Whether an effect of the type, or its need for capacitor, lets it run so.
Permits(t, state) ==
  \/ \E e \in ToSet(EffectsOf[t]) : e.category \in state..Overload
  \/ state <= Active /\ Need \in DOMAIN DogmaAttrs[t] \cup DOMAIN InfoAttrs[t]

HighestPermitted(mod) ==
  Max({Passive} \cup {s \in Passive..mod.state : Permits(mod.type, s)})

Intrinsic(o) ==
  CASE o \in {Char, Structure, Target} -> NoAttrs
    [] o[1] = "skill" -> NewSkill(item[o].type).attrs
    [] OTHER -> SetAttributes(item[o].type)

\* Modifiers by the item, effect and place they come from; by is the required-
\* skill attribute that lets one act, None where it needs none.
ModOf(g) == EffectsOf[item[g.source].type][g.effect].modifiers[g.place]
CategoryOf(g) == EffectsOf[item[g.source].type][g.effect].category
AllGrounds ==
  UNION {UNION {{[source |-> s, effect |-> i, place |-> j, by |-> r] :
                   j \in DOMAIN EffectsOf[item[s].type][i].modifiers,
                   r \in SkillAttrs \cup {None}} :
                i \in DOMAIN EffectsOf[item[s].type]} : s \in DOMAIN item}

ActsOn(g, o) ==
  LET mod == ModOf(g)
      skill == IF mod.arg = -1 THEN item[g.source].type ELSE mod.arg
  IN /\ Collected(g.source, mod)
     /\ IF mod.func \in {"ownerSkill", "locationSkill"}
          THEN /\ g.by \in DOMAIN Intrinsic(o)
               /\ Intrinsic(o)[g.by].base = Whole(skill)
          ELSE g.by = None
     /\ IF mod.func = "item" THEN o = GetTargetObject(mod.domain, g.source)
                             ELSE Located(o)
     /\ mod.func = "group" => GroupOf[item[o].type] = mod.arg

Acting == LET grounds == AllGrounds
          IN [o \in DOMAIN item |-> {g \in grounds : ActsOn(g, o)}]
Cells(acting) ==
  UNION {{o} \X (DOMAIN Intrinsic(o) \cup {ModOf(g).to : g \in acting[o]}) :
           o \in DOMAIN item}
Running(acting, c) ==
  {g \in acting[c[1]] : ModOf(g).to = c[2] /\ CategoryOf(g) <= item[g.source].state}

\* Some attribute depends on itself: whatever is left of the cells after those
\* have been taken away, time and again, that depend on none of the rest.
Cyclic(acting, cells) ==
  \E needs \in {[c \in cells |-> {<<g.source, ModOf(g).from>> : g \in Running(acting, c)}]} :
    LET Peeled(rest, k) == {c \in rest : needs[c] \cap rest # {}}
    IN FoldLeft(Peeled, cells, [k \in 1..Cardinality(cells) |-> k]) # {}

Worth(acting, cells) ==
  LET running(c, op) == {g \in Running(acting, c) : ModOf(g).op = op}
      penalised(c) == {g \in acting[c[1]] : /\ c[2] \notin Stackable
                                            /\ item[g.source].type \notin Exempt}
      worth[c \in cells] ==
        LET raw(g) == LET d == <<g.source, ModOf(g).from>>
                      IN IF d \in cells THEN worth[d] ELSE Default[d[2]]
            after(current, op) ==
              LET gs == running(c, op)
                  amount == [g \in gs |-> Simplified(op, raw(g))]
                  Strongest(S) == SetToSortSeq(S, LAMBDA g, h : Abs(amount[g]) > Abs(amount[h]))
                  all == Strongest(gs)
                  chain(now, S) ==
                    FoldLeft(LAMBDA v, k :
                               Scaled(v, Product(amount[Strongest(S)[k]], Penalty[k])),
                             now, [k \in 1..Cardinality(S) |-> k])
              IN CASE gs = {} -> current
                   [] op \in Assigning ->
                        amount[IF c[2] \in HighIsGood THEN all[1] ELSE all[Len(all)]]
                   [] op \in Adding -> 
                        FoldLeft(LAMBDA v, g : v + amount[g], current, all)
                   [] OTHER ->
                        LET free == FoldLeft(LAMBDA v, g : Scaled(v, amount[g]), current,
                                             SetToSeq(gs \ penalised(c)))
                            low == {g \in gs \cap penalised(c) : amount[g] < 0}
                        IN chain(chain(free, (gs \cap penalised(c)) \ low), low)
        IN FoldLeft(after,
                    IF c[2] \in DOMAIN Intrinsic(c[1]) THEN Intrinsic(c[1])[c[2]].base
                                                      ELSE Default[c[2]],
                    Operators)
  IN worth
-----------------------------------------------------------------------------
(* Properties.                                                             *)

Collecting == phase \in {"skills", "collect"}

\* Items are where pass 1 puts them, no item runs in a state above the one it
\* can be in once pass 2 has seen it, cells are of items that have them, and
\* only modules that take from the capacitor are due.
TypeOK ==
  /\ phase \in {"skills", "collect", "distribute", "calculate", "overflow",
                "capacitor", "trapped", "drain", "done"}
  /\ fit \in Fits
  /\ skillsLeft \subseteq DOMAIN fit.skills
  /\ \A o \in DOMAIN item :
       /\ item[o].type \in Types
       /\ item[o].state \in Passive..Overload
       /\ item[o].maxState \in Passive..Overload
       /\ ~Collecting => item[o].state <= item[o].maxState
  /\ ToSet(queue) \subseteq DOMAIN item
  /\ queue # <<>> /\ phase = "calculate" => keys \subseteq DOMAIN item[Head(queue)].attrs
  /\ IsInjective(stack)
  /\ DOMAIN due \subseteq DOMAIN fit.modules
  /\ \A n \in DOMAIN due : due[n] \in Nat
  /\ capacitor \in Int /\ last \in 0..MaxTime
  /\ depletesIn = None \/ depletesIn \in Whole(-1)..MaxTime
  /\ \A c \in ToSet(stack) \cup DOMAIN cache :
       c[1] \in DOMAIN item /\ c[2] \in DOMAIN item[c[1]].attrs

\* After pass 3 every attribute that an item has or that a modifier made it have
\* has a value, and it is the one the fit and the data determine, whatever the
\* order in which skills and attributes were visited.  A module takes part in
\* that in the highest state, up to the one it was asked to be in, that one of its
\* effects or its need for capacitor permits: collectEffects clamps it when it has
\* seen them all.  The time that pass 4 adds to the hull disturbs no value.
ValuesTrue ==
  phase \in {"capacitor", "done"} =>
    /\ \A n \in DOMAIN fit.modules :
         item[<<"item", n>>].state = HighestPermitted(fit.modules[n])
    /\ \E acting \in {Acting} : \E cells \in {Cells(acting)} : \E worth \in {Worth(acting, cells)} :
         /\ DOMAIN value \subseteq cells
         /\ cells \ DOMAIN value \subseteq {c \in {<<Hull, DepletesIn>>} : phase = "done"}
         /\ \A c \in DOMAIN value : value[c] = worth[c]

\* Pass 3 comes to an end exactly when no attribute depends on itself through
\* modifiers whose effects run in the state their item is in: calculateValue
\* reads nothing of an effect that it skips, and reads everything else.
RecursionEnds ==
  phase \in {"capacitor", "overflow"} =>
    \E acting \in {Acting} : (phase = "overflow") <=> Cyclic(acting, Cells(acting))

\* The simulation takes what each module needs at every multiple of its cycle
\* time, from 0 to the moment it has come to, and the time it ends with is the
\* first moment whose needs the capacitor cannot meet; -1, and no other value
\* below 0, says that nothing drains it.
DrainTrue ==
  LET drains == phase = "drain" \/ (phase = "done" /\ depletesIn # None)
      capacity == Read(<<Hull, Capacity>>)
      taken(n) == NeedOf(n) * (last \div DurationOf(n) + 1)
      atLast == {n \in Consumers : last % DurationOf(n) = 0}
      begun == \E n \in DOMAIN due : due[n] > 0
  IN /\ drains /\ begun =>
          capacitor = capacity + regained - MapThenSumSet(taken, Consumers)
     /\ drains /\ phase = "done" =>
          IF Consumers = {} THEN depletesIn = Whole(-1)
          ELSE /\ depletesIn = last \div 1000
               /\ capacitor <= 0
               /\ capacity > 0 => capacitor + MapThenSumSet(NeedOf, atLast) > 0
=============================================================================
