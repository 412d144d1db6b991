--------------------------- MODULE RahSimulation ---------------------------
(***************************************************************************)
(* The simulator of reactive armor hardeners (RAHs) of one fit,            *)
(* sim/reactive_armor_hardener.py, with the parts of the fit, of the       *)
(* attribute maps and of the calculator that it talks to.                  *)
(*                                                                         *)
(* A RAH multiplies the armor resonances of the ship by resonances of its  *)
(* own, and shifts these towards the damage that comes through.  The       *)
(* simulator overrides the RAHs' resonances; the first read of one runs a  *)
(* simulation which reads the ship's resonances, which rest on the RAHs'   *)
(* present ones.  Results are kept until a message says that something     *)
(* behind them has changed.                                                *)
(*                                                                         *)
(* Resonances are integers, Unit standing for 1.  Halving a donation is    *)
(* exact as long as Unit has a factor of two for each tick.                *)
(***************************************************************************)
EXTENDS Integers, FiniteSets, Sequences, FiniteSetsExt, SequencesExt, Functions

CONSTANTS
    Rahs,           \* hardeners of the fit
    Ships,          \* ships it may get
    NoShip,         \* no ship, or one that is not loaded
    Unit,           \* the resonance 1
    ShipReso,       \* [Ships -> [Attrs -> 0..Unit]], without the RAHs
    RahReso,        \* [Rahs -> [Attrs -> 0..Unit]], before any adaptation
    ShiftAmount,    \* [Rahs -> 0..Unit]; NoAttr for a type without it
    NoAttr,
    Duration,       \* [Rahs -> Nat \ {0}]
    Change,         \* what another modifier, if it is there, adds to a cell
    Profiles,       \* damage profiles: functions from Attrs to numbers
    NoProfile,
    Penalty,        \* stacking penalty of each rank, in parts of PenaltyUnit
    PenaltyUnit,
    MaxTicks,       \* MAX_SIMULATION_TICKS
    MaxRahs,        \* bound: how many RAHs run at a time
    MaxTweaks,      \* bound: how many cells are changed at a time
    ReadAttrs       \* resonances of the ship that the user reads

res_attr_ids == <<"em", "expl", "kin", "therm">>
Attrs == {"em", "expl", "kin", "therm"}

\* A cell that other modifiers change: <<an item, an attribute>>.
Cells == DOMAIN Change

\* Cycles take time and shifts are not negative, whatever modifies them; a simulation has a
\* second tick.
ASSUME RahAssumption ==
    /\ IsFiniteSet(Rahs) /\ "ship" \notin Rahs
    /\ NoShip \notin Ships /\ NoProfile \notin Profiles /\ NoAttr \notin Int
    /\ Unit \in Nat \ {0} /\ PenaltyUnit \in Nat \ {0}
    /\ Penalty \in [1..Cardinality(Rahs) -> Int]
    /\ MaxTicks \in Nat \ {0, 1} /\ ReadAttrs \subseteq Attrs
    /\ Profiles \subseteq [Attrs -> Int]
    /\ ShipReso \in [Ships -> [Attrs -> Int]] /\ RahReso \in [Rahs -> [Attrs -> Int]]
    /\ ShiftAmount \in [Rahs -> Nat \cup {NoAttr}]
    /\ Cells \subseteq (({"ship"} \X Attrs) \cup (Rahs \X (Attrs \cup {"shift", "duration"})))
    /\ Change \in [Cells -> Int]
    /\ \A r \in Rahs :
        /\ Duration[r] \in Nat \ {0}
        /\ <<r, "duration">> \in Cells => Duration[r] + Change[<<r, "duration">>] > 0
        /\ <<r, "shift">> \in Cells /\ ShiftAmount[r] # NoAttr =>
             ShiftAmount[r] + Change[<<r, "shift">>] >= 0

VARIABLES
    ship,           \* the fit's ship
    default_dmg,    \* Fit.default_incoming_dmg
    rah_dmg,        \* Fit.rah_incoming_dmg
    tweaks,         \* cells that another modifier changes at present
    data,           \* __data: results of each RAH whose effect runs
    running,        \* __running
    shipCache,      \* resonances the ship's attribute map keeps
    cached,         \* cells of RAHs that their attribute maps keep
    sim,            \* locals of the simulation under way
    reader,         \* the cell the user reads, for which it was started
    strayed         \* history: something behind the results changed unnoticed

rahVars == <<ship, default_dmg, rah_dmg, tweaks, data, running, shipCache, cached, sim,
          reader, strayed>>
inputs == <<ship, default_dmg, rah_dmg, tweaks>>

Nothing == [a \in {} |-> 0]
Idle == [history |-> <<>>, cycling |-> Nothing, damage |-> Nothing]
Zero == [a \in Attrs |-> 0]
Total(resos) == resos["em"] + resos["expl"] + resos["kin"] + resos["therm"]

-----------------------------------------------------------------------------
(* What items are worth without the simulator. *)

Modified(cell, value) == value + (IF cell \in tweaks THEN Change[cell] ELSE 0)
\* MutableAttrMap._get_without_overrides of a RAH's resonance.
Own(r, a) == Modified(<<r, a>>, RahReso[r][a])
Shift(r) == IF ShiftAmount[r] = NoAttr THEN 0 ELSE Modified(<<r, "shift">>, ShiftAmount[r])
get_duration(r) == Modified(<<r, "duration">>, Duration[r])

incoming_dmg == IF rah_dmg # NoProfile THEN rah_dmg ELSE default_dmg

\* __penalize_values: the chain of negative reduced multipliers, each weakened by its rank, the
\* strongest's first.  Resonances of at most one make no chain of positive ones.
Multiplied(value, factor) == (value * factor) \div Unit
Product == INSTANCE Iteration WITH Step <- Multiplied
penalize_values(mults) ==
    LET stronger(i) == {j \in DOMAIN mults : \/ mults[j] < mults[i]
                                             \/ mults[j] = mults[i] /\ j < i}
        rank(i) == Cardinality(stronger(i)) + 1
    IN  Product!All(Unit, [i \in DOMAIN mults |->
                               Unit + ((mults[i] * Penalty[rank(i)]) \div PenaltyUnit)])

\* The ship's resonance when the RAHs have the resonances given: pre_mul, penalized.
ShipValue(a, given) ==
    LET base == Modified(<<"ship", a>>, ShipReso[ship][a])
        affectors == SetToSeq(DOMAIN given)
        mults == [i \in DOMAIN affectors |-> given[affectors[i]][a] - Unit]
    IN  (base * penalize_values(mults)) \div Unit

-----------------------------------------------------------------------------
(* The steps of a simulation.                                              *)

\* Mutant: each recipient takes the whole of what was donated.
share_whole(donated, recipients) == donated
share(donated, recipients) == donated \div recipients

\* __get_next_resos.  With no damage at all there is nobody to take what the four give.
next_resos(current, received, shift) ==
    LET unhurt == Cardinality({a \in Attrs : received[a] = 0})
        donors == IF unhurt > 2 THEN unhurt ELSE 2
        before(i, j) == \/ received[res_attr_ids[i]] < received[res_attr_ids[j]]
                        \/ received[res_attr_ids[i]] = received[res_attr_ids[j]] /\ i < j
        rank(i) == Cardinality({j \in 1..4 : before(j, i)})
        giving == {res_attr_ids[i] : i \in {j \in 1..4 : rank(j) < donors}}
        to_donate(a) == Min({Unit - current[a], shift})
        donated == Total([a \in Attrs |-> IF a \in giving THEN to_donate(a) ELSE 0])
    IN  [a \in Attrs |-> IF a \in giving THEN current[a] + to_donate(a)
                                         ELSE current[a] - share(donated, 4 - donors)]

\* __get_avg_resos: over the tick states in which a RAH begins a cycle.
Plus(sum, resos) == [a \in Attrs |-> sum[a] + resos[a]]
Sums == INSTANCE Iteration WITH Step <- Plus
avg_resos(states, r) ==
    LET used == {i \in DOMAIN states : states[i][r].cycling = 0}
        sum == Sums!All(Zero, [i \in DOMAIN states |->
                                  IF i \in used THEN states[i][r].resos ELSE Zero])
    IN  [a \in Attrs |-> sum[a] \div Cardinality(used)]

\* The results that tick states give; a RAH without a cycle among them keeps what it has.
Averaged(states, present) ==
    [r \in DOMAIN present |->
        IF \E i \in DOMAIN states : states[i][r].cycling = 0
        THEN avg_resos(states, r) ELSE present[r]]

\* __estimate_initial_adaptation_ticks
Ceil(a, b) == (a + b - 1) \div b
exhaustion_cycles(r) == Max({Ceil(Unit - Own(r, a), Shift(r)) : a \in Attrs})
Slowest(rahs) ==
    {r \in rahs : \A q \in rahs \ {r} :
        exhaustion_cycles(r) * get_duration(r) >= exhaustion_cycles(q) * get_duration(q)}
initial_adaptation_ticks(history) ==
    LET rahs == DOMAIN history[1]
        slowest == CHOOSE r \in Slowest(rahs) : TRUE
        needed == Ceil(exhaustion_cycles(slowest) * 3, 2)
        ended == {n \in 2..Len(history) :
            Cardinality({i \in 2..n : history[i][slowest].cycling = 0}) >= needed}
    IN  IF needed = 0 THEN 0 ELSE IF ended = {} THEN Len(history) ELSE Min(ended) - 1

\* The estimate divides by the shift of each RAH.
Unestimable == {r \in DOMAIN data : Shift(r) = 0}

\* What is left of the history when no loop was found.
Adapted(history) ==
    LET ignored == Min({initial_adaptation_ticks(history), Len(history) \div 2})
    IN  SubSeq(history, ignored + 1, Len(history))

TickState(cycling, resos) ==
    [r \in DOMAIN resos |-> [cycling |-> cycling[r], resos |-> resos[r]]]

\* sig_round, by which tick states compare, has no logarithm of zero to take.
Unroundable(resos) == \E r \in DOMAIN resos, a \in Attrs : resos[r][a] = 0

-----------------------------------------------------------------------------
Unsimulated == [r \in DOMAIN data |-> [a \in Attrs |-> Own(r, a)]]
Kept == \E r \in DOMAIN data : data[r] # Nothing

\* __sim_tick_iter: the time until some RAH ends its cycle, and those which then do.
time_passed(st) == Min({get_duration(r) - st.cycling[r] : r \in DOMAIN st.cycling})
cycled(st) == {r \in DOMAIN st.cycling :
                  st.cycling[r] + time_passed(st) = get_duration(r)}

Begun == [history |-> <<>>,
          cycling |-> [r \in DOMAIN data |-> 0],
          damage |-> [r \in DOMAIN data |-> Zero]]

\* One more tick for RAHs with the resonances given on a ship with those in hull.
Ticked(st, resos, hull) ==
    LET dealt == [r \in DOMAIN resos |-> [a \in Attrs |->
                    st.damage[r][a] + incoming_dmg[a] * hull[a] * time_passed(st)]]
    IN  [cycling |-> [r \in DOMAIN resos |->
                        IF r \in cycled(st) THEN 0 ELSE st.cycling[r] + time_passed(st)],
         damage |-> [r \in DOMAIN resos |->
                        IF r \in cycled(st) THEN Zero ELSE dealt[r]],
         resos |-> [r \in DOMAIN resos |->
                        IF r \in cycled(st) THEN next_resos(resos[r], dealt[r], Shift(r))
                                            ELSE resos[r]]]

-----------------------------------------------------------------------------
(* The simulation, tick by tick; no other handler of the simulator runs.    *)

simulating == running /\ sim # Idle
\* What reading the ship's resonances gives: kept values are not calculated again.
hull == [a \in Attrs |-> IF a \in DOMAIN shipCache THEN shipCache[a] ELSE ShipValue(a, data)]
first_tick == sim.history = <<>>
ending == IF first_tick THEN {} ELSE cycled(sim)
after == IF first_tick THEN [cycling |-> sim.cycling, damage |-> sim.damage, resos |-> data]
                       ELSE Ticked(sim, data, hull)

raises(next) == \/ \E r \in ending : ShiftAmount[r] = NoAttr
                \/ Unroundable(next.resos)

\* Durations are read to find the next tick, shifts of RAHs that end a cycle.
ReadCells(rahs) ==
    cached' = cached \cup {<<r, "shift">> : r \in rahs}
                     \cup (IF first_tick THEN {} ELSE (DOMAIN data) \X {"duration"})

\* Those whose shift can be read: a RAH without one stops the loop over the rest.
Shifting(rahs) == {r \in rahs : ShiftAmount[r] # NoAttr}

\* Mutant: RAHs that end a cycle do not announce their new resonances.
HullRead_unannounced == shipCache' = hull

\* The ship's resonances were read, and dropped again if a RAH announced new ones.
HullRead == shipCache' = IF ending = {} THEN hull ELSE Nothing

\* An exception inside the simulation: every RAH gets its unsimulated resonances.
SimRaises(next) ==
    /\ raises(next)
    /\ data' = Unsimulated
    /\ sim' = Idle
    /\ \E done \in SUBSET Shifting(ending) :
        /\ done = ending \/ \E r \in ending : ShiftAmount[r] = NoAttr
        /\ ReadCells(done)
    /\ HullRead
    /\ UNCHANGED <<inputs, running, reader, strayed>>

\* A tick like an earlier one: results are the averages over the loop.
SimLoops(next) ==
    /\ ~raises(next)
    /\ LET state == TickState(next.cycling, next.resos)
           same == {i \in DOMAIN sim.history : sim.history[i] = state}
       IN  /\ same # {}
           /\ data' = Averaged(SubSeq(sim.history, Min(same), Len(sim.history)), next.resos)
    /\ sim' = Idle
    /\ ReadCells(ending)
    /\ HullRead
    /\ UNCHANGED <<inputs, running, reader, strayed>>

SimTick(next) ==
    /\ ~raises(next)
    /\ LET state == TickState(next.cycling, next.resos)
           history == Append(sim.history, state)
       IN  /\ ~Contains(sim.history, state)
           /\ Len(history) < MaxTicks
           /\ sim' = [history |-> history, cycling |-> next.cycling, damage |-> next.damage]
    /\ data' = next.resos
    /\ ReadCells(ending)
    /\ HullRead
    /\ UNCHANGED <<inputs, running, reader, strayed>>

\* The last tick, and no loop: the results are averages over the adapted part of the history,
\* or there is an exception again, at the first RAH that the estimate fails for.
SimExhausted(next) ==
    /\ ~raises(next)
    /\ LET state == TickState(next.cycling, next.resos)
           history == Append(sim.history, state)
       IN  /\ ~Contains(sim.history, state)
           /\ Len(history) = MaxTicks
           /\ data' = IF Unestimable = {} THEN Averaged(Adapted(history), next.resos)
                                          ELSE Unsimulated
    /\ sim' = Idle
    /\ \E done \in SUBSET Shifting(DOMAIN data) :
        /\ IF Unestimable = {} THEN done = DOMAIN data
           ELSE \E r \in Unestimable : done \cap Unestimable = Shifting({r})
        /\ ReadCells(ending \cup done)
    /\ HullRead
    /\ UNCHANGED <<inputs, running, reader, strayed>>

\* get_reso's "finally": all results are announced; then the reader of a resonance of the
\* ship goes on with its calculation.
Finish ==
    /\ running /\ sim = Idle
    /\ running' = FALSE
    /\ shipCache' = IF reader[1] = "ship" THEN [a \in {reader[2]} |-> ShipValue(a, data)]
                                          ELSE Nothing
    /\ reader' = <<>>
    /\ UNCHANGED <<inputs, data, cached, sim, strayed>>

-----------------------------------------------------------------------------
(* Reads by the user.                                                      *)

\* Mutant: the running flag is not set.
RunSimulation_unflagged(cell) ==
    /\ running' = FALSE
    /\ reader' = cell
    /\ data' = Unsimulated
    /\ cached' = cached \cup ((DOMAIN data) \X Attrs)
    /\ sim' = IF ship = NoShip THEN Idle
              ELSE Begun
    /\ strayed' = FALSE
    /\ UNCHANGED <<inputs, shipCache>>

\* get_reso without results: _run_simulation begins.
RunSimulation(cell) ==
    /\ running' = TRUE
    /\ reader' = cell
    /\ data' = Unsimulated
    /\ cached' = cached \cup ((DOMAIN data) \X Attrs)
    /\ sim' = IF ship = NoShip THEN Idle
              ELSE Begun
    /\ strayed' = FALSE
    /\ UNCHANGED <<inputs, shipCache>>

ReadRah(r) ==
    /\ ~running
    /\ r \in DOMAIN data /\ data[r] = Nothing
    /\ RunSimulation(<<r, "em">>)

ReadShip(a) ==
    /\ ~running /\ ship # NoShip /\ a \notin DOMAIN shipCache
    /\ IF \E r \in DOMAIN data : data[r] = Nothing
       THEN RunSimulation(<<"ship", a>>)
       ELSE /\ shipCache' = [b \in DOMAIN shipCache \cup {a} |->
                                IF b = a THEN ShipValue(a, data) ELSE shipCache[b]]
            /\ UNCHANGED <<inputs, data, running, cached, sim, reader, strayed>>

-----------------------------------------------------------------------------
(* Changes by the user, each with the messages it leads to.                *)

\* __clear_results for the RAHs that are left: each announces all its resonances.
ClearResults(rahs) ==
    /\ data' = [r \in rahs |-> Nothing]
    /\ shipCache' = IF rahs = {} THEN shipCache ELSE Nothing
    /\ strayed' = FALSE

Unnoticed == UNCHANGED <<data, shipCache>>

\* The effect of a RAH starts or stops: the simulator sets or removes overrides, the
\* calculator applies or removes what the RAH does to the ship; either drops what the ship keeps.
StartRah(r) ==
    /\ ~running /\ r \notin DOMAIN data /\ Cardinality(DOMAIN data) < MaxRahs
    /\ data' = [q \in DOMAIN data \cup {r} |-> Nothing]
    /\ shipCache' = Nothing
    /\ strayed' = FALSE
    /\ UNCHANGED <<inputs, running, cached, sim, reader>>

\* removed: the RAH is not only switched off but unloaded, which clears its attribute map.
StopRah(r, removed) ==
    /\ ~running /\ r \in DOMAIN data
    /\ data' = [q \in DOMAIN data \ {r} |-> Nothing]
    /\ shipCache' = Nothing
    /\ strayed' = FALSE
    /\ cached' = {cell \in cached : ~removed \/ cell[1] # r}
    /\ UNCHANGED <<inputs, running, sim, reader>>

\* Another ship: what the old one kept is cleared, no attribute is said to have changed.
SetShip(s) ==
    /\ ~running /\ s # ship
    /\ ship' = s
    /\ shipCache' = Nothing
    /\ strayed' = (strayed \/ Kept)
    /\ UNCHANGED <<default_dmg, rah_dmg, tweaks, data, running, cached, sim, reader>>

\* The setter of Fit.default_incoming_dmg
SetDefaultDmg(profile) ==
    /\ ~running /\ profile # default_dmg
    /\ default_dmg' = profile
    /\ IF rah_dmg = NoProfile THEN ClearResults(DOMAIN data) ELSE Unnoticed /\ UNCHANGED strayed
    /\ UNCHANGED <<ship, rah_dmg, tweaks, running, cached, sim, reader>>

\* The setter of Fit.rah_incoming_dmg
SetRahDmg(profile) ==
    /\ ~running /\ profile # rah_dmg
    /\ rah_dmg' = profile
    /\ IF profile # incoming_dmg THEN ClearResults(DOMAIN data) ELSE Unnoticed /\ UNCHANGED strayed
    /\ UNCHANGED <<ship, default_dmg, tweaks, running, cached, sim, reader>>

\* A modifier of a resonance of the ship comes or goes.  Only a value that the ship keeps is
\* announced as changed.
TweakShip(a) ==
    /\ ~running /\ <<"ship", a>> \in Cells
    /\ tweaks' = SymDiff(tweaks, {<<"ship", a>>})
    /\ Cardinality(tweaks') <= MaxTweaks
    /\ IF a \in DOMAIN shipCache
       THEN /\ data' = [r \in DOMAIN data |-> Nothing]
            /\ shipCache' = IF DOMAIN data = {} THEN Restrict(shipCache, DOMAIN shipCache \ {a})
                                                ELSE Nothing
            /\ strayed' = FALSE
       ELSE /\ Unnoticed
            /\ strayed' = (strayed \/ (Kept /\ ship # NoShip))
    /\ UNCHANGED <<ship, default_dmg, rah_dmg, running, cached, sim, reader>>

\* Mutant: the masked message is not handled.
Concerns_unmasked(r, a) ==
    /\ r \in DOMAIN data
    /\ \/ a = "shift"
       \/ a = "duration" /\ Cardinality(DOMAIN data) > 1

\* _handle_attr_changed and _handle_attr_changed_masked: whether a changed value of a RAH
\* concerns the results.
Concerns(r, a) ==
    /\ r \in DOMAIN data
    /\ \/ a \in Attrs \cup {"shift"}
       \/ a = "duration" /\ Cardinality(DOMAIN data) > 1

TweakRah(r, a) ==
    /\ ~running /\ <<r, a>> \in Cells
    /\ tweaks' = SymDiff(tweaks, {<<r, a>>})
    /\ Cardinality(tweaks') <= MaxTweaks
    /\ cached' = cached \ {<<r, a>>}
    /\ IF <<r, a>> \in cached /\ Concerns(r, a)
       THEN ClearResults(DOMAIN data)
       ELSE Unnoticed /\ UNCHANGED strayed
    /\ UNCHANGED <<ship, default_dmg, rah_dmg, running, sim, reader>>

-----------------------------------------------------------------------------
RahInit ==
    /\ ship \in Ships \cup {NoShip}
    /\ default_dmg \in Profiles
    /\ rah_dmg = NoProfile
    /\ tweaks = {}
    /\ data = Nothing
    /\ running = FALSE
    /\ shipCache = Nothing
    /\ cached = {}
    /\ sim = Idle
    /\ reader = <<>>
    /\ strayed = FALSE

Simulation ==
    \/ simulating /\ \E next \in {after} : 
            SimRaises(next) \/ SimLoops(next) \/ SimTick(next) \/ SimExhausted(next)
    \/ Finish

RahNext ==
    \/ Simulation
    \/ \E r \in Rahs : ReadRah(r) \/ StartRah(r)
    \/ \E r \in Rahs, removed \in BOOLEAN : StopRah(r, removed)
    \/ \E a \in ReadAttrs : ReadShip(a)
    \/ \E s \in Ships \cup {NoShip} : SetShip(s)
    \/ \E profile \in Profiles : SetDefaultDmg(profile)
    \/ \E profile \in Profiles \cup {NoProfile} : SetRahDmg(profile)
    \/ \E a \in Attrs : TweakShip(a)
    \/ \E r \in Rahs, a \in Attrs \cup {"shift", "duration"} : TweakRah(r, a)

RahSpec == RahInit /\ [][RahNext]_rahVars

-----------------------------------------------------------------------------
(* What must hold.                                                         *)

\* Everything has its type; outside a simulation there are no locals of one.
RahTypeOK ==
    /\ ship \in Ships \cup {NoShip}
    /\ default_dmg \in Profiles /\ rah_dmg \in Profiles \cup {NoProfile}
    /\ tweaks \subseteq Cells
    /\ DOMAIN data \subseteq Rahs
    /\ \A r \in DOMAIN data : data[r] = Nothing \/ data[r] \in [Attrs -> Int]
    /\ DOMAIN shipCache \subseteq Attrs
    /\ ship = NoShip => shipCache = Nothing
    /\ ~running => sim = Idle /\ reader = <<>>

\* The reference: a simulation from scratch, with nothing kept, as the whole run of its ticks
\* at once.  hull is what the ship is worth with the RAHs as they are at that tick.
Start == [cycling |-> Begun.cycling, damage |-> Begun.damage, resos |-> Unsimulated]
FreshHull(resos) == [a \in Attrs |-> ShipValue(a, resos)]
NextTick(run, n) ==
    LET hulls == {FreshHull(run[n].resos)}
    IN  Append(run, CHOOSE next \in {Ticked(run[n], run[n].resos, h) : h \in hulls} : TRUE)
Ticks == INSTANCE Iteration WITH Step <- NextTick
Run == Ticks!All(<<Start>>, [n \in 1..(MaxTicks - 1) |-> n])

Outcome(run) ==
    LET states == [n \in 1..MaxTicks |-> TickState(run[n].cycling, run[n].resos)]
        again == {n \in 1..MaxTicks : \E i \in 1..(n - 1) : states[i] = states[n]}
        over == IF again = {} THEN MaxTicks ELSE Min(again)
        from == Min({i \in 1..over : states[i] = states[over]})
        used == IF again = {} THEN Adapted(states) ELSE SubSeq(states, from, over - 1)
        fails == \E n \in 1..over :
            \/ Unroundable(run[n].resos)
            \/ n < over /\ (\E r \in cycled(run[n]) : ShiftAmount[r] = NoAttr)
    IN  IF fails \/ (again = {} /\ Unestimable # {}) THEN Unsimulated ELSE Averaged(used, run[over].resos)

FromScratch == IF ship = NoShip THEN Unsimulated ELSE CHOOSE o \in {Outcome(run) : run \in {Run}} : TRUE

\* "When anything which may change RAH resistances changes, stored result is removed" (class
\* docstring): results that are kept are those of a simulation from scratch.
ResultsCurrent == ~running /\ Kept => data = FromScratch

\* The same, as long as what changed was announced: whatever profile, RAH, shift, cycle time
\* or base resonance changed since, and whatever the ship kept when the simulation began.
ResultsFresh == ~strayed => ResultsCurrent

\* Between calls either every RAH has results or none has: a read never mixes results of two
\* simulations.  And what the ship keeps is what the RAHs' resonances make of it, through every
\* tick, every exception and every removal of results, even where these are not what they
\* should be.
ShipTrue ==
    /\ ~running /\ Kept => \A r \in DOMAIN data : data[r] # Nothing
    /\ \A a \in DOMAIN shipCache :
        /\ \A r \in DOMAIN data : data[r] # Nothing
        /\ shipCache[a] = ShipValue(a, data)

\* Adaptation moves resistance from one damage type to others and neither makes nor loses any,
\* except when the ship takes no damage at all.  Averages may lose one unit per attribute.
Harmed == ship # NoShip => \E a \in Attrs : incoming_dmg[a] * ShipValue(a, Unsimulated) > 0
ResistanceConserved ==
    \A r \in DOMAIN data :
        data[r] # Nothing /\ ~strayed /\ Harmed =>
            LET lost == Total(Unsimulated[r]) - Total(data[r])
            IN  IF simulating THEN lost = 0 ELSE lost \in 0..Cardinality(Attrs)
=============================================================================
