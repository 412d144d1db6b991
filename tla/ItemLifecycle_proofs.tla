------------------------ MODULE ItemLifecycle_proofs ------------------------
(***************************************************************************)
(* Proofs about ItemLifecycle for any modules, charges, fits, sources and  *)
(* catalogue.  The inductive invariant says of each item's cell that it is *)
(* either Absent (off every fit) or Present (on a fit, and in step with    *)
(* the item's type, state, modes and source).  Lemmas show what each       *)
(* operation on a cell does to these two predicates; the step theorem then *)
(* has one case per action.                                                *)
(***************************************************************************)
EXTENDS ItemLifecycle, TLAPS

Absent(c) ==
  /\ c \in Cell
  /\ c.src = None /\ c.running = {}
  /\ c.known = FALSE /\ c.states = {}
  /\ c.loaded = FALSE /\ c.loadedStates = {} /\ c.effects = {}
  /\ c.calcLoaded = FALSE /\ c.calcEffects = {}

\* On a fit, and the subscribers know the item as it is; its running effects may
\* still have to be brought up to date.
Registered(c, tid, st, s) ==
  /\ c \in Cell
  /\ c.src = (IF Fetchable(s, tid) THEN s ELSE None)
  /\ c.known = TRUE /\ c.states = UpTo(st)
  /\ c.loaded = (c.src # None)
  /\ c.loadedStates = (IF c.src = None THEN {} ELSE UpTo(st))
  /\ c.effects = c.running
  /\ c.calcLoaded = (c.src # None)
  /\ c.calcEffects = c.running
  /\ c.src = None => c.running = {}

Present(c, tid, st, s) ==
  Registered(c, tid, st, s) /\ c.running = Wanted(c, tid, st)

Coherent(c, tid, st, s, onFit) ==
  IF onFit THEN Present(c, tid, st, s) ELSE Absent(c)

-----------------------------------------------------------------------------
(* Operations on a cell.                                                   *)

\* What the resolver picks are effects of the type.
LEMMA ResolvedType ==
  ASSUME NEW s \in Sources, NEW tid \in TypeIds, NEW st, NEW mode,
         Catalogue[s][tid] # None
  PROVE  Resolved(Catalogue[s][tid], st, mode) \in SUBSET Effects
BY DataAssumption DEF Resolved, ItemType

LEMMA NewCellAbsent == Absent(NewCell)
BY DEF Absent, NewCell, Cell, FullCompliance, Mode, State

\* An item that enters a fit ends up in step with it.
LEMMA AttachPresent ==
  ASSUME NEW c, Absent(c), NEW tid \in TypeIds, NEW st \in State,
         NEW s \in Sources \cup {None}, NEW h \in BOOLEAN, s # None => h
  PROVE  Present(Attach(c, tid, st, s, h), tid, st, s)
<1> DEFINE d == Added(c, st)
<1>1. /\ d \in Cell /\ d.src = None /\ d.running = {} /\ d.known = TRUE
      /\ d.states = UpTo(st) /\ d.loaded = FALSE /\ d.loadedStates = {}
      /\ d.effects = {} /\ d.calcLoaded = FALSE /\ d.calcEffects = {}
  BY DEF Absent, Added, Cell, UpTo
<1>2. CASE ~Fetchable(s, tid)
  BY <1>1, <1>2 DEF Present, Registered, Attach, Load, Wanted
<1>3. CASE Fetchable(s, tid)
  <2>1. s \in Sources /\ s # None /\ h = TRUE /\ Catalogue[s][tid] # None
    BY <1>3 DEF Fetchable
  <2> DEFINE e == [d EXCEPT !.src = s, !.loaded = TRUE,
                            !.loadedStates = @ \cup UpTo(st),
                            !.calcLoaded = @ \/ h]
             w == Resolved(Catalogue[s][tid], st, e.mode)
  <2>2. /\ e \in Cell /\ e.src = s /\ e.running = {} /\ e.known = TRUE
        /\ e.states = UpTo(st) /\ e.loaded = TRUE /\ e.loadedStates = UpTo(st)
        /\ e.effects = {} /\ e.calcLoaded = TRUE /\ e.calcEffects = {}
        /\ e.mode = d.mode
    BY <1>1, <2>1 DEF Cell, UpTo
  <2>3. w \in SUBSET Effects
    BY <2>1, ResolvedType
  <2>4. Wanted(e, tid, st) = w
    BY <2>1, <2>2 DEF Wanted
  <2> HIDE DEF d, e, w
  <2> DEFINE g == StatusUpdate(e, tid, st, h)
  <2>5. g = [e EXCEPT !.running = w, !.effects = w, !.calcEffects = w]
    BY <2>1, <2>2, <2>4 DEF StatusUpdate
  <2>6. /\ g \in Cell /\ g.src = s /\ g.running = w /\ g.known = TRUE
        /\ g.states = UpTo(st) /\ g.loaded = TRUE /\ g.loadedStates = UpTo(st)
        /\ g.effects = w /\ g.calcLoaded = TRUE /\ g.calcEffects = w
        /\ g.mode = e.mode
    BY <2>2, <2>3, <2>5 DEF Cell
  <2>7. Attach(c, tid, st, s, h) = g
    BY <1>3 DEF Attach, Load, d, e
  <2>8. Wanted(g, tid, st) = w
    BY <2>1, <2>6 DEF Wanted, w
  <2> HIDE DEF g
  <2> QED
    BY <1>3, <2>1, <2>6, <2>7, <2>8 DEF Present, Registered
<1> QED
  BY <1>2, <1>3

\* Unloading a cell leaves it on its fit, with nothing loaded.
LEMMA UnloadPresent ==
  ASSUME NEW c, NEW tid \in TypeIds, NEW st \in State,
         NEW s \in Sources \cup {None}, NEW h \in BOOLEAN, s # None => h,
         Present(c, tid, st, s)
  PROVE  LET d == Unload(c, st, h)
         IN /\ Present(d, tid, st, None)
            /\ d.mode = c.mode
<1> DEFINE d == Unload(c, st, h)
<1>1. ~Fetchable(None, tid)
  BY DEF Fetchable
<1>2. CASE c.src = None
  BY <1>1, <1>2 DEF Present, Registered, Unload, Wanted
<1>3. CASE c.src # None
  <2>1. h = TRUE
    BY <1>3 DEF Present, Registered, Fetchable
  <2>2. d = [c EXCEPT !.effects = {}, !.calcEffects = {}, !.running = {},
                      !.loadedStates = {}, !.loaded = FALSE,
                      !.calcLoaded = FALSE, !.src = None]
    BY <1>3, <2>1 DEF Unload, Present, Registered, Cell, UpTo
  <2>3. /\ d \in Cell /\ d.src = None /\ d.running = {} /\ d.known = c.known
        /\ d.states = c.states /\ d.loaded = FALSE /\ d.loadedStates = {}
        /\ d.effects = {} /\ d.calcLoaded = FALSE /\ d.calcEffects = {}
        /\ d.mode = c.mode
    BY <2>2 DEF Present, Registered, Cell
  <2> HIDE DEF d
  <2> QED
    BY <1>1, <2>3 DEF Present, Registered, Wanted, d
<1> QED
  BY <1>2, <1>3

\* An item that leaves its fit leaves nothing behind.
LEMMA DetachAbsent ==
  ASSUME NEW c, NEW tid \in TypeIds, NEW st \in State,
         NEW s \in Sources \cup {None}, NEW h \in BOOLEAN, s # None => h,
         Present(c, tid, st, s)
  PROVE  Absent(Detach(c, st, h))
<1> DEFINE d == Unload(c, st, h)
<1>1. Present(d, tid, st, None)
  BY UnloadPresent
<1>2. d.src = None /\ d.running = {}
  BY <1>1 DEF Present, Registered, Fetchable, Wanted
<1> HIDE DEF d
<1> DEFINE g == [d EXCEPT !.states = @ \ UpTo(st), !.known = FALSE]
<1>3. Absent(g)
  BY <1>1, <1>2 DEF Present, Registered, Absent, Cell, UpTo
<1> QED
  BY <1>3 DEF Detach, Removed, d

\* Loading an unloaded item of a fit from a source brings it in step with it.
LEMMA LoadPresent ==
  ASSUME NEW c, NEW tid \in TypeIds, NEW st \in State,
         NEW s \in Sources \cup {None}, NEW h \in BOOLEAN, s # None => h,
         Present(c, tid, st, None)
  PROVE  LET d == Load(c, tid, st, s, h)
         IN /\ Present(d, tid, st, s)
            /\ d.mode = c.mode
<1>1. /\ c \in Cell /\ c.src = None /\ c.running = {} /\ c.known = TRUE
      /\ c.states = UpTo(st) /\ c.loaded = FALSE /\ c.loadedStates = {}
      /\ c.effects = {} /\ c.calcLoaded = FALSE /\ c.calcEffects = {}
  BY DEF Present, Registered, Fetchable, Wanted
<1>2. CASE ~Fetchable(s, tid)
  BY <1>1, <1>2 DEF Present, Registered, Load, Wanted
<1>3. CASE Fetchable(s, tid)
  <2>1. s \in Sources /\ s # None /\ h = TRUE /\ Catalogue[s][tid] # None
    BY <1>3 DEF Fetchable
  <2> DEFINE e == [c EXCEPT !.src = s, !.loaded = TRUE,
                            !.loadedStates = @ \cup UpTo(st),
                            !.calcLoaded = @ \/ h]
             w == Resolved(Catalogue[s][tid], st, c.mode)
  <2>2. /\ e \in Cell /\ e.src = s /\ e.running = {} /\ e.known = TRUE
        /\ e.states = UpTo(st) /\ e.loaded = TRUE /\ e.loadedStates = UpTo(st)
        /\ e.effects = {} /\ e.calcLoaded = TRUE /\ e.calcEffects = {}
        /\ e.mode = c.mode
    BY <1>1, <2>1 DEF Cell, UpTo
  <2>3. w \in SUBSET Effects
    BY <2>1, ResolvedType
  <2>4. Wanted(e, tid, st) = w
    BY <2>1, <2>2 DEF Wanted
  <2> HIDE DEF e, w
  <2> DEFINE g == StatusUpdate(e, tid, st, h)
  <2>5. g = [e EXCEPT !.running = w, !.effects = w, !.calcEffects = w]
    BY <2>1, <2>2, <2>4 DEF StatusUpdate
  <2>6. /\ g \in Cell /\ g.src = s /\ g.running = w /\ g.known = TRUE
        /\ g.states = UpTo(st) /\ g.loaded = TRUE /\ g.loadedStates = UpTo(st)
        /\ g.effects = w /\ g.calcLoaded = TRUE /\ g.calcEffects = w
        /\ g.mode = c.mode
    BY <2>2, <2>3, <2>5 DEF Cell
  <2>7. Load(c, tid, st, s, h) = g
    BY <1>3 DEF Load, e
  <2>8. Wanted(g, tid, st) = w
    BY <2>1, <2>6 DEF Wanted, w
  <2> HIDE DEF g
  <2> QED
    BY <1>3, <2>1, <2>6, <2>7, <2>8 DEF Present, Registered
<1> QED
  BY <1>2, <1>3

\* Bringing the running effects up to date, when everything else is in step.
LEMMA StatusUpdatePresent ==
  ASSUME NEW c, NEW tid \in TypeIds, NEW st \in State,
         NEW s \in Sources \cup {None}, NEW h \in BOOLEAN, s # None => h,
         Registered(c, tid, st, s)
  PROVE  LET d == StatusUpdate(c, tid, st, h)
         IN /\ Present(d, tid, st, s)
            /\ d.mode = c.mode
<1> DEFINE w == Wanted(c, tid, st)
           d == StatusUpdate(c, tid, st, h)
<1>0. /\ c \in Cell /\ c.src = (IF Fetchable(s, tid) THEN s ELSE None)
      /\ c.effects = c.running /\ c.calcEffects = c.running
      /\ c.src = None => c.running = {}
  BY DEF Registered
<1>1. w \in SUBSET Effects
  <2>1. CASE c.src = None
    BY <2>1 DEF Wanted
  <2>2. CASE c.src # None
    <3>1. c.src \in Sources /\ Catalogue[c.src][tid] # None
      BY <1>0, <2>2 DEF Fetchable
    <3> QED
      BY <2>2, <3>1, ResolvedType DEF Wanted
  <2> QED
    BY <2>1, <2>2
<1>2. c.src = None => w = {}
  BY DEF Wanted
<1> HIDE DEF w
<1>3. d = [c EXCEPT !.running = w, !.effects = w, !.calcEffects = w]
  <2>1. (c.running \cup (w \ c.running)) \ (c.running \ w) = w
    BY <1>0, <1>1
  <2>2. CASE h
    BY <1>0, <2>1, <2>2 DEF StatusUpdate, w
  <2>3. CASE ~h
    <3>1. c.src = None
      BY <1>0, <2>3
    <3>2. w = {} /\ c.running = {} /\ c.calcEffects = {}
      BY <1>0, <3>1, <1>2
    <3>3. d = [c EXCEPT !.running = w, !.effects = w,
                        !.calcEffects = c.calcEffects]
      BY <1>0, <2>1, <2>3 DEF StatusUpdate, w
    <3> QED
      BY <3>2, <3>3
  <2> QED
    BY <2>2, <2>3
<1> HIDE DEF d
<1>4. /\ d \in Cell /\ d.src = c.src /\ d.running = w /\ d.known = c.known
      /\ d.states = c.states /\ d.loaded = c.loaded
      /\ d.loadedStates = c.loadedStates /\ d.effects = w
      /\ d.calcLoaded = c.calcLoaded /\ d.calcEffects = w /\ d.mode = c.mode
  BY <1>0, <1>1, <1>3 DEF Cell
<1>5. Wanted(d, tid, st) = w
  BY <1>4 DEF Wanted, w
<1>6. Present(d, tid, st, s)
  BY <1>2, <1>4, <1>5 DEF Present, Registered
<1> QED
  BY <1>4, <1>6 DEF d

\* A state change keeps an item in step: the sets of activated and deactivated
\* states turn what the registers knew into the new states.
LEMMA StateUpdatePresent ==
  ASSUME NEW c, NEW tid \in TypeIds, NEW old \in State, NEW new \in State,
         NEW s \in Sources \cup {None}, NEW h \in BOOLEAN, s # None => h,
         Present(c, tid, old, s)
  PROVE  Present(StateUpdate(c, tid, old, new, h), tid, new, s)
<1> DEFINE up == UpTo(new) \ UpTo(old)
           down == UpTo(old) \ UpTo(new)
           told == [c EXCEPT !.states = (@ \cup up) \ down,
                             !.loadedStates = IF c.src = None THEN @
                                              ELSE (@ \cup up) \ down]
<1>1. (UpTo(old) \cup up) \ down = UpTo(new)
  OBVIOUS
<1>2. UpTo(new) \in SUBSET State
  BY DEF UpTo
<1>3. /\ told \in Cell /\ told.src = c.src /\ told.running = c.running
      /\ told.known = TRUE /\ told.states = UpTo(new)
      /\ told.loaded = c.loaded
      /\ told.loadedStates = (IF c.src = None THEN {} ELSE UpTo(new))
      /\ told.effects = c.running /\ told.calcLoaded = c.calcLoaded
      /\ told.calcEffects = c.running
  BY <1>1, <1>2 DEF Present, Registered, Cell
<1>4. c.src = None => c.running = {}
  BY DEF Present, Registered, Wanted
<1>5. StateUpdate(c, tid, old, new, h) =
        IF c.src = None THEN told ELSE StatusUpdate(told, tid, new, h)
  BY DEF StateUpdate
<1> HIDE DEF told
<1>6. CASE c.src = None
  BY <1>3, <1>4, <1>5, <1>6 DEF Present, Registered, Wanted
<1>7. CASE c.src # None
  <2>1. Registered(told, tid, new, s)
    BY <1>3, <1>4 DEF Present, Registered
  <2>2. Present(StatusUpdate(told, tid, new, h), tid, new, s)
    BY <2>1, StatusUpdatePresent
  <2> QED
    BY <1>5, <1>7, <2>2
<1> QED
  BY <1>6, <1>7

\* Changing a run mode keeps an item in step when its fit is told ...
LEMMA WithModePresent ==
  ASSUME NEW c, NEW tid \in TypeIds, NEW st \in State, NEW e, NEW mode \in Mode,
         NEW s \in Sources \cup {None}, NEW h \in BOOLEAN, s # None => h,
         Present(c, tid, st, s)
  PROVE  Present(WithMode(c, e, mode, tid, st, TRUE, h), tid, st, s)
<1> DEFINE d == [c EXCEPT !.mode = [@ EXCEPT ![e] = mode]]
<1>1. c.mode \in [Effects -> Mode]
  BY DEF Present, Registered, Cell
<1>2. [c.mode EXCEPT ![e] = mode] \in [Effects -> Mode]
  BY <1>1
<1>3. /\ d \in Cell /\ d.src = c.src /\ d.running = c.running
      /\ d.known = c.known /\ d.states = c.states /\ d.loaded = c.loaded
      /\ d.loadedStates = c.loadedStates /\ d.effects = c.effects
      /\ d.calcLoaded = c.calcLoaded /\ d.calcEffects = c.calcEffects
  BY <1>2 DEF Present, Registered, Cell
<1>4. c.src = None => c.running = {}
  BY DEF Present, Registered, Wanted
<1> HIDE DEF d
<1>5. Registered(d, tid, st, s)
  BY <1>3, <1>4 DEF Present, Registered
<1>6. Present(StatusUpdate(d, tid, st, h), tid, st, s)
  BY <1>5, StatusUpdatePresent
<1> QED
  BY <1>6 DEF WithMode, Overridden, d

\* ... and an item off every fit has no one to tell.
LEMMA ModeAbsent ==
  ASSUME NEW c, NEW e, NEW mode \in Mode, Absent(c)
  PROVE  Absent(Overridden(c, e, mode))
<1>1. c.mode \in [Effects -> Mode]
  BY DEF Absent, Cell
<1>2. [c.mode EXCEPT ![e] = mode] \in [Effects -> Mode]
  BY <1>1
<1> QED
  BY <1>2 DEF Absent, Cell, Overridden
-----------------------------------------------------------------------------
(* The inductive invariant.                                                *)

Shape ==
  /\ fits \subseteq Fits
  /\ source \in Sources \cup {None}
  /\ subscribed = fits
  /\ container \in [Modules -> Fits \cup {None}]
  /\ charge \in [Modules -> Charges \cup {None}]
  /\ holder \in [Charges -> Modules \cup {None}]
  /\ state \in [Modules -> State]
  /\ modules \in [Modules -> Cell]
  /\ charges \in [Charges -> Cell]
  /\ autos \in [Modules -> Cell]

ModulesCoherent ==
  \A m \in Modules :
    Coherent(modules[m], ModuleType[m], state[m], ModuleSource(m),
             ModuleOnFit(m))

ChargesCoherent ==
  \A c \in Charges :
    Coherent(charges[c], ChargeType[c], ChargeState(c), ChargeSource(c),
             ChargeOnFit(c))

AutosCoherent ==
  /\ autocharged = {m \in Modules : AutochargeType(m) # None}
  /\ \A m \in Modules :
       Coherent(autos[m], AutochargeType(m), state[m], ModuleSource(m),
                AutochargeType(m) # None)

IInv ==
  Shape /\ ChargeLinked /\ ModulesCoherent /\ ChargesCoherent /\ AutosCoherent

\* Facts about sources and types that every step uses.
LEMMA SourceFacts ==
  ASSUME NEW f \in Fits \cup {None}, NEW fs \in SUBSET Fits,
         NEW s \in Sources \cup {None}
  PROVE  /\ SourceOn(f, fs, s) \in Sources \cup {None}
         /\ SourceOn(f, fs, s) # None => f \in fs /\ f # None
BY DEF SourceOn

LEMMA AutoTypeFacts ==
  ASSUME NEW m \in Modules, NEW s \in Sources \cup {None}
  PROVE  /\ AutoType(m, s) \in TypeIds \cup {None}
         /\ AutoType(m, None) = None
         /\ AutoType(m, s) # None => s # None
<1>1. ModuleType[m] \in TypeIds
  BY ItemAssumption
<1>2. CASE Fetchable(s, ModuleType[m])
  <2>1. Catalogue[s][ModuleType[m]] \in ItemType
    BY <1>1, <1>2, DataAssumption DEF Fetchable
  <2> QED
    BY <1>2, <2>1 DEF AutoType, Fetchable, ItemType
<1> QED
  BY <1>2 DEF AutoType, Fetchable

\* The type id a loaded module gave its autocharge is the one its fit's source
\* gives it.
LEMMA AutoTypeOfModule ==
  ASSUME Shape, ModulesCoherent, NEW m \in Modules
  PROVE  AutoType(m, modules[m].src) = AutochargeType(m)
<1> DEFINE s == ModuleSource(m)
<1>1. s \in Sources \cup {None} /\ (s # None => ModuleOnFit(m))
  BY SourceFacts DEF Shape, ModuleSource, ModuleOnFit
<1>2. CASE ModuleOnFit(m)
  <2>1. modules[m].src = IF Fetchable(s, ModuleType[m]) THEN s ELSE None
    BY <1>2 DEF ModulesCoherent, Coherent, Present, Registered
  <2> QED
    BY <1>1, <2>1 DEF AutochargeType, AutoType, Fetchable
<1>3. CASE ~ModuleOnFit(m)
  <2>1. modules[m].src = None /\ s = None
    BY <1>1, <1>3 DEF ModulesCoherent, Coherent, Absent
  <2> QED
    BY <2>1 DEF AutochargeType
<1> QED
  BY <1>2, <1>3

LEMMA CoherentIsCell ==
  ASSUME NEW c, NEW tid, NEW st, NEW s, NEW onFit \in BOOLEAN,
         Coherent(c, tid, st, s, onFit)
  PROVE  c \in Cell
BY DEF Coherent, Present, Registered, Absent

\* What a module, its charge and its autocharge are to a fit, before and after.
LEMMA DiscardAbsent ==
  ASSUME IInv, NEW m \in Modules
  PROVE  Absent(Discard(m, state[m], Heard(m)))
<1>1. Heard(m) \in BOOLEAN /\ state[m] \in State
  BY DEF Heard, IInv, Shape
<1>2. /\ ModuleSource(m) \in Sources \cup {None}
      /\ ModuleSource(m) # None => Heard(m)
  BY SourceFacts DEF ModuleSource, IInv, Shape, Heard
<1>3. CASE m \in autocharged
  <2>1. AutochargeType(m) \in TypeIds
    BY <1>2, <1>3, AutoTypeFacts DEF IInv, AutosCoherent, AutochargeType
  <2>2. Present(autos[m], AutochargeType(m), state[m], ModuleSource(m))
    BY <1>3 DEF IInv, AutosCoherent, Coherent
  <2>3. Absent(Detach(autos[m], state[m], Heard(m)))
    BY <1>1, <1>2, <2>1, <2>2, DetachAbsent
  <2>4. FullCompliance \in [Effects -> Mode]
    BY DEF FullCompliance, Mode
  <2> DEFINE d == Detach(autos[m], state[m], Heard(m))
  <2>5. Absent(d)
    BY <2>3
  <2> HIDE DEF d
  <2>6. Absent([d EXCEPT !.mode = FullCompliance])
    BY <2>4, <2>5 DEF Absent, Cell
  <2> QED
    BY <1>3, <2>6 DEF Discard, d
<1>4. CASE m \notin autocharged
  BY <1>4 DEF IInv, AutosCoherent, Coherent, Discard
<1> QED
  BY <1>3, <1>4

LEMMA SpawnCoherent ==
  ASSUME NEW c, Absent(c), NEW m \in Modules, NEW st \in State,
         NEW s \in Sources \cup {None}, NEW h \in BOOLEAN, s # None => h
  PROVE  IF AutoType(m, s) # None
         THEN Present(Spawn(c, m, st, s, h), AutoType(m, s), st, s)
         ELSE Absent(Spawn(c, m, st, s, h))
<1>1. CASE AutoType(m, s) = None
  BY <1>1 DEF Spawn
<1>2. CASE AutoType(m, s) # None
  <2>1. AutoType(m, s) \in TypeIds
    BY <1>2, AutoTypeFacts
  <2>2. Present(Attach(c, AutoType(m, s), st, s, h), AutoType(m, s), st, s)
    BY <2>1, AttachPresent
  <2> QED
    BY <1>2, <2>2 DEF Spawn
<1> QED
  BY <1>1, <1>2

THEOREM InitInvariant == Init => IInv
<1> SUFFICES ASSUME Init PROVE IInv
  OBVIOUS
<1>1. NewCell \in Cell
  BY NewCellAbsent DEF Absent
<1>2. Shape
  BY <1>1, ItemAssumption DEF Init, Shape
<1>3. ChargeLinked
  BY ItemAssumption DEF Init, ChargeLinked
<1>4. ModulesCoherent
  BY NewCellAbsent DEF Init, ModulesCoherent, Coherent, ModuleOnFit
<1>5. ChargesCoherent
  BY NewCellAbsent DEF Init, ChargesCoherent, Coherent, ChargeOnFit
<1>6. \A m \in Modules : AutochargeType(m) = None
  BY AutoTypeFacts DEF Init, AutochargeType, ModuleSource, SourceOn
<1>7. AutosCoherent
  BY <1>6, NewCellAbsent DEF Init, AutosCoherent, Coherent
<1> QED
  BY <1>2, <1>3, <1>4, <1>5, <1>7 DEF IInv
-----------------------------------------------------------------------------
(* One lemma per action: it keeps the inductive invariant.                 *)

LEMMA AddModuleStep ==
  ASSUME IInv, NEW m \in Modules, NEW f \in Fits, AddModule(m, f)
  PROVE  IInv'
<1> USE DEF IInv
<1> DEFINE st == state[m]
           s == SourceOn(f, fits, source)
           h == f \in subscribed
<1>1. /\ s \in Sources \cup {None} /\ st \in State /\ h \in BOOLEAN
      /\ s # None => h
  BY SourceFacts DEF Shape
<1>2. /\ container' = [container EXCEPT ![m] = f] /\ container[m] = None
      /\ f # None /\ container'[m] = f
      /\ \A x \in Modules : x # m => container'[x] = container[x]
  BY ItemAssumption DEF AddModule, Shape
<1>3. /\ ModuleSource(m)' = s /\ ModuleOnFit(m)' = TRUE
      /\ ModuleSource(m) = None /\ ModuleOnFit(m) = FALSE
      /\ \A x \in Modules : x # m =>
           ModuleSource(x)' = ModuleSource(x) /\ ModuleOnFit(x)' = ModuleOnFit(x)
  BY <1>2 DEF ModuleSource, ModuleOnFit, AddModule, SourceOn
<1>4. ChargeLinked'
  BY DEF AddModule, ChargeLinked
<1>5. ModulesCoherent'
  <2> SUFFICES ASSUME NEW x \in Modules
               PROVE  Coherent(modules[x], ModuleType[x], state[x],
                               ModuleSource(x), ModuleOnFit(x))'
    BY DEF ModulesCoherent
  <2>1. CASE x = m
    <3>1. Absent(modules[m]) /\ ModuleType[m] \in TypeIds
      BY <1>3, ItemAssumption DEF ModulesCoherent, Coherent
    <3>2. modules'[m] = Attach(modules[m], ModuleType[m], st, s, h)
      BY DEF AddModule, Shape
    <3>3. Present(modules'[m], ModuleType[m], st, s)
      BY <1>1, <3>1, <3>2, AttachPresent
    <3> QED
      BY <1>3, <2>1, <3>3 DEF Coherent, AddModule
  <2>2. CASE x # m
    BY <1>3, <2>2 DEF ModulesCoherent, AddModule, Shape
  <2> QED
    BY <2>1, <2>2
<1>6. ChargesCoherent'
  <2> SUFFICES ASSUME NEW c \in Charges
               PROVE  Coherent(charges[c], ChargeType[c], ChargeState(c),
                               ChargeSource(c), ChargeOnFit(c))'
    BY DEF ChargesCoherent
  <2>1. CASE c = charge[m]
    <3>1. holder[c] = m /\ holder' = holder /\ state' = state /\ m # None
      BY <2>1, ItemAssumption DEF ChargeLinked, AddModule
    <3>2. /\ ~ChargeOnFit(c) /\ ChargeOnFit(c)' /\ ChargeState(c)' = st
          /\ ChargeSource(c)' = s
      BY <1>2, <1>3, <3>1
      DEF ChargeOnFit, ChargeState, ChargeSource, ModuleSource
    <3>3. Absent(charges[c]) /\ ChargeType[c] \in TypeIds
      BY <3>2, ItemAssumption DEF ChargesCoherent, Coherent
    <3>4. charges'[c] = Attach(charges[c], ChargeType[c], st, s, h)
      BY <2>1 DEF AddModule
    <3>5. Present(charges'[c], ChargeType[c], st, s)
      BY <1>1, <3>3, <3>4, AttachPresent
    <3> QED
      BY <3>2, <3>5 DEF Coherent
  <2>2. CASE c # charge[m]
    <3>1. holder[c] # m /\ holder' = holder /\ state' = state
      BY <2>2 DEF ChargeLinked, AddModule
    <3>2. /\ ChargeOnFit(c)' = ChargeOnFit(c) /\ ChargeState(c)' = ChargeState(c)
          /\ ChargeSource(c)' = ChargeSource(c)
      BY <1>2, <1>3, <3>1
      DEF ChargeOnFit, ChargeState, ChargeSource, ModuleSource, Shape
    <3>3. charges'[c] = charges[c]
      BY <2>2 DEF AddModule
    <3> QED
      BY <3>2, <3>3 DEF ChargesCoherent
  <2> QED
    BY <2>1, <2>2
<1>7. AutosCoherent'
  <2>1. /\ AutochargeType(m)' = AutoType(m, s) /\ AutochargeType(m) = None
        /\ \A x \in Modules : x # m => AutochargeType(x)' = AutochargeType(x)
    BY <1>3, AutoTypeFacts DEF AutochargeType
  <2>2. autocharged' = {x \in Modules : AutochargeType(x) # None}'
    BY <2>1 DEF AddModule, AutosCoherent, Spawning
  <2>3. ASSUME NEW x \in Modules
        PROVE  Coherent(autos[x], AutochargeType(x), state[x], ModuleSource(x),
                        AutochargeType(x) # None)'
    <3>1. CASE x = m
      <4>1. Absent(autos[m])
        BY <2>1 DEF AutosCoherent, Coherent
      <4>2. autos'[m] = Spawn(autos[m], m, st, s, h)
        BY DEF AddModule, Shape
      <4>3. IF AutoType(m, s) # None
            THEN Present(autos'[m], AutoType(m, s), st, s)
            ELSE Absent(autos'[m])
        BY <1>1, <4>1, <4>2, SpawnCoherent
      <4>4. state'[m] = st
        BY DEF AddModule
      <4>5. Coherent(autos'[m], AutochargeType(m)', state'[m], ModuleSource(m)',
                     AutochargeType(m)' # None)
        BY <1>3, <2>1, <4>3, <4>4 DEF Coherent
      <4> QED
        BY <3>1, <4>5
    <3>2. CASE x # m
      BY <1>3, <2>1, <3>2 DEF AutosCoherent, AddModule, Shape
    <3> QED
      BY <3>1, <3>2
  <2> QED
    BY <2>2, <2>3 DEF AutosCoherent
<1>8. Shape'
  <2>1. /\ \A x \in Modules : modules'[x] \in Cell /\ autos'[x] \in Cell
        /\ \A c \in Charges : charges'[c] \in Cell
    BY <1>5, <1>6, <1>7, CoherentIsCell
    DEF ModulesCoherent, ChargesCoherent, AutosCoherent, Coherent, Present,
        Registered, Absent
  <2>2. /\ modules' = [x \in Modules |-> modules'[x]]
        /\ charges' = [c \in Charges |-> charges'[c]]
        /\ autos' = [x \in Modules |-> autos'[x]]
    BY DEF AddModule, Shape
  <2> QED
    BY <2>1, <2>2, <1>2 DEF AddModule, Shape
<1> QED
  BY <1>4, <1>5, <1>6, <1>7, <1>8

LEMMA RemoveModuleStep ==
  ASSUME IInv, NEW m \in Modules, RemoveModule(m)
  PROVE  IInv'
<1> USE DEF IInv
<1> DEFINE st == state[m]
           s == ModuleSource(m)
           h == Heard(m)
<1>1. /\ s \in Sources \cup {None} /\ st \in State /\ h \in BOOLEAN
      /\ s # None => h
  BY SourceFacts DEF Shape, ModuleSource, Heard
<1>2. /\ container'[m] = None
      /\ container' \in [Modules -> Fits \cup {None}]
      /\ \A x \in Modules : x # m => container'[x] = container[x]
  BY DEF RemoveModule, Shape
<1>3. /\ ModuleSource(m)' = None /\ ModuleOnFit(m)' = FALSE
      /\ ModuleOnFit(m) = TRUE
      /\ \A x \in Modules : x # m =>
           ModuleSource(x)' = ModuleSource(x) /\ ModuleOnFit(x)' = ModuleOnFit(x)
  BY <1>2 DEF ModuleSource, ModuleOnFit, RemoveModule, SourceOn
<1>4. ChargeLinked'
  BY DEF RemoveModule, ChargeLinked
<1>5. ModulesCoherent'
  <2> SUFFICES ASSUME NEW x \in Modules
               PROVE  Coherent(modules[x], ModuleType[x], state[x],
                               ModuleSource(x), ModuleOnFit(x))'
    BY DEF ModulesCoherent
  <2>1. CASE x = m
    <3>1. Present(modules[m], ModuleType[m], st, s) /\ ModuleType[m] \in TypeIds
      BY <1>3, ItemAssumption DEF ModulesCoherent, Coherent
    <3>2. modules'[m] = Detach(modules[m], st, h)
      BY DEF RemoveModule, Shape
    <3>3. Absent(modules'[m])
      BY <1>1, <3>1, <3>2, DetachAbsent
    <3> QED
      BY <1>3, <2>1, <3>3 DEF Coherent
  <2>2. CASE x # m
    BY <1>3, <2>2 DEF ModulesCoherent, RemoveModule, Shape
  <2> QED
    BY <2>1, <2>2
<1>6. ChargesCoherent'
  <2> SUFFICES ASSUME NEW c \in Charges
               PROVE  Coherent(charges[c], ChargeType[c], ChargeState(c),
                               ChargeSource(c), ChargeOnFit(c))'
    BY DEF ChargesCoherent
  <2>1. CASE c = charge[m]
    <3>1. holder[c] = m /\ holder' = holder /\ state' = state /\ m # None
      BY <2>1, ItemAssumption DEF ChargeLinked, RemoveModule
    <3>2. /\ ChargeOnFit(c) /\ ~ChargeOnFit(c)' /\ ChargeState(c) = st
          /\ ChargeSource(c) = s
      BY <1>2, <1>3, <3>1
      DEF ChargeOnFit, ChargeState, ChargeSource, ModuleSource, ModuleOnFit
    <3>3. Present(charges[c], ChargeType[c], st, s) /\ ChargeType[c] \in TypeIds
      BY <3>2, ItemAssumption DEF ChargesCoherent, Coherent
    <3>4. charges'[c] = Detach(charges[c], st, h)
      BY <2>1 DEF RemoveModule
    <3>5. Absent(charges'[c])
      BY <1>1, <3>3, <3>4, DetachAbsent
    <3> QED
      BY <3>2, <3>5 DEF Coherent
  <2>2. CASE c # charge[m]
    <3>1. holder[c] # m /\ holder' = holder /\ state' = state
      BY <2>2 DEF ChargeLinked, RemoveModule
    <3>2. /\ ChargeOnFit(c)' = ChargeOnFit(c) /\ ChargeState(c)' = ChargeState(c)
          /\ ChargeSource(c)' = ChargeSource(c)
      BY <1>2, <1>3, <3>1
      DEF ChargeOnFit, ChargeState, ChargeSource, ModuleSource, Shape
    <3>3. charges'[c] = charges[c]
      BY <2>2 DEF RemoveModule
    <3> QED
      BY <3>2, <3>3 DEF ChargesCoherent
  <2> QED
    BY <2>1, <2>2
<1>7. AutosCoherent'
  <2>1. /\ AutochargeType(m)' = None
        /\ \A x \in Modules : x # m => AutochargeType(x)' = AutochargeType(x)
    BY <1>3, AutoTypeFacts DEF AutochargeType
  <2>2. autocharged' = {x \in Modules : AutochargeType(x) # None}'
    BY <2>1 DEF RemoveModule, AutosCoherent
  <2>3. ASSUME NEW x \in Modules
        PROVE  Coherent(autos[x], AutochargeType(x), state[x], ModuleSource(x),
                        AutochargeType(x) # None)'
    <3>1. CASE x = m
      <4>1. autos'[m] = Discard(m, st, h)
        BY DEF RemoveModule, Shape
      <4>2. Absent(autos'[m])
        BY <4>1, DiscardAbsent
      <4> QED
        BY <2>1, <3>1, <4>2 DEF Coherent
    <3>2. CASE x # m
      BY <1>3, <2>1, <3>2 DEF AutosCoherent, RemoveModule, Shape
    <3> QED
      BY <3>1, <3>2
  <2> QED
    BY <2>2, <2>3 DEF AutosCoherent
<1>8. Shape'
  <2>1. /\ \A x \in Modules : modules'[x] \in Cell /\ autos'[x] \in Cell
        /\ \A c \in Charges : charges'[c] \in Cell
    BY <1>5, <1>6, <1>7
    DEF ModulesCoherent, ChargesCoherent, AutosCoherent, Coherent, Present,
        Registered, Absent
  <2>2. /\ modules' = [x \in Modules |-> modules'[x]]
        /\ charges' = [c \in Charges |-> charges'[c]]
        /\ autos' = [x \in Modules |-> autos'[x]]
    BY DEF RemoveModule, Shape
  <2> QED
    BY <2>1, <2>2, <1>2 DEF RemoveModule, Shape
<1> QED
  BY <1>4, <1>5, <1>6, <1>7, <1>8

\* Unloading the items of some modules and loading them from source s, when s is
\* what these modules' fits have next, and other modules see no change.
LEMMA ReloadStep ==
  ASSUME IInv, NEW ms \in SUBSET Modules, NEW s \in Sources \cup {None},
         Reload(ms, s), fits' \subseteq Fits, source' \in Sources \cup {None},
         subscribed' = fits', UNCHANGED <<container, charge, holder, state>>,
         \A m \in ms : ModuleOnFit(m) /\ ModuleSource(m)' = s,
         \A m \in Modules \ ms : ModuleSource(m)' = ModuleSource(m)
  PROVE  IInv'
<1> USE DEF IInv
<1>1. ASSUME NEW m \in Modules
      PROVE  /\ ModuleSource(m) \in Sources \cup {None} /\ state[m] \in State
             /\ Heard(m) \in BOOLEAN /\ (ModuleSource(m) # None => Heard(m))
             /\ ModuleOnFit(m)' = ModuleOnFit(m)
  <2>1. container[m] \in Fits \cup {None} /\ state[m] \in State
    BY DEF Shape
  <2>2. /\ ModuleSource(m) \in Sources \cup {None}
        /\ ModuleSource(m) # None => container[m] \in fits
    BY <2>1, SourceFacts DEF Shape, ModuleSource
  <2> QED
    BY <2>1, <2>2 DEF Shape, Heard, ModuleOnFit
<1>2. ASSUME NEW m \in ms
      PROVE  s # None => container[m] \in subscribed'
  <2>1. SourceOn(container[m], fits', source') = s
    BY DEF ModuleSource
  <2> QED
    BY <2>1 DEF SourceOn
<1>3. ChargeLinked'
  BY DEF ChargeLinked
<1>4. ModulesCoherent'
  <2> SUFFICES ASSUME NEW m \in Modules
               PROVE  Coherent(modules[m], ModuleType[m], state[m],
                               ModuleSource(m), ModuleOnFit(m))'
    BY DEF ModulesCoherent
  <2>1. CASE m \in ms
    <3> DEFINE c == Unload(modules[m], state[m], Heard(m))
               h == container[m] \in subscribed'
    <3>1. /\ Present(modules[m], ModuleType[m], state[m], ModuleSource(m))
          /\ ModuleType[m] \in TypeIds
      BY <2>1, ItemAssumption DEF ModulesCoherent, Coherent
    <3>2. Present(c, ModuleType[m], state[m], None)
      BY <1>1, <3>1, UnloadPresent
    <3>3. modules'[m] = Load(c, ModuleType[m], state[m], s, h)
      BY <2>1 DEF Reload
    <3>4. h \in BOOLEAN /\ (s # None => h)
      BY <1>2, <2>1
    <3> HIDE DEF c, h
    <3>5. Present(modules'[m], ModuleType[m], state[m], s)
      BY <1>1, <3>1, <3>2, <3>3, <3>4, LoadPresent
    <3> QED
      BY <1>1, <2>1, <3>5 DEF Coherent
  <2>2. CASE m \notin ms
    BY <1>1, <2>2 DEF ModulesCoherent, Reload
  <2> QED
    BY <2>1, <2>2
<1>5. ChargesCoherent'
  <2> SUFFICES ASSUME NEW x \in Charges
               PROVE  Coherent(charges[x], ChargeType[x], ChargeState(x),
                               ChargeSource(x), ChargeOnFit(x))'
    BY DEF ChargesCoherent
  <2>0. ChargeState(x)' = ChargeState(x) /\ ChargeOnFit(x)' = ChargeOnFit(x)
    BY DEF ChargeState, ChargeOnFit
  <2>1. CASE holder[x] # None /\ holder[x] \in ms
    <3> DEFINE m == holder[x]
               c == Unload(charges[x], state[m], Heard(m))
               h == container[m] \in subscribed'
    <3>1. /\ ChargeState(x) = state[m] /\ ChargeSource(x) = ModuleSource(m)
          /\ ChargeOnFit(x) /\ ChargeSource(x)' = s /\ m \in Modules
      BY <2>1 DEF ChargeState, ChargeSource, ChargeOnFit, ModuleOnFit
    <3>2. /\ Present(charges[x], ChargeType[x], state[m], ModuleSource(m))
          /\ ChargeType[x] \in TypeIds
      BY <3>1, ItemAssumption DEF ChargesCoherent, Coherent
    <3>3. Present(c, ChargeType[x], state[m], None)
      BY <1>1, <3>1, <3>2, UnloadPresent
    <3>4. charges'[x] = Load(c, ChargeType[x], state[m], s, h)
      BY <2>1 DEF Reload
    <3>5. h \in BOOLEAN /\ (s # None => h)
      BY <1>2, <2>1
    <3> HIDE DEF c, h
    <3>6. Present(charges'[x], ChargeType[x], state[m], s)
      BY <1>1, <3>1, <3>2, <3>3, <3>4, <3>5, LoadPresent
    <3> QED
      BY <2>0, <3>1, <3>6 DEF Coherent
  <2>2. CASE ~(holder[x] # None /\ holder[x] \in ms)
    <3>1. charges'[x] = charges[x]
      BY <2>2 DEF Reload
    <3>2. ChargeSource(x)' = ChargeSource(x)
      BY <2>2 DEF ChargeSource, Shape
    <3> QED
      BY <2>0, <3>1, <3>2 DEF ChargesCoherent
  <2> QED
    BY <2>1, <2>2
<1>6. AutosCoherent'
  <2>1. /\ \A m \in ms : AutochargeType(m)' = AutoType(m, s)
        /\ \A m \in Modules \ ms : AutochargeType(m)' = AutochargeType(m)
    BY DEF AutochargeType
  <2>2. autocharged' = {m \in Modules : AutochargeType(m) # None}'
    BY <2>1 DEF Reload, AutosCoherent, Spawning
  <2>3. ASSUME NEW m \in Modules
        PROVE  Coherent(autos[m], AutochargeType(m), state[m], ModuleSource(m),
                        AutochargeType(m) # None)'
    <3>1. CASE m \in ms
      <4> DEFINE c == Discard(m, state[m], Heard(m))
                 h == container[m] \in subscribed'
      <4>1. Absent(c)
        BY DiscardAbsent
      <4>2. autos'[m] = Spawn(c, m, state[m], s, h)
        BY <3>1 DEF Reload
      <4>3. h \in BOOLEAN /\ (s # None => h)
        BY <1>2, <3>1
      <4> HIDE DEF c, h
      <4>4. IF AutoType(m, s) # None
            THEN Present(autos'[m], AutoType(m, s), state[m], s)
            ELSE Absent(autos'[m])
        BY <1>1, <4>1, <4>2, <4>3, SpawnCoherent
      <4> QED
        BY <2>1, <3>1, <4>4 DEF Coherent
    <3>2. CASE m \notin ms
      BY <2>1, <3>2 DEF AutosCoherent, Reload
    <3> QED
      BY <3>1, <3>2
  <2> QED
    BY <2>2, <2>3 DEF AutosCoherent
<1>7. Shape'
  <2>1. /\ \A x \in Modules : modules'[x] \in Cell /\ autos'[x] \in Cell
        /\ \A c \in Charges : charges'[c] \in Cell
    BY <1>4, <1>5, <1>6
    DEF ModulesCoherent, ChargesCoherent, AutosCoherent, Coherent, Present,
        Registered, Absent
  <2>2. /\ modules' = [x \in Modules |-> modules'[x]]
        /\ charges' = [c \in Charges |-> charges'[c]]
        /\ autos' = [x \in Modules |-> autos'[x]]
    BY DEF Reload
  <2> QED
    BY <2>1, <2>2 DEF Shape
<1> QED
  BY <1>3, <1>4, <1>5, <1>6, <1>7

\* What Recharged leaves of a charge, with m the module whose charge is set.
LEMMA RechargedCoherent ==
  ASSUME IInv, NEW m \in Modules, NEW c \in Charges \cup {None},
         c # None => holder[c] \in {None, m}, NEW x \in Charges
  PROVE  LET d == Recharged(m, c, x)
         IN /\ x = c =>
                 Coherent(d, ChargeType[x], state[m], ModuleSource(m),
                          ModuleOnFit(m))
            /\ x # c /\ x = charge[m] => Absent(d)
            /\ x # c /\ x # charge[m] => d = charges[x]
<1> USE DEF IInv
<1> DEFINE st == state[m]
           s == ModuleSource(m)
           h == Heard(m)
           out == IF x = charge[m] THEN Detach(charges[x], st, h)
                  ELSE charges[x]
           d == Recharged(m, c, x)
<1>1. /\ s \in Sources \cup {None} /\ st \in State /\ h \in BOOLEAN
      /\ s # None => h
  BY SourceFacts DEF Shape, ModuleSource, Heard
<1>2. ChargeType[x] \in TypeIds /\ x # None /\ m # None
  BY ItemAssumption
<1>3. x = charge[m] => /\ holder[x] = m /\ ChargeSource(x) = s
                       /\ ChargeState(x) = st /\ ChargeOnFit(x) = ModuleOnFit(m)
  BY <1>2 DEF ChargeLinked, ChargeSource, ChargeState, ChargeOnFit, ModuleOnFit
<1>4. x = c /\ x # charge[m] => Absent(charges[x])
  <2>1. x = c /\ x # charge[m] => holder[x] = None
    BY <1>2 DEF ChargeLinked
  <2> QED
    BY <2>1 DEF ChargesCoherent, Coherent, ChargeOnFit
<1>5. CASE ~ModuleOnFit(m)
  <2>1. d = charges[x]
    BY <1>5 DEF Recharged, ModuleOnFit
  <2>2. x = charge[m] => Absent(charges[x])
    BY <1>3, <1>5 DEF ChargesCoherent, Coherent
  <2> QED
    BY <1>4, <1>5, <2>1, <2>2 DEF Coherent
<1>6. CASE ModuleOnFit(m)
  <2>1. d = IF x = c THEN Attach(out, ChargeType[x], st, s, h) ELSE out
    BY <1>6 DEF Recharged, ModuleOnFit, ModuleSource
  <2>2. x = charge[m] => Absent(out)
    <3> SUFFICES ASSUME x = charge[m] PROVE Absent(Detach(charges[x], st, h))
      OBVIOUS
    <3>1. Present(charges[x], ChargeType[x], st, s)
      BY <1>3, <1>6 DEF ChargesCoherent, Coherent
    <3> QED
      BY <1>1, <1>2, <3>1, DetachAbsent
  <2>3. x = c => Absent(out)
    BY <1>4, <2>2
  <2> HIDE DEF out, s, h, st
  <2>4. x = c => Present(Attach(out, ChargeType[x], st, s, h), ChargeType[x], st, s)
    BY <1>1, <1>2, <2>3, AttachPresent
  <2> QED
    BY <1>6, <2>1, <2>2, <2>4 DEF Coherent, out, s, st
<1> QED
  BY <1>5, <1>6

\* An action that leaves modules and autocharges alone and moves no fit.
LEMMA ModulesKept ==
  ASSUME IInv, UNCHANGED <<fits, source, subscribed, container, state,
                           autocharged, modules, autos>>
  PROVE  /\ ModulesCoherent' /\ AutosCoherent'
         /\ \A m \in Modules : ModuleSource(m)' = ModuleSource(m)
         /\ \A m \in Modules : ModuleOnFit(m)' = ModuleOnFit(m)
BY DEF IInv, ModulesCoherent, AutosCoherent, ModuleSource, ModuleOnFit,
       AutochargeType

LEMMA SetChargeStep ==
  ASSUME IInv, NEW m \in Modules, NEW c \in Charges \cup {None}, SetCharge(m, c)
  PROVE  IInv'
<1> USE DEF IInv
<1>1. /\ ModulesCoherent' /\ AutosCoherent'
      /\ \A x \in Modules : ModuleSource(x)' = ModuleSource(x)
      /\ \A x \in Modules : ModuleOnFit(x)' = ModuleOnFit(x)
  BY ModulesKept DEF SetCharge
<1>2. /\ c # None => holder[c] \in {None, m}
      /\ charge' = [charge EXCEPT ![m] = c]
      /\ holder' = [x \in Charges |-> IF x = c THEN m
                                      ELSE IF x = charge[m] THEN None
                                      ELSE holder[x]]
      /\ charges' = [x \in Charges |-> Recharged(m, c, x)]
      /\ container' = container /\ state' = state /\ m # None
  BY ItemAssumption DEF SetCharge
<1>3. ChargeLinked'
  <2> SUFFICES ASSUME NEW y \in Modules, NEW x \in Charges
               PROVE  charge'[y] = x <=> holder'[x] = y
    BY DEF ChargeLinked
  <2>1. x # None /\ y # None
    BY ItemAssumption
  <2>2. charge[y] = x <=> holder[x] = y
    BY DEF ChargeLinked
  <2>3. charge[m] = x <=> holder[x] = m
    BY DEF ChargeLinked
  <2> QED
    BY <1>2, <2>1, <2>2, <2>3 DEF Shape
<1>4. ChargesCoherent'
  <2> SUFFICES ASSUME NEW x \in Charges
               PROVE  Coherent(charges[x], ChargeType[x], ChargeState(x),
                               ChargeSource(x), ChargeOnFit(x))'
    BY DEF ChargesCoherent
  <2>0. x # None /\ charges'[x] = Recharged(m, c, x)
    BY <1>2, ItemAssumption
  <2>1. CASE x = c
    <3>1. /\ ChargeState(x)' = state[m] /\ ChargeSource(x)' = ModuleSource(m)
          /\ ChargeOnFit(x)' = ModuleOnFit(m)
      BY <1>1, <1>2, <2>1
      DEF ChargeState, ChargeSource, ChargeOnFit, ModuleOnFit
    <3>2. Coherent(charges'[x], ChargeType[x], state[m], ModuleSource(m),
                   ModuleOnFit(m))
      BY <1>2, <2>0, <2>1, RechargedCoherent
    <3> QED
      BY <3>1, <3>2
  <2>2. CASE x # c /\ x = charge[m]
    <3>1. ~ChargeOnFit(x)'
      BY <1>2, <2>2 DEF ChargeOnFit
    <3>2. Absent(charges'[x])
      BY <1>2, <2>0, <2>2, RechargedCoherent
    <3> QED
      BY <3>1, <3>2 DEF Coherent
  <2>3. CASE x # c /\ x # charge[m]
    <3>1. charges'[x] = charges[x] /\ holder'[x] = holder[x]
      BY <1>2, <2>0, <2>3, RechargedCoherent
    <3>2. /\ ChargeState(x)' = ChargeState(x) /\ ChargeOnFit(x)' = ChargeOnFit(x)
          /\ ChargeSource(x)' = ChargeSource(x)
      BY <1>1, <1>2, <3>1 DEF ChargeState, ChargeOnFit, ChargeSource, Shape
    <3> QED
      BY <3>1, <3>2 DEF ChargesCoherent
  <2> QED
    BY <2>1, <2>2, <2>3
<1>5. Shape'
  <2>1. \A x \in Charges : charges'[x] \in Cell
    BY <1>4 DEF ChargesCoherent, Coherent, Present, Registered, Absent
  <2>2. charges' = [x \in Charges |-> charges'[x]]
    BY <1>2
  <2>3. /\ charge' \in [Modules -> Charges \cup {None}]
        /\ holder' \in [Charges -> Modules \cup {None}]
    BY <1>2 DEF Shape
  <2> QED
    BY <2>1, <2>2, <2>3 DEF SetCharge, Shape
<1> QED
  BY <1>1, <1>3, <1>4, <1>5

LEMMA SetTakenChargeStep ==
  ASSUME IInv, NEW m \in Modules, NEW c \in Charges, SetTakenCharge(m, c)
  PROVE  IInv'
<1> USE DEF IInv
<1>1. /\ ModulesCoherent' /\ AutosCoherent'
      /\ \A x \in Modules : ModuleSource(x)' = ModuleSource(x)
      /\ \A x \in Modules : ModuleOnFit(x)' = ModuleOnFit(x)
  BY ModulesKept DEF SetTakenCharge, config
<1>2. ChargeLinked'
  BY DEF ChargeLinked, SetTakenCharge, config
<1>3. ChargesCoherent'
  <2> SUFFICES ASSUME NEW x \in Charges
               PROVE  Coherent(charges[x], ChargeType[x], ChargeState(x),
                               ChargeSource(x), ChargeOnFit(x))'
    BY DEF ChargesCoherent
  <2>1. /\ charge[m] \in Charges \cup {None}
        /\ charge[m] # None => holder[charge[m]] \in {None, m}
    BY DEF Shape, ChargeLinked
  <2>2. charges'[x] = Recharged(m, charge[m], x)
    BY DEF SetTakenCharge
  <2>3. /\ ChargeState(x)' = ChargeState(x) /\ ChargeOnFit(x)' = ChargeOnFit(x)
        /\ ChargeSource(x)' = ChargeSource(x)
    BY <1>1 DEF ChargeState, ChargeOnFit, ChargeSource, SetTakenCharge, config,
                Shape
  <2>4. CASE x = charge[m]
    <3>1. holder[x] = m /\ m # None
      BY <2>4, ItemAssumption DEF ChargeLinked
    <3>2. /\ ChargeState(x) = state[m] /\ ChargeSource(x) = ModuleSource(m)
          /\ ChargeOnFit(x) = ModuleOnFit(m)
      BY <3>1 DEF ChargeState, ChargeSource, ChargeOnFit, ModuleOnFit
    <3>3. Coherent(charges'[x], ChargeType[x], state[m], ModuleSource(m),
                   ModuleOnFit(m))
      BY <2>1, <2>2, <2>4, RechargedCoherent
    <3> QED
      BY <2>3, <3>2, <3>3
  <2>5. CASE x # charge[m]
    <3>1. charges'[x] = charges[x]
      BY <2>1, <2>2, <2>5, RechargedCoherent
    <3> QED
      BY <2>3, <3>1 DEF ChargesCoherent
  <2> QED
    BY <2>4, <2>5
<1>4. Shape'
  <2>1. \A x \in Charges : charges'[x] \in Cell
    BY <1>3 DEF ChargesCoherent, Coherent, Present, Registered, Absent
  <2>2. charges' = [x \in Charges |-> charges'[x]]
    BY DEF SetTakenCharge
  <2> QED
    BY <2>1, <2>2 DEF SetTakenCharge, config, Shape
<1> QED
  BY <1>1, <1>2, <1>3, <1>4

LEMMA SetStateStep ==
  ASSUME IInv, NEW m \in Modules, NEW st \in UserStates, SetState(m, st)
  PROVE  IInv'
<1> USE DEF IInv
<1> DEFINE s == ModuleSource(m)
           h == Heard(m)
           old == state[m]
<1>1. /\ s \in Sources \cup {None} /\ old \in State /\ h \in BOOLEAN
      /\ s # None => h
      /\ st \in State
  BY SourceFacts, ItemAssumption DEF Shape, ModuleSource, Heard
<1>2. /\ state' = [state EXCEPT ![m] = st] /\ state'[m] = st
      /\ \A x \in Modules : x # m => state'[x] = state[x]
      /\ \A x \in Modules : /\ ModuleSource(x)' = ModuleSource(x)
                            /\ ModuleOnFit(x)' = ModuleOnFit(x)
                            /\ AutochargeType(x)' = AutochargeType(x)
  BY DEF SetState, Shape, ModuleSource, ModuleOnFit, AutochargeType
<1>3. ChargeLinked'
  BY DEF ChargeLinked, SetState
<1>4. ModulesCoherent'
  <2> SUFFICES ASSUME NEW x \in Modules
               PROVE  Coherent(modules[x], ModuleType[x], state[x],
                               ModuleSource(x), ModuleOnFit(x))'
    BY DEF ModulesCoherent
  <2>1. CASE x = m /\ ModuleOnFit(m)
    <3>1. Present(modules[m], ModuleType[m], old, s) /\ ModuleType[m] \in TypeIds
      BY <2>1, ItemAssumption DEF ModulesCoherent, Coherent
    <3>2. modules'[m] = StateUpdate(modules[m], ModuleType[m], old, st, h)
      BY <2>1 DEF SetState, ModuleOnFit, Shape
    <3>3. Present(modules'[m], ModuleType[m], st, s)
      BY <1>1, <3>1, <3>2, StateUpdatePresent
    <3> QED
      BY <1>2, <2>1, <3>3 DEF Coherent
  <2>2. CASE x = m /\ ~ModuleOnFit(m)
    BY <1>2, <2>2 DEF ModulesCoherent, Coherent, SetState, ModuleOnFit
  <2>3. CASE x # m
    BY <1>2, <2>3 DEF ModulesCoherent, SetState, Shape
  <2> QED
    BY <2>1, <2>2, <2>3
<1>5. ChargesCoherent'
  <2> SUFFICES ASSUME NEW c \in Charges
               PROVE  Coherent(charges[c], ChargeType[c], ChargeState(c),
                               ChargeSource(c), ChargeOnFit(c))'
    BY DEF ChargesCoherent
  <2>0. holder' = holder /\ container' = container
    BY DEF SetState
  <2>1. ChargeSource(c)' = ChargeSource(c) /\ ChargeOnFit(c)' = ChargeOnFit(c)
    BY <1>2, <2>0 DEF ChargeSource, ChargeOnFit, Shape
  <2>2. CASE c = charge[m]
    <3>1. holder[c] = m /\ m # None
      BY <2>2, ItemAssumption DEF ChargeLinked
    <3>2. /\ ChargeState(c)' = st /\ ChargeState(c) = old
          /\ ChargeSource(c) = s /\ ChargeOnFit(c) = ModuleOnFit(m)
      BY <1>2, <2>0, <3>1
      DEF ChargeState, ChargeSource, ChargeOnFit, ModuleOnFit
    <3>3. CASE ModuleOnFit(m)
      <4>1. /\ Present(charges[c], ChargeType[c], old, s)
            /\ ChargeType[c] \in TypeIds
        BY <3>2, <3>3, ItemAssumption DEF ChargesCoherent, Coherent
      <4>2. charges'[c] = StateUpdate(charges[c], ChargeType[c], old, st, h)
        BY <2>2, <3>3 DEF SetState, ModuleOnFit
      <4>3. Present(charges'[c], ChargeType[c], st, s)
        BY <1>1, <4>1, <4>2, StateUpdatePresent
      <4> QED
        BY <2>1, <3>2, <3>3, <4>3 DEF Coherent
    <3>4. CASE ~ModuleOnFit(m)
      BY <2>1, <3>2, <3>4 DEF ChargesCoherent, Coherent, SetState, ModuleOnFit
    <3> QED
      BY <3>3, <3>4
  <2>3. CASE c # charge[m]
    <3>1. charges'[c] = charges[c]
      BY <2>3 DEF SetState
    <3>2. ChargeState(c)' = ChargeState(c)
      BY <1>2, <2>0, <2>3 DEF ChargeState, ChargeLinked, Shape
    <3> QED
      BY <2>1, <3>1, <3>2 DEF ChargesCoherent
  <2> QED
    BY <2>2, <2>3
<1>6. AutosCoherent'
  <2>1. autocharged' = {x \in Modules : AutochargeType(x) # None}'
    BY <1>2 DEF SetState, AutosCoherent
  <2>2. ASSUME NEW x \in Modules
        PROVE  Coherent(autos[x], AutochargeType(x), state[x], ModuleSource(x),
                        AutochargeType(x) # None)'
    <3> DEFINE tid == AutochargeType(m)
    <3>1. CASE x = m /\ tid # None
      <4>0. ModuleOnFit(m)
        BY <1>1, <3>1, AutoTypeFacts
        DEF AutochargeType, ModuleSource, SourceOn, ModuleOnFit
      <4>1. tid \in TypeIds /\ m \in autocharged
        BY <1>1, <3>1, AutoTypeFacts DEF AutochargeType, AutosCoherent
      <4>2. Present(autos[m], tid, old, s)
        BY <3>1 DEF AutosCoherent, Coherent
      <4>3. AutoType(m, modules[m].src) = tid
        BY AutoTypeOfModule
      <4>4. autos'[m] = StateUpdate(autos[m], tid, old, st, h)
        BY <4>0, <4>1, <4>3 DEF SetState, ModuleOnFit, Shape
      <4>5. Present(autos'[m], tid, st, s)
        BY <1>1, <4>1, <4>2, <4>4, StateUpdatePresent
      <4> QED
        BY <1>2, <3>1, <4>5 DEF Coherent
    <3>2. CASE x = m /\ tid = None
      <4>1. m \notin autocharged
        BY <3>2 DEF AutosCoherent
      <4>2. autos'[m] = autos[m]
        BY <4>1 DEF SetState, Shape
      <4> QED
        BY <1>2, <3>2, <4>2 DEF AutosCoherent, Coherent
    <3>3. CASE x # m
      BY <1>2, <3>3 DEF AutosCoherent, SetState, Shape
    <3> QED
      BY <3>1, <3>2, <3>3
  <2> QED
    BY <2>1, <2>2 DEF AutosCoherent
<1>7. Shape'
  <2>1. /\ \A x \in Modules : modules'[x] \in Cell /\ autos'[x] \in Cell
        /\ \A c \in Charges : charges'[c] \in Cell
    BY <1>4, <1>5, <1>6
    DEF ModulesCoherent, ChargesCoherent, AutosCoherent, Coherent, Present,
        Registered, Absent
  <2>2. /\ modules' = [x \in Modules |-> modules'[x]]
        /\ charges' = [c \in Charges |-> charges'[c]]
        /\ autos' = [x \in Modules |-> autos'[x]]
    BY DEF SetState, Shape
  <2>3. state' \in [Modules -> State]
    BY <1>1, <1>2 DEF Shape
  <2> QED
    BY <2>1, <2>2, <2>3 DEF SetState, Shape
<1> QED
  BY <1>3, <1>4, <1>5, <1>6, <1>7

LEMMA SetModuleModeStep ==
  ASSUME IInv, NEW m \in Modules, NEW e, NEW mode \in Mode,
         SetModuleMode(m, e, mode)
  PROVE  IInv'
<1> USE DEF IInv
<1> DEFINE s == ModuleSource(m)
           h == Heard(m)
<1>1. /\ s \in Sources \cup {None} /\ state[m] \in State /\ h \in BOOLEAN
      /\ s # None => h
      /\ ModuleType[m] \in TypeIds
  <2>1. ModuleType[m] \in TypeIds
    BY ItemAssumption
  <2>2. container[m] \in Fits \cup {None}
    BY DEF Shape
  <2> QED
    <3>1. /\ s \in Sources \cup {None}
          /\ s # None => container[m] \in fits
      BY <2>2 DEF Shape, ModuleSource, SourceOn
    <3> QED
      BY <2>1, <3>1 DEF Shape, Heard
<1>2. ChargeLinked' /\ ChargesCoherent' /\ AutosCoherent'
  BY DEF SetModuleMode, config, ChargeLinked, ChargesCoherent, AutosCoherent,
         ChargeState, ChargeSource, ChargeOnFit, ModuleSource, AutochargeType
<1>3. ModulesCoherent'
  <2> SUFFICES ASSUME NEW x \in Modules
               PROVE  Coherent(modules[x], ModuleType[x], state[x],
                               ModuleSource(x), ModuleOnFit(x))'
    BY DEF ModulesCoherent
  <2>1. /\ ModuleSource(x)' = ModuleSource(x) /\ ModuleOnFit(x)' = ModuleOnFit(x)
        /\ state' = state
    BY DEF SetModuleMode, config, ModuleSource, ModuleOnFit
  <2>2. CASE x = m /\ ModuleOnFit(m)
    <3>1. Present(modules[m], ModuleType[m], state[m], s)
      BY <2>2 DEF ModulesCoherent, Coherent
    <3>2. modules'[m] = WithMode(modules[m], e, mode, ModuleType[m], state[m],
                                 TRUE, h)
      BY <2>2 DEF SetModuleMode, ModuleOnFit, Shape
    <3>3. Present(modules'[m], ModuleType[m], state[m], s)
      BY <1>1, <3>1, <3>2, WithModePresent
    <3> QED
      BY <2>1, <2>2, <3>3 DEF Coherent
  <2>3. CASE x = m /\ ~ModuleOnFit(m)
    <3>1. Absent(modules[m])
      BY <2>3 DEF ModulesCoherent, Coherent
    <3>2. modules'[m] = Overridden(modules[m], e, mode)
      BY <2>3 DEF SetModuleMode, ModuleOnFit, WithMode, Shape
    <3>3. Absent(modules'[m])
      BY <3>1, <3>2, ModeAbsent
    <3> QED
      BY <2>1, <2>3, <3>3 DEF Coherent
  <2>4. CASE x # m
    BY <2>1, <2>4 DEF ModulesCoherent, SetModuleMode, Shape
  <2> QED
    BY <2>2, <2>3, <2>4
<1>4. Shape'
  <2>1. \A x \in Modules : modules'[x] \in Cell
    BY <1>3 DEF ModulesCoherent, Coherent, Present, Registered, Absent
  <2>2. modules' = [x \in Modules |-> modules'[x]]
    BY DEF SetModuleMode, Shape
  <2> QED
    BY <2>1, <2>2 DEF SetModuleMode, config, Shape
<1> QED
  BY <1>2, <1>3, <1>4

LEMMA SetChargeModeStep ==
  ASSUME IInv, NEW c \in Charges, NEW e, NEW mode \in Mode,
         SetChargeMode(c, e, mode)
  PROVE  IInv'
<1> USE DEF IInv
<1> DEFINE m == holder[c]
<1>1. ModulesCoherent' /\ AutosCoherent' /\ ChargeLinked'
  BY ModulesKept DEF SetChargeMode, config, ChargeLinked
<1>2. ChargesCoherent'
  <2> SUFFICES ASSUME NEW x \in Charges
               PROVE  Coherent(charges[x], ChargeType[x], ChargeState(x),
                               ChargeSource(x), ChargeOnFit(x))'
    BY DEF ChargesCoherent
  <2>1. /\ ChargeState(x)' = ChargeState(x) /\ ChargeSource(x)' = ChargeSource(x)
        /\ ChargeOnFit(x)' = ChargeOnFit(x)
    BY DEF SetChargeMode, config, ChargeState, ChargeSource, ChargeOnFit,
           ModuleSource
  <2>2. CASE x = c /\ ChargeOnFit(c)
    <3>1. /\ m \in Modules /\ m # None /\ container[m] # None
          /\ ChargeState(c) = state[m] /\ ChargeSource(c) = ModuleSource(m)
      BY <2>2 DEF ChargeOnFit, ChargeState, ChargeSource, Shape
    <3>2. /\ ModuleSource(m) \in Sources \cup {None} /\ state[m] \in State
          /\ Heard(m) \in BOOLEAN /\ (ModuleSource(m) # None => Heard(m))
          /\ ChargeType[c] \in TypeIds
      BY <3>1, SourceFacts, ItemAssumption DEF Shape, ModuleSource, Heard
    <3>3. Present(charges[c], ChargeType[c], state[m], ModuleSource(m))
      BY <2>2, <3>1 DEF ChargesCoherent, Coherent
    <3>4. charges'[c] = WithMode(charges[c], e, mode, ChargeType[c], state[m],
                                 TRUE, Heard(m))
      BY <3>1 DEF SetChargeMode, Shape
    <3> HIDE DEF m
    <3>5. Present(charges'[c], ChargeType[c], state[m], ModuleSource(m))
      BY <3>2, <3>3, <3>4, WithModePresent
    <3> QED
      BY <2>1, <2>2, <3>1, <3>5 DEF Coherent
  <2>3. CASE x = c /\ ~ChargeOnFit(c)
    <3>1. Absent(charges[c])
      BY <2>3 DEF ChargesCoherent, Coherent
    <3>2. charges'[c] = Overridden(charges[c], e, mode)
      BY <2>3 DEF SetChargeMode, ChargeOnFit, Shape
    <3>3. Absent(charges'[c])
      BY <3>1, <3>2, ModeAbsent
    <3> QED
      BY <2>1, <2>3, <3>3 DEF Coherent
  <2>4. CASE x # c
    BY <2>1, <2>4 DEF ChargesCoherent, SetChargeMode, Shape
  <2> QED
    BY <2>2, <2>3, <2>4
<1>3. Shape'
  <2>1. \A x \in Charges : charges'[x] \in Cell
    BY <1>2 DEF ChargesCoherent, Coherent, Present, Registered, Absent
  <2>2. charges' = [x \in Charges |-> charges'[x]]
    BY DEF SetChargeMode, Shape
  <2> QED
    BY <2>1, <2>2 DEF SetChargeMode, config, Shape
<1> QED
  BY <1>1, <1>2, <1>3

LEMMA SetAutochargeModeStep ==
  ASSUME IInv, NEW m \in Modules, NEW e, NEW mode \in Mode,
         SetAutochargeMode(m, e, mode)
  PROVE  IInv'
<1> USE DEF IInv
<1> DEFINE s == ModuleSource(m)
           h == Heard(m)
           tid == AutochargeType(m)
<1>1. /\ s \in Sources \cup {None} /\ state[m] \in State /\ h \in BOOLEAN
      /\ s # None => h
  BY SourceFacts DEF Shape, ModuleSource, Heard
<1>2. ChargeLinked' /\ ChargesCoherent' /\ ModulesCoherent'
  BY DEF SetAutochargeMode, config, ChargeLinked, ChargesCoherent,
         ModulesCoherent, ChargeState, ChargeSource, ChargeOnFit, ModuleSource,
         ModuleOnFit
<1>3. AutosCoherent'
  <2>1. /\ \A x \in Modules : ModuleSource(x)' = ModuleSource(x)
        /\ \A x \in Modules : AutochargeType(x)' = AutochargeType(x)
        /\ state' = state /\ autocharged' = autocharged
    BY DEF SetAutochargeMode, config, ModuleSource, AutochargeType
  <2>2. tid \in TypeIds /\ tid # None /\ ModuleOnFit(m)
    <3>1. tid # None
      BY DEF SetAutochargeMode, AutosCoherent
    <3> QED
      BY <1>1, <3>1, AutoTypeFacts
      DEF AutochargeType, ModuleSource, SourceOn, ModuleOnFit
  <2>3. Present(autos[m], tid, state[m], s)
    BY <2>2 DEF AutosCoherent, Coherent
  <2>4. AutoType(m, modules[m].src) = tid
    BY AutoTypeOfModule
  <2>5. autos'[m] = WithMode(autos[m], e, mode, tid, state[m], TRUE, h)
    BY <2>2, <2>4 DEF SetAutochargeMode, ModuleOnFit, Shape
  <2>6. Present(autos'[m], tid, state[m], s)
    BY <1>1, <2>2, <2>3, <2>5, WithModePresent
  <2>7. ASSUME NEW x \in Modules
        PROVE  Coherent(autos[x], AutochargeType(x), state[x], ModuleSource(x),
                        AutochargeType(x) # None)'
    <3>1. CASE x = m
      BY <2>1, <2>2, <2>6, <3>1 DEF Coherent
    <3>2. CASE x # m
      BY <2>1, <3>2 DEF AutosCoherent, SetAutochargeMode, Shape
    <3> QED
      BY <3>1, <3>2
  <2> QED
    BY <2>1, <2>7 DEF AutosCoherent
<1>4. Shape'
  <2>1. \A x \in Modules : autos'[x] \in Cell
    BY <1>3 DEF AutosCoherent, Coherent, Present, Registered, Absent
  <2>2. autos' = [x \in Modules |-> autos'[x]]
    BY DEF SetAutochargeMode, Shape
  <2> QED
    BY <2>1, <2>2 DEF SetAutochargeMode, config, Shape
<1> QED
  BY <1>2, <1>3, <1>4

LEMMA AddFitStep ==
  ASSUME IInv, NEW f \in Fits, AddFit(f)
  PROVE  IInv'
<1> DEFINE ms == On({f})
<1>1. /\ ms \in SUBSET Modules /\ source \in Sources \cup {None}
      /\ fits' \subseteq Fits /\ subscribed' = fits'
      /\ f # None /\ \A m \in Modules : m \in ms <=> container[m] = f
  BY ItemAssumption DEF AddFit, IInv, Shape, On
<1>2. \A m \in ms : ModuleOnFit(m) /\ ModuleSource(m)' = source
  BY <1>1 DEF AddFit, ModuleOnFit, ModuleSource, SourceOn, On
<1>3. \A m \in Modules \ ms : ModuleSource(m)' = ModuleSource(m)
  BY <1>1 DEF AddFit, ModuleSource, SourceOn
<1>4. /\ Reload(ms, source) /\ source' = source
      /\ UNCHANGED <<container, charge, holder, state>>
  BY DEF AddFit
<1> HIDE DEF ms
<1> QED
  BY <1>1, <1>2, <1>3, <1>4, ReloadStep

LEMMA RemoveFitStep ==
  ASSUME IInv, NEW f \in Fits, RemoveFit(f)
  PROVE  IInv'
<1> DEFINE ms == On({f})
<1>1. /\ ms \in SUBSET Modules /\ source \in Sources \cup {None}
      /\ fits' \subseteq Fits /\ subscribed' = fits'
      /\ f # None /\ \A m \in Modules : m \in ms <=> container[m] = f
  BY ItemAssumption DEF RemoveFit, IInv, Shape, On
<1>2. \A m \in ms : ModuleOnFit(m) /\ ModuleSource(m)' = None
  BY <1>1 DEF RemoveFit, ModuleOnFit, ModuleSource, SourceOn, On
<1>3. \A m \in Modules \ ms : ModuleSource(m)' = ModuleSource(m)
  BY <1>1 DEF RemoveFit, ModuleSource, SourceOn
<1>4. /\ Reload(ms, None) /\ source' = source
      /\ UNCHANGED <<container, charge, holder, state>>
  BY DEF RemoveFit
<1> HIDE DEF ms
<1> QED
  BY <1>1, <1>2, <1>3, <1>4, ReloadStep

LEMMA ClearFitsStep ==
  ASSUME IInv, ClearFits
  PROVE  IInv'
<1> DEFINE ms == On(fits)
<1>1. /\ ms \in SUBSET Modules /\ source \in Sources \cup {None}
      /\ fits' \subseteq Fits /\ subscribed' = fits'
      /\ \A m \in ms : container[m] # None
      /\ \A m \in Modules \ ms : container[m] # None => container[m] \notin fits
  BY DEF ClearFits, IInv, Shape, On
<1>2. \A m \in ms : ModuleOnFit(m) /\ ModuleSource(m)' = None
  BY <1>1 DEF ClearFits, ModuleOnFit, ModuleSource, SourceOn
<1>3. \A m \in Modules \ ms : ModuleSource(m)' = ModuleSource(m)
  BY <1>1 DEF ClearFits, ModuleSource, SourceOn
<1>4. /\ Reload(ms, None) /\ source' = source
      /\ UNCHANGED <<container, charge, holder, state>>
  BY DEF ClearFits
<1> HIDE DEF ms
<1> QED
  BY <1>1, <1>2, <1>3, <1>4, ReloadStep

LEMMA SetSourceStep ==
  ASSUME IInv, NEW s \in Sources \cup {None}, SetSource(s)
  PROVE  IInv'
<1> DEFINE ms == On(fits)
<1>1. /\ ms \in SUBSET Modules
      /\ fits' \subseteq Fits /\ subscribed' = fits'
      /\ \A m \in ms : container[m] # None /\ container[m] \in fits
      /\ \A m \in Modules \ ms : container[m] # None => container[m] \notin fits
  BY DEF SetSource, IInv, Shape, On
<1>2. \A m \in ms : ModuleOnFit(m) /\ ModuleSource(m)' = s
  BY <1>1 DEF SetSource, ModuleOnFit, ModuleSource, SourceOn
<1>3. \A m \in Modules \ ms : ModuleSource(m)' = ModuleSource(m)
  BY <1>1 DEF SetSource, ModuleSource, SourceOn
<1>4. /\ Reload(ms, s) /\ source' = s
      /\ UNCHANGED <<container, charge, holder, state>>
  BY DEF SetSource
<1> HIDE DEF ms
<1> QED
  BY <1>1, <1>2, <1>3, <1>4, ReloadStep
-----------------------------------------------------------------------------

\* Every operation on items, fits and sources keeps the inductive invariant.
THEOREM StepInvariant == IInv /\ [Next]_vars => IInv'
<1> SUFFICES ASSUME IInv, [Next]_vars PROVE IInv'
  OBVIOUS
<1>1. ASSUME NEW m \in Modules, NEW f \in Fits, AddModule(m, f) PROVE IInv'
  BY <1>1, AddModuleStep
<1>2. ASSUME NEW m \in Modules, RemoveModule(m) PROVE IInv'
  BY <1>2, RemoveModuleStep
<1>3. ASSUME NEW m \in Modules, NEW c \in Charges \cup {None}, SetCharge(m, c)
      PROVE  IInv'
  BY <1>3, SetChargeStep
<1>4. ASSUME NEW m \in Modules, NEW c \in Charges, SetTakenCharge(m, c)
      PROVE  IInv'
  BY <1>4, SetTakenChargeStep
<1>5. ASSUME NEW m \in Modules, NEW st \in UserStates, SetState(m, st)
      PROVE  IInv'
  BY <1>5, SetStateStep
<1>6. ASSUME NEW m \in Modules, NEW e \in Overridable, NEW mode \in UserModes,
             SetModuleMode(m, e, mode) \/ SetAutochargeMode(m, e, mode)
      PROVE  IInv'
  <2>1. mode \in Mode
    BY ItemAssumption
  <2> QED
    BY <1>6, <2>1, SetModuleModeStep, SetAutochargeModeStep
<1>7. ASSUME NEW c \in Charges, NEW e \in Overridable, NEW mode \in UserModes,
             SetChargeMode(c, e, mode)
      PROVE  IInv'
  <2>1. mode \in Mode
    BY ItemAssumption
  <2> QED
    BY <1>7, <2>1, SetChargeModeStep
<1>8. ASSUME NEW f \in Fits, AddFit(f) \/ RemoveFit(f) PROVE IInv'
  BY <1>8, AddFitStep, RemoveFitStep
<1>9. CASE ClearFits
  BY <1>9, ClearFitsStep
<1>10. ASSUME NEW s \in Sources \cup {None}, SetSource(s) PROVE IInv'
  BY <1>10, SetSourceStep
<1>11. CASE UNCHANGED vars
  BY <1>11 DEF vars, config, IInv, Shape, ChargeLinked, ModulesCoherent,
               ChargesCoherent, AutosCoherent, ModuleSource, ModuleOnFit,
               ChargeSource, ChargeState, ChargeOnFit, AutochargeType
<1> QED
  BY <1>1, <1>2, <1>3, <1>4, <1>5, <1>6, <1>7, <1>8, <1>9, <1>10, <1>11
  DEF Next

\* The invariant of the whole life of a solar system's items.
THEOREM Invariance == Spec => []IInv
<1> QED
  BY InitInvariant, StepInvariant, PTL DEF Spec

\* Every variable keeps its type.
THEOREM TypeCorrect == Spec => []TypeOK
<1>1. IInv => TypeOK
  BY DEF IInv, Shape, AutosCoherent, TypeOK
<1> QED
  BY <1>1, Invariance, PTL

\* A module and its charge always point at each other.
THEOREM ChargesStayLinked == Spec => []ChargeLinked
<1>1. IInv => ChargeLinked
  BY DEF IInv
<1> QED
  BY <1>1, Invariance, PTL

\* At the end of every operation, the effects that run are those that the
\* resolver picks.
THEOREM EffectsResolved == Spec => []RunningIsResolved
<1>1. IInv => RunningIsResolved
  <2> SUFFICES ASSUME IInv PROVE RunningIsResolved
    OBVIOUS
  <2>1. ASSUME NEW c, NEW tid, NEW st, Absent(c) PROVE c.running = Wanted(c, tid, st)
    BY <2>1 DEF Absent, Wanted
  <2> QED
    BY <2>1 DEF IInv, ModulesCoherent, ChargesCoherent, AutosCoherent, Coherent,
                Present, RunningIsResolved, ResolvedCell
<1> QED
  BY <1>1, Invariance, PTL

\* Items are loaded from their solar system's current source, and no others are.
THEOREM LoadedFromCurrentSource == Spec => []LoadedFromSource
<1>1. IInv => LoadedFromSource
  <2> SUFFICES ASSUME IInv PROVE LoadedFromSource
    OBVIOUS
  <2>1. \A m \in Modules : AutochargeOnFit(m) <=> AutochargeType(m) # None
    BY DEF IInv, AutosCoherent, AutochargeOnFit
  <2> QED
    BY <2>1 DEF IInv, ModulesCoherent, ChargesCoherent, AutosCoherent, Coherent,
                Present, Registered, Absent, LoadedFromSource, LoadedCell
<1> QED
  BY <1>1, Invariance, PTL

\* Registers that add up the messages of a fit agree with its items.
THEOREM RegistersStayTrue == Spec => []RegistersAgree
<1>1. IInv => RegistersAgree
  <2> SUFFICES ASSUME IInv PROVE RegistersAgree
    OBVIOUS
  <2>1. \A m \in Modules : AutochargeOnFit(m) <=> AutochargeType(m) # None
    BY DEF IInv, AutosCoherent, AutochargeOnFit
  <2>2. /\ \A c, tid, st, s : Present(c, tid, st, s) => KnownCell(c, st, TRUE)
        /\ \A c, st : Absent(c) => KnownCell(c, st, FALSE)
    BY DEF Present, Registered, Absent, KnownCell
  <2>3. \A m \in Modules : KnownCell(modules[m], state[m], ModuleOnFit(m))
    BY <2>2 DEF IInv, ModulesCoherent, Coherent, ModuleOnFit
  <2>4. \A c \in Charges : KnownCell(charges[c], ChargeState(c), ChargeOnFit(c))
    BY <2>2 DEF IInv, ChargesCoherent, Coherent, ChargeOnFit
  <2>5. \A m \in Modules : KnownCell(autos[m], state[m], AutochargeOnFit(m))
    <3> SUFFICES ASSUME NEW m \in Modules
                 PROVE  KnownCell(autos[m], state[m], AutochargeOnFit(m))
      OBVIOUS
    <3>1. CASE m \in autocharged
      <4>1. KnownCell(autos[m], state[m], TRUE)
        BY <2>1, <2>2, <3>1
        DEF IInv, AutosCoherent, Coherent, AutochargeOnFit
      <4> QED
        BY <3>1, <4>1 DEF AutochargeOnFit, KnownCell
    <3>2. CASE m \notin autocharged
      <4>1. AutochargeType(m) = None
        BY <3>2 DEF IInv, AutosCoherent
      <4>2. Absent(autos[m])
        BY <4>1 DEF IInv, AutosCoherent, Coherent
      <4>3. KnownCell(autos[m], state[m], FALSE)
        BY <2>2, <4>2
      <4>4. AutochargeOnFit(m) = FALSE
        BY <3>2 DEF AutochargeOnFit
      <4> QED
        BY <4>3, <4>4
    <3> QED
      BY <3>1, <3>2
  <2> QED
    BY <2>3, <2>4, <2>5 DEF RegistersAgree
<1> QED
  BY <1>1, Invariance, PTL

\* The calculation service misses no load, unload, start or stop.
THEOREM CalculatorStaysTrue == Spec => []CalculatorAgrees
<1>1. IInv => CalculatorAgrees
  <2> SUFFICES ASSUME IInv PROVE CalculatorAgrees
    OBVIOUS
  <2>1. /\ \A c, tid, st, s : Present(c, tid, st, s) => CalcCell(c)
        /\ \A c : Absent(c) => CalcCell(c)
    BY DEF Present, Registered, Absent, CalcCell
  <2>2. \A m \in Modules : CalcCell(modules[m]) /\ CalcCell(autos[m])
    BY <2>1 DEF IInv, ModulesCoherent, AutosCoherent, Coherent
  <2>3. \A c \in Charges : CalcCell(charges[c])
    BY <2>1 DEF IInv, ChargesCoherent, Coherent
  <2> QED
    BY <2>2, <2>3 DEF IInv, Shape, CalculatorAgrees
<1> QED
  BY <1>1, Invariance, PTL
=============================================================================
