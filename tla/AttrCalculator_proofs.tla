------------------------ MODULE AttrCalculator_proofs ------------------------
(***************************************************************************)
(* Proofs about AttrCalculator for any items, seats, effects, modifiers and *)
(* sources: what its registers hold, and that the values it keeps are those *)
(* of a calculation from scratch.  Two things make the invariant of the     *)
(* registers: what is left of a call comes in a fixed order of ranks, and   *)
(* at each moment the registers hold the specs of the effects that the      *)
(* service has heard of, which are those that run but for the messages      *)
(* still to come.  One makes that of the values: each is right, or an entry *)
(* of what is left will have it dropped.                                    *)
(***************************************************************************)
EXTENDS AttrCalculator, TLAPS, FiniteSetTheorems, SequenceTheorems

\* What is left of a call.
Entries ==
  [do : {"load", "unload", "loaded", "unloaded", "clear", "added", "removed"}, item : Items]
  \cup [do : {"started", "stopped"}, item : Items, effects : SUBSET Effects]
  \cup [do : {"changed", "revise"}, cells : SUBSET Cells]
  \cup [do : {"seat"}, item : Items \cup {None}, seat : Seats]
  \cup [do : {"source"}, item : Sources \cup {None}]

Rank(do) ==
  IF do \in {"changed", "revise"} THEN 0
  ELSE IF do = "loaded" THEN 1
  ELSE IF do = "started" THEN 2
  ELSE IF do = "stopped" THEN 3
  ELSE IF do = "unloaded" THEN 4
  ELSE IF do = "clear" THEN 5
  ELSE IF do \in {"unload", "removed"} THEN 6
  ELSE IF do \in {"seat", "source"} THEN 7
  ELSE 8

\* Entry a may come before entry b.
Before(a, b) ==
  /\ Rank(a.do) < Rank(b.do) \/ (Rank(a.do) = Rank(b.do) /\ Rank(a.do) \in {0, 6, 8})
  /\ a.do \in {"load", "loaded"} /\ b.do = "load" => a.item # b.item

InTurn(q) == \A k, l \in 1..Len(q) : k < l => Before(q[k], q[l])

Of(q) == {q[k] : k \in 1..Len(q)}
Due(R, do, i) == \E e \in R : e.do = do /\ e.item = i

LoadedIn(st, src) == {i \in Items : OnFit(st, i) /\ src # None /\ i \in Known[src]}

\* The assignment of a seat or of the source, the seats and what is loaded
\* after it, and what stays loaded throughout.
Switches(e) == e.do \in {"seat", "source"}
SeatAfter(e) == IF e.do = "seat" THEN [seat EXCEPT ![e.seat] = e.item] ELSE seat
After(e) == LoadedIn(SeatAfter(e), IF e.do = "seat" THEN source ELSE e.item)
Stay(e) == IF e.do = "seat" THEN Loaded \cap After(e) ELSE {}

\* What is due, and what is loaded, as long as the assignment e is to come.
BeforeSwitch(R, e) ==
  /\ Stay(e) \subseteq affectees
  /\ \A i \in affectees \ Stay(e) : Due(R, "unload", i) \/ Due(R, "unloaded", i)
  /\ \A i \in After(e) \ Stay(e) : Due(R, "load", i)
  /\ \A d \in R : d.do = "load" => OnFit(SeatAfter(e), d.item)
  /\ \A d \in R : d.do \in {"load", "unload", "unloaded"} => d.item \notin Stay(e)
  /\ e.do = "seat" => /\ e.item # seat[e.seat]
                      /\ e.item # None => SeatOf[e.item] = e.seat

\* The same once it is done.
AfterSwitch(R) ==
  /\ \A i \in Loaded \ affectees : Due(R, "load", i) \/ Due(R, "loaded", i)
  /\ \A d \in R : d.do \notin {"unload", "unloaded"}
  /\ \A d \in R : d.do = "load" => OnFit(seat, d.item) /\ d.item \notin affectees

Presence(R) ==
  /\ affectees \subseteq Loaded
  /\ \A e \in R : Switches(e) => BeforeSwitch(R, e)
  /\ (\A e \in R : ~Switches(e)) => AfterSwitch(R)
  /\ \A e \in R : e.do = "loaded" => e.item \in Loaded /\ \A d \in R : ~Switches(d)

\* Effects of an item that the service has heard of.
Told(R, run, i) ==
  {d \in run[i] : ~ \E e \in R : e.do = "started" /\ e.item = i /\ d \in e.effects}
  \cup UNION {e.effects : e \in {d \in R : d.do = "stopped" /\ d.item = i}}
InForce(R, run) == UNION {LocalSpecs(i, Told(R, run, i)) : i \in Items}

Runs(R) ==
  /\ \A i \in Items : running[i] \subseteq EffectsOf[i]
  /\ \A e \in R : e.do \in {"started", "stopped"} => e.effects \subseteq EffectsOf[e.item]
  /\ \A e \in R : e.do = "started" => e.effects \subseteq running[e.item]
  /\ \A e \in R : e.do = "stopped" => e.effects \cap running[e.item] = {}
  /\ \A e \in R : e.do = "unloaded" => running[e.item] = {}
  /\ \A i \in Items : running[i] # {} => i \in affectees \/ Due(R, "loaded", i)

\* Where specs are stored by what is in the seats and loaded.
WaitingIn(specs, st, known) ==
  {s \in specs : s.mod.filter \in Single /\ Target(st, s) \notin known}
ActingIn(specs, st, known) ==
  {p \in known \X specs :
     \/ p[2].mod.filter \in Single /\ p[1] = Target(st, p[2])
     \/ p[2].mod.filter = "other" /\ p[1] \in Others(st, p[2].item)}

\* The storages hold these specs, each where its target finds it.
Stored(specs, st, known, awaits, acts, others, masses) ==
  /\ awaits = WaitingIn(specs, st, known)
  /\ acts = ActingIn(specs, st, known)
  /\ others = Filtered(specs, "other")
  /\ masses = Filtered(specs, "mass")

Typed ==
  /\ source \in Sources \cup {None}
  /\ seat \in [Seats -> Items \cup {None}]
  /\ \A p \in Seats : seat[p] # None => SeatOf[seat[p]] = p
  /\ running \in [Items -> SUBSET Effects]
  /\ DOMAIN override \subseteq Overridden /\ DOMAIN cache \subseteq Cells
  /\ capped \subseteq Items \X Attrs \X Attrs
  /\ listeners \subseteq {"added", "removed", "changed"} \X Specs
  /\ hears \subseteq Fits \X {"added", "removed"}
  /\ agenda \in Seq(Entries)

\* The inductive invariant
AttrInv ==
  /\ Typed
  /\ InTurn(agenda)
  /\ Presence(Of(agenda))
  /\ Runs(Of(agenda))
  /\ Stored(InForce(Of(agenda), running), seat, affectees, awaiting, active, other, mass)
-----------------------------------------------------------------------------
(* What is left of a call, as a sequence and as a set. *)

\* The call that is over, as a sequence and as a set.
LEMMA NothingLeft == /\ <<>> \in Seq(Entries) /\ InTurn(<<>>) /\ Of(<<>>) = {}
BY DEF InTurn, Of

\* A call of one step.
LEMMA OneLeft ==
  ASSUME NEW e \in Entries
  PROVE  <<e>> \in Seq(Entries) /\ InTurn(<<e>>) /\ Of(<<e>>) = {e}
BY DEF InTurn, Of

\* Two sequences after each other are in turn if all of the first may come
\* before all of the second.
LEMMA Joined ==
  ASSUME NEW p \in Seq(Entries), NEW q \in Seq(Entries), InTurn(p), InTurn(q),
         \A a \in Of(p), b \in Of(q) : Before(a, b)
  PROVE  p \o q \in Seq(Entries) /\ InTurn(p \o q) /\ Of(p \o q) = Of(p) \cup Of(q)
<1> DEFINE r == p \o q
<1>1. r \in Seq(Entries) /\ Len(r) = Len(p) + Len(q)
  OBVIOUS
<1>2. \A k \in 1..Len(r) : \/ k \in 1..Len(p) /\ r[k] = p[k]
                           \/ k > Len(p) /\ k - Len(p) \in 1..Len(q) /\ r[k] = q[k - Len(p)]
  OBVIOUS
<1>3. \A k \in 1..Len(p) : k \in 1..Len(r) /\ r[k] = p[k]
  OBVIOUS
<1>4. \A k \in 1..Len(q) : k + Len(p) \in 1..Len(r) /\ r[k + Len(p)] = q[k]
  OBVIOUS
<1> HIDE DEF r
<1>5. Of(r) = Of(p) \cup Of(q)
  <2>1. ASSUME NEW e \in Of(r)
        PROVE  e \in Of(p) \cup Of(q)
    <3>1. PICK k \in 1..Len(r) : e = r[k]
      BY DEF Of
    <3> QED BY <1>2, <3>1 DEF Of
  <2>2. Of(p) \subseteq Of(r)
    BY <1>3 DEF Of
  <2>3. ASSUME NEW k \in 1..Len(q)
        PROVE  q[k] \in Of(r)
    <3>1. k + Len(p) \in 1..Len(r) /\ r[k + Len(p)] = q[k]
      BY <1>4
    <3> DEFINE j == k + Len(p)
    <3> HIDE DEF j
    <3>2. j \in 1..Len(r) /\ r[j] = q[k]
      BY <3>1 DEF j
    <3> QED BY <3>2 DEF Of
  <2>4. Of(q) \subseteq Of(r)
    BY <2>3 DEF Of
  <2> QED BY <2>1, <2>2, <2>4
<1>6. ASSUME NEW k \in 1..Len(r), NEW l \in 1..Len(r), k < l
      PROVE  Before(r[k], r[l])
  <2>1. CASE k \in 1..Len(p) /\ r[k] = p[k] /\ l \in 1..Len(p) /\ r[l] = p[l]
    BY <1>6, <2>1 DEF InTurn
  <2>2. CASE k \in 1..Len(p) /\ r[k] = p[k] /\ l - Len(p) \in 1..Len(q) /\ r[l] = q[l - Len(p)]
    BY <2>2 DEF Of
  <2>3. CASE /\ k - Len(p) \in 1..Len(q) /\ r[k] = q[k - Len(p)]
             /\ l - Len(p) \in 1..Len(q) /\ r[l] = q[l - Len(p)]
    <3>1. k - Len(p) < l - Len(p)
      BY <1>6
    <3> QED BY <2>3, <3>1 DEF InTurn
  <2>4. k > Len(p) => l > Len(p)
    BY <1>6
  <2> QED BY <1>2, <2>1, <2>2, <2>3, <2>4
<1> QED BY <1>1, <1>5, <1>6 DEF InTurn, r

\* The first entry may come before the others.
LEMMA Front ==
  ASSUME NEW q \in Seq(Entries), InTurn(q), q # <<>>
  PROVE  /\ Tail(q) \in Seq(Entries) /\ InTurn(Tail(q)) /\ Head(q) \in Entries
         /\ Of(q) = {Head(q)} \cup Of(Tail(q)) /\ Of(q) \subseteq Entries
         /\ \A e \in Of(Tail(q)) : Before(Head(q), e)
<1> DEFINE r == Tail(q)
<1>1. /\ r \in Seq(Entries) /\ Len(r) = Len(q) - 1 /\ Head(q) = q[1] /\ 1 \in 1..Len(q)
      /\ \A k \in 1..Len(r) : k + 1 \in 1..Len(q) /\ r[k] = q[k + 1]
  OBVIOUS
<1> HIDE DEF r
<1>2. \A k \in 1..Len(q) : k = 1 \/ (k - 1 \in 1..Len(r) /\ r[k - 1] = q[k])
  BY <1>1
<1>3. Of(q) = {q[1]} \cup Of(r)
  BY <1>1, <1>2 DEF Of
<1>4. Of(q) \subseteq Entries
  BY DEF Of
<1>5. ASSUME NEW k \in 1..Len(r)
      PROVE  Before(q[1], r[k])
  <2>1. 1 < k + 1 /\ k + 1 \in 1..Len(q) /\ r[k] = q[k + 1]
    BY <1>1
  <2> QED BY <1>1, <2>1 DEF InTurn
<1>6. InTurn(r)
  <2> SUFFICES ASSUME NEW k \in 1..Len(r), NEW l \in 1..Len(r), k < l
               PROVE  Before(r[k], r[l])
    BY DEF InTurn
  <2>1. k + 1 < l + 1
    OBVIOUS
  <2> QED BY <1>1, <2>1 DEF InTurn
<1>7. \A e \in Of(r) : Before(q[1], e)
  BY <1>5 DEF Of
<1>8. q[1] \in Entries
  BY <1>1
<1> QED BY <1>1, <1>3, <1>4, <1>6, <1>7, <1>8 DEF r

\* Entries of rank 0 may come before all, and from the rank of the first entry
\* follows what can come after it.
LEMMA News0 ==
  ASSUME NEW a \in Entries, a.do \in {"changed", "revise"}, NEW b \in Entries
  PROVE  Before(a, b)
BY DEF Before, Rank, Entries

\* _publish_attr_changes makes one message about changed values, or none.
LEMMA Publishes ==
  ASSUME Typed, NEW cells
  PROVE  /\ Publish(Recalculated(cells)) \in Seq(Entries) /\ InTurn(Publish(Recalculated(cells)))
         /\ \A e \in Of(Publish(Recalculated(cells))) : e.do = "changed"
<1> DEFINE v == Recalculated(cells) \ DOMAIN override
           e == Changed(v)
<1>1. v \subseteq Cells
  BY DEF Recalculated, Typed
<1>2. e \in Entries /\ e.do = "changed"
  BY <1>1 DEF Changed, Entries
<1>3. Publish(Recalculated(cells)) = <<>> \/ Publish(Recalculated(cells)) = <<e>>
  BY DEF Publish
<1> HIDE DEF e
<1>4. CASE Publish(Recalculated(cells)) = <<>>
  BY <1>4, NothingLeft
<1>5. CASE Publish(Recalculated(cells)) = <<e>>
  BY <1>2, <1>5, OneLeft
<1> QED BY <1>3, <1>4, <1>5

\* A call goes on with these steps in place of the first entry.
LEMMA GoesOn ==
  ASSUME Typed, InTurn(agenda), agenda # <<>>, NEW steps \in Seq(Entries), InTurn(steps),
         Then(steps),
         \A a \in Of(steps), b \in Of(Tail(agenda)) : Before(a, b)
  PROVE  /\ agenda' \in Seq(Entries) /\ InTurn(agenda')
         /\ Of(agenda') = Of(steps) \cup Of(Tail(agenda))
<1>1. agenda \in Seq(Entries)
  BY DEF Typed
<1>2. Tail(agenda) \in Seq(Entries) /\ InTurn(Tail(agenda))
  BY <1>1, Front
<1>3. agenda' = steps \o Tail(agenda)
  BY DEF Then
<1> QED BY <1>2, <1>3, Joined
-----------------------------------------------------------------------------
(* Specs in force. *)

\* The same effects heard of make the same specs in force.
LEMMA ForceSame ==
  ASSUME NEW R, NEW S, NEW run, NEW go, \A i \in Items : Told(S, go, i) = Told(R, run, i)
  PROVE  InForce(S, go) = InForce(R, run)
BY DEF InForce

\* Effects heard of in addition bring their specs into force.
LEMMA ForceMore ==
  ASSUME NEW R, NEW S, NEW run, NEW go, NEW i \in Items, NEW E,
         \A j \in Items \ {i} : Told(S, go, j) = Told(R, run, j),
         Told(S, go, i) = Told(R, run, i) \cup E
  PROVE  InForce(S, go) = InForce(R, run) \cup LocalSpecs(i, E)
<1>1. LocalSpecs(i, Told(S, go, i)) = LocalSpecs(i, Told(R, run, i)) \cup LocalSpecs(i, E)
  BY DEF LocalSpecs
<1> DEFINE A(j) == LocalSpecs(j, Told(R, run, j))
           B(j) == LocalSpecs(j, Told(S, go, j))
<1>2. \A j \in Items : j # i => A(j) = B(j)
  OBVIOUS
<1>3. B(i) = A(i) \cup LocalSpecs(i, E)
  BY <1>1
<1>4. InForce(R, run) = UNION {A(j) : j \in Items} /\ InForce(S, go) = UNION {B(j) : j \in Items}
  BY DEF InForce
<1> HIDE DEF A, B
<1>5. UNION {B(j) : j \in Items} = (UNION {A(j) : j \in Items}) \cup LocalSpecs(i, E)
  BY <1>2, <1>3
<1> QED BY <1>4, <1>5

\* Effects have no modifiers in common, and items no specs.
LEMMA SpecsApart ==
  ASSUME NEW i \in Items, NEW E \in SUBSET Effects, NEW D \in SUBSET Effects
  PROVE  LocalSpecs(i, D \ E) = LocalSpecs(i, D) \ LocalSpecs(i, E)
<1> DEFINE M(X) == UNION {Modifiers[e] : e \in X}
<1>1. M(D \ E) = M(D) \ M(E)
  <2>1. ASSUME NEW m, NEW d \in D \ E, NEW e \in E, m \in Modifiers[d], m \in Modifiers[e]
        PROVE  FALSE
    BY <2>1, ModelAssumption DEF ModelAssumption
  <2> QED BY <2>1
<1>2. \A m, n : [item |-> i, mod |-> m] = [item |-> i, mod |-> n] => m = n
  OBVIOUS
<1>3. \A X : LocalSpecs(i, X) = {[item |-> i, mod |-> m] : m \in M(X)}
  BY DEF LocalSpecs
<1> HIDE DEF M
<1> QED BY <1>1, <1>2, <1>3

\* A local spec names its item.
LEMMA SpecOf ==
  ASSUME NEW i, NEW E, NEW s \in LocalSpecs(i, E)
  PROVE  s.item = i
BY DEF LocalSpecs

\* Effects no longer heard of take their specs, and no others, out of force.
LEMMA ForceLess ==
  ASSUME NEW R, NEW S, NEW run, NEW go, NEW i \in Items, NEW E \in SUBSET Effects,
         \A j \in Items \ {i} : Told(S, go, j) = Told(R, run, j),
         Told(R, run, i) \subseteq Effects,
         Told(S, go, i) = Told(R, run, i) \ E
  PROVE  InForce(S, go) = InForce(R, run) \ LocalSpecs(i, E)
<1> DEFINE A(j) == LocalSpecs(j, Told(R, run, j))
           B(j) == LocalSpecs(j, Told(S, go, j))
<1>2. \A j \in Items : j # i => A(j) = B(j)
  OBVIOUS
<1>3. B(i) = A(i) \ LocalSpecs(i, E)
  BY SpecsApart
<1>4. InForce(R, run) = UNION {A(j) : j \in Items} /\ InForce(S, go) = UNION {B(j) : j \in Items}
  BY DEF InForce
<1>5. \A j \in Items : \A s \in A(j) : s.item = j
  BY SpecOf
<1>6. \A s \in LocalSpecs(i, E) : s.item = i
  BY SpecOf
<1> HIDE DEF A, B
<1>7. UNION {B(j) : j \in Items} = (UNION {A(j) : j \in Items}) \ LocalSpecs(i, E)
  BY <1>2, <1>3, <1>5, <1>6
<1> QED BY <1>4, <1>7

\* Specs in force belong to effects the service has heard of, and effects of
\* running items and those about to stop belong to the item.
LEMMA ForceSpecs ==
  ASSUME NEW R, Runs(R)
  PROVE  /\ \A i \in Items : Told(R, running, i) \subseteq EffectsOf[i]
         /\ InForce(R, running) \subseteq Specs
<1>1. \A i \in Items : Told(R, running, i) \subseteq EffectsOf[i]
  <2> SUFFICES ASSUME NEW i \in Items, NEW d \in Told(R, running, i)
               PROVE  d \in EffectsOf[i]
    OBVIOUS
  <2>1. CASE d \in running[i]
    BY <2>1 DEF Runs
  <2>2. CASE d \notin running[i]
    <3>1. PICK e \in R : e.do = "stopped" /\ e.item = i /\ d \in e.effects
      BY <2>2 DEF Told
    <3> QED BY <3>1 DEF Runs
  <2> QED BY <2>1, <2>2
<1>2. ASSUME NEW i \in Items
      PROVE  LocalSpecs(i, Told(R, running, i)) \subseteq LocalSpecs(i, EffectsOf[i])
  BY <1>1 DEF LocalSpecs
<1> QED BY <1>1, <1>2 DEF InForce, Specs

\* Without messages to come about it, what runs is known.
LEMMA ToldRuns ==
  ASSUME NEW R, NEW run, NEW i, \A e \in R : e.do \notin {"started", "stopped"}
  PROVE  Told(R, run, i) = run[i]
BY DEF Told

\* A spec is an item with a modifier.
LEMMA SpecTyped ==
  ASSUME NEW s \in Specs
  PROVE  /\ s.item \in Items /\ s.mod.filter \in Filters
         /\ s.mod \in Modifier /\ s = [item |-> s.item, mod |-> s.mod]
<1>1. PICK i \in Items : s \in LocalSpecs(i, EffectsOf[i])
  BY DEF Specs
<1>2. PICK m \in UNION {Modifiers[e] : e \in EffectsOf[i]} : s = [item |-> i, mod |-> m]
  BY <1>1 DEF LocalSpecs
<1>3. m \in Modifier
  BY <1>2, ModelAssumption DEF ModelAssumption
<1> QED BY <1>2, <1>3 DEF Modifier

\* Membership in the specs that wait for a target.
LEMMA Waits ==
  ASSUME NEW F, NEW st, NEW A, NEW s
  PROVE  s \in WaitingIn(F, st, A) <=> s \in F /\ s.mod.filter \in Single /\ Target(st, s) \notin A
BY DEF WaitingIn

\* Membership in the specs that act on a target.
LEMMA Acts ==
  ASSUME NEW F, NEW st, NEW A, NEW p
  PROVE  p \in ActingIn(F, st, A) <=>
           /\ p \in A \X F
           /\ \/ p[2].mod.filter \in Single /\ p[1] = Target(st, p[2])
              \/ p[2].mod.filter = "other" /\ p[1] \in Others(st, p[2].item)
BY DEF ActingIn

\* What the handlers store is what the reference operators say.
LEMMA AsStored ==
  ASSUME NEW F
  PROVE  Waiting(F) = WaitingIn(F, seat, affectees) /\ Acting(F) = ActingIn(F, seat, affectees)
BY DEF Waiting, Acting, WaitingIn, ActingIn
-----------------------------------------------------------------------------
(* Steps that load and unload nothing. *)

Minor == {"changed", "revise", "clear", "added", "removed"}

\* Entries that say what is and will be loaded.
Major == {"load", "unload", "loaded", "unloaded", "seat", "source"}

\* What is and will be loaded depends on the source, the seats and the entry alone.
LEMMA SameSets ==
  ASSUME UNCHANGED <<source, seat, affectees>>, NEW e
  PROVE  /\ Loaded' = Loaded /\ After(e)' = After(e) /\ Stay(e)' = Stay(e)
         /\ SeatAfter(e)' = SeatAfter(e)
BY DEF Loaded, After, Stay, SeatAfter, LoadedIn, OnFit, Seated

\* Presence only speaks of the entries that load, unload and assign.
LEMMA PresenceKept ==
  ASSUME Presence(Of(agenda)), UNCHANGED <<source, seat, affectees>>,
         \A e : e.do \in Major => (e \in Of(agenda') <=> e \in Of(agenda))
  PROVE  Presence(Of(agenda))'
<1> DEFINE R == Of(agenda)
           S == Of(agenda')
<1>1. source' = source /\ seat' = seat /\ affectees' = affectees /\ Presence(R)
  OBVIOUS
<1>2. \A e : e.do \in Major => (e \in S <=> e \in R)
  OBVIOUS
<1>3. \A do, i : do \in Major => (Due(S, do, i) <=> Due(R, do, i))
  <2> HIDE DEF S, R
  <2> QED BY <1>2 DEF Due
<1>4. Loaded' = Loaded /\ \A e : After(e)' = After(e) /\ Stay(e)' = Stay(e)
                                 /\ SeatAfter(e)' = SeatAfter(e)
  BY <1>1, SameSets
<1>5. \A e : OnFit(seat, e)' = OnFit(seat, e)
  BY <1>1 DEF OnFit, Seated
<1>6. AfterSwitch(R) => AfterSwitch(Of(agenda))'
  <2> HIDE DEF S, R
  <2>1. AfterSwitch(R) => /\ \A i \in Loaded \ affectees : Due(S, "load", i) \/ Due(S, "loaded", i)
                          /\ \A d \in S : d.do \notin {"unload", "unloaded"}
                          /\ \A d \in S : d.do = "load" => OnFit(seat, d.item) /\ d.item \notin affectees
    BY <1>2, <1>3 DEF AfterSwitch, Major
  <2> QED BY <1>1, <1>4, <1>5, <2>1 DEF AfterSwitch, S
<1>7. \A e : BeforeSwitch(R, e) => BeforeSwitch(Of(agenda), e)'
  <2> SUFFICES ASSUME NEW e, BeforeSwitch(R, e) PROVE BeforeSwitch(Of(agenda), e)'
    OBVIOUS
  <2> HIDE DEF S, R
  <2>1. /\ \A i \in affectees \ Stay(e) : Due(S, "unload", i) \/ Due(S, "unloaded", i)
        /\ \A i \in After(e) \ Stay(e) : Due(S, "load", i)
        /\ \A d \in S : d.do = "load" => OnFit(SeatAfter(e), d.item)
        /\ \A d \in S : d.do \in {"load", "unload", "unloaded"} => d.item \notin Stay(e)
    BY <1>2, <1>3 DEF BeforeSwitch, Major
  <2>2. /\ Stay(e) \subseteq affectees
        /\ e.do = "seat" => /\ e.item # seat[e.seat]
                            /\ e.item # None => SeatOf[e.item] = e.seat
    BY DEF BeforeSwitch
  <2> QED BY <1>1, <1>4, <2>1, <2>2 DEF BeforeSwitch, S
<1>8. \A e : Switches(e) => (e \in S <=> e \in R)
  BY <1>2 DEF Switches, Major
<1>9. affectees' \subseteq Loaded'
  BY <1>1, <1>4 DEF Presence
<1>10. \A e \in S : e.do = "loaded" => e.item \in Loaded' /\ \A d \in S : ~Switches(d)
  <2> HIDE DEF S, R
  <2> QED BY <1>1, <1>2, <1>4, <1>8 DEF Presence, Major
<1>11. \A e \in S : Switches(e) => BeforeSwitch(Of(agenda), e)'
  <2> HIDE DEF S, R
  <2> QED BY <1>1, <1>7, <1>8 DEF Presence
<1>12. (\A e \in S : ~Switches(e)) => AfterSwitch(Of(agenda))'
  <2> HIDE DEF S, R
  <2> QED BY <1>1, <1>6, <1>8 DEF Presence
<1> QED BY <1>9, <1>10, <1>11, <1>12 DEF Presence, Switches

\* A step that changes values and nothing but values keeps the registers true.
LEMMA Quiet ==
  ASSUME AttrInv, UNCHANGED <<source, seat, running, registers>>,
         \A e : e.do \notin Minor => (e \in Of(agenda') <=> e \in Of(agenda))
  PROVE  /\ Presence(Of(agenda))' /\ Runs(Of(agenda))'
         /\ Stored(InForce(Of(agenda), running), seat, affectees, awaiting, active, other, mass)'
<1> DEFINE R == Of(agenda)
           S == Of(agenda')
<1>1. /\ source' = source /\ seat' = seat /\ running' = running /\ affectees' = affectees
      /\ Presence(R) /\ Runs(R) /\ Stored(InForce(R, running), seat, affectees, awaiting, active, other, mass)
  BY DEF registers, AttrInv
<1>2. \A e : e.do \notin Minor => (e \in S <=> e \in R)
  OBVIOUS
<1>3. Presence(Of(agenda))'
  <2>1. \A e : e.do \in Major => (e \in Of(agenda') <=> e \in Of(agenda))
    BY <1>2 DEF Major, Minor
  <2> QED BY <1>1, <2>1, PresenceKept
<1>4. Runs(Of(agenda))'
  <2>1. \A i : Due(R, "loaded", i) => Due(S, "loaded", i)
    <3> HIDE DEF S, R
    <3> QED BY <1>2 DEF Due, Minor
  <2>2. Runs(S)
    <3> HIDE DEF S, R
    <3> QED BY <1>1, <1>2, <2>1 DEF Runs, Minor
  <2> HIDE DEF S
  <2> QED BY <1>1, <2>2 DEF Runs, S
<1>5. Stored(InForce(Of(agenda), running), seat, affectees, awaiting, active, other, mass)'
  <2>1. \A i \in Items : Told(S, running, i) = Told(R, running, i)
    <3> HIDE DEF S, R
    <3> QED BY <1>2 DEF Told, Minor
  <2>2. InForce(S, running') = InForce(R, running)
    BY <1>1, <2>1, ForceSame
  <2> QED BY <1>1, <2>2 DEF registers
<1> QED BY <1>3, <1>4, <1>5

\* A step that puts nothing but news of changed values before what is left.
LEMMA Announces ==
  ASSUME AttrInv, agenda # <<>>, NEW steps \in Seq(Entries), InTurn(steps), Then(steps),
         \A a \in Of(steps) : a.do \in {"changed", "revise"}
  PROVE  /\ agenda' \in Seq(Entries) /\ InTurn(agenda')
         /\ Of(agenda') = Of(steps) \cup Of(Tail(agenda))
         /\ Head(agenda).do \in Minor =>
              \A e : e.do \notin Minor => (e \in Of(agenda') <=> e \in Of(agenda))
<1>1. Typed /\ InTurn(agenda) /\ agenda \in Seq(Entries)
  BY DEF AttrInv, Typed
<1>2. /\ Of(agenda) = {Head(agenda)} \cup Of(Tail(agenda)) /\ Of(agenda) \subseteq Entries
  BY <1>1, Front
<1>3. Of(steps) \subseteq Entries
  BY DEF Of
<1>4. \A a \in Of(steps), b \in Of(Tail(agenda)) : Before(a, b)
  BY <1>2, <1>3, News0
<1>5. /\ agenda' \in Seq(Entries) /\ InTurn(agenda')
      /\ Of(agenda') = Of(steps) \cup Of(Tail(agenda))
  BY <1>1, <1>4, GoesOn
<1> QED BY <1>2, <1>5 DEF Minor

\* News published on account of one change.
LEMMA PublishStep ==
  ASSUME AttrInv, agenda # <<>>, NEW cells, Then(Publish(Recalculated(cells)))
  PROVE  /\ agenda' \in Seq(Entries) /\ InTurn(agenda')
         /\ \A e \in Of(agenda') : e.do = "changed" \/ e \in Of(Tail(agenda))
         /\ Of(Tail(agenda)) \subseteq Of(agenda')
         /\ Head(agenda).do \in Minor =>
              \A e : e.do \notin Minor => (e \in Of(agenda') <=> e \in Of(agenda))
<1> DEFINE news == Publish(Recalculated(cells))
<1>1. news \in Seq(Entries) /\ InTurn(news) /\ \A e \in Of(news) : e.do = "changed"
  BY Publishes DEF AttrInv
<1> HIDE DEF news
<1>2. Then(news)
  BY DEF news
<1> QED BY <1>1, <1>2, Announces

\* Dropping values leaves values of known cells.
LEMMA DroppedTyped ==
  ASSUME Typed, NEW cells, Drop(cells)
  PROVE  DOMAIN cache' \subseteq Cells
BY DEF Typed, Drop

\* MutableAttrMap._clear keeps the invariant.
LEMMA ClearStep ==
  ASSUME AttrInv, ClearItem
  PROVE  AttrInv'
<1>1. agenda # <<>> /\ Head(agenda).do = "clear" /\ Then(<<>>)
      /\ UNCHANGED <<source, seat, running, override, registers, listeners, hears>>
      /\ capped' \subseteq capped /\ Typed
  BY DEF ClearItem, Doing, AttrInv, python
<1>2. /\ agenda' \in Seq(Entries) /\ InTurn(agenda')
      /\ \A e : e.do \notin Minor => (e \in Of(agenda') <=> e \in Of(agenda))
  BY <1>1, NothingLeft, Announces DEF Minor
<1>3. DOMAIN cache' \subseteq Cells
  BY <1>1, DroppedTyped DEF ClearItem
<1>4. Typed'
  BY <1>1, <1>2, <1>3 DEF Typed
<1> QED BY <1>1, <1>2, <1>4, Quiet DEF AttrInv

\* _revise_python_attr_dependents keeps the invariant.
LEMMA ReviseStep ==
  ASSUME AttrInv, ReviseOnChange \/ ReviseOnPaste
  PROVE  AttrInv'
<1>1. PICK revised : Revise(revised)
  BY DEF ReviseOnChange, ReviseOnPaste
<1>2. agenda # <<>> /\ Head(agenda).do \in Minor
  BY DEF ReviseOnChange, ReviseOnPaste, Doing, Minor
<1>3. /\ Then(Publish(Recalculated(AffectedBy(revised)))) /\ Drop(AffectedBy(revised))
      /\ UNCHANGED <<source, seat, running, override, capped, registers, listeners, hears>>
  BY <1>1 DEF Revise, python
<1>4. /\ agenda' \in Seq(Entries) /\ InTurn(agenda')
      /\ \A e : e.do \notin Minor => (e \in Of(agenda') <=> e \in Of(agenda))
  BY <1>2, <1>3, PublishStep
<1>5. DOMAIN cache' \subseteq Cells
  BY <1>3, DroppedTyped DEF AttrInv
<1>6. Typed'
  BY <1>3, <1>4, <1>5 DEF Typed, AttrInv
<1> QED BY <1>3, <1>4, <1>6, Quiet DEF AttrInv

\* _revise_regular_attr_dependents keeps the invariant.
LEMMA ChangedStep ==
  ASSUME AttrInv, AttrsValueChanged
  PROVE  AttrInv'
<1> DEFINE cells == Head(agenda).cells
           stale == Dependents(cells)
           news == Publish(Recalculated(stale))
           r == [Head(agenda) EXCEPT !.do = "revise"]
<1>1. /\ Head(agenda).do = "changed" /\ agenda # <<>> /\ Typed /\ InTurn(agenda)
      /\ Then(news \o news \o <<r>>) /\ Drop(stale)
      /\ UNCHANGED <<source, seat, running, override, capped, registers, listeners, hears>>
  BY DEF AttrsValueChanged, Doing, AttrInv, python
<1>2. news \in Seq(Entries) /\ InTurn(news) /\ \A e \in Of(news) : e.do = "changed"
  BY <1>1, Publishes
<1>3. Head(agenda) \in Entries
  BY <1>1, Front DEF Typed
<1>4. r \in Entries /\ r.do = "revise"
  BY <1>1, <1>3 DEF Entries
<1> HIDE DEF r, news
<1>5. <<r>> \in Seq(Entries) /\ InTurn(<<r>>) /\ Of(<<r>>) = {r}
  BY <1>4, OneLeft
<1>6. \A q \in Seq(Entries) : Of(q) \subseteq Entries
  BY DEF Of
<1>7. \A a \in Of(news), b \in Of(news) \cup {r} : Before(a, b)
  BY <1>2, <1>4, <1>6, News0
<1>8. /\ news \o news \in Seq(Entries) /\ InTurn(news \o news) /\ Of(news \o news) = Of(news)
  BY <1>2, <1>7, Joined
<1> DEFINE steps == (news \o news) \o <<r>>
<1>9. steps \in Seq(Entries) /\ InTurn(steps) /\ Of(steps) = Of(news) \cup {r}
  BY <1>5, <1>7, <1>8, Joined
<1>10. Then(steps)
  BY <1>1
<1> HIDE DEF steps
<1>11. \A a \in Of(steps) : a.do \in {"changed", "revise"}
  BY <1>2, <1>4, <1>9
<1>12. /\ agenda' \in Seq(Entries) /\ InTurn(agenda')
       /\ \A e : e.do \notin Minor => (e \in Of(agenda') <=> e \in Of(agenda))
  BY <1>1, <1>9, <1>10, <1>11, Announces DEF Minor
<1>13. DOMAIN cache' \subseteq Cells
  BY <1>1, DroppedTyped
<1>14. Typed'
  BY <1>1, <1>12, <1>13 DEF Typed
<1> QED BY <1>1, <1>12, <1>14, Quiet DEF AttrInv

\* Setting and deleting override callbacks keeps the invariant.
LEMMA OverrideStep ==
  ASSUME AttrInv, NEW c \in Overridden, DelOverride(c) \/ \E v \in Callbacks : SetOverride(c, v)
  PROVE  AttrInv'
<1> DEFINE e == Changed({c})
<1>1. /\ agenda = <<>> /\ (agenda' = <<>> \/ agenda' = <<e>>)
      /\ UNCHANGED <<source, seat, running, cache, capped, registers, listeners, hears>>
  BY DEF DelOverride, SetOverride, Announce, Idle, values, python
<1>2. e \in Entries /\ e.do = "changed"
  BY CalculatorAssumption DEF Changed, Entries, CalculatorAssumption
<1> HIDE DEF e
<1>3. agenda' \in Seq(Entries) /\ InTurn(agenda') /\ Of(agenda') \subseteq {e} /\ Of(agenda) = {}
  BY <1>1, <1>2, NothingLeft, OneLeft
<1>4. \A d : d.do \notin Minor => (d \in Of(agenda') <=> d \in Of(agenda))
  BY <1>2, <1>3 DEF Minor
<1>5. DOMAIN override' \subseteq Overridden
  BY DEF DelOverride, SetOverride, AttrInv, Typed
<1>6. Typed'
  BY <1>1, <1>3, <1>5 DEF Typed, AttrInv
<1> QED BY <1>1, <1>3, <1>4, <1>6, Quiet DEF AttrInv

\* Reading a value keeps the invariant.
LEMMA ReadStep ==
  ASSUME AttrInv, NEW c \in Cells, Read(c)
  PROVE  AttrInv'
<1>1. UNCHANGED <<source, seat, running, override, registers, listeners, hears, agenda>>
  BY DEF Read, python
<1>2. DOMAIN cache' = DOMAIN cache \cup {c}
  BY DEF Read
<1>3. capped' \subseteq Items \X Attrs \X Attrs
  <2>1. Cells \subseteq Items \X Attrs
    BY ModelAssumption DEF ModelAssumption
  <2>2. \A d \in CapOf(c) : <<c[1], d[2], c[2]>> \in Items \X Attrs \X Attrs
    BY <2>1 DEF CapOf
  <2> QED BY <2>2 DEF Read, AttrInv, Typed
<1>4. Typed'
  BY <1>1, <1>2, <1>3 DEF Typed, AttrInv
<1>5. InTurn(agenda') /\ \A e : e.do \notin Minor => (e \in Of(agenda') <=> e \in Of(agenda))
  BY <1>1 DEF AttrInv
<1> QED BY <1>1, <1>4, <1>5, Quiet DEF AttrInv
-----------------------------------------------------------------------------
(* Effects that start and stop. *)

\* More specs are stored by adding each where its target finds it.
LEMMA StoredMore ==
  ASSUME NEW F, NEW G, NEW st, NEW A, NEW aw, NEW ac, NEW ot, NEW ms,
         Stored(F, st, A, aw, ac, ot, ms)
  PROVE  Stored(F \cup G, st, A, aw \cup WaitingIn(G, st, A), ac \cup ActingIn(G, st, A),
                ot \cup Filtered(G, "other"), ms \cup Filtered(G, "mass"))
<1>1. WaitingIn(F \cup G, st, A) = WaitingIn(F, st, A) \cup WaitingIn(G, st, A)
  BY DEF WaitingIn
<1>2. ActingIn(F \cup G, st, A) = ActingIn(F, st, A) \cup ActingIn(G, st, A)
  BY Acts
<1>3. \A f : Filtered(F \cup G, f) = Filtered(F, f) \cup Filtered(G, f)
  BY DEF Filtered
<1> QED BY <1>1, <1>2, <1>3 DEF Stored

\* Fewer specs are stored by taking each from where its target finds it.
LEMMA StoredLess ==
  ASSUME NEW F, NEW G, NEW st, NEW A, NEW aw, NEW ac, NEW ot, NEW ms,
         Stored(F, st, A, aw, ac, ot, ms)
  PROVE  Stored(F \ G, st, A, aw \ WaitingIn(G, st, A), ac \ ActingIn(G, st, A),
                ot \ Filtered(G, "other"), ms \ Filtered(G, "mass"))
<1>1. WaitingIn(F \ G, st, A) = WaitingIn(F, st, A) \ WaitingIn(G, st, A)
  BY DEF WaitingIn
<1>2. ActingIn(F \ G, st, A) = ActingIn(F, st, A) \ ActingIn(G, st, A)
  <2>1. ASSUME NEW p
        PROVE  p \in ActingIn(F \ G, st, A) <=> p \in ActingIn(F, st, A) \ ActingIn(G, st, A)
    BY Acts
  <2> QED BY <2>1
<1>3. \A f : Filtered(F \ G, f) = Filtered(F, f) \ Filtered(G, f)
  BY DEF Filtered
<1> QED BY <1>1, <1>2, <1>3 DEF Stored

\* Local specs of effects of an item are specs.
LEMMA LocalTyped ==
  ASSUME NEW i \in Items, NEW E \in SUBSET EffectsOf[i]
  PROVE  LocalSpecs(i, E) \subseteq Specs
<1>1. LocalSpecs(i, E) \subseteq LocalSpecs(i, EffectsOf[i])
  BY DEF LocalSpecs
<1> QED BY <1>1 DEF Specs

\* What the modifiers of specs want to hear are wishes of specs.
LEMMA WishesTyped ==
  ASSUME NEW S \in SUBSET Specs
  PROVE  Wishes(S) \subseteq {"added", "removed", "changed"} \X Specs
BY DEF Wishes, RevisesOn

\* _handle_effects_started keeps the invariant: the effects are heard of.
LEMMA StartedStep ==
  ASSUME AttrInv, EffectsStarted
  PROVE  AttrInv'
<1> DEFINE h == Head(agenda)
           i == h.item
           E == h.effects
           X == Of(Tail(agenda))
           specs == LocalSpecs(i, E)
           R == Of(agenda)
           S == Of(agenda')
<1>1. /\ Typed /\ InTurn(agenda) /\ agenda # <<>> /\ h.do = "started"
      /\ UNCHANGED <<source, seat, running, override, capped, affectees>>
      /\ Then(Publish(Recalculated(AffectedBy(specs)))) /\ Drop(AffectedBy(specs))
      /\ Subscribe(FitOf[i], specs)
      /\ awaiting' = awaiting \cup Waiting(specs) /\ active' = active \cup Acting(specs)
      /\ other' = other \cup Filtered(specs, "other") /\ mass' = mass \cup Filtered(specs, "mass")
  BY DEF EffectsStarted, Doing, AttrInv
<1>2. /\ R = {h} \cup X /\ h \in Entries /\ R \subseteq Entries /\ \A e \in X : Before(h, e)
  BY <1>1, Front DEF Typed
<1>3. \A e \in X : e.do \notin {"changed", "revise", "loaded", "started"}
  BY <1>1, <1>2 DEF Before, Rank
<1>4. /\ agenda' \in Seq(Entries) /\ InTurn(agenda') /\ X \subseteq S
      /\ \A e \in S : e.do = "changed" \/ e \in X
  BY <1>1, PublishStep
<1>5. /\ Runs(R) /\ Presence(R) /\ h \in R
      /\ Stored(InForce(R, running), seat, affectees, awaiting, active, other, mass)
  BY <1>2 DEF AttrInv
<1>6. i \in Items /\ E \in SUBSET EffectsOf[i] /\ E \subseteq running[i]
  <2>1. i \in Items
    BY <1>1, <1>2 DEF Entries
  <2> QED BY <1>1, <1>5, <2>1 DEF Runs
<1> HIDE DEF h, X, R, S
<1>7. Presence(Of(agenda))'
  <2>1. \A e : e.do \in Major => (e \in S <=> e \in R)
    BY <1>1, <1>2, <1>4 DEF Major
  <2> QED BY <1>1, <1>5, <2>1, PresenceKept DEF S, R
<1>8. Runs(Of(agenda))'
  <2>1. Runs(S)
    <3>1. \A e \in S : e.do \in {"started", "stopped", "unloaded"} => e \in R
      BY <1>2, <1>4
    <3>2. \A j \in Items : running[j] # {} => j \in affectees
      BY <1>1, <1>2, <1>3, <1>5 DEF Runs, Due
    <3> QED BY <1>5, <3>1, <3>2 DEF Runs
  <2> QED BY <1>1, <2>1 DEF Runs, S
<1>9. InForce(S, running) = InForce(R, running) \cup specs
  <2>1. ASSUME NEW j \in Items, j # i
        PROVE  Told(S, running, j) = Told(R, running, j)
    <3>1. \A e \in R : e.do = "started" => e.item # j
      BY <1>2, <1>3, <2>1
    <3>2. \A e \in S : e.do = "started" => e.item # j
      BY <1>2, <1>3, <1>4
    <3>3. {e \in R : e.do = "stopped" /\ e.item = j} = {e \in S : e.do = "stopped" /\ e.item = j}
      BY <1>1, <1>2, <1>4
    <3> QED BY <3>1, <3>2, <3>3 DEF Told
  <2>2. Told(S, running, i) = Told(R, running, i) \cup E
    <3>1. \A e \in S : e.do # "started"
      BY <1>2, <1>3, <1>4
    <3>2. {d \in running[i] : ~ \E e \in R : e.do = "started" /\ e.item = i /\ d \in e.effects}
            = running[i] \ E
      BY <1>1, <1>2, <1>3
    <3>3. {e \in R : e.do = "stopped" /\ e.item = i} = {e \in S : e.do = "stopped" /\ e.item = i}
      BY <1>1, <1>2, <1>4
    <3>4. {d \in running[i] : ~ \E e \in S : e.do = "started" /\ e.item = i /\ d \in e.effects}
            = running[i]
      BY <3>1
    <3> QED BY <1>6, <3>2, <3>3, <3>4 DEF Told
  <2> HIDE DEF i, E
  <2> QED BY <1>6, <2>1, <2>2, ForceMore
<1>10. Stored(InForce(Of(agenda), running), seat, affectees, awaiting, active, other, mass)'
  <2> DEFINE F == InForce(R, running)
  <2>1. Waiting(specs) = WaitingIn(specs, seat, affectees) /\ Acting(specs) = ActingIn(specs, seat, affectees)
    BY AsStored
  <2>2. Stored(F \cup specs, seat, affectees, awaiting', active', other', mass')
    <3> HIDE DEF F, specs
    <3>1. Stored(F, seat, affectees, awaiting, active, other, mass)
      BY <1>5 DEF F
    <3> QED BY <1>1, <2>1, <3>1, StoredMore
  <2> QED BY <1>1, <1>9, <2>2 DEF S
<1>11. Typed'
  <2>1. DOMAIN cache' \subseteq Cells
    BY <1>1, DroppedTyped
  <2>2. Wishes(specs) \subseteq {"added", "removed", "changed"} \X Specs
    BY <1>6, LocalTyped, WishesTyped
  <2>3. listeners' \subseteq {"added", "removed", "changed"} \X Specs
    BY <1>1, <2>2 DEF Subscribe, Typed
  <2>4. Types(Wishes(specs)) \subseteq {"added", "removed"}
    BY <2>2 DEF Types
  <2>5. hears' \subseteq Fits \X {"added", "removed"}
    <3>1. FitOf[i] \in Fits
      BY <1>6, ModelAssumption DEF ModelAssumption
    <3> QED BY <1>1, <2>4, <3>1 DEF Subscribe, Typed
  <2> QED BY <1>1, <1>4, <2>1, <2>3, <2>5 DEF Typed
<1> QED BY <1>4, <1>7, <1>8, <1>10, <1>11 DEF AttrInv, S

\* _handle_effects_stopped keeps the invariant: the effects are forgotten.
LEMMA StoppedStep ==
  ASSUME AttrInv, EffectsStopped
  PROVE  AttrInv'
<1> DEFINE h == Head(agenda)
           i == h.item
           E == h.effects
           X == Of(Tail(agenda))
           specs == LocalSpecs(i, E)
           R == Of(agenda)
           S == Of(agenda')
<1>1. /\ Typed /\ InTurn(agenda) /\ agenda # <<>> /\ h.do = "stopped"
      /\ UNCHANGED <<source, seat, running, override, capped, affectees>>
      /\ Then(Publish(Recalculated(AffectedBy(specs)))) /\ Drop(AffectedBy(specs))
      /\ Unsubscribe(FitOf[i], specs)
      /\ awaiting' = awaiting \ Waiting(specs) /\ active' = active \ Acting(specs)
      /\ other' = other \ Filtered(specs, "other") /\ mass' = mass \ Filtered(specs, "mass")
  BY DEF EffectsStopped, Doing, AttrInv
<1>2. /\ R = {h} \cup X /\ h \in Entries /\ R \subseteq Entries /\ \A e \in X : Before(h, e)
  BY <1>1, Front DEF Typed
<1>3. \A e \in X : e.do \notin {"changed", "revise", "loaded", "started", "stopped"}
  BY <1>1, <1>2 DEF Before, Rank
<1>4. /\ agenda' \in Seq(Entries) /\ InTurn(agenda') /\ X \subseteq S
      /\ \A e \in S : e.do = "changed" \/ e \in X
  BY <1>1, PublishStep
<1>5. /\ Runs(R) /\ Presence(R) /\ h \in R
      /\ Stored(InForce(R, running), seat, affectees, awaiting, active, other, mass)
  BY <1>2 DEF AttrInv
<1>6. i \in Items /\ E \in SUBSET EffectsOf[i] /\ E \cap running[i] = {}
  <2>1. i \in Items
    BY <1>1, <1>2 DEF Entries
  <2> QED BY <1>1, <1>5, <2>1 DEF Runs
<1> HIDE DEF h, X, R, S
<1>7. Presence(Of(agenda))'
  <2>1. \A e : e.do \in Major => (e \in S <=> e \in R)
    BY <1>1, <1>2, <1>4 DEF Major
  <2> QED BY <1>1, <1>5, <2>1, PresenceKept DEF S, R
<1>8. Runs(Of(agenda))'
  <2>1. Runs(S)
    <3>1. \A e \in S : e.do \in {"started", "stopped", "unloaded"} => e \in R
      BY <1>2, <1>4
    <3>2. \A j \in Items : running[j] # {} => j \in affectees
      BY <1>1, <1>2, <1>3, <1>5 DEF Runs, Due
    <3> QED BY <1>5, <3>1, <3>2 DEF Runs
  <2> QED BY <1>1, <2>1 DEF Runs, S
<1>9. InForce(S, running) = InForce(R, running) \ specs
  <2>1. \A e \in S : e.do \notin {"started", "stopped"}
    BY <1>3, <1>4
  <2>2. \A j \in Items : Told(S, running, j) = running[j]
    BY <2>1, ToldRuns
  <2>3. ASSUME NEW j \in Items, j # i
        PROVE  Told(R, running, j) = running[j]
    <3>1. \A e \in R : e.do \in {"started", "stopped"} => e.item # j
      BY <1>2, <1>3, <2>3
    <3> QED BY <3>1 DEF Told
  <2>4. Told(R, running, i) = running[i] \cup E
    <3>1. \A e \in R : e.do # "started"
      BY <1>1, <1>2, <1>3
    <3>2. {e \in R : e.do = "stopped" /\ e.item = i} = {h}
      BY <1>1, <1>2, <1>3
    <3> QED BY <3>1, <3>2 DEF Told
  <2>5. E \in SUBSET Effects /\ Told(R, running, i) \subseteq Effects
    <3>1. EffectsOf[i] \subseteq Effects
      BY <1>6, ModelAssumption DEF ModelAssumption
    <3> QED BY <1>5, <1>6, <3>1, ForceSpecs
  <2>6. Told(S, running, i) = Told(R, running, i) \ E
    BY <1>6, <2>2, <2>4
  <2> HIDE DEF i, E
  <2> QED BY <1>6, <2>2, <2>3, <2>5, <2>6, ForceLess
<1>10. Stored(InForce(Of(agenda), running), seat, affectees, awaiting, active, other, mass)'
  <2> DEFINE F == InForce(R, running)
  <2>1. Waiting(specs) = WaitingIn(specs, seat, affectees) /\ Acting(specs) = ActingIn(specs, seat, affectees)
    BY AsStored
  <2>2. Stored(F \ specs, seat, affectees, awaiting', active', other', mass')
    <3> HIDE DEF F, specs
    <3>1. Stored(F, seat, affectees, awaiting, active, other, mass)
      BY <1>5 DEF F
    <3> QED BY <1>1, <2>1, <3>1, StoredLess
  <2> QED BY <1>1, <1>9, <2>2 DEF S
<1>11. Typed'
  <2>1. DOMAIN cache' \subseteq Cells
    BY <1>1, DroppedTyped
  <2>2. listeners' \subseteq listeners /\ hears' \subseteq hears
    BY <1>1 DEF Unsubscribe
  <2> QED BY <1>1, <1>4, <2>1, <2>2 DEF Typed
<1> QED BY <1>4, <1>7, <1>8, <1>10, <1>11 DEF AttrInv, S
-----------------------------------------------------------------------------
(* Items the service hears are loaded and unloaded. *)

\* The call goes on without its first entry.
LEMMA Passed ==
  ASSUME AttrInv, agenda # <<>>, Then(<<>>)
  PROVE  /\ agenda' \in Seq(Entries) /\ InTurn(agenda') /\ Of(agenda') = Of(Tail(agenda))
         /\ Of(agenda) = {Head(agenda)} \cup Of(Tail(agenda))
         /\ Of(agenda) \subseteq Entries /\ Head(agenda) \in Entries
         /\ \A e \in Of(Tail(agenda)) : Before(Head(agenda), e)
<1>1. Typed /\ InTurn(agenda) /\ agenda \in Seq(Entries)
  BY DEF AttrInv, Typed
<1>2. /\ agenda' \in Seq(Entries) /\ InTurn(agenda') /\ Of(agenda') = Of(<<>>) \cup Of(Tail(agenda))
  BY <1>1, NothingLeft, GoesOn
<1> QED BY <1>1, <1>2, NothingLeft, Front

\* Whom a spec waits for is the item that is loaded exactly when it is woken.
LEMMA Wakes ==
  ASSUME Typed, NEW i \in Items, Seated(seat, i), NEW s \in Specs, s.mod.filter \in Single
  PROVE  Target(seat, s) = i <=>
           /\ FitOf[s.item] = FitOf[i]
           /\ \/ s.mod.filter = "ship" /\ SeatOf[i] = ShipSeat[FitOf[i]]
              \/ s.mod.filter = "character" /\ SeatOf[i] = CharacterSeat[FitOf[i]]
              \/ s.mod.filter = "self" /\ s.item = i
<1>1. s.item \in Items
  BY SpecTyped
<1> DEFINE f == FitOf[s.item]
<1>2. f \in Fits /\ ShipSeat[f] \in Seats /\ CharacterSeat[f] \in Seats /\ SeatOf[i] \in Seats
  BY <1>1, ModelAssumption DEF ModelAssumption
<1>3. seat[SeatOf[i]] = i /\ i # None
  BY ModelAssumption DEF Seated, ModelAssumption
<1>4. \A p \in Seats : seat[p] = i => SeatOf[i] = p
  BY <1>3 DEF Typed
<1>5. SeatOf[i] \in {ShipSeat[f], CharacterSeat[f]} => FitOf[i] = f
  BY <1>2, ModelAssumption DEF ModelAssumption
<1>6. CASE s.mod.filter = "self"
  BY <1>1, <1>6 DEF Target
<1>7. CASE s.mod.filter = "ship"
  <2>1. Target(seat, s) = seat[ShipSeat[f]]
    BY <1>7 DEF Target, Ship
  <2> QED BY <1>2, <1>3, <1>4, <1>5, <1>7, <2>1
<1>8. CASE s.mod.filter = "character"
  <2>1. Target(seat, s) = seat[CharacterSeat[f]]
    BY <1>8 DEF Target, Character
  <2> QED BY <1>2, <1>3, <1>4, <1>5, <1>8, <2>1
<1> QED BY <1>6, <1>7, <1>8 DEF Single

\* _handle_item_loaded keeps the invariant: what waited for the item acts on it.
LEMMA LoadedStep ==
  ASSUME AttrInv, ItemLoaded
  PROVE  AttrInv'
<1> DEFINE h == Head(agenda)
           i == h.item
           X == Of(Tail(agenda))
           R == Of(agenda)
           S == Of(agenda')
           F == InForce(R, running)
           woken == {s \in awaiting :
                     /\ FitOf[s.item] = FitOf[i]
                     /\ \/ s.mod.filter = "ship" /\ SeatOf[i] = ShipSeat[FitOf[i]]
                        \/ s.mod.filter = "character"
                             /\ SeatOf[i] = CharacterSeat[FitOf[i]]
                        \/ s.mod.filter = "self" /\ s.item = i}
<1>1. /\ Typed /\ agenda # <<>> /\ h.do = "loaded" /\ Then(<<>>)
      /\ UNCHANGED <<source, seat, running, override, cache, capped, other, mass, listeners, hears>>
      /\ affectees' = affectees \cup {i} /\ awaiting' = awaiting \ woken
      /\ active' = active \cup
           ({i} \X (woken \cup {s \in other : i \in Others(seat, s.item)}))
  BY DEF ItemLoaded, Doing, AttrInv, values, python
<1>2. /\ agenda' \in Seq(Entries) /\ InTurn(agenda') /\ S = X
      /\ R = {h} \cup X /\ R \subseteq Entries /\ \A e \in X : Before(h, e)
  BY <1>1, Passed
<1>3. /\ Runs(R) /\ Presence(R) /\ h \in R
      /\ Stored(F, seat, affectees, awaiting, active, other, mass)
  BY <1>2 DEF AttrInv
<1> HIDE DEF h, X, R, S
<1>4. /\ i \in Loaded /\ i \in Items /\ Seated(seat, i) /\ \A e \in R : ~Switches(e)
  <2>1. i \in Loaded /\ \A e \in R : ~Switches(e)
    BY <1>1, <1>3 DEF Presence
  <2> QED BY <2>1 DEF Loaded, OnFit
<1>5. \A e \in X : e.do # "loaded" /\ (e.do = "load" => e.item # i)
  BY <1>1, <1>2 DEF Before, Rank
<1>6. Presence(Of(agenda))'
  <2>1. AfterSwitch(R)
    BY <1>3, <1>4 DEF Presence
  <2>2. Loaded' = Loaded /\ \A j : OnFit(seat, j)' = OnFit(seat, j)
    BY <1>1 DEF Loaded, OnFit, Seated
  <2>3. \A j \in Loaded \ affectees' : Due(S, "load", j) \/ Due(S, "loaded", j)
    BY <1>1, <1>2, <2>1 DEF AfterSwitch, Due
  <2>4. \A d \in S : d.do \notin {"unload", "unloaded"}
    BY <1>2, <2>1 DEF AfterSwitch
  <2>5. \A d \in S : d.do = "load" => OnFit(seat, d.item) /\ d.item \notin affectees'
    BY <1>1, <1>2, <1>5, <2>1 DEF AfterSwitch
  <2>6. AfterSwitch(Of(agenda))'
    BY <2>2, <2>3, <2>4, <2>5 DEF AfterSwitch, S
  <2>7. affectees' \subseteq Loaded'
    BY <1>1, <1>3, <1>4, <2>2 DEF Presence
  <2>8. \A e \in S : ~Switches(e) /\ e.do # "loaded"
    BY <1>2, <1>4, <1>5
  <2> QED BY <2>6, <2>7, <2>8 DEF Presence, S, Switches
<1>7. Runs(Of(agenda))'
  <2>1. \A j \in Items : running[j] # {} => j \in affectees' \/ Due(S, "loaded", j)
    BY <1>1, <1>2, <1>3 DEF Runs, Due
  <2>2. \A e \in S : e \in R
    BY <1>2
  <2> QED BY <1>1, <1>3, <2>1, <2>2 DEF Runs, S
<1>8. InForce(S, running) = F
  <2>1. \A j \in Items : Told(S, running, j) = Told(R, running, j)
    BY <1>1, <1>2 DEF Told
  <2> QED BY <2>1, ForceSame
<1>9. \A s \in awaiting : Target(seat, s) = i <=> s \in woken
  <2> SUFFICES ASSUME NEW s \in awaiting
               PROVE  Target(seat, s) = i <=> s \in woken
    OBVIOUS
  <2>1. s \in F /\ s.mod.filter \in Single
    BY <1>3, Waits DEF Stored
  <2>2. s \in Specs
    BY <1>3, <2>1, ForceSpecs
  <2> QED BY <1>1, <1>4, <2>1, <2>2, Wakes
<1> HIDE DEF woken, F
<1>10. awaiting' = WaitingIn(F, seat, affectees')
  <2>1. \A s : s \in awaiting <=> s \in WaitingIn(F, seat, affectees)
    BY <1>3 DEF Stored
  <2> QED BY <1>1, <1>9, <2>1, Waits
<1>11. active' = ActingIn(F, seat, affectees')
  <2>1. other = Filtered(F, "other") /\ awaiting = WaitingIn(F, seat, affectees)
        /\ active = ActingIn(F, seat, affectees)
    BY <1>3 DEF Stored
  <2>2. ASSUME NEW p \in active'
        PROVE  p \in ActingIn(F, seat, affectees')
    <3>1. CASE p \in active
      BY <1>1, <2>1, <3>1, Acts
    <3>2. CASE p \in {i} \X woken
      <4>1. p[1] = i /\ p[2] \in woken /\ p = <<i, p[2]>>
        BY <3>2
      <4>2. p[2] \in awaiting /\ Target(seat, p[2]) = i
        BY <1>1, <1>9, <4>1 DEF woken
      <4> QED BY <1>1, <2>1, <4>1, <4>2, Acts, Waits
    <3>3. CASE p \in {i} \X {s \in other : i \in Others(seat, s.item)}
      <4>1. p[1] = i /\ p[2] \in other /\ i \in Others(seat, p[2].item) /\ p = <<i, p[2]>>
        BY <3>3
      <4> QED BY <1>1, <2>1, <4>1, Acts DEF Filtered
    <3> QED BY <1>1, <3>1, <3>2, <3>3
  <2>3. ASSUME NEW p \in ActingIn(F, seat, affectees')
        PROVE  p \in active'
    <3>1. /\ p \in affectees' \X F /\ p = <<p[1], p[2]>>
          /\ \/ p[2].mod.filter \in Single /\ p[1] = Target(seat, p[2])
             \/ p[2].mod.filter = "other" /\ p[1] \in Others(seat, p[2].item)
      BY <2>3, Acts
    <3>2. CASE p[1] \in affectees
      BY <1>1, <2>1, <3>1, <3>2, Acts
    <3>3. CASE p[1] \notin affectees /\ p[2].mod.filter \in Single
      <4>1. p[1] = i /\ p[2] \in F
        BY <1>1, <3>1, <3>3
      <4>2. Target(seat, p[2]) = i
        BY <3>1, <3>3, <4>1 DEF Single
      <4>3. p[2] \in woken
        BY <1>9, <2>1, <3>3, <4>1, <4>2, Waits
      <4> QED BY <1>1, <3>1, <4>1, <4>3
    <3>4. CASE p[1] \notin affectees /\ p[2].mod.filter = "other"
      <4>1. p[1] = i /\ p[2] \in F /\ i \in Others(seat, p[2].item)
        BY <1>1, <3>1, <3>4 DEF Single
      <4> QED BY <1>1, <2>1, <3>1, <3>4, <4>1 DEF Filtered
    <3> QED BY <3>1, <3>2, <3>3, <3>4
  <2> QED BY <2>2, <2>3
<1>12. Stored(InForce(Of(agenda), running), seat, affectees, awaiting, active, other, mass)'
  BY <1>1, <1>3, <1>8, <1>10, <1>11 DEF Stored, S
<1>13. Typed'
  BY <1>1, <1>2 DEF Typed
<1> QED BY <1>2, <1>6, <1>7, <1>12, <1>13 DEF AttrInv

\* _handle_item_unloaded keeps the invariant: what acted on the item waits again.
LEMMA UnloadedStep ==
  ASSUME AttrInv, ItemUnloaded
  PROVE  AttrInv'
<1> DEFINE h == Head(agenda)
           i == h.item
           X == Of(Tail(agenda))
           R == Of(agenda)
           S == Of(agenda')
           F == InForce(R, running)
<1>1. /\ Typed /\ agenda # <<>> /\ h.do = "unloaded" /\ Then(<<>>)
      /\ UNCHANGED <<source, seat, running, override, cache, capped, other, mass, listeners, hears>>
      /\ affectees' = affectees \ {i}
      /\ awaiting' = awaiting \cup
             {p[2] : p \in {q \in active : q[1] = i /\ q[2].mod.filter \in Single}}
      /\ active' = {p \in active : p[1] # i}
  BY DEF ItemUnloaded, Doing, AttrInv, values, python
<1>2. /\ agenda' \in Seq(Entries) /\ InTurn(agenda') /\ S = X
      /\ R = {h} \cup X /\ R \subseteq Entries /\ \A e \in X : Before(h, e)
  BY <1>1, Passed
<1>3. /\ Runs(R) /\ Presence(R) /\ h \in R
      /\ Stored(F, seat, affectees, awaiting, active, other, mass)
  BY <1>2 DEF AttrInv
<1> HIDE DEF h, X, R, S
<1>4. \A e \in X : e.do \notin {"loaded", "unloaded"}
  BY <1>1, <1>2 DEF Before, Rank
<1>5. Presence(Of(agenda))'
  <2>1. \E e \in R : Switches(e)
    BY <1>1, <1>3 DEF Presence, AfterSwitch
  <2>2. \A e \in R : Switches(e) => e \in S
    BY <1>1, <1>2 DEF Switches
  <2>3. Loaded' = Loaded
    BY <1>1 DEF Loaded, OnFit, Seated
  <2>4. \A e : After(e)' = After(e) /\ Stay(e)' = Stay(e) /\ SeatAfter(e)' = SeatAfter(e)
    BY <1>1, <2>3 DEF After, Stay, SeatAfter, LoadedIn, OnFit, Seated
  <2>5. ASSUME NEW e \in S, Switches(e)
        PROVE  BeforeSwitch(Of(agenda), e)'
    <3>1. BeforeSwitch(R, e)
      BY <1>2, <1>3, <2>5 DEF Presence
    <3>2. i \notin Stay(e)
      BY <1>1, <1>3, <3>1 DEF BeforeSwitch
    <3>3. \A j : \/ ~(Due(R, "unload", j) \/ Due(R, "unloaded", j)) \/ j = i
               \/ Due(S, "unload", j) \/ Due(S, "unloaded", j)
      BY <1>2 DEF Due
    <3>4. \A j : Due(R, "load", j) => Due(S, "load", j)
      BY <1>1, <1>2 DEF Due
    <3>5. /\ Stay(e) \subseteq affectees'
          /\ \A j \in affectees' \ Stay(e) : Due(S, "unload", j) \/ Due(S, "unloaded", j)
          /\ \A j \in After(e) \ Stay(e) : Due(S, "load", j)
          /\ \A d \in S : d.do = "load" => OnFit(SeatAfter(e), d.item)
          /\ \A d \in S : d.do \in {"load", "unload", "unloaded"} => d.item \notin Stay(e)
          /\ e.do = "seat" => /\ e.item # seat[e.seat]
                              /\ e.item # None => SeatOf[e.item] = e.seat
      BY <1>1, <1>2, <3>1, <3>2, <3>3, <3>4 DEF BeforeSwitch
    <3> QED BY <1>1, <2>4, <3>5 DEF BeforeSwitch, S
  <2>6. affectees' \subseteq Loaded' /\ (\E e \in S : Switches(e)) /\ \A e \in S : e.do # "loaded"
    BY <1>1, <1>2, <1>3, <1>4, <2>1, <2>2, <2>3 DEF Presence
  <2> QED BY <2>5, <2>6 DEF Presence, S, Switches
<1>6. Runs(Of(agenda))'
  <2>1. running[i] = {}
    BY <1>1, <1>3 DEF Runs
  <2>2. \A j \in Items : running[j] # {} => j \in affectees' \/ Due(S, "loaded", j)
    BY <1>1, <1>2, <1>3, <2>1 DEF Runs, Due
  <2>3. \A e \in S : e \in R
    BY <1>2
  <2> QED BY <1>1, <1>3, <2>2, <2>3 DEF Runs, S
<1>7. InForce(S, running) = F
  <2>1. \A j \in Items : Told(S, running, j) = Told(R, running, j)
    BY <1>1, <1>2 DEF Told
  <2> QED BY <2>1, ForceSame
<1> HIDE DEF F
<1>8. /\ other = Filtered(F, "other") /\ awaiting = WaitingIn(F, seat, affectees)
      /\ active = ActingIn(F, seat, affectees)
  BY <1>3 DEF Stored
<1>9. awaiting' = WaitingIn(F, seat, affectees')
  <2>1. ASSUME NEW s \in awaiting'
        PROVE  s \in WaitingIn(F, seat, affectees')
    <3>1. CASE s \in awaiting
      BY <1>1, <1>8, <3>1, Waits
    <3>2. CASE s \notin awaiting
      <4>1. PICK p \in active : p[1] = i /\ p[2].mod.filter \in Single /\ s = p[2]
        BY <1>1, <2>1, <3>2
      <4>2. p \in affectees \X F /\ Target(seat, s) = i
        BY <1>8, <4>1, Acts DEF Single
      <4> QED BY <1>1, <4>1, <4>2, Waits
    <3> QED BY <3>1, <3>2
  <2>2. ASSUME NEW s \in WaitingIn(F, seat, affectees')
        PROVE  s \in awaiting'
    <3>1. s \in F /\ s.mod.filter \in Single /\ Target(seat, s) \notin affectees'
      BY <2>2, Waits
    <3>2. CASE Target(seat, s) \notin affectees
      BY <1>1, <1>8, <3>1, <3>2, Waits
    <3>3. CASE Target(seat, s) \in affectees
      <4>1. Target(seat, s) = i
        BY <1>1, <3>1, <3>3
      <4> DEFINE p == <<i, s>>
      <4>2. p \in affectees \X F /\ p[1] = i /\ p[2] = s
        BY <3>1, <3>3, <4>1
      <4> HIDE DEF p
      <4>3. p \in active
        BY <1>8, <3>1, <4>1, <4>2, Acts
      <4> QED BY <1>1, <3>1, <4>2, <4>3
    <3> QED BY <3>2, <3>3
  <2> QED BY <2>1, <2>2
<1>10. active' = ActingIn(F, seat, affectees')
  <2>1. ASSUME NEW p
        PROVE  p \in active' <=> p \in ActingIn(F, seat, affectees')
    <3>1. p \in affectees' \X F <=> p \in affectees \X F /\ p[1] # i
      BY <1>1
    <3> QED BY <1>1, <1>8, <3>1, Acts
  <2> QED BY <2>1
<1>11. Stored(InForce(Of(agenda), running), seat, affectees, awaiting, active, other, mass)'
  BY <1>1, <1>3, <1>7, <1>9, <1>10 DEF Stored, S
<1>12. Typed'
  BY <1>1, <1>2 DEF Typed
<1> QED BY <1>2, <1>5, <1>6, <1>11, <1>12 DEF AttrInv
-----------------------------------------------------------------------------
(* Items that load and unload. *)

\* A message that is there or not, as a sequence.
LEMMA OneOrNone ==
  ASSUME NEW b \in BOOLEAN, NEW e, b => e \in Entries
  PROVE  LET q == IF b THEN <<e>> ELSE <<>>
         IN q \in Seq(Entries) /\ InTurn(q) /\ Of(q) = IF b THEN {e} ELSE {}
BY NothingLeft, OneLeft

\* BaseItemMixin._load keeps the invariant.
LEMMA LoadStep ==
  ASSUME AttrInv, LoadItem
  PROVE  AttrInv'
<1> DEFINE h == Head(agenda)
           i == h.item
           X == Of(Tail(agenda))
           R == Of(agenda)
           S == Of(agenda')
           F == InForce(R, running)
<1>1. /\ Typed /\ InTurn(agenda) /\ agenda # <<>> /\ h.do = "load"
      /\ UNCHANGED <<source, seat, override, cache, capped, registers, listeners, hears>>
  BY DEF LoadItem, Doing, AttrInv, values, python
<1>2. /\ R = {h} \cup X /\ h \in Entries /\ R \subseteq Entries /\ \A e \in X : Before(h, e)
  BY <1>1, Front DEF Typed
<1>3. /\ Runs(R) /\ Presence(R) /\ h \in R
      /\ Stored(F, seat, affectees, awaiting, active, other, mass)
  BY <1>2 DEF AttrInv
<1>4. /\ i \in Items /\ \A e \in X : e.do \in {"load", "added"}
      /\ \A e \in X : e.do = "load" => e.item # i
  BY <1>1, <1>2 DEF Before, Rank, Entries
<1>5. AfterSwitch(R) /\ \A e \in R : ~Switches(e) /\ e.do # "loaded"
  <2>1. \A e \in R : ~Switches(e) /\ e.do # "loaded"
    BY <1>1, <1>2, <1>4 DEF Switches
  <2> QED BY <1>3, <2>1 DEF Presence
<1>6. OnFit(seat, i) /\ i \notin affectees /\ running[i] = {}
  <2>1. OnFit(seat, i) /\ i \notin affectees
    BY <1>1, <1>3, <1>5 DEF AfterSwitch
  <2> QED BY <1>3, <1>4, <1>5, <2>1 DEF Runs, Due
<1>7. Loaded' = Loaded /\ \A j : OnFit(seat, j)' = OnFit(seat, j)
  BY <1>1 DEF Loaded, OnFit, Seated
<1>8. /\ affectees' = affectees /\ \A j \in Items : Told(R, running, j) = running[j]
  <2>1. \A e \in R : e.do \notin {"started", "stopped"}
    BY <1>1, <1>2, <1>4
  <2> QED BY <1>1, <2>1, ToldRuns DEF registers
<1>9. CASE source # None /\ i \in Known[source]
  <2> DEFINE l == Step("loaded", i)
  <2>1. PICK effects \in SUBSET EffectsOf[i] :
          /\ running' = [running EXCEPT ![i] = effects]
          /\ Then(<<l>> \o IF effects = {} THEN <<>> ELSE <<Effects_("started", i, effects)>>)
    BY <1>9 DEF LoadItem
  <2> DEFINE st == Effects_("started", i, effects)
             q == IF effects # {} THEN <<st>> ELSE <<>>
             Q == IF effects # {} THEN {st} ELSE {}
  <2>2. effects \in SUBSET Effects
    BY <1>4, ModelAssumption DEF ModelAssumption
  <2>3. /\ l \in Entries /\ l.do = "loaded" /\ l.item = i
        /\ st \in Entries /\ st.do = "started" /\ st.item = i /\ st.effects = effects
    BY <1>4, <2>2 DEF Step, Effects_, Entries
  <2>4. q \in Seq(Entries) /\ InTurn(q) /\ Of(q) = Q
    <3> HIDE DEF st
    <3> QED BY <2>3, NothingLeft, OneLeft
  <2>5. Then(<<l>> \o q)
    BY <2>1
  <2> HIDE DEF l, st, q, h, X, R, S, F
  <2>6. /\ <<l>> \o q \in Seq(Entries) /\ InTurn(<<l>> \o q) /\ Of(<<l>> \o q) = {l} \cup Q
    <3> DEFINE p == <<l>>
    <3>1. \A a \in {l}, b \in Q : Before(a, b)
      BY <2>3 DEF Before, Rank
    <3>2. p \in Seq(Entries) /\ InTurn(p) /\ Of(p) = {l}
      BY <2>3, OneLeft
    <3> HIDE DEF p, Q
    <3>3. p \o q \in Seq(Entries) /\ InTurn(p \o q) /\ Of(p \o q) = {l} \cup Q
      BY <2>4, <3>1, <3>2, Joined
    <3> QED BY <3>3 DEF p
  <2>7. \A a \in {l} \cup Q, b \in X : Before(a, b)
    BY <1>4, <2>3 DEF Before, Rank
  <2>8. agenda' \in Seq(Entries) /\ InTurn(agenda') /\ S = ({l} \cup Q) \cup X
    BY <1>1, <2>5, <2>6, <2>7, GoesOn DEF X, S
  <2>9. running' \in [Items -> SUBSET Effects] /\ running'[i] = effects
        /\ \A j \in Items \ {i} : running'[j] = running[j]
    BY <1>1, <1>4, <2>1, <2>2 DEF Typed
  <2>10. Presence(Of(agenda))'
    <3>1. i \in Loaded
      BY <1>4, <1>6, <1>9 DEF Loaded
    <3>2. Due(S, "loaded", i) /\ \A j : Due(R, "load", j) /\ j # i => Due(S, "load", j)
      BY <1>2, <2>3, <2>8 DEF Due
    <3>3. \A j : ~Due(R, "loaded", j)
      BY <1>5 DEF Due
    <3>4. \A j \in Loaded \ affectees : Due(S, "load", j) \/ Due(S, "loaded", j)
      BY <1>5, <3>2, <3>3 DEF AfterSwitch
    <3>5. \A d \in S : d.do \notin {"unload", "unloaded"} /\ ~Switches(d)
      BY <1>4, <2>3, <2>8 DEF Switches
    <3>6. \A d \in S : d.do = "load" => OnFit(seat, d.item) /\ d.item \notin affectees
      BY <1>2, <1>5, <2>3, <2>8 DEF AfterSwitch
    <3>7. \A d \in S : d.do = "loaded" => d.item \in Loaded
      BY <1>4, <2>3, <2>8, <3>1
    <3>8. AfterSwitch(Of(agenda))'
      BY <1>7, <1>8, <3>4, <3>5, <3>6 DEF AfterSwitch, S
    <3> QED BY <1>3, <1>7, <1>8, <3>5, <3>7, <3>8 DEF Presence, S, Switches
  <2>11. Runs(Of(agenda))'
    <3>1. /\ \A e \in S : e.do \notin {"stopped", "unloaded"}
          /\ \A e \in S : e.do = "started" => e = st
      BY <1>4, <2>3, <2>8
    <3>2. \A j \in Items : running'[j] # {} => j \in affectees \/ Due(S, "loaded", j)
      <4>1. Due(S, "loaded", i)
        BY <2>3, <2>8 DEF Due
      <4>2. \A j \in Items : running[j] # {} => j \in affectees
        BY <1>3, <1>5 DEF Runs, Due
      <4> QED BY <2>9, <4>1, <4>2
    <3>3. \A j \in Items : running'[j] \subseteq EffectsOf[j]
      BY <1>3, <2>9 DEF Runs
    <3> QED BY <1>8, <2>3, <2>9, <3>1, <3>2, <3>3 DEF Runs, S
  <2>12. InForce(S, running') = F
    <3>1. ASSUME NEW j \in Items
          PROVE  Told(S, running', j) = Told(R, running, j)
      <4>1. \A e \in S : e.do # "stopped"
        BY <1>4, <2>3, <2>8
      <4>2. CASE j # i
        <5>1. \A e \in S : e.do = "started" => e.item # j
          BY <1>4, <2>3, <2>8, <4>2
        <5>2. Told(S, running', j) = running'[j]
          BY <4>1, <5>1 DEF Told
        <5> QED BY <1>8, <2>9, <4>2, <5>2
      <4>3. CASE j = i
        <5>1. \A d \in effects : \E e \in S : e.do = "started" /\ e.item = i /\ d \in e.effects
          BY <2>3, <2>8
        <5>2. Told(S, running', i) = {}
          BY <2>9, <4>1, <5>1 DEF Told
        <5> QED BY <1>6, <1>8, <4>3, <5>2
      <4> QED BY <4>2, <4>3
    <3> QED BY <3>1, ForceSame DEF F
  <2>13. Stored(InForce(Of(agenda), running), seat, affectees, awaiting, active, other, mass)'
    BY <1>1, <1>3, <2>12 DEF registers, S
  <2>14. Typed'
    BY <1>1, <2>8, <2>9 DEF Typed
  <2> QED BY <2>8, <2>10, <2>11, <2>13, <2>14 DEF AttrInv
<1>10. CASE ~(source # None /\ i \in Known[source])
  <2>1. running' = running /\ Then(<<>>)
    BY <1>10 DEF LoadItem
  <2>2. agenda' \in Seq(Entries) /\ InTurn(agenda') /\ S = X
    BY <1>1, <2>1, Passed
  <2> HIDE DEF h, X, R, S, F
  <2>3. Presence(Of(agenda))'
    <3>1. i \notin Loaded
      BY <1>10 DEF Loaded
    <3>2. \A j : Due(R, "load", j) /\ j # i => Due(S, "load", j)
      BY <1>2, <2>2 DEF Due
    <3>3. \A j : ~Due(R, "loaded", j)
      BY <1>5 DEF Due
    <3>4. \A j \in Loaded \ affectees : Due(S, "load", j) \/ Due(S, "loaded", j)
      BY <1>5, <3>1, <3>2, <3>3 DEF AfterSwitch
    <3>5. \A d \in S : d.do \notin {"unload", "unloaded", "loaded"} /\ ~Switches(d)
      BY <1>4, <2>2 DEF Switches
    <3>6. \A d \in S : d.do = "load" => OnFit(seat, d.item) /\ d.item \notin affectees
      BY <1>2, <1>5, <2>2 DEF AfterSwitch
    <3>8. AfterSwitch(Of(agenda))'
      BY <1>7, <1>8, <3>4, <3>5, <3>6 DEF AfterSwitch, S
    <3> QED BY <1>3, <1>7, <1>8, <3>5, <3>8 DEF Presence, S, Switches
  <2>4. Runs(Of(agenda))'
    <3>1. \A e \in S : e.do \notin {"started", "stopped", "unloaded"}
      BY <1>4, <2>2
    <3>2. \A j \in Items : running[j] # {} => j \in affectees
      BY <1>3, <1>5 DEF Runs, Due
    <3> QED BY <1>3, <1>8, <2>1, <3>1, <3>2 DEF Runs, S
  <2>5. InForce(S, running') = F
    <3>1. \A e \in S : e.do \notin {"started", "stopped"}
      BY <1>4, <2>2
    <3>2. \A j \in Items : Told(S, running', j) = Told(R, running, j)
      BY <1>8, <2>1, <3>1, ToldRuns
    <3> QED BY <3>2, ForceSame DEF F
  <2>6. Stored(InForce(Of(agenda), running), seat, affectees, awaiting, active, other, mass)'
    BY <1>1, <1>3, <2>5 DEF registers, S
  <2>7. Typed'
    BY <1>1, <2>1, <2>2 DEF Typed
  <2> QED BY <2>2, <2>3, <2>4, <2>6, <2>7 DEF AttrInv
<1> QED BY <1>9, <1>10

\* BaseItemMixin._unload keeps the invariant.
LEMMA UnloadStep ==
  ASSUME AttrInv, UnloadItem
  PROVE  AttrInv'
<1> DEFINE h == Head(agenda)
           i == h.item
           X == Of(Tail(agenda))
           R == Of(agenda)
           S == Of(agenda')
           F == InForce(R, running)
           st == Effects_("stopped", i, running[i])
           un == Step("unloaded", i)
           cl == Step("clear", i)
           q1 == IF running[i] = {} THEN <<>> ELSE <<st>>
           q2 == IF i \in affectees THEN <<un>> ELSE <<>>
           Q1 == IF running[i] = {} THEN {} ELSE {st}
           Q2 == IF i \in affectees THEN {un} ELSE {}
<1>1. /\ Typed /\ InTurn(agenda) /\ agenda # <<>> /\ h.do = "unload"
      /\ UNCHANGED <<source, seat, override, cache, capped, registers, listeners, hears>>
      /\ affectees' = affectees
      /\ running' = [running EXCEPT ![i] = {}] /\ Then(q1 \o q2 \o <<cl>>)
  BY DEF UnloadItem, Doing, AttrInv, values, python, registers
<1>2. /\ R = {h} \cup X /\ h \in Entries /\ R \subseteq Entries /\ \A e \in X : Before(h, e)
  BY <1>1, Front DEF Typed
<1>3. /\ Runs(R) /\ Presence(R) /\ h \in R
      /\ Stored(F, seat, affectees, awaiting, active, other, mass)
  BY <1>2 DEF AttrInv
<1>4. /\ i \in Items
      /\ \A e \in X : e.do \in {"unload", "removed", "seat", "source", "load", "added"}
  BY <1>1, <1>2 DEF Before, Rank, Entries
<1>5. /\ st \in Entries /\ st.do = "stopped" /\ st.item = i /\ st.effects = running[i]
      /\ un \in Entries /\ un.do = "unloaded" /\ un.item = i
      /\ cl \in Entries /\ cl.do = "clear"
  BY <1>1, <1>4 DEF Step, Effects_, Entries, Typed
<1>6. /\ q1 \in Seq(Entries) /\ InTurn(q1) /\ Of(q1) = Q1
      /\ q2 \in Seq(Entries) /\ InTurn(q2) /\ Of(q2) = Q2
      /\ <<cl>> \in Seq(Entries) /\ InTurn(<<cl>>) /\ Of(<<cl>>) = {cl}
  <2> HIDE DEF st, un, cl
  <2> QED BY <1>5, NothingLeft, OneLeft
<1>7. running' \in [Items -> SUBSET Effects] /\ running'[i] = {}
      /\ \A j \in Items \ {i} : running'[j] = running[j]
  BY <1>1, <1>4 DEF Typed
<1> HIDE DEF h, X, R, S, F, st, un, cl, q1, q2
<1>8. /\ (q1 \o q2) \o <<cl>> \in Seq(Entries) /\ InTurn((q1 \o q2) \o <<cl>>)
      /\ Of((q1 \o q2) \o <<cl>>) = (Q1 \cup Q2) \cup {cl}
  <2>1. \A a \in Q1, b \in Q2 : Before(a, b)
    BY <1>5 DEF Before, Rank
  <2>2. q1 \o q2 \in Seq(Entries) /\ InTurn(q1 \o q2) /\ Of(q1 \o q2) = Q1 \cup Q2
    BY <1>6, <2>1, Joined
  <2>3. \A a \in Q1 \cup Q2, b \in {cl} : Before(a, b)
    BY <1>5 DEF Before, Rank
  <2> DEFINE p == q1 \o q2
             q == <<cl>>
  <2>4. /\ p \in Seq(Entries) /\ InTurn(p) /\ Of(p) = Q1 \cup Q2
        /\ q \in Seq(Entries) /\ InTurn(q) /\ Of(q) = {cl}
    BY <1>6, <2>2
  <2> HIDE DEF p, q, Q1, Q2
  <2>5. p \o q \in Seq(Entries) /\ InTurn(p \o q) /\ Of(p \o q) = (Q1 \cup Q2) \cup {cl}
    BY <2>3, <2>4, Joined
  <2> QED BY <2>5 DEF p, q
<1>9. agenda' \in Seq(Entries) /\ InTurn(agenda') /\ S = ((Q1 \cup Q2) \cup {cl}) \cup X
  <2>1. \A a \in (Q1 \cup Q2) \cup {cl}, b \in X : Before(a, b)
    BY <1>4, <1>5 DEF Before, Rank
  <2> QED BY <1>1, <1>8, <2>1, GoesOn DEF X, S
<1>10. Presence(Of(agenda))'
  <2>1. \E e \in R : Switches(e)
    BY <1>1, <1>3 DEF Presence, AfterSwitch
  <2>2. /\ \A e \in R : Switches(e) => e \in S
        /\ \A e \in S : Switches(e) => e \in R
    BY <1>1, <1>2, <1>5, <1>9 DEF Switches
  <2>3. Loaded' = Loaded
    BY <1>1 DEF Loaded, OnFit, Seated
  <2>4. \A e : After(e)' = After(e) /\ Stay(e)' = Stay(e) /\ SeatAfter(e)' = SeatAfter(e)
    BY <1>1, SameSets
  <2>5. ASSUME NEW e \in S, Switches(e)
        PROVE  BeforeSwitch(Of(agenda), e)'
    <3>1. BeforeSwitch(R, e)
      BY <1>3, <2>2, <2>5 DEF Presence
    <3>2. i \notin Stay(e)
      BY <1>1, <1>3, <3>1 DEF BeforeSwitch
    <3>3. \A j : ~Due(R, "unloaded", j)
      BY <1>1, <1>2, <1>4 DEF Due
    <3>4. \A j : Due(R, "unload", j) => j = i \/ Due(S, "unload", j)
      BY <1>2, <1>9 DEF Due
    <3>5. i \in affectees => Due(S, "unloaded", i)
      BY <1>5, <1>9 DEF Due
    <3>6. \A j : Due(R, "load", j) => Due(S, "load", j)
      BY <1>1, <1>2, <1>9 DEF Due
    <3>7. /\ \A j \in affectees \ Stay(e) : Due(S, "unload", j) \/ Due(S, "unloaded", j)
          /\ \A j \in After(e) \ Stay(e) : Due(S, "load", j)
      BY <3>1, <3>3, <3>4, <3>5, <3>6 DEF BeforeSwitch
    <3>8. \A d \in S : \/ d \in R
                       \/ d.do \in {"stopped", "clear"}
                       \/ d.do = "unloaded" /\ d.item = i
      BY <1>2, <1>5, <1>9
    <3>9. /\ \A d \in S : d.do = "load" => OnFit(SeatAfter(e), d.item)
          /\ \A d \in S : d.do \in {"load", "unload", "unloaded"} => d.item \notin Stay(e)
      BY <3>1, <3>2, <3>8 DEF BeforeSwitch
    <3>10. /\ Stay(e) \subseteq affectees
           /\ e.do = "seat" => /\ e.item # seat[e.seat]
                               /\ e.item # None => SeatOf[e.item] = e.seat
      BY <3>1 DEF BeforeSwitch
    <3> QED BY <1>1, <2>4, <3>7, <3>9, <3>10 DEF BeforeSwitch, S
  <2>6. affectees' \subseteq Loaded' /\ (\E e \in S : Switches(e)) /\ \A e \in S : e.do # "loaded"
    BY <1>1, <1>3, <1>4, <1>5, <1>9, <2>1, <2>2, <2>3 DEF Presence
  <2> QED BY <2>5, <2>6 DEF Presence, S, Switches
<1>11. Runs(Of(agenda))'
  <2>1. /\ \A e \in S : e.do # "started"
        /\ \A e \in S : e.do = "stopped" => e = st
        /\ \A e \in S : e.do = "unloaded" => e = un
    BY <1>4, <1>5, <1>9
  <2>2. \A j \in Items : running'[j] # {} => j \in affectees
    <3>1. \A e \in R : e.do # "loaded"
      BY <1>1, <1>2, <1>4
    <3> QED BY <1>3, <1>7, <3>1 DEF Runs, Due
  <2>3. \A j \in Items : running'[j] \subseteq EffectsOf[j]
    BY <1>3, <1>7 DEF Runs
  <2>4. running[i] \subseteq EffectsOf[i]
    BY <1>3, <1>4 DEF Runs
  <2> QED BY <1>1, <1>5, <1>7, <2>1, <2>2, <2>3, <2>4 DEF Runs, S
<1>12. InForce(S, running') = F
  <2>1. \A e \in R : e.do \notin {"started", "stopped"}
    BY <1>1, <1>2, <1>4
  <2>2. \A j \in Items : Told(R, running, j) = running[j]
    BY <2>1, ToldRuns
  <2>3. ASSUME NEW j \in Items
        PROVE  Told(S, running', j) = running[j]
    <3>1. \A e \in S : e.do # "started"
      BY <1>4, <1>5, <1>9
    <3>2. CASE j # i
      <4>1. \A e \in S : e.do = "stopped" => e.item # j
        BY <1>4, <1>5, <1>9, <3>2
      <4> QED BY <1>7, <3>1, <3>2, <4>1 DEF Told
    <3>3. CASE j = i /\ running[i] = {}
      <4>1. \A e \in S : e.do # "stopped"
        BY <1>4, <1>5, <1>9, <3>3
      <4> QED BY <1>7, <3>1, <3>3, <4>1 DEF Told
    <3>4. CASE j = i /\ running[i] # {}
      <4>1. {e \in S : e.do = "stopped" /\ e.item = i} = {st}
        BY <1>4, <1>5, <1>9, <3>4
      <4> QED BY <1>5, <1>7, <3>1, <3>4, <4>1 DEF Told
    <3> QED BY <3>2, <3>3, <3>4
  <2> QED BY <2>2, <2>3, ForceSame DEF F
<1>13. Stored(InForce(Of(agenda), running), seat, affectees, awaiting, active, other, mass)'
  BY <1>1, <1>3, <1>12 DEF registers, S
<1>14. Typed'
  BY <1>1, <1>7, <1>9 DEF Typed
<1> QED BY <1>9, <1>10, <1>11, <1>13, <1>14 DEF AttrInv
-----------------------------------------------------------------------------
(* The assignment in the middle of a call. *)

\* When it comes only what stays loaded is loaded, and what is left is to load.
LEMMA AtSwitch ==
  ASSUME AttrInv, agenda # <<>>, Switches(Head(agenda)), Then(<<>>)
  PROVE  /\ affectees = Stay(Head(agenda)) /\ BeforeSwitch(Of(agenda), Head(agenda))
         /\ agenda' \in Seq(Entries) /\ InTurn(agenda')
         /\ \A e \in Of(agenda') : e \in Of(agenda) /\ e.do \in {"load", "added"}
         /\ \A j : Due(Of(agenda), "load", j) => Due(Of(agenda'), "load", j)
         /\ \A j \in Items : running[j] # {} => j \in affectees
         /\ InForce(Of(agenda'), running) = InForce(Of(agenda), running)
         /\ \A j \in Items : Told(Of(agenda), running, j) = running[j]
         /\ Head(agenda) \in Entries
<1> DEFINE h == Head(agenda)
           X == Of(Tail(agenda))
           R == Of(agenda)
           S == Of(agenda')
<1>1. /\ agenda' \in Seq(Entries) /\ InTurn(agenda') /\ S = X /\ h \in Entries
      /\ R = {h} \cup X /\ R \subseteq Entries /\ \A e \in X : Before(h, e)
  BY Passed
<1>2. Presence(R) /\ Runs(R) /\ h.do \in {"seat", "source"}
  BY DEF AttrInv, Switches
<1> HIDE DEF h, X, R, S
<1>3. \A e \in X : e.do \in {"load", "added"}
  BY <1>1, <1>2 DEF Before, Rank, Entries
<1>4. BeforeSwitch(R, h)
  BY <1>1, <1>2 DEF Presence, Switches
<1>5. \A j : ~Due(R, "unload", j) /\ ~Due(R, "unloaded", j) /\ ~Due(R, "loaded", j)
  BY <1>1, <1>2, <1>3 DEF Due
<1>6. affectees = Stay(h)
  BY <1>4, <1>5 DEF BeforeSwitch
<1>7. \A j : Due(R, "load", j) => Due(S, "load", j)
  BY <1>1, <1>2 DEF Due
<1>8. \A j \in Items : running[j] # {} => j \in affectees
  BY <1>2, <1>5 DEF Runs
<1>9. \A e \in R : e.do \notin {"started", "stopped"}
  BY <1>1, <1>2, <1>3
<1>10. \A j \in Items : Told(R, running, j) = running[j] /\ Told(S, running, j) = running[j]
  BY <1>1, <1>9, ToldRuns
<1>11. InForce(S, running) = InForce(R, running)
  BY <1>10, ForceSame
<1> QED BY <1>1, <1>3, <1>4, <1>6, <1>7, <1>8, <1>10, <1>11 DEF h, R, S

\* With other seats or another source that leave in place what is loaded, the
\* registers are as they should be.
LEMMA Switched ==
  ASSUME AttrInv, agenda # <<>>, Switches(Head(agenda)), Then(<<>>),
         UNCHANGED <<running, registers>>,
         seat' = SeatAfter(Head(agenda)), Loaded' = After(Head(agenda)),
         affectees \subseteq After(Head(agenda))
  PROVE  Presence(Of(agenda))' /\ Runs(Of(agenda))'
<1> DEFINE h == Head(agenda)
           R == Of(agenda)
           S == Of(agenda')
<1>1. /\ affectees = Stay(h) /\ BeforeSwitch(R, h)
      /\ \A e \in S : e \in R /\ e.do \in {"load", "added"}
      /\ \A j : Due(R, "load", j) => Due(S, "load", j)
      /\ \A j \in Items : running[j] # {} => j \in affectees
  BY AtSwitch
<1>2. affectees' = affectees /\ running' = running /\ Runs(R)
  BY DEF registers, AttrInv
<1> HIDE DEF h, R, S
<1>3. \A j \in After(h) \ affectees : Due(S, "load", j)
  BY <1>1 DEF BeforeSwitch
<1>4. \A d \in S : d.do = "load" => OnFit(SeatAfter(h), d.item) /\ d.item \notin affectees
  BY <1>1 DEF BeforeSwitch
<1>5. AfterSwitch(Of(agenda))'
  BY <1>1, <1>2, <1>3, <1>4 DEF AfterSwitch, S, h
<1>6. Presence(Of(agenda))'
  <2>1. affectees' \subseteq Loaded'
    BY <1>2
  <2> QED BY <1>1, <1>5, <2>1 DEF Presence, S, Switches
<1>7. Runs(Of(agenda))'
  BY <1>1, <1>2 DEF Runs, S
<1> QED BY <1>6, <1>7

\* The assignment in SolarSystem.source keeps the invariant.
LEMMA SetSourceStep ==
  ASSUME AttrInv, SetSourceValue
  PROVE  AttrInv'
<1> DEFINE h == Head(agenda)
           F == InForce(Of(agenda), running)
<1>1. /\ agenda # <<>> /\ h.do = "source" /\ Then(<<>>) /\ source' = h.item /\ Typed
      /\ UNCHANGED <<seat, running, override, cache, capped, registers, listeners, hears>>
  BY DEF SetSourceValue, Doing, values, python, AttrInv
<1>2. Switches(h)
  BY <1>1 DEF Switches
<1>3. /\ affectees = Stay(h) /\ agenda' \in Seq(Entries) /\ InTurn(agenda') /\ h \in Entries
      /\ InForce(Of(agenda'), running) = F
  BY <1>1, <1>2, AtSwitch
<1>4. Loaded' = After(h) /\ seat' = SeatAfter(h)
  BY <1>1 DEF Loaded, After, LoadedIn, SeatAfter, OnFit, Seated
<1>5. affectees = {}
  BY <1>1, <1>3 DEF Stay
<1>6. Presence(Of(agenda))' /\ Runs(Of(agenda))'
  BY <1>1, <1>2, <1>4, <1>5, Switched
<1>7. Stored(InForce(Of(agenda), running), seat, affectees, awaiting, active, other, mass)'
  BY <1>1, <1>3 DEF registers, AttrInv
<1>8. Typed'
  <2>1. h.item \in Sources \cup {None}
    BY <1>1, <1>3 DEF Entries
  <2> QED BY <1>1, <1>3, <2>1 DEF Typed
<1> QED BY <1>3, <1>6, <1>7, <1>8 DEF AttrInv

\* The assignment in ItemDescriptor.__set__ keeps the invariant: an item that comes
\* or goes is loaded at neither time, so no target that is loaded moves.
LEMMA SetSeatStep ==
  ASSUME AttrInv, SetSeat
  PROVE  AttrInv'
<1> DEFINE h == Head(agenda)
           p == h.seat
           F == InForce(Of(agenda), running)
<1>1. /\ agenda # <<>> /\ h.do = "seat" /\ Then(<<>>) /\ Typed
      /\ seat' = [seat EXCEPT ![p] = h.item]
      /\ UNCHANGED <<source, running, override, cache, capped, registers, listeners, hears>>
      /\ affectees' = affectees
  BY DEF SetSeat, Doing, values, python, AttrInv, registers
<1>2. Switches(h)
  BY <1>1 DEF Switches
<1>3. /\ affectees = Stay(h) /\ BeforeSwitch(Of(agenda), h)
      /\ agenda' \in Seq(Entries) /\ InTurn(agenda') /\ h \in Entries
      /\ \A j \in Items : running[j] # {} => j \in affectees
      /\ InForce(Of(agenda'), running) = F
      /\ \A j \in Items : Told(Of(agenda), running, j) = running[j]
  BY <1>1, <1>2, AtSwitch
<1> HIDE DEF h
<1>4. Loaded' = After(h) /\ seat' = SeatAfter(h)
  BY <1>1 DEF Loaded, After, LoadedIn, SeatAfter, OnFit, Seated
<1>5. affectees \subseteq After(h) /\ affectees \subseteq Loaded /\ affectees \subseteq Items
  BY <1>1, <1>3 DEF Stay, Loaded
<1>6. Presence(Of(agenda))' /\ Runs(Of(agenda))'
  BY <1>1, <1>2, <1>4, <1>5, Switched DEF h
<1>7. /\ p \in Seats /\ h.item \in Items \cup {None} /\ h.item # seat[p]
      /\ h.item # None => SeatOf[h.item] = p
  BY <1>1, <1>3 DEF BeforeSwitch, Entries
<1>8. seat' \in [Seats -> Items \cup {None}] /\ seat'[p] = h.item
      /\ \A q \in Seats : q # p => seat'[q] = seat[q]
  BY <1>1, <1>7 DEF Typed
<1>9. \A q \in Seats : seat'[q] # None => SeatOf[seat'[q]] = q
  BY <1>1, <1>7, <1>8 DEF Typed
<1>10. \A i \in affectees : /\ SeatOf[i] \in Seats /\ SeatOf[i] # p /\ i # None
                           /\ Seated(seat, i) /\ Seated(seat', i)
  <2> SUFFICES ASSUME NEW i \in affectees
               PROVE  /\ SeatOf[i] \in Seats /\ SeatOf[i] # p /\ i # None
                      /\ Seated(seat, i) /\ Seated(seat', i)
    OBVIOUS
  <2>1. Seated(seat, i) /\ Seated(SeatAfter(h), i)
    BY <1>1, <1>5 DEF Loaded, After, LoadedIn, OnFit
  <2>2. SeatOf[i] \in Seats /\ i # None
    BY <1>5, ModelAssumption DEF ModelAssumption
  <2> QED BY <1>4, <1>7, <1>8, <2>1, <2>2 DEF Seated
<1>11. ASSUME NEW i \in affectees, NEW s \in F, s.mod.filter \in Single
       PROVE  i = Target(seat, s) <=> i = Target(seat', s)
  <2>1. \A q \in Seats : i = seat[q] <=> i = seat'[q]
    <3>1. ~(i = seat[p]) /\ ~(i = seat'[p])
      BY <1>1, <1>7, <1>8, <1>9, <1>10 DEF Typed
    <3> QED BY <1>8, <3>1
  <2>2. s.item \in Items /\ FitOf[s.item] \in Fits
    <3>1. s \in Specs
      BY ForceSpecs DEF AttrInv
    <3> QED BY <3>1, SpecTyped, ModelAssumption DEF ModelAssumption
  <2>3. ShipSeat[FitOf[s.item]] \in Seats /\ CharacterSeat[FitOf[s.item]] \in Seats
    BY <2>2, ModelAssumption DEF ModelAssumption
  <2>4. CASE s.mod.filter = "self"
    BY <2>4 DEF Target
  <2>5. CASE s.mod.filter = "ship"
    BY <2>1, <2>3, <2>5 DEF Target, Ship
  <2>6. CASE s.mod.filter = "character"
    BY <2>1, <2>3, <2>6 DEF Target, Character
  <2> QED BY <1>11, <2>4, <2>5, <2>6 DEF Single
<1>12. ASSUME NEW i \in affectees, NEW s \in F
       PROVE  i \in Others(seat, s.item) <=> i \in Others(seat', s.item)
  <2>1. PICK j \in Items : s \in LocalSpecs(j, running[j])
    BY <1>3 DEF InForce
  <2>2. j \in affectees /\ s.item = j
    BY <1>3, <2>1 DEF LocalSpecs
  <2> QED BY <1>10, <2>2 DEF Others
<1> HIDE DEF F
<1>13. WaitingIn(F, seat', affectees) = WaitingIn(F, seat, affectees)
  <2>1. ASSUME NEW s \in F, s.mod.filter \in Single
        PROVE  Target(seat', s) \in affectees <=> Target(seat, s) \in affectees
    BY <1>11, <2>1
  <2> QED BY <2>1 DEF WaitingIn
<1>14. ActingIn(F, seat', affectees) = ActingIn(F, seat, affectees)
  <2>1. ASSUME NEW a
        PROVE  a \in ActingIn(F, seat', affectees) <=> a \in ActingIn(F, seat, affectees)
    <3>1. CASE a \in affectees \X F
      <4>1. a[1] \in affectees /\ a[2] \in F
        BY <3>1
      <4>2. a[2].mod.filter \in Single => (a[1] = Target(seat, a[2]) <=> a[1] = Target(seat', a[2]))
        BY <1>11, <4>1
      <4>3. a[1] \in Others(seat, a[2].item) <=> a[1] \in Others(seat', a[2].item)
        BY <1>12, <4>1
      <4> QED BY <4>2, <4>3, Acts
    <3>2. CASE a \notin affectees \X F
      BY <3>2, Acts
    <3> QED BY <3>1, <3>2
  <2> QED BY <2>1
<1>15. Stored(InForce(Of(agenda), running), seat, affectees, awaiting, active, other, mass)'
  <2>1. Stored(F, seat, affectees, awaiting, active, other, mass)
    BY DEF AttrInv, F
  <2> QED BY <1>1, <1>3, <1>13, <1>14, <2>1 DEF Stored, registers
<1>16. Typed'
  BY <1>1, <1>3, <1>8, <1>9 DEF Typed
<1> QED BY <1>3, <1>6, <1>15, <1>16 DEF AttrInv
-----------------------------------------------------------------------------
(* The steps that a call starts with. *)

\* The order of loading goes through all items once.
LEMMA OrderOnce ==
  /\ LoadOrder \in Seq(Items)
  /\ \A i \in Items : \E k \in 1..Len(LoadOrder) : LoadOrder[k] = i
  /\ \A k, l \in 1..Len(LoadOrder) : k # l => LoadOrder[k] # LoadOrder[l]
<1>1. Cardinality(Items) \in Nat
  BY CalculatorAssumption, FS_CardinalityType DEF CalculatorAssumption
<1>2. LoadOrder \in Seq(Items) /\ Len(LoadOrder) = Cardinality(Items)
  BY <1>1, CalculatorAssumption DEF CalculatorAssumption
<1>3. DOMAIN LoadOrder = 1..Len(LoadOrder)
  BY <1>2
<1> QED BY <1>2, <1>3, CalculatorAssumption DEF CalculatorAssumption

Once(q) == \A k, l \in 1..Len(q) : k # l => q[k] # q[l]

\* What is picked are these items, each once.
LEMMA InOrderIs ==
  ASSUME NEW I \in SUBSET Items
  PROVE  /\ InOrder(I) \in Seq(Items) /\ Once(InOrder(I))
         /\ \A i : i \in I <=> \E k \in 1..Len(InOrder(I)) : InOrder(I)[k] = i
<1> DEFINE n == Len(LoadOrder)
           q == [k \in 1..Len(LoadOrder) |-> <<LoadOrder[k], I>>]
           Fits_(r, k) == /\ r \in Seq(Items) /\ Once(r)
                          /\ \A j \in 1..Len(r) : \E l \in 1..k : LoadOrder[l] = r[j] /\ r[j] \in I
                          /\ \A l \in 1..k : LoadOrder[l] \in I => \E j \in 1..Len(r) : LoadOrder[l] = r[j]
<1>1. n \in Nat /\ Len(q) = n /\ \A k \in 1..n : q[k] = <<LoadOrder[k], I>> /\ LoadOrder[k] \in Items
  BY OrderOnce
<1>2. \A k, l \in 1..n : k # l => LoadOrder[k] # LoadOrder[l]
  BY OrderOnce
<1> DEFINE empty == <<>>
<1> HIDE DEF n, q, empty
<1>3. PICK after : /\ after[0] = empty /\ after[Len(q)] = Pick!All(empty, q)
                   /\ \A k \in 1..Len(q) : after[k] = Picked(after[k - 1], q[k])
  <2>1. Len(q) \in Nat
    BY <1>1
  <2> QED BY <2>1, Pick!Trace
<1> DEFINE T == {k \in 0..n : Fits_(after[k], k)}
<1>4. 0 \in T
  <2>1. Fits_(empty, 0)
    BY DEF Once, empty
  <2> QED BY <1>1, <1>3, <2>1
<1>5. ASSUME NEW k \in 1..n, k - 1 \in T
      PROVE  k \in T
  <2> DEFINE r == after[k - 1]
             x == LoadOrder[k]
  <2>1. Fits_(r, k - 1)
    BY <1>5
  <2>2. after[k] = IF x \in I THEN Append(r, x) ELSE r
    BY <1>1, <1>3 DEF Picked
  <2>3. x \in Items
    BY <1>1
  <2>4. k - 1 \in 0..n /\ 1..k = 1..(k - 1) \cup {k} /\ k \in 0..n
    BY <1>1
  <2>5. CASE x \notin I
    <3>1. after[k] = r
      BY <2>2, <2>5
    <3>2. Fits_(r, k)
      <4> HIDE DEF r
      <4> QED BY <2>1, <2>4, <2>5
    <3> QED BY <2>4, <3>1, <3>2
  <2>6. CASE x \in I
    <3> DEFINE s == Append(r, x)
    <3>1. after[k] = s
      BY <2>2, <2>6
    <3>2. r \in Seq(Items)
      BY <2>1
    <3> HIDE DEF r
    <3>3. /\ s \in Seq(Items) /\ Len(s) = Len(r) + 1 /\ s[Len(r) + 1] = x
          /\ \A j \in 1..Len(r) : s[j] = r[j]
      BY <2>3, <3>2
    <3>4. \A j \in 1..Len(s) : j \in 1..Len(r) \/ j = Len(r) + 1
      BY <3>2, <3>3
    <3>5. \A j \in 1..Len(r) : r[j] # x
      <4> SUFFICES ASSUME NEW j \in 1..Len(r), r[j] = x PROVE FALSE
        OBVIOUS
      <4>1. PICK l \in 1..(k - 1) : LoadOrder[l] = r[j]
        BY <2>1
      <4>2. l \in 1..n /\ l # k
        BY <1>1
      <4> QED BY <1>2, <4>1, <4>2
    <3>6. Once(s)
      BY <2>1, <3>3, <3>4, <3>5 DEF Once
    <3>7. \A j \in 1..Len(s) : \E l \in 1..k : LoadOrder[l] = s[j] /\ s[j] \in I
      BY <2>1, <2>4, <2>6, <3>3, <3>4
    <3>8. \A l \in 1..k : LoadOrder[l] \in I => \E j \in 1..Len(s) : LoadOrder[l] = s[j]
      <4> SUFFICES ASSUME NEW l \in 1..k, LoadOrder[l] \in I
                   PROVE  \E j \in 1..Len(s) : LoadOrder[l] = s[j]
        OBVIOUS
      <4>1. CASE l = k
        <5>1. Len(r) + 1 \in 1..Len(s)
          BY <3>2, <3>3
        <5> QED BY <3>3, <4>1, <5>1
      <4>2. CASE l \in 1..(k - 1)
        <5>1. PICK j \in 1..Len(r) : LoadOrder[l] = r[j]
          BY <2>1, <4>2
        <5>2. j \in 1..Len(s)
          BY <3>2, <3>3
        <5> QED BY <3>3, <5>1, <5>2
      <4> QED BY <2>4, <4>1, <4>2
    <3> HIDE DEF s
    <3> QED BY <2>4, <3>1, <3>3, <3>6, <3>7, <3>8
  <2> QED BY <2>5, <2>6
<1>6. 0..n \subseteq T
  <2> HIDE DEF T
  <2> QED BY <1>1, <1>4, <1>5, Pick!Upward
<1>7. Fits_(Pick!All(empty, q), n)
  <2>1. n \in 0..n
    BY <1>1
  <2>2. Fits_(after[n], n)
    BY <1>6, <2>1
  <2> HIDE DEF Fits_
  <2> QED BY <1>1, <1>3, <2>2
<1>8. InOrder(I) = Pick!All(empty, q)
  BY DEF InOrder, q, empty
<1> DEFINE p == InOrder(I)
<1>9. Fits_(p, n)
  BY <1>7, <1>8
<1> HIDE DEF p
<1>10. \A i \in I : \E l \in 1..n : LoadOrder[l] = i
  BY OrderOnce DEF n
<1>11. \A i : i \in I <=> \E k \in 1..Len(p) : p[k] = i
  BY <1>9, <1>10
<1> QED BY <1>9, <1>11 DEF p

\* The steps of a source switch: one for each item.
LEMMA AllIs ==
  ASSUME NEW is \in Seq(Items), Once(is), NEW d \in {"load", "unload"}
  PROVE  LET q == [k \in 1..Len(is) |-> Step(d, is[k])]
         IN /\ q \in Seq(Entries) /\ InTurn(q)
            /\ \A e \in Of(q) : e.do = d /\ \E j \in 1..Len(is) : e.item = is[j]
            /\ \A j \in 1..Len(is) : Due(Of(q), d, is[j])
<1> DEFINE n == Len(is)
           q == [k \in 1..Len(is) |-> Step(d, is[k])]
<1>1. n \in Nat /\ \A k \in 1..n : is[k] \in Items
  OBVIOUS
<1>2. \A i \in Items : Step(d, i) \in Entries /\ Step(d, i).do = d /\ Step(d, i).item = i
  BY DEF Step, Entries
<1>3. \A k, l \in 1..n : k # l => is[k] # is[l]
  BY DEF Once
<1>4. Len(q) = n /\ q \in Seq(Entries) /\ \A k \in 1..n : q[k] = Step(d, is[k])
  BY <1>1, <1>2
<1> HIDE DEF n, q
<1>5. \A k \in 1..Len(q) : q[k].do = d /\ q[k].item = is[k]
  BY <1>1, <1>2, <1>4
<1>6. InTurn(q)
  BY <1>1, <1>3, <1>4, <1>5 DEF InTurn, Before, Rank
<1>7. \A e \in Of(q) : e.do = d /\ \E j \in 1..n : e.item = is[j]
  BY <1>4, <1>5 DEF Of
<1>8. \A j \in 1..n : Due(Of(q), d, is[j])
  BY <1>4, <1>5 DEF Of, Due
<1> QED BY <1>4, <1>6, <1>7, <1>8 DEF n, q

\* The steps of an assignment: two for each item, in the order of the call.
LEMMA ForEachIs ==
  ASSUME NEW is \in Seq(Items), Once(is), NEW d1, NEW d2,
         <<d1, d2>> \in {<<"unload", "removed">>, <<"added", "load">>}
  PROVE  LET q == ForEach(is, d1, d2)
         IN /\ q \in Seq(Entries) /\ InTurn(q)
            /\ \A e \in Of(q) : e.do \in {d1, d2} /\ \E j \in 1..Len(is) : e.item = is[j]
            /\ \A j \in 1..Len(is) : Due(Of(q), d1, is[j]) /\ Due(Of(q), d2, is[j])
<1> DEFINE n == Len(is)
           q == ForEach(is, d1, d2)
<1>1. n \in Nat /\ \A k \in 1..n : is[k] \in Items
  OBVIOUS
<1>2. \A k, l \in 1..n : k # l => is[k] # is[l]
  BY DEF Once
<1>3. (d1 = "unload" /\ d2 = "removed") \/ (d1 = "added" /\ d2 = "load")
  OBVIOUS
<1>4. \A i \in Items, d \in {d1, d2} : Step(d, i) \in Entries /\ Step(d, i).do = d /\ Step(d, i).item = i
  BY <1>3 DEF Step, Entries
<1>5. q = [k \in 1..(2 * n) |-> IF k % 2 = 1 THEN Step(d1, is[(k + 1) \div 2])
                                ELSE Step(d2, is[k \div 2])]
  BY DEF ForEach
<1> HIDE DEF n, q
<1>6. ASSUME NEW k \in 1..(2 * n)
      PROVE  \/ /\ k % 2 = 1 /\ (k + 1) \div 2 \in 1..n /\ q[k] = Step(d1, is[(k + 1) \div 2])
                /\ q[k].do = d1 /\ q[k].item = is[(k + 1) \div 2] /\ q[k] \in Entries
             \/ /\ k % 2 = 0 /\ k \div 2 \in 1..n /\ q[k] = Step(d2, is[k \div 2])
                /\ q[k].do = d2 /\ q[k].item = is[k \div 2] /\ q[k] \in Entries
  <2>1. k % 2 = 1 \/ k % 2 = 0
    BY <1>1
  <2>2. CASE k % 2 = 1
    <3> DEFINE j == (k + 1) \div 2
    <3>1. j \in 1..n
      BY <1>1, <2>2
    <3>2. q[k] = Step(d1, is[j])
      BY <1>5, <2>2
    <3> HIDE DEF j
    <3>3. q[k].do = d1 /\ q[k].item = is[j] /\ q[k] \in Entries
      BY <1>1, <1>4, <3>1, <3>2
    <3> QED BY <2>2, <3>1, <3>2, <3>3 DEF j
  <2>3. CASE k % 2 = 0
    <3> DEFINE j == k \div 2
    <3>1. j \in 1..n
      BY <1>1, <2>3
    <3>2. q[k] = Step(d2, is[j])
      BY <1>5, <2>3
    <3> HIDE DEF j
    <3>3. q[k].do = d2 /\ q[k].item = is[j] /\ q[k] \in Entries
      BY <1>1, <1>4, <3>1, <3>2
    <3> QED BY <2>3, <3>1, <3>2, <3>3 DEF j
  <2> QED BY <2>1, <2>2, <2>3
<1>7. Len(q) = 2 * n /\ q \in Seq(Entries)
  <2>1. \A k \in 1..(2 * n) : q[k] \in Entries
    BY <1>6
  <2>2. 2 * n \in Nat
    BY <1>1
  <2>3. q = [k \in 1..(2 * n) |-> q[k]]
    BY <1>5
  <2> QED BY <2>1, <2>2, <2>3
<1>8. InTurn(q)
  <2> SUFFICES ASSUME NEW k \in 1..(2 * n), NEW l \in 1..(2 * n), k < l
               PROVE  Before(q[k], q[l])
    BY <1>7 DEF InTurn
  <2>1. q[k].do \in {d1, d2} /\ q[l].do \in {d1, d2}
    BY <1>6
  <2>2. CASE d1 = "unload"
    BY <1>3, <2>1, <2>2 DEF Before, Rank
  <2>3. CASE d1 = "added" /\ d2 = "load" /\ ~(q[k].do = "load" /\ q[l].do = "load")
    BY <2>1, <2>3 DEF Before, Rank
  <2>4. CASE d1 = "added" /\ d2 = "load" /\ q[k].do = "load" /\ q[l].do = "load"
    <3>1. k % 2 = 0 /\ k \div 2 \in 1..n /\ q[k].item = is[k \div 2]
      BY <1>6, <2>4
    <3>2. l % 2 = 0 /\ l \div 2 \in 1..n /\ q[l].item = is[l \div 2]
      BY <1>6, <2>4
    <3>3. k \div 2 # l \div 2
      BY <3>1, <3>2
    <3>4. q[k].item # q[l].item
      BY <1>2, <3>1, <3>2, <3>3
    <3> QED BY <2>4, <3>4 DEF Before, Rank
  <2> QED BY <1>3, <2>2, <2>3, <2>4
<1>9. \A e \in Of(q) : e.do \in {d1, d2} /\ \E j \in 1..n : e.item = is[j]
  BY <1>6, <1>7 DEF Of
<1>10. ASSUME NEW j \in 1..n
       PROVE  Due(Of(q), d1, is[j]) /\ Due(Of(q), d2, is[j])
  <2> DEFINE k == 2 * j - 1
             l == 2 * j
  <2>1. /\ k \in 1..(2 * n) /\ k % 2 = 1 /\ (k + 1) \div 2 = j
        /\ l \in 1..(2 * n) /\ l % 2 = 0 /\ l \div 2 = j
    BY <1>1
  <2> HIDE DEF k, l
  <2>2. q[k].do = d1 /\ q[k].item = is[j] /\ q[l].do = d2 /\ q[l].item = is[j]
    <3>1. q[k].do = d1 /\ q[k].item = is[j]
      BY <1>6, <2>1
    <3>2. q[l].do = d2 /\ q[l].item = is[j]
      BY <1>6, <2>1
    <3> QED BY <3>1, <3>2
  <2> QED BY <1>7, <2>1, <2>2 DEF Of, Due
<1> QED BY <1>7, <1>8, <1>9, <1>10 DEF n, q

\* What a call that assigns to a seat or the source starts with.
LEMMA Begins ==
  ASSUME AttrInv, Idle, NEW A \in Seq(Entries), NEW B \in Seq(Entries), NEW e \in Entries,
         InTurn(A), InTurn(B), Switches(e),
         \A a \in Of(A) : a.do \in {"unload", "removed"},
         \A b \in Of(B) : b.do \in {"load", "added"},
         agenda' = A \o <<e>> \o B,
         UNCHANGED <<source, seat, running, override, values, registers, python>>,
         \A i \in Loaded \ Stay(e) : Due(Of(A), "unload", i),
         \A i \in After(e) \ Stay(e) : Due(Of(B), "load", i),
         \A a \in Of(A) : a.item \notin Stay(e),
         \A b \in Of(B) : OnFit(SeatAfter(e), b.item) /\ b.item \notin Stay(e),
         e.do = "seat" => /\ e.item # seat[e.seat]
                          /\ e.item # None => SeatOf[e.item] = e.seat
  PROVE  AttrInv'
<1> DEFINE R == Of(agenda)
           S == Of(agenda')
           d == <<e>>
           C == A \o d
<1>1. R = {} /\ Typed /\ Presence(R) /\ Runs(R)
  BY NothingLeft DEF AttrInv, Idle
<1>2. d \in Seq(Entries) /\ InTurn(d) /\ Of(d) = {e}
  BY OneLeft
<1>3. agenda' = C \o B
  OBVIOUS
<1> HIDE DEF d
<1>4. C \in Seq(Entries) /\ InTurn(C) /\ Of(C) = Of(A) \cup {e}
  <2>1. \A a \in Of(A), b \in Of(d) : Before(a, b)
    BY <1>2 DEF Before, Rank, Switches
  <2> QED BY <1>2, <2>1, Joined
<1> HIDE DEF C
<1>5. agenda' \in Seq(Entries) /\ InTurn(agenda') /\ S = (Of(A) \cup {e}) \cup Of(B)
  <2>1. \A a \in Of(C), b \in Of(B) : Before(a, b)
    BY <1>4 DEF Before, Rank, Switches
  <2> DEFINE D == C \o B
  <2>2. D \in Seq(Entries) /\ InTurn(D) /\ Of(D) = Of(C) \cup Of(B)
    BY <1>4, <2>1, Joined
  <2>3. agenda' = D
    BY <1>3
  <2> HIDE DEF D
  <2> QED BY <1>4, <2>2, <2>3
<1> HIDE DEF R, S
<1>6. affectees = Loaded
  BY <1>1 DEF Presence, AfterSwitch, Due
<1>7. /\ affectees' = affectees /\ running' = running /\ source' = source /\ seat' = seat
      /\ UNCHANGED <<override, cache, capped, listeners, hears>>
  BY DEF registers, values, python
<1>8. Presence(Of(agenda))'
  <2>1. /\ Loaded' = Loaded /\ \A c : After(c)' = After(c) /\ Stay(c)' = Stay(c)
        /\ \A c : SeatAfter(c)' = SeatAfter(c)
    BY <1>7, SameSets
  <2>2. \A c \in S : Switches(c) => c = e
    BY <1>5 DEF Switches
  <2>3. \A dd \in S : dd.do # "loaded"
    BY <1>5 DEF Switches
  <2>4. /\ Stay(e) \subseteq affectees
        /\ \A i \in affectees \ Stay(e) : Due(S, "unload", i) \/ Due(S, "unloaded", i)
        /\ \A i \in After(e) \ Stay(e) : Due(S, "load", i)
    <3>1. Stay(e) \subseteq Loaded
      BY DEF Stay
    <3> QED BY <1>5, <1>6, <3>1 DEF Due
  <2>5. /\ \A c \in S : c.do = "load" => OnFit(SeatAfter(e), c.item)
        /\ \A c \in S : c.do \in {"load", "unload", "unloaded"} => c.item \notin Stay(e)
    BY <1>5 DEF Switches
  <2>6. BeforeSwitch(Of(agenda), e)'
    BY <1>7, <2>1, <2>4, <2>5 DEF BeforeSwitch, S
  <2>7. e \in S
    BY <1>5
  <2> QED BY <1>6, <1>7, <2>1, <2>2, <2>3, <2>6, <2>7 DEF Presence, S, Switches
<1>9. \A c \in S : c.do \notin {"started", "stopped", "unloaded"}
  BY <1>5 DEF Switches
<1>10. Runs(Of(agenda))'
  BY <1>1, <1>7, <1>9 DEF Runs, Due, S
<1>11. InForce(S, running) = InForce(R, running)
  <2>1. \A j \in Items : Told(S, running, j) = Told(R, running, j)
    BY <1>1, <1>9, ToldRuns
  <2> QED BY <2>1, ForceSame
<1>12. Stored(InForce(Of(agenda), running), seat, affectees, awaiting, active, other, mass)'
  BY <1>7, <1>11 DEF AttrInv, R, S, registers
<1>13. Typed'
  BY <1>1, <1>5, <1>7 DEF Typed
<1> QED BY <1>5, <1>8, <1>10, <1>12, <1>13 DEF AttrInv

\* A call that assigns the source keeps the invariant.
LEMMA SourceStep ==
  ASSUME AttrInv, NEW s \in Sources \cup {None}, SetSource(s)
  PROVE  AttrInv'
<1> DEFINE I == {i \in Items : OnFit(seat, i)}
           q == InOrder(I)
           all(do) == [k \in 1..Len(q) |-> Step(do, q[k])]
           A == IF source = None THEN <<>> ELSE all("unload")
           B == IF s = None THEN <<>> ELSE all("load")
           e == Step("source", s)
<1>1. Idle /\ agenda' = A \o <<e>> \o B
      /\ UNCHANGED <<source, seat, running, override, values, registers, python>>
  BY DEF SetSource
<1>2. q \in Seq(Items) /\ Once(q) /\ \A i : i \in I <=> \E k \in 1..Len(q) : q[k] = i
  BY InOrderIs
<1>3. e \in Entries /\ e.do = "source" /\ e.item = s
  BY DEF Step, Entries
<1> HIDE DEF q, e
<1>4. /\ A \in Seq(Entries) /\ InTurn(A) /\ \A a \in Of(A) : a.do = "unload" /\ a.item \in I
      /\ source # None => \A i \in I : Due(Of(A), "unload", i)
  <2>1. CASE source = None
    BY <2>1, NothingLeft
  <2>2. CASE source # None
    <3> DEFINE u == all("unload")
    <3>1. /\ u \in Seq(Entries) /\ InTurn(u)
          /\ \A c \in Of(u) : c.do = "unload" /\ \E j \in 1..Len(q) : c.item = q[j]
          /\ \A j \in 1..Len(q) : Due(Of(u), "unload", q[j])
      BY <1>2, AllIs
    <3> HIDE DEF u, I
    <3>2. A = u
      BY <2>2 DEF u
    <3> QED BY <1>2, <3>1, <3>2
  <2> QED BY <2>1, <2>2
<1>5. /\ B \in Seq(Entries) /\ InTurn(B) /\ \A a \in Of(B) : a.do = "load" /\ a.item \in I
      /\ s # None => \A i \in I : Due(Of(B), "load", i)
  <2>1. CASE s = None
    BY <2>1, NothingLeft
  <2>2. CASE s # None
    <3> DEFINE u == all("load")
    <3>1. /\ u \in Seq(Entries) /\ InTurn(u)
          /\ \A c \in Of(u) : c.do = "load" /\ \E j \in 1..Len(q) : c.item = q[j]
          /\ \A j \in 1..Len(q) : Due(Of(u), "load", q[j])
      BY <1>2, AllIs
    <3> HIDE DEF u, I
    <3>2. B = u
      BY <2>2 DEF u
    <3> QED BY <1>2, <3>1, <3>2
  <2> QED BY <2>1, <2>2
<1>6. Switches(e) /\ Stay(e) = {} /\ SeatAfter(e) = seat /\ After(e) = LoadedIn(seat, s)
  BY <1>3 DEF Switches, Stay, SeatAfter, After
<1>7. \A i \in Loaded : source # None /\ i \in I
  BY DEF Loaded
<1>8. \A i \in After(e) : s # None /\ i \in I
  BY <1>6 DEF LoadedIn
<1>9. \A i \in I : OnFit(seat, i)
  OBVIOUS
<1> HIDE DEF A, B, I
<1> QED BY <1>1, <1>3, <1>4, <1>5, <1>6, <1>7, <1>8, <1>9, Begins

\* Of two contents of the seats that differ in p, the items on the fit in one
\* and not in the other are the one in p and the charge of the one in p.
LEMMA OneSeat ==
  ASSUME NEW p \in Seats, NEW x \in [Seats -> Items \cup {None}],
         NEW y \in [Seats -> Items \cup {None}], \A q \in Seats : q # p => x[q] = y[q],
         NEW i \in Items, OnFit(x, i), ~OnFit(y, i)
  PROVE  /\ i = x[p] \/ (Owner[SeatOf[i]] = x[p] /\ Seated(x, i) /\ Seated(y, i))
         /\ x[p] # None /\ x[p] \in Items
         /\ Owner[p] # None => Seated(x, Owner[p]) /\ Seated(y, Owner[p])
<1> DEFINE o == Owner[SeatOf[i]]
<1>1. /\ SeatOf[i] \in Seats /\ None \notin Items /\ o \in Items \cup {None}
      /\ \A j \in Items : o = j => SeatOf[j] \in Seats /\ Owner[SeatOf[j]] = None
  BY ModelAssumption DEF ModelAssumption
<1>2. Seated(x, i) /\ (o # None => Seated(x, o))
  BY DEF OnFit
<1>3. CASE ~Seated(y, i)
  <2>1. SeatOf[i] = p /\ x[p] = i
    BY <1>1, <1>2, <1>3 DEF Seated
  <2>2. Owner[p] # None => Seated(x, Owner[p]) /\ Owner[p] = o
    BY <1>2, <2>1
  <2>3. Owner[p] # None => SeatOf[o] \in Seats /\ SeatOf[o] # p
    BY <1>1, <2>1, <2>2
  <2> HIDE DEF o
  <2>4. Owner[p] # None => Seated(y, Owner[p])
    BY <2>2, <2>3 DEF Seated
  <2> QED BY <1>1, <2>1, <2>2, <2>4
<1>4. CASE Seated(y, i)
  <2>1. o # None /\ o \in Items /\ ~Seated(y, o)
    BY <1>1, <1>4 DEF OnFit
  <2>2. SeatOf[o] \in Seats /\ Owner[SeatOf[o]] = None
    BY <1>1, <2>1
  <2>3. Seated(x, o)
    BY <1>2, <2>1
  <2> HIDE DEF o
  <2>4. SeatOf[o] = p /\ x[p] = o
    BY <2>1, <2>2, <2>3 DEF Seated
  <2> QED BY <1>1, <1>2, <1>4, <2>1, <2>2, <2>4 DEF o
<1> QED BY <1>3, <1>4

\* What holds an item and its charge: an item in p of the fit is on it with
\* its charge exactly while it is in p.
LEMMA WithCharge ==
  ASSUME NEW p \in Seats, NEW x \in [Seats -> Items \cup {None}],
         NEW y \in [Seats -> Items \cup {None}], \A q \in Seats : q # p => x[q] = y[q],
         NEW i \in Items, SeatOf[i] = p, x[p] = i, y[p] # i,
         NEW j \in Items, j = i \/ (Owner[SeatOf[j]] = i /\ (Seated(x, j) \/ Seated(y, j)))
  PROVE  /\ ~OnFit(y, j)
         /\ (Owner[p] # None => Seated(x, Owner[p]) \/ Seated(y, Owner[p])) => OnFit(x, j)
<1>1. /\ SeatOf[j] \in Seats /\ None \notin Items /\ Owner[p] \in Items \cup {None}
      /\ i # None
  BY ModelAssumption DEF ModelAssumption
<1>2. Seated(x, i) /\ ~Seated(y, i)
  BY DEF Seated
<1>3. CASE j = i
  <2>1. Owner[p] # None => SeatOf[Owner[p]] \in Seats /\ SeatOf[Owner[p]] # p
    BY <1>1, ModelAssumption DEF ModelAssumption
  <2>2. Owner[p] # None => (Seated(x, Owner[p]) <=> Seated(y, Owner[p]))
    BY <2>1 DEF Seated
  <2> QED BY <1>2, <1>3, <2>2 DEF OnFit
<1>4. CASE j # i /\ Owner[SeatOf[j]] = i /\ (Seated(x, j) \/ Seated(y, j))
  <2>1. SeatOf[j] # p
    <3>1. Owner[SeatOf[i]] = None
      BY <1>4, ModelAssumption DEF ModelAssumption
    <3> QED BY <1>1, <1>4, <3>1
  <2>2. Seated(x, j)
    BY <1>1, <1>4, <2>1 DEF Seated
  <2> QED BY <1>1, <1>2, <1>4, <2>2 DEF OnFit
<1> QED BY <1>3, <1>4

\* A call that assigns to a seat keeps the invariant.
LEMMA AssignStep ==
  ASSUME AttrInv, NEW p \in Seats, NEW new \in Items \cup {None}, Assign(p, new)
  PROVE  AttrInv'
<1> DEFINE old == seat[p]
           onFit == Owner[p] # None => Seated(seat, Owner[p])
           With(i) == {j \in Items : j = i \/ (Owner[SeatOf[j]] = i /\ Seated(seat, j))}
           e == [do |-> "seat", item |-> new, seat |-> p]
           A == IF onFit /\ old # None THEN ForEach(Subitems(old), "unload", "removed")
                ELSE <<>>
           B == IF onFit /\ new # None THEN ForEach(Subitems(new), "added", "load")
                ELSE <<>>
           st == [seat EXCEPT ![p] = new]
<1>1. /\ Idle /\ new # old /\ (new # None => SeatOf[new] = p)
      /\ agenda' = A \o <<e>> \o B
      /\ UNCHANGED <<source, seat, running, override, values, registers, python>>
  BY DEF Assign
<1>2. /\ e \in Entries /\ Switches(e) /\ e.do = "seat" /\ e.item = new /\ e.seat = p
      /\ SeatAfter(e) = st /\ After(e) = LoadedIn(st, source) /\ Stay(e) = Loaded \cap After(e)
  BY DEF Entries, Switches, SeatAfter, After, Stay
<1>3. /\ seat \in [Seats -> Items \cup {None}] /\ old \in Items \cup {None}
      /\ old # None => SeatOf[old] = p
  BY DEF AttrInv, Typed
<1>4. /\ st \in [Seats -> Items \cup {None}] /\ st[p] = new
      /\ \A q \in Seats : q # p => st[q] = seat[q]
  BY <1>3
<1>5. ASSUME NEW i \in Items
      PROVE  /\ Subitems(i) \in Seq(Items) /\ Once(Subitems(i))
             /\ \A j : j \in With(i) <=> \E k \in 1..Len(Subitems(i)) : Subitems(i)[k] = j
  <2> DEFINE I == With(i)
  <2>1. I \in SUBSET Items /\ Subitems(i) = InOrder(I)
    BY DEF Subitems
  <2> HIDE DEF I
  <2>2. /\ InOrder(I) \in Seq(Items) /\ Once(InOrder(I))
        /\ \A j : j \in I <=> \E k \in 1..Len(InOrder(I)) : InOrder(I)[k] = j
    BY <2>1, InOrderIs
  <2> QED BY <2>1, <2>2 DEF I
<1> HIDE DEF e, st, old, onFit
<1>6. /\ A \in Seq(Entries) /\ InTurn(A)
      /\ \A a \in Of(A) : a.do \in {"unload", "removed"} /\ old # None /\ a.item \in With(old)
      /\ onFit /\ old # None => \A j \in With(old) : Due(Of(A), "unload", j)
  <2>1. CASE onFit /\ old # None
    <3> DEFINE is == Subitems(old)
               q == ForEach(is, "unload", "removed")
    <3>1. /\ is \in Seq(Items) /\ Once(is)
          /\ \A j : j \in With(old) <=> \E k \in 1..Len(is) : is[k] = j
      BY <1>3, <1>5, <2>1
    <3> HIDE DEF is
    <3>2. /\ q \in Seq(Entries) /\ InTurn(q)
          /\ \A c \in Of(q) : c.do \in {"unload", "removed"} /\ \E j \in 1..Len(is) : c.item = is[j]
          /\ \A j \in 1..Len(is) : Due(Of(q), "unload", is[j])
      BY <3>1, ForEachIs
    <3>3. A = q
      BY <2>1 DEF is
    <3> HIDE DEF q, A
    <3>4. \A c \in Of(q) : c.item \in With(old)
      BY <3>1, <3>2
    <3>5. \A j \in With(old) : Due(Of(q), "unload", j)
      BY <3>1, <3>2
    <3> QED BY <2>1, <3>2, <3>3, <3>4, <3>5
  <2>2. CASE ~(onFit /\ old # None)
    BY <2>2, NothingLeft
  <2> QED BY <2>1, <2>2
<1>7. /\ B \in Seq(Entries) /\ InTurn(B)
      /\ \A b \in Of(B) : b.do \in {"load", "added"} /\ onFit /\ new # None /\ b.item \in With(new)
      /\ onFit /\ new # None => \A j \in With(new) : Due(Of(B), "load", j)
  <2>1. CASE onFit /\ new # None
    <3> DEFINE is == Subitems(new)
               q == ForEach(is, "added", "load")
    <3>1. /\ is \in Seq(Items) /\ Once(is)
          /\ \A j : j \in With(new) <=> \E k \in 1..Len(is) : is[k] = j
      BY <1>5, <2>1
    <3> HIDE DEF is
    <3>2. /\ q \in Seq(Entries) /\ InTurn(q)
          /\ \A c \in Of(q) : c.do \in {"added", "load"} /\ \E j \in 1..Len(is) : c.item = is[j]
          /\ \A j \in 1..Len(is) : Due(Of(q), "load", is[j])
      BY <3>1, ForEachIs
    <3>3. B = q
      BY <2>1 DEF is
    <3> HIDE DEF q, B
    <3>4. \A c \in Of(q) : c.item \in With(new)
      BY <3>1, <3>2
    <3>5. \A j \in With(new) : Due(Of(q), "load", j)
      BY <3>1, <3>2
    <3> QED BY <2>1, <3>2, <3>3, <3>4, <3>5
  <2>2. CASE ~(onFit /\ new # None)
    BY <2>2, NothingLeft
  <2> QED BY <2>1, <2>2
<1> HIDE DEF A, B
<1>8. ASSUME NEW i \in Loaded \ Stay(e)
      PROVE  Due(Of(A), "unload", i)
  <2>1. i \in Items /\ OnFit(seat, i) /\ ~OnFit(st, i)
    BY <1>2 DEF Loaded, LoadedIn
  <2>2. /\ i = seat[p] \/ (Owner[SeatOf[i]] = seat[p] /\ Seated(seat, i))
        /\ seat[p] # None /\ (Owner[p] # None => Seated(seat, Owner[p]))
    BY <1>3, <1>4, <2>1, OneSeat
  <2> QED BY <1>6, <2>1, <2>2 DEF old, onFit
<1>9. ASSUME NEW i \in After(e) \ Stay(e)
      PROVE  Due(Of(B), "load", i)
  <2>1. i \in Items /\ OnFit(st, i) /\ ~OnFit(seat, i)
    BY <1>2 DEF Loaded, LoadedIn
  <2>2. /\ i = st[p] \/ (Owner[SeatOf[i]] = st[p] /\ Seated(seat, i))
        /\ st[p] # None /\ (Owner[p] # None => Seated(seat, Owner[p]))
    BY <1>3, <1>4, <2>1, OneSeat
  <2> QED BY <1>4, <1>7, <2>1, <2>2 DEF onFit
<1>10. \A a \in Of(A) : a.item \notin Stay(e)
  <2> SUFFICES ASSUME NEW a \in Of(A) PROVE a.item \notin Stay(e)
    OBVIOUS
  <2>1. /\ a.item \in Items /\ old \in Items /\ SeatOf[old] = p
        /\ a.item = old \/ (Owner[SeatOf[a.item]] = old /\ Seated(seat, a.item))
    BY <1>3, <1>6
  <2>2. seat[p] = old /\ st[p] # old
    BY <1>1, <1>4 DEF old
  <2>3. ~OnFit(st, a.item)
    BY <1>3, <1>4, <2>1, <2>2, WithCharge
  <2> QED BY <1>2, <2>3 DEF LoadedIn
<1>11. \A b \in Of(B) : OnFit(SeatAfter(e), b.item) /\ b.item \notin Stay(e)
  <2> SUFFICES ASSUME NEW b \in Of(B) PROVE OnFit(st, b.item) /\ b.item \notin Stay(e)
    BY <1>2
  <2>1. /\ b.item \in Items /\ new \in Items /\ SeatOf[new] = p
        /\ b.item = new \/ (Owner[SeatOf[b.item]] = new /\ Seated(seat, b.item))
        /\ Owner[p] # None => Seated(seat, Owner[p])
    BY <1>1, <1>7 DEF onFit
  <2>2. st[p] = new /\ seat[p] # new
    BY <1>1, <1>4 DEF old
  <2>3. OnFit(st, b.item) /\ ~OnFit(seat, b.item)
    BY <1>3, <1>4, <2>1, <2>2, WithCharge
  <2> QED BY <1>2, <2>3 DEF Loaded
<1>12. e.item # seat[e.seat] /\ (e.item # None => SeatOf[e.item] = e.seat)
  BY <1>1, <1>2 DEF old
<1>13. /\ \A a \in Of(A) : a.do \in {"unload", "removed"}
       /\ \A b \in Of(B) : b.do \in {"load", "added"}
  BY <1>6, <1>7
<1>14. /\ \A i \in Loaded \ Stay(e) : Due(Of(A), "unload", i)
       /\ \A i \in After(e) \ Stay(e) : Due(Of(B), "load", i)
  BY <1>8, <1>9
<1> QED BY <1>1, <1>2, <1>6, <1>7, <1>10, <1>11, <1>12, <1>13, <1>14, Begins

\* A call that changes what an item runs keeps the invariant.
LEMMA RunningStep ==
  ASSUME AttrInv, NEW i \in Items, NEW E \in SUBSET EffectsOf[i], SetRunning(i, E)
  PROVE  AttrInv'
<1> DEFINE start == E \ running[i]
           stop == running[i] \ E
           a == Effects_("started", i, start)
           b == Effects_("stopped", i, stop)
           p == IF start = {} THEN <<>> ELSE <<a>>
           q == IF stop = {} THEN <<>> ELSE <<b>>
           R == Of(agenda)
           S == Of(agenda')
<1>1. /\ agenda = <<>> /\ i \in affectees /\ agenda' = p \o q
      /\ running' = [running EXCEPT ![i] = E]
      /\ UNCHANGED <<source, seat, override, cache, capped, registers, listeners, hears>>
      /\ affectees' = affectees
  BY DEF SetRunning, Idle, values, python, registers
<1>2. R = {} /\ Typed /\ Presence(R) /\ Runs(R)
      /\ Stored(InForce(R, running), seat, affectees, awaiting, active, other, mass)
  BY <1>1, NothingLeft DEF AttrInv
<1>3. EffectsOf[i] \subseteq Effects /\ running[i] \subseteq EffectsOf[i]
  BY <1>2, ModelAssumption DEF ModelAssumption, Runs
<1>4. /\ a \in Entries /\ a.do = "started" /\ a.item = i /\ a.effects = start
      /\ b \in Entries /\ b.do = "stopped" /\ b.item = i /\ b.effects = stop
  BY <1>3 DEF Effects_, Entries
<1>5. \A j \in Items : running'[j] = IF j = i THEN E ELSE running[j]
  BY <1>1, <1>2 DEF Typed
<1> HIDE DEF a, b
<1>6. p \in Seq(Entries) /\ InTurn(p) /\ Of(p) = IF start = {} THEN {} ELSE {a}
  BY <1>4, NothingLeft, OneLeft
<1>7. q \in Seq(Entries) /\ InTurn(q) /\ Of(q) = IF stop = {} THEN {} ELSE {b}
  BY <1>4, NothingLeft, OneLeft
<1> HIDE DEF p, q
<1>8. agenda' \in Seq(Entries) /\ InTurn(agenda') /\ S = Of(p) \cup Of(q)
  <2>1. \A c \in Of(p), d \in Of(q) : Before(c, d)
    BY <1>4, <1>6, <1>7 DEF Before, Rank
  <2> DEFINE D == p \o q
  <2>2. D \in Seq(Entries) /\ InTurn(D) /\ Of(D) = Of(p) \cup Of(q)
    BY <1>6, <1>7, <2>1, Joined
  <2>3. agenda' = D
    BY <1>1
  <2> HIDE DEF D
  <2> QED BY <2>2, <2>3
<1> HIDE DEF R, S
<1>9. \A c \in S : \/ c = a /\ start # {} /\ a \in S
                   \/ c = b /\ stop # {} /\ b \in S
  BY <1>6, <1>7, <1>8
<1>10. (start # {} => a \in S) /\ (stop # {} => b \in S)
  BY <1>6, <1>7, <1>8
<1> HIDE DEF start, stop
<1>11. Presence(Of(agenda))'
  <2>1. \A c : c.do \in Major => (c \in S <=> c \in R)
    BY <1>2, <1>4, <1>9 DEF Major
  <2> QED BY <1>1, <1>2, <2>1, PresenceKept DEF R, S
<1>12. Runs(Of(agenda))'
  <2>1. \A j \in Items : running'[j] \subseteq EffectsOf[j]
    BY <1>2, <1>5 DEF Runs
  <2>2. \A c \in S : /\ c.do \in {"started", "stopped"} => c.effects \subseteq EffectsOf[c.item]
                     /\ c.do = "started" => c.effects \subseteq running'[c.item]
                     /\ c.do = "stopped" => c.effects \cap running'[c.item] = {}
                     /\ c.do # "unloaded"
    BY <1>3, <1>4, <1>5, <1>9 DEF start, stop
  <2>3. \A j \in Items : running'[j] # {} => j \in affectees
    BY <1>1, <1>2, <1>5 DEF Runs, Due
  <2> QED BY <1>1, <2>1, <2>2, <2>3 DEF Runs, S
<1>13. InForce(S, running') = InForce(R, running)
  <2>1. ASSUME NEW j \in Items
        PROVE  Told(S, running', j) = Told(R, running, j)
    <3>1. Told(R, running, j) = running[j]
      BY <1>2, ToldRuns
    <3>2. CASE j # i
      <4>1. \A c \in S : c.item # j
        BY <1>4, <1>9, <3>2
      <4> QED BY <1>5, <3>1, <3>2, <4>1 DEF Told
    <3>3. CASE j = i
      <4>1. {c \in S : c.do = "stopped" /\ c.item = j} = IF stop = {} THEN {} ELSE {b}
        BY <1>4, <1>9, <1>10, <3>3
      <4>2. UNION {c.effects : c \in {d \in S : d.do = "stopped" /\ d.item = j}} = stop
        BY <1>4, <4>1
      <4>3. {d \in E : ~ \E c \in S : c.do = "started" /\ c.item = j /\ d \in c.effects}
            = E \ start
        <5>1. ASSUME NEW d
              PROVE  (\E c \in S : c.do = "started" /\ c.item = j /\ d \in c.effects) <=> d \in start
          BY <1>4, <1>9, <1>10, <3>3
        <5> QED BY <5>1
      <4>4. Told(S, running', j) = (E \ start) \cup stop
        BY <1>5, <3>3, <4>2, <4>3 DEF Told
      <4> QED BY <3>1, <3>3, <4>4 DEF start, stop
    <3> QED BY <3>2, <3>3
  <2> QED BY <2>1, ForceSame
<1>14. Stored(InForce(Of(agenda), running), seat, affectees, awaiting, active, other, mass)'
  BY <1>1, <1>2, <1>13 DEF R, S, registers
<1>15. Typed'
  <2>1. running' \in [Items -> SUBSET Effects]
    BY <1>1, <1>2, <1>3 DEF Typed
  <2> QED BY <1>1, <1>2, <1>8, <2>1 DEF Typed
<1> QED BY <1>8, <1>11, <1>12, <1>14, <1>15 DEF AttrInv
-----------------------------------------------------------------------------
\* With nothing loaded the registers are empty.
LEMMA AttrInit == Init => AttrInv
<1> SUFFICES ASSUME Init PROVE AttrInv
  OBVIOUS
<1> DEFINE R == Of(agenda)
<1>1. R = {} /\ agenda \in Seq(Entries) /\ InTurn(agenda)
  BY NothingLeft DEF Init
<1> HIDE DEF R
<1>2. Loaded = {}
  BY DEF Init, Loaded
<1>3. Typed
  BY <1>1 DEF Typed, Init
<1>4. Presence(R) /\ Runs(R)
  BY <1>1, <1>2 DEF Presence, AfterSwitch, Runs, Init
<1>5. InForce(R, running) = {}
  <2>1. \A i \in Items : Told(R, running, i) = {}
    BY <1>1 DEF Told, Init
  <2> QED BY <2>1 DEF InForce, LocalSpecs
<1>6. Stored(InForce(R, running), seat, affectees, awaiting, active, other, mass)
  BY <1>5 DEF Stored, WaitingIn, ActingIn, Filtered, Init
<1> QED BY <1>1, <1>3, <1>4, <1>6 DEF AttrInv, R

\* Every step of a call keeps the invariant.
LEMMA DeliverStep ==
  ASSUME AttrInv, Deliver
  PROVE  AttrInv'
BY LoadStep, UnloadStep, ClearStep, SetSeatStep, SetSourceStep, LoadedStep, UnloadedStep,
   StartedStep, StoppedStep, ChangedStep, ReviseStep DEF Deliver

\* The invariant is kept by whatever the user does and by every step of what
\* follows from it.
THEOREM AttrInductive == AttrInv /\ [Next]_vars => AttrInv'
<1> SUFFICES ASSUME AttrInv, [Next]_vars PROVE AttrInv'
  OBVIOUS
<1>1. CASE Deliver
  BY <1>1, DeliverStep
<1>2. CASE \E p \in Seats, new \in Items \cup {None} : Assign(p, new)
  BY <1>2, AssignStep
<1>3. CASE \E s \in Sources \cup {None} : SetSource(s)
  BY <1>3, SourceStep
<1>4. CASE \E i \in Items : \E effects \in SUBSET EffectsOf[i] : SetRunning(i, effects)
  BY <1>4, RunningStep
<1>5. CASE \E c \in Overridden : DelOverride(c) \/ \E v \in Callbacks : SetOverride(c, v)
  BY <1>5, OverrideStep
<1>6. CASE \E c \in Cells : Read(c)
  BY <1>6, ReadStep
<1>7. CASE UNCHANGED vars
  <2>1. /\ UNCHANGED <<source, seat, running, override, cache, capped>>
        /\ UNCHANGED <<affectees, awaiting, active, other, mass, listeners, hears, agenda>>
    BY <1>7 DEF vars, registers, python, values
  <2>2. Typed'
    BY <2>1 DEF AttrInv, Typed
  <2>3. Of(agenda') = Of(agenda) /\ UNCHANGED <<source, seat, running, registers>>
    BY <2>1 DEF registers
  <2>4. /\ Presence(Of(agenda))' /\ Runs(Of(agenda))'
        /\ Stored(InForce(Of(agenda), running), seat, affectees, awaiting, active, other, mass)'
    BY <2>3, Quiet
  <2>5. InTurn(agenda')
    BY <2>1 DEF AttrInv
  <2> QED BY <2>2, <2>4, <2>5 DEF AttrInv
<1> QED BY <1>1, <1>2, <1>3, <1>4, <1>5, <1>6, <1>7 DEF Next

\* Throughout, every message on its way is about items that it can be about,
\* and the registers are behind what runs by exactly these messages.
THEOREM AttrInvariance == Spec => []AttrInv
BY AttrInit, AttrInductive, PTL DEF Spec

\* The invariant gives the types.
LEMMA AttrTypes == AttrInv => TypeOK
<1> SUFFICES ASSUME AttrInv PROVE TypeOK
  OBVIOUS
<1> DEFINE F == InForce(Of(agenda), running)
<1>1. Typed /\ affectees \subseteq Items
  BY DEF AttrInv, Presence, Loaded
<1>2. F \subseteq Specs
  BY ForceSpecs DEF AttrInv
<1>3. Stored(F, seat, affectees, awaiting, active, other, mass)
  BY DEF AttrInv
<1> HIDE DEF F
<1>4. awaiting \cup other \cup mass \subseteq Specs /\ active \subseteq affectees \X Specs
  BY <1>2, <1>3 DEF Stored, WaitingIn, ActingIn, Filtered
<1> QED BY <1>1, <1>4 DEF Typed, TypeOK

\* When a call has been done with, an item is an affectee if it is loaded on a
\* fit, and the register finds for it the specs of running effects of loaded
\* items that are meant for it, and no others.
LEMMA AttrRegisters == AttrInv => RegistersTrue
<1> SUFFICES ASSUME AttrInv, Idle PROVE RegistersTrue
  BY DEF RegistersTrue
<1> DEFINE R == Of(agenda)
           F == InForce(R, running)
           inForce == UNION {LocalSpecs(i, running[i]) : i \in Loaded}
<1>1. R = {} /\ Presence(R) /\ Runs(R)
  BY NothingLeft DEF AttrInv, Idle
<1>2. Stored(F, seat, affectees, awaiting, active, other, mass) /\ F \subseteq Specs
  BY <1>1, ForceSpecs DEF AttrInv
<1> HIDE DEF R
<1>3. affectees = Loaded
  BY <1>1 DEF Presence, AfterSwitch, Due
<1>4. F = inForce
  <2>1. \A i \in Items : Told(R, running, i) = running[i]
    BY <1>1, ToldRuns
  <2>2. F = UNION {LocalSpecs(i, running[i]) : i \in Items}
    BY <2>1 DEF InForce
  <2>3. \A i \in Items : i \notin Loaded => LocalSpecs(i, running[i]) = {}
    BY <1>1, <1>3 DEF Runs, Due, LocalSpecs
  <2>4. Loaded \subseteq Items
    BY DEF Loaded
  <2> DEFINE G(i) == LocalSpecs(i, running[i])
  <2> HIDE DEF G
  <2>5. UNION {G(i) : i \in Items} = UNION {G(i) : i \in Loaded}
    BY <2>3, <2>4 DEF G
  <2> QED BY <2>2, <2>5 DEF G
<1> HIDE DEF F, inForce
<1>5. \A s \in F : s.mod.filter \in Filters
  BY <1>2, SpecTyped
<1>6. \A i \in Loaded : AffectorSpecs(i) = {s \in F : Affects(seat, s, i)}
  <2> SUFFICES ASSUME NEW i \in Loaded, NEW s
               PROVE  s \in AffectorSpecs(i) <=> s \in F /\ Affects(seat, s, i)
    OBVIOUS
  <2>1. s \in AffectorSpecs(i) <=> <<i, s>> \in active \/ (s \in mass /\ InMass(s, i))
    <3>1. active \subseteq affectees \X F
      BY <1>2, Acts DEF Stored
    <3>2. s \in {p[2] : p \in {q \in active : q[1] = i}} <=> <<i, s>> \in active
      BY <3>1
    <3> QED BY <3>2 DEF AffectorSpecs
  <2>2. s \in mass <=> s \in F /\ s.mod.filter = "mass"
    BY <1>2 DEF Stored, Filtered
  <2>3. <<i, s>> \in active <=>
          /\ s \in F
          /\ \/ s.mod.filter \in Single /\ i = Target(seat, s)
             \/ s.mod.filter = "other" /\ i \in Others(seat, s.item)
    <3> DEFINE p == <<i, s>>
    <3>1. p[1] = i /\ p[2] = s /\ (p \in affectees \X F <=> s \in F)
      BY <1>3
    <3> HIDE DEF p
    <3>2. p \in active <=>
           /\ p \in affectees \X F
           /\ \/ p[2].mod.filter \in Single /\ p[1] = Target(seat, p[2])
              \/ p[2].mod.filter = "other" /\ p[1] \in Others(seat, p[2].item)
      BY <1>2, Acts DEF Stored
    <3> QED BY <3>1, <3>2 DEF p
  <2>4. s \in F => (Affects(seat, s, i) <=>
          \/ s.mod.filter = "mass" /\ InMass(s, i)
          \/ s.mod.filter \in Single /\ i = Target(seat, s)
          \/ s.mod.filter = "other" /\ i \in Others(seat, s.item))
    BY <1>5 DEF Filters, Single, Affects
  <2> QED BY <2>1, <2>2, <2>3, <2>4
<1>7. awaiting = {s \in F : /\ s.mod.filter \in Single
                            /\ ~ \E i \in Loaded : Affects(seat, s, i)}
  <2>1. ASSUME NEW s \in F, s.mod.filter \in Single
        PROVE  Target(seat, s) \notin affectees <=> ~ \E i \in Loaded : Affects(seat, s, i)
    BY <1>3, <2>1 DEF Single, Affects
  <2> QED BY <1>2, <2>1 DEF Stored, WaitingIn
<1>8. other = Filtered(F, "other") /\ mass = Filtered(F, "mass")
  BY <1>2 DEF Stored
<1> QED BY <1>3, <1>4, <1>6, <1>7, <1>8 DEF RegistersTrue, inForce

\* Every variable of the calculator keeps its type, and its registers hold
\* specs of effects of known items only.
THEOREM TypesHold == Spec => []TypeOK
BY AttrInvariance, AttrTypes, PTL

\* The affection register holds what the contents of the fits say, whatever
\* came and went before.
THEOREM RegistersHold == Spec => []RegistersTrue
BY AttrInvariance, AttrRegisters, PTL
-----------------------------------------------------------------------------
(* Kept values. *)

Left == Of(agenda)

\* The specs the registers hold.
Forced == awaiting \cup {p[2] : p \in active} \cup other \cup mass

\* The specs whose revise_modification says yes to changed cells, and to an
\* item added or removed.
Revised(cells) ==
  {s \in Specs :
     /\ <<"changed", s>> \in listeners
     /\ \/ <<s.item, s.mod.from>> \in cells
        \/ /\ s.mod.kind = "propulsion"
           /\ <<Ship(seat, FitOf[s.item]), Mass>> \in cells}
Restocked(type, i) ==
  {s \in Specs :
     /\ <<type, s>> \in listeners
     /\ <<FitOf[i], type>> \in hears
     /\ Owner[SeatOf[i]] = s.item /\ Seated(seat, i) /\ i \in Paste}

\* The entry e will have cell c dropped.
Reaches(e, c) ==
  \/ /\ e.do = "changed"
     /\ c \in Dependents(e.cells) \/ c \in AffectedBy(Revised(e.cells))
  \/ e.do = "revise" /\ c \in AffectedBy(Revised(e.cells))
  \/ e.do = "stopped" /\ c \in AffectedBy(LocalSpecs(e.item, e.effects))
  \/ /\ e.do = "added" /\ c \in AffectedBy(Restocked("added", e.item))
     /\ \A d \in Left : ~Switches(d)

\* The value kept for cell c is what calculating it now would give, from
\* values that are all there.
ReadsOf(c) == Reads(seat, AffectorSpecs(c[1]), c)
Right(c) ==
  /\ \A d \in ReadsOf(c) : d \in DOMAIN cache \cup DOMAIN override
  /\ cache[c] = Calculated(seat, AffectorSpecs(c[1]), c, [d \in ReadsOf(c) |-> Exposed(d)])
  /\ \A d \in CapOf(c) : <<c[1], d[2], c[2]>> \in capped

\* Every value kept is right or about to be dropped.
Keeping ==
  \A c \in DOMAIN cache :
    /\ c[1] \in affectees => Right(c) \/ \E e \in Left : Reaches(e, c)
    /\ c[1] \notin affectees => Due(Left, "clear", c[1])

\* The service hears for the specs it knows of, where they are.
Listening ==
  /\ listeners = Wishes(Forced)
  /\ hears = {<<FitOf[w[2].item], w[1]>> : w \in {v \in listeners : v[1] # "changed"}}

\* Values are cleared when their item leaves, before anything new arrives.
Clearing ==
  /\ \A d, e \in Left : d.do = "loaded" => e.do # "clear"
  /\ \A d \in Left : d.do = "unloaded" => Due(Left, "clear", d.item)
  /\ \A d \in Left : d.do = "clear" => d.item \notin affectees \/ Due(Left, "unloaded", d.item)

\* Paste that comes or goes with an assignment is reported.
Pasting ==
  \A e \in Left : e.do = "seat" /\ Owner[e.seat] \in affectees =>
    /\ e.item \in Paste => Due(Left, "added", e.item)
    /\ seat[e.seat] \in Paste =>
         \/ Due(Left, "removed", seat[e.seat])
         \/ \A s \in Forced : s.item = Owner[e.seat] /\ s.mod.kind = "ancillary" =>
              <<s.item, s.mod.attr>> \notin DOMAIN cache

\* The inductive invariant of values
ValueInv == Keeping /\ Listening /\ Clearing /\ Pasting
-----------------------------------------------------------------------------
\* Specs are stored somewhere, and nothing else is.
LEMMA Holds ==
  ASSUME NEW F \in SUBSET Specs, NEW st, NEW A, NEW aw, NEW ac, NEW ot, NEW ms,
         Stored(F, st, A, aw, ac, ot, ms)
  PROVE  aw \cup {p[2] : p \in ac} \cup ot \cup ms = F
<1> DEFINE H == aw \cup {p[2] : p \in ac} \cup ot \cup ms
<1>1. ASSUME NEW s \in H
      PROVE  s \in F
  <2>1. CASE s \in aw
    BY <2>1, Waits DEF Stored
  <2>2. CASE s \in {p[2] : p \in ac}
    <3>1. PICK p \in ac : s = p[2]
      BY <2>2
    <3> QED BY <3>1, Acts DEF Stored
  <2>3. CASE s \in ot \cup ms
    BY <2>3 DEF Stored, Filtered
  <2> QED BY <2>1, <2>2, <2>3
<1>2. ASSUME NEW s \in F
      PROVE  s \in H
  <2>1. s.mod.filter \in Filters
    BY SpecTyped
  <2>2. CASE s.mod.filter \in Single /\ Target(st, s) \notin A
    BY <2>2, Waits DEF Stored
  <2>3. CASE s.mod.filter \in Single /\ Target(st, s) \in A
    <3> DEFINE p == <<Target(st, s), s>>
    <3>1. p \in A \X F /\ p[1] = Target(st, s) /\ p[2] = s
      BY <2>3
    <3>2. p \in ac
      BY <2>3, <3>1, Acts DEF Stored
    <3> QED BY <3>1, <3>2
  <2>4. CASE s.mod.filter \in {"other", "mass"}
    BY <2>4 DEF Stored, Filtered
  <2> QED BY <2>1, <2>2, <2>3, <2>4 DEF Filters, Single
<1> QED BY <1>1, <1>2

\* The specs the registers hold are those in force.
LEMMA ForcedIs ==
  ASSUME AttrInv
  PROVE  Forced = InForce(Left, running) /\ Forced \subseteq Specs
<1> DEFINE F == InForce(Left, running)
<1>1. Stored(F, seat, affectees, awaiting, active, other, mass) /\ Runs(Left)
  BY DEF AttrInv, Left
<1>2. F \in SUBSET Specs
  BY <1>1, ForceSpecs
<1> HIDE DEF F
<1> QED BY <1>1, <1>2, Holds DEF F, Forced

\* The registers find for an affectee the specs in force that are meant for it.
LEMMA AffectorsAre ==
  ASSUME AttrInv
  PROVE  \A j \in affectees : AffectorSpecs(j) = {s \in Forced : Affects(seat, s, j)}
<1> DEFINE F == InForce(Left, running)
<1>1. Stored(F, seat, affectees, awaiting, active, other, mass)
  BY DEF AttrInv, Left
<1>2. Forced = F /\ F \subseteq Specs
  BY ForcedIs
<1> HIDE DEF F
<1> SUFFICES ASSUME NEW j \in affectees
             PROVE  AffectorSpecs(j) = {s \in F : Affects(seat, s, j)}
  BY <1>2
<1>3. ASSUME NEW s \in AffectorSpecs(j)
      PROVE  s \in F /\ Affects(seat, s, j)
  <2>1. CASE \E p \in active : p[1] = j /\ p[2] = s
    <3>1. PICK p \in active : p[1] = j /\ p[2] = s
      BY <2>1
    <3>2. /\ s \in F
          /\ \/ s.mod.filter \in Single /\ j = Target(seat, s)
             \/ s.mod.filter = "other" /\ j \in Others(seat, s.item)
      BY <1>1, <3>1, Acts DEF Stored
    <3> QED BY <3>2 DEF Affects, Single
  <2>2. CASE s \in mass /\ InMass(s, j)
    BY <1>1, <2>2 DEF Stored, Filtered, Affects
  <2> QED BY <1>3, <2>1, <2>2 DEF AffectorSpecs
<1>4. ASSUME NEW s \in F, Affects(seat, s, j)
      PROVE  s \in AffectorSpecs(j)
  <2>1. s.mod.filter \in Filters
    BY <1>2, SpecTyped
  <2>2. CASE s.mod.filter = "mass"
    BY <1>1, <1>4, <2>2 DEF Stored, Filtered, Affects, AffectorSpecs
  <2>3. CASE s.mod.filter # "mass"
    <3> DEFINE p == <<j, s>>
    <3>1. p \in affectees \X F /\ p[1] = j /\ p[2] = s
      OBVIOUS
    <3>2. \/ s.mod.filter \in Single /\ j = Target(seat, s)
          \/ s.mod.filter = "other" /\ j \in Others(seat, s.item)
      BY <1>4, <2>1, <2>3 DEF Affects, Single, Filters
    <3>3. p \in active
      BY <1>1, <3>1, <3>2, Acts DEF Stored
    <3> QED BY <3>1, <3>3 DEF AffectorSpecs
  <2> QED BY <2>2, <2>3
<1> QED BY <1>3, <1>4

\* A spec that acts on an affectee finds it, as LocalAffectees does.
LEMMA Finds ==
  ASSUME NEW s \in Specs, NEW j \in affectees
  PROVE  Affects(seat, s, j) <=> j \in LocalAffectees(s)
<1>1. s.mod.filter \in Filters
  BY SpecTyped
<1>2. CASE s.mod.filter = "self"
  BY <1>2 DEF Affects, LocalAffectees, Target
<1>3. CASE s.mod.filter \in {"ship", "character"}
  BY <1>3 DEF Affects, LocalAffectees
<1>4. CASE s.mod.filter = "other"
  BY <1>4 DEF Affects, LocalAffectees
<1>5. CASE s.mod.filter = "mass"
  BY <1>5 DEF Affects, LocalAffectees
<1> QED BY <1>1, <1>2, <1>3, <1>4, <1>5 DEF Filters

\* A cell is affected by specs if one of them acts on its item.
LEMMA Hits ==
  ASSUME NEW S, NEW c
  PROVE  c \in AffectedBy(S) <=>
           \E s \in S : \E j \in LocalAffectees(s) : c = <<j, s.mod.attr>>
BY DEF AffectedBy

\* A cell is a pair.
LEMMA CellIs ==
  ASSUME AttrInv, NEW c \in DOMAIN cache
  PROVE  c \in Cells /\ c[1] \in Items /\ c[2] \in Attrs /\ c = <<c[1], c[2]>>
<1>1. Cells \subseteq Items \X Attrs
  BY ModelAssumption DEF ModelAssumption
<1>2. c \in Cells
  BY DEF AttrInv, Typed
<1> QED BY <1>1, <1>2

\* The cells a kept value is modified in are among those its specs affect.
LEMMA Modified ==
  ASSUME AttrInv, NEW c \in DOMAIN cache, c[1] \in affectees,
         NEW s \in AffectorSpecs(c[1]), s.mod.attr = c[2]
  PROVE  /\ s \in Forced /\ s \in Specs /\ Affects(seat, s, c[1])
         /\ \A S : s \in S => c \in AffectedBy(S)
<1>1. s \in Forced /\ s \in Specs /\ Affects(seat, s, c[1])
  BY AffectorsAre, ForcedIs
<1>2. c[1] \in LocalAffectees(s) /\ c = <<c[1], s.mod.attr>>
  BY <1>1, Finds, CellIs
<1> QED BY <1>1, <1>2, Hits

\* What a modification of a kept value reads.
LEMMA ReadBy ==
  ASSUME NEW c, NEW d \in ReadsOf(c)
  PROVE  \/ d \in CapOf(c)
         \/ \E s \in Modifying(seat, AffectorSpecs(c[1]), c[2]) : d \in ModReads(seat, s)
BY DEF ReadsOf, Reads

\* What a modifier reads: its own attribute, or the mass of the ship.
LEMMA ReadIs ==
  ASSUME NEW s \in Specs, NEW d \in ModReads(seat, s)
  PROVE  \/ d = <<s.item, s.mod.from>>
         \/ s.mod.kind = "propulsion" /\ d = <<Ship(seat, FitOf[s.item]), Mass>>
<1>1. s.mod.kind \in {"dogma", "propulsion", "ancillary"}
  BY SpecTyped DEF Modifier
<1>2. CASE s.mod.kind = "dogma"
  BY <1>2 DEF ModReads
<1>3. CASE s.mod.kind = "propulsion"
  BY <1>3 DEF ModReads
<1>4. CASE s.mod.kind = "ancillary"
  BY <1>4 DEF ModReads
<1> QED BY <1>1, <1>2, <1>3, <1>4

\* The python modifiers act where the code has them act.
LEMMA PythonActs ==
  ASSUME NEW s \in Specs
  PROVE  /\ s.mod.kind = "propulsion" => s.mod.filter = "ship"
         /\ s.mod.kind = "ancillary" => s.mod.filter = "self"
<1>1. PICK i \in Items : s \in LocalSpecs(i, EffectsOf[i])
  BY DEF Specs
<1>2. PICK e \in EffectsOf[i] : s.mod \in Modifiers[e]
  BY <1>1 DEF LocalSpecs
<1>3. e \in Effects
  BY ModelAssumption DEF ModelAssumption
<1> QED BY <1>2, <1>3, ModelAssumption DEF ModelAssumption

\* What calculates c from d is found when d changes: by the record of caps, by
\* the running effects, by the python modifiers, or it stops anyway.
Depends(c, cells) ==
  \/ c \in Dependents(cells) \/ c \in AffectedBy(Revised(cells))
  \/ \E e \in Left : e.do = "stopped" /\ c \in AffectedBy(LocalSpecs(e.item, e.effects))
Capped(c) == \A d \in CapOf(c) : <<c[1], d[2], c[2]>> \in capped
Followed ==
  \A c \in DOMAIN cache : \A cells : \A d \in ReadsOf(c) :
    c[1] \in affectees /\ Capped(c) /\ d \in cells => Depends(c, cells)

\* Dependents include what a changed value caps, and what the running effects
\* of a changed item modify.
LEMMA DependsOnCap ==
  ASSUME NEW c, NEW cells, NEW d \in CapOf(c), d \in cells, Capped(c),
         c = <<c[1], c[2]>>, d = <<d[1], d[2]>>
  PROVE  c \in Dependents(cells)
<1> DEFINE u == <<c[1], d[2], c[2]>>
<1>1. u \in capped
  BY DEF Capped
<1>2. d[1] = c[1]
  BY DEF CapOf
<1>3. <<u[1], u[2]>> = d /\ <<u[1], u[3]>> = c
  BY <1>2
<1> HIDE DEF u
<1>4. u \in {v \in capped : <<v[1], v[2]>> \in cells}
  BY <1>1, <1>3
<1> QED BY <1>3, <1>4 DEF Dependents

LEMMA DependsOnRunning ==
  ASSUME NEW c, NEW cells, NEW s, s.mod.kind = "dogma",
         <<s.item, s.mod.from>> \in cells, s \in LocalSpecs(s.item, running[s.item]),
         \A S : s \in S => c \in AffectedBy(S)
  PROVE  c \in Dependents(cells)
<1> DEFINE D == {t \in UNION {LocalSpecs(x[1], running[x[1]]) : x \in cells} :
                   t.mod.kind = "dogma" /\ <<t.item, t.mod.from>> \in cells}
           y == <<s.item, s.mod.from>>
<1>1. y \in cells /\ y[1] = s.item
  OBVIOUS
<1> HIDE DEF y
<1>2. s \in UNION {LocalSpecs(x[1], running[x[1]]) : x \in cells}
  BY <1>1
<1>3. s \in D
  BY <1>2
<1> HIDE DEF D
<1>4. c \in AffectedBy(D)
  BY <1>3
<1> QED BY <1>4 DEF Dependents, D

\* What the service knows of is running, or about to be stopped.
LEMMA ForcedRuns ==
  ASSUME AttrInv, NEW s \in Forced
  PROVE  /\ s.item \in Items
         /\ \/ s \in LocalSpecs(s.item, running[s.item])
            \/ \E e \in Left : /\ e.do = "stopped" /\ e.item = s.item
                               /\ s \in LocalSpecs(e.item, e.effects)
<1>1. PICK i \in Items : s \in LocalSpecs(i, Told(Left, running, i))
  BY ForcedIs DEF InForce
<1>2. PICK x \in Told(Left, running, i) : s.mod \in Modifiers[x] /\ s = [item |-> i, mod |-> s.mod]
  BY <1>1 DEF LocalSpecs
<1>3. s.item = i
  BY <1>2
<1>4. CASE x \in running[i]
  BY <1>2, <1>3, <1>4 DEF LocalSpecs
<1>5. CASE x \notin running[i]
  <2>1. PICK e \in Left : e.do = "stopped" /\ e.item = i /\ x \in e.effects
    BY <1>2, <1>5 DEF Told
  <2> QED BY <1>2, <1>3, <2>1 DEF LocalSpecs
<1> QED BY <1>3, <1>4, <1>5

LEMMA AllFollowed == AttrInv /\ Listening => Followed
<1> SUFFICES ASSUME AttrInv, Listening, NEW c \in DOMAIN cache, NEW cells, NEW d \in ReadsOf(c),
                    c[1] \in affectees, Capped(c), d \in cells
             PROVE  Depends(c, cells)
  BY DEF Followed
<1>1. c \in Cells /\ c = <<c[1], c[2]>>
  BY CellIs
<1>2. CASE d \in CapOf(c)
  <2>1. d = <<d[1], d[2]>>
    BY <1>2, ModelAssumption DEF CapOf, ModelAssumption
  <2> QED BY <1>1, <1>2, <2>1, DependsOnCap DEF Depends
<1>3. CASE d \notin CapOf(c)
  <2>1. PICK s \in Modifying(seat, AffectorSpecs(c[1]), c[2]) : d \in ModReads(seat, s)
    BY <1>3, ReadBy
  <2>2. s \in AffectorSpecs(c[1]) /\ s.mod.attr = c[2]
    BY <2>1 DEF Modifying
  <2>3. /\ s \in Forced /\ s \in Specs
        /\ \A S : s \in S => c \in AffectedBy(S)
    BY <2>2, Modified
  <2>4. CASE s.mod.kind = "dogma"
    <3>1. d = <<s.item, s.mod.from>>
      BY <2>1, <2>4 DEF ModReads
    <3>2. CASE s \in LocalSpecs(s.item, running[s.item])
      BY <2>3, <2>4, <3>1, <3>2, DependsOnRunning DEF Depends
    <3>3. CASE \E e \in Left : e.do = "stopped" /\ s \in LocalSpecs(e.item, e.effects)
      BY <2>3, <3>3 DEF Depends
    <3> QED BY <2>3, <3>2, <3>3, ForcedRuns
  <2>5. CASE s.mod.kind \in {"propulsion", "ancillary"}
    <3>1. "changed" \in RevisesOn(s)
      BY <2>5 DEF RevisesOn
    <3>2. <<"changed", s>> \in listeners
      BY <2>3, <3>1 DEF Listening, Wishes
    <3>3. s \in Revised(cells)
      BY <2>1, <2>3, <3>2, ReadIs DEF Revised
    <3> QED BY <2>3, <3>3 DEF Depends
  <2>6. s.mod.kind \in {"dogma", "propulsion", "ancillary"}
    BY <2>3, SpecTyped DEF Modifier
  <2> QED BY <2>4, <2>5, <2>6
<1> QED BY <1>2, <1>3

LEMMA FollowedAfter == (AttrInv /\ Listening => Followed)'
BY AllFollowed, PTL

\* A value stays right as long as what it was calculated from stays.
LEMMA RightStays ==
  ASSUME NEW c, Right(c), cache'[c] = cache[c],
         Modifying(seat, AffectorSpecs(c[1]), c[2])' = Modifying(seat, AffectorSpecs(c[1]), c[2]),
         \A s \in Modifying(seat, AffectorSpecs(c[1]), c[2]) :
           ModReads(seat, s)' = ModReads(seat, s),
         \A d \in ReadsOf(c) : /\ d \in DOMAIN cache' \cup DOMAIN override'
                               /\ Exposed(d)' = Exposed(d),
         \A d \in CapOf(c) : <<c[1], d[2], c[2]>> \in capped'
  PROVE  Right(c)'
<1> DEFINE specs == AffectorSpecs(c[1])
           M == Modifying(seat, specs, c[2])
<1>1. ReadsOf(c)' = ReadsOf(c)
  <2>1. {ModReads(seat, s) : s \in M}' = {ModReads(seat, s) : s \in M}
    OBVIOUS
  <2> QED BY <2>1 DEF ReadsOf, Reads
<1>2. [d \in ReadsOf(c) |-> Exposed(d)]' = [d \in ReadsOf(c) |-> Exposed(d)]
  BY <1>1
<1> DEFINE v == [d \in ReadsOf(c) |-> Exposed(d)]
<1>3. Calculated(seat, specs, c, v)' = Calculated(seat, specs, c, v)
  <2>1. v' = v
    BY <1>2
  <2> HIDE DEF v
  <2>2. {<<s, {<<d, v[d]>> : d \in ModReads(seat, s)}>> : s \in M}'
          = {<<s, {<<d, v[d]>> : d \in ModReads(seat, s)}>> : s \in M}
    BY <2>1
  <2> QED BY <2>1, <2>2 DEF Calculated
<1> QED BY <1>1, <1>3 DEF Right

\* A right value that is kept while others are dropped stays right, or the news
\* of what was dropped reaches it.
LEMMA KeptOrReached ==
  ASSUME AttrInv, AttrInv', Listening', NEW X, Drop(X),
         UNCHANGED <<seat, override, capped>>,
         NEW c \in DOMAIN cache', Right(c), c[1] \in affectees',
         Modifying(seat, AffectorSpecs(c[1]), c[2])' = Modifying(seat, AffectorSpecs(c[1]), c[2]),
         \A e \in Of(Publish(Recalculated(X))) : e \in Left'
  PROVE  Right(c)' \/ \E e \in Left' : Reaches(e, c)'
<1>1. PICK v : v = Recalculated(X) \ DOMAIN override
  OBVIOUS
<1>2. c \in DOMAIN cache /\ c \notin X /\ cache'[c] = cache[c]
  BY DEF Drop
<1>3. \A s : ModReads(seat, s)' = ModReads(seat, s)
  BY DEF ModReads, HasPaste, Seated, Ship
<1>4. \A d \in CapOf(c) : <<c[1], d[2], c[2]>> \in capped'
  BY DEF Right
<1>5. CASE \A d \in ReadsOf(c) : d \notin v
  <2>1. ASSUME NEW d \in ReadsOf(c)
        PROVE  d \in DOMAIN cache' \cup DOMAIN override' /\ Exposed(d)' = Exposed(d)
    <3>1. d \in DOMAIN cache \cup DOMAIN override
      BY DEF Right
    <3>2. CASE d \in DOMAIN override
      BY <3>2 DEF Exposed
    <3>3. CASE d \notin DOMAIN override
      <4>1. d \in DOMAIN cache \ X
        BY <1>1, <1>5, <3>1, <3>3 DEF Recalculated
      <4>2. d \in DOMAIN cache' /\ cache'[d] = cache[d]
        BY <4>1 DEF Drop
      <4> QED BY <3>3, <4>2 DEF Exposed
    <3> QED BY <3>2, <3>3
  <2> QED BY <1>2, <1>3, <1>4, <2>1, RightStays
<1>6. ASSUME NEW d \in ReadsOf(c), d \in v
      PROVE  \E e \in Left' : Reaches(e, c)'
  <2>1. ReadsOf(c)' = ReadsOf(c)
    <3>1. {ModReads(seat, s) : s \in Modifying(seat, AffectorSpecs(c[1]), c[2])}'
            = {ModReads(seat, s) : s \in Modifying(seat, AffectorSpecs(c[1]), c[2])}
      BY <1>3
    <3> QED BY <3>1 DEF ReadsOf, Reads
  <2>2. Capped(c)'
    BY <1>4 DEF Capped
  <2>3. Depends(c, v)'
    BY <1>6, <2>1, <2>2, FollowedAfter DEF Followed
  <2>4. Publish(Recalculated(X)) = <<Changed(v)>>
    BY <1>1, <1>6 DEF Publish
  <2>5. Changed(v) \in Left'
    BY <2>4, OneLeft DEF Of
  <2>6. Changed(v).do = "changed" /\ Changed(v).cells = v
    BY DEF Changed
  <2> QED BY <2>3, <2>5, <2>6 DEF Depends, Reaches
<1> QED BY <1>5, <1>6
-----------------------------------------------------------------------------
(* Steps that leave the values alone. *)

\* What is left after the first entry of a call.
LEMMA FromFront ==
  ASSUME AttrInv, agenda # <<>>
  PROVE  /\ Left = {Head(agenda)} \cup Of(Tail(agenda)) /\ Left \subseteq Entries
         /\ Head(agenda) \in Entries /\ Head(agenda) \in Left
         /\ \A e \in Of(Tail(agenda)) : Before(Head(agenda), e)
         /\ Tail(agenda) \in Seq(Entries)
<1>1. agenda \in Seq(Entries) /\ InTurn(agenda)
  BY DEF AttrInv, Typed
<1> QED BY <1>1, Front DEF Left

\* Entries of two sequences after each other.
LEMMA OfBoth ==
  ASSUME NEW p \in Seq(Entries), NEW q \in Seq(Entries)
  PROVE  Of(p \o q) = Of(p) \cup Of(q) /\ p \o q \in Seq(Entries)
<1> DEFINE r == p \o q
<1>1. r \in Seq(Entries) /\ Len(r) = Len(p) + Len(q)
  OBVIOUS
<1>2. \A k \in 1..Len(r) : \/ k \in 1..Len(p) /\ r[k] = p[k]
                           \/ k - Len(p) \in 1..Len(q) /\ r[k] = q[k - Len(p)]
  OBVIOUS
<1>3. \A k \in 1..Len(p) : k \in 1..Len(r) /\ r[k] = p[k]
  OBVIOUS
<1>4. \A k \in 1..Len(q) : k + Len(p) \in 1..Len(r) /\ r[k + Len(p)] = q[k]
  OBVIOUS
<1> HIDE DEF r
<1>5. ASSUME NEW e \in Of(r)
      PROVE  e \in Of(p) \cup Of(q)
  <2>1. PICK k \in 1..Len(r) : e = r[k]
    BY DEF Of
  <2> QED BY <1>2, <2>1 DEF Of
<1>6. Of(p) \subseteq Of(r)
  BY <1>3 DEF Of
<1>7. ASSUME NEW k \in 1..Len(q)
      PROVE  q[k] \in Of(r)
  <2>1. PICK j \in 1..Len(r) : r[j] = q[k]
    BY <1>4
  <2> QED BY <2>1 DEF Of
<1>8. Of(q) \subseteq Of(r)
  BY <1>7 DEF Of
<1> QED BY <1>1, <1>5, <1>6, <1>8 DEF r

\* What is left once the first entry has made way for some steps.
LEMMA LeftAfter ==
  ASSUME AttrInv, agenda # <<>>, NEW steps \in Seq(Entries), Then(steps)
  PROVE  Left' = Of(steps) \cup Of(Tail(agenda))
<1>1. agenda' = steps \o Tail(agenda) /\ Tail(agenda) \in Seq(Entries)
  BY FromFront DEF Then
<1> QED BY <1>1, OfBoth DEF Left

\* A step that leaves seats, values, registers and subscriptions alone leaves
\* right what is right, and reached what is reached.
LEMMA Passive ==
  ASSUME UNCHANGED <<seat, override, values, registers, python>>
  PROVE  /\ Listening' = Listening /\ Forced' = Forced /\ (DOMAIN cache)' = DOMAIN cache
         /\ affectees' = affectees /\ seat' = seat
         /\ \A c : Right(c)' = Right(c)
         /\ \A i, c : (c \in AffectedBy(Restocked("added", i)))'
                        = (c \in AffectedBy(Restocked("added", i)))
<1>1. /\ seat' = seat /\ override' = override /\ cache' = cache /\ capped' = capped
      /\ affectees' = affectees /\ awaiting' = awaiting /\ active' = active
      /\ other' = other /\ mass' = mass /\ listeners' = listeners /\ hears' = hears
  BY DEF values, registers, python
<1>2. Forced' = Forced
  BY <1>1 DEF Forced
<1>3. Listening' = Listening
  BY <1>1, <1>2 DEF Listening
<1>4. \A c : Right(c)' = Right(c)
  <2> TAKE c
  <2>1. AffectorSpecs(c[1])' = AffectorSpecs(c[1])
    BY <1>1 DEF AffectorSpecs
  <2>2. ReadsOf(c)' = ReadsOf(c)
    BY <1>1, <2>1 DEF ReadsOf
  <2>3. [d \in ReadsOf(c) |-> Exposed(d)]' = [d \in ReadsOf(c) |-> Exposed(d)]
    BY <1>1, <2>2 DEF Exposed
  <2> QED BY <1>1, <2>1, <2>2, <2>3 DEF Right
<1>5. \A s : LocalAffectees(s)' = LocalAffectees(s)
  BY <1>1 DEF LocalAffectees
<1>6. \A i : Restocked("added", i)' = Restocked("added", i)
  BY <1>1 DEF Restocked
<1>7. \A i : AffectedBy(Restocked("added", i))' = AffectedBy(Restocked("added", i))
  BY <1>5, <1>6 DEF AffectedBy
<1> QED BY <1>1, <1>2, <1>3, <1>4, <1>7

\* Such a step keeps the values as long as only paste to come is of consequence.
LEMMA PassiveKeeps ==
  ASSUME AttrInv, ValueInv, UNCHANGED <<seat, override, values, registers, python>>,
         \A e \in Left : e.do \notin {"changed", "revise", "stopped", "clear"},
         \A e \in Left : e.do = "added" => e \in Left',
         (\A e \in Left : ~Switches(e)) => \A e \in Left' : ~Switches(e)
  PROVE  Keeping' /\ Listening'
<1>1. /\ Listening' /\ (DOMAIN cache)' = DOMAIN cache /\ affectees' = affectees
      /\ \A c : Right(c)' = Right(c)
      /\ \A i, c : (c \in AffectedBy(Restocked("added", i)))'
                     = (c \in AffectedBy(Restocked("added", i)))
  BY Passive DEF ValueInv
<1>2. ASSUME NEW c \in DOMAIN cache
      PROVE  c[1] \in affectees /\ (Right(c)' \/ \E e \in Left' : Reaches(e, c)')
  <2>1. c[1] \in affectees
    BY DEF ValueInv, Keeping, Due
  <2>2. CASE Right(c)
    BY <1>1, <2>1, <2>2
  <2>3. CASE ~Right(c)
    <3>1. PICK e \in Left : Reaches(e, c)
      BY <2>1, <2>3 DEF ValueInv, Keeping
    <3>2. /\ e.do = "added" /\ c \in AffectedBy(Restocked("added", e.item))
          /\ \A d \in Left : ~Switches(d)
      BY <3>1 DEF Reaches
    <3>3. (c \in AffectedBy(Restocked("added", e.item)))'
      BY <1>1, <3>2
    <3>4. \A d \in Left' : ~Switches(d)'
      BY <3>2 DEF Switches
    <3>5. Reaches(e, c)'
      BY <3>2, <3>3, <3>4 DEF Reaches
    <3> QED BY <2>1, <3>2, <3>5
  <2> QED BY <2>2, <2>3
<1>3. Keeping'
  BY <1>1, <1>2 DEF Keeping
<1> QED BY <1>1, <1>3

\* BaseItemMixin._load
LEMMA ValueLoad ==
  ASSUME AttrInv, ValueInv, LoadItem
  PROVE  ValueInv'
<1> DEFINE h == Head(agenda)
           X == Of(Tail(agenda))
<1>1. /\ agenda # <<>> /\ h.do = "load"
      /\ UNCHANGED <<source, seat, override, values, registers, python>>
  BY DEF LoadItem, Doing
<1>2. /\ Left = {h} \cup X /\ h \in Entries /\ Left \subseteq Entries /\ \A e \in X : Before(h, e)
  BY <1>1, FromFront
<1>3. \A e \in Left : e.do \in {"load", "added"}
  BY <1>1, <1>2 DEF Before, Rank, Entries
<1>4. X \subseteq Left' /\ \A e \in Left' : e \in X \/ e.do \in {"loaded", "started"}
  <2>1. CASE source # None /\ h.item \in Known[source]
    <3>1. PICK effects \in SUBSET EffectsOf[h.item] :
            Then(<<Step("loaded", h.item)>> \o
                 IF effects = {} THEN <<>> ELSE <<Effects_("started", h.item, effects)>>)
      BY <2>1 DEF LoadItem
    <3> DEFINE l == Step("loaded", h.item)
               s == Effects_("started", h.item, effects)
               q == IF effects # {} THEN <<s>> ELSE <<>>
    <3>2. h.item \in Items
      BY <1>1, <1>2 DEF Entries
    <3>3. effects \in SUBSET Effects
      BY <3>2, ModelAssumption DEF ModelAssumption
    <3>4. l \in Entries /\ l.do = "loaded" /\ s \in Entries /\ s.do = "started"
      BY <3>2, <3>3 DEF Step, Effects_, Entries
    <3>5. Then(<<l>> \o q)
      BY <3>1
    <3> HIDE DEF l, s
    <3>6. q \in Seq(Entries) /\ Of(q) \subseteq {s} /\ <<l>> \in Seq(Entries) /\ Of(<<l>>) = {l}
      BY <3>4, NothingLeft, OneLeft
    <3> HIDE DEF q
    <3>7. <<l>> \o q \in Seq(Entries) /\ Of(<<l>> \o q) \subseteq {l, s}
      BY <3>6, OfBoth
    <3> QED BY <1>1, <3>4, <3>5, <3>7, LeftAfter
  <2>2. CASE ~(source # None /\ h.item \in Known[source])
    <3>1. Then(<<>>)
      BY <2>2 DEF LoadItem
    <3> QED BY <1>1, <3>1, NothingLeft, LeftAfter
  <2> QED BY <2>1, <2>2
<1>5. \A e \in Left' : e.do \in {"load", "added", "loaded", "started"}
  BY <1>2, <1>3, <1>4
<1>6. Keeping' /\ Listening'
  <2>1. \A e \in Left : e.do = "added" => e \in Left'
    BY <1>1, <1>2, <1>4
  <2>2. \A e \in Left' : ~Switches(e)
    BY <1>5 DEF Switches
  <2>3. \A e \in Left : e.do \notin {"changed", "revise", "stopped", "clear"}
    BY <1>3
  <2> QED BY <1>1, <2>1, <2>2, <2>3, PassiveKeeps
<1>7. Clearing' /\ Pasting'
  BY <1>5 DEF Clearing, Pasting
<1> QED BY <1>6, <1>7 DEF ValueInv

\* BaseItemMixin._unload
LEMMA ValueUnload ==
  ASSUME AttrInv, ValueInv, UnloadItem
  PROVE  ValueInv'
<1> DEFINE h == Head(agenda)
           i == h.item
           X == Of(Tail(agenda))
           st == Effects_("stopped", i, running[i])
           u == Step("unloaded", i)
           cl == Step("clear", i)
           p == IF running[i] # {} THEN <<st>> ELSE <<>>
           q == IF i \in affectees THEN <<u>> ELSE <<>>
           r == <<cl>>
<1>1. /\ agenda # <<>> /\ h.do = "unload"
      /\ UNCHANGED <<source, seat, override, values, registers, python>>
      /\ Then(p \o q \o r)
  BY DEF UnloadItem, Doing
<1>2. /\ Left = {h} \cup X /\ h \in Entries /\ Left \subseteq Entries /\ \A e \in X : Before(h, e)
  BY <1>1, FromFront
<1>3. \A e \in Left : e.do \in {"unload", "removed", "seat", "source", "load", "added"}
  BY <1>1, <1>2 DEF Before, Rank, Entries
<1>4. i \in Items /\ running[i] \in SUBSET Effects
  <2>1. i \in Items
    BY <1>1, <1>2 DEF Entries
  <2> QED BY <2>1 DEF AttrInv, Typed
<1>5. /\ st \in Entries /\ st.do = "stopped" /\ u \in Entries /\ u.do = "unloaded" /\ u.item = i
      /\ cl \in Entries /\ cl.do = "clear" /\ cl.item = i
  BY <1>4 DEF Step, Effects_, Entries
<1> HIDE DEF st, u, cl
<1>6. /\ p \in Seq(Entries) /\ Of(p) \subseteq {st}
      /\ q \in Seq(Entries) /\ Of(q) = (IF i \in affectees THEN {u} ELSE {})
      /\ r \in Seq(Entries) /\ Of(r) = {cl}
  BY <1>5, NothingLeft, OneLeft
<1> HIDE DEF p, q, r, h, X
<1>7. p \o q \o r \in Seq(Entries) /\ Of(p \o q \o r) = Of(p) \cup Of(q) \cup Of(r)
  <2>1. p \o q \in Seq(Entries) /\ Of(p \o q) = Of(p) \cup Of(q)
    BY <1>6, OfBoth
  <2> QED BY <1>6, <2>1, OfBoth
<1>8. Left' = Of(p) \cup Of(q) \cup Of(r) \cup X
  BY <1>1, <1>7, LeftAfter DEF X
<1>9. Keeping' /\ Listening'
  <2>1. \A e \in Left : e.do = "added" => e \in Left'
    BY <1>1, <1>2, <1>8
  <2>2. (\A e \in Left : ~Switches(e)) => \A e \in Left' : ~Switches(e)
    BY <1>2, <1>5, <1>6, <1>8 DEF Switches
  <2>3. \A e \in Left : e.do \notin {"changed", "revise", "stopped", "clear"}
    BY <1>3
  <2> QED BY <1>1, <2>1, <2>2, <2>3, PassiveKeeps
<1>10. Clearing'
  <2>1. affectees' = affectees
    BY <1>1 DEF registers
  <2>2. \A e \in Left' : e.do # "loaded"
    BY <1>2, <1>3, <1>5, <1>6, <1>8
  <2>3. \A e \in Left' : e.do = "unloaded" => e = u
    BY <1>2, <1>3, <1>5, <1>6, <1>8
  <2>4. \A e \in Left' : e.do = "clear" => e = cl
    BY <1>2, <1>3, <1>5, <1>6, <1>8
  <2>5. cl \in Left' /\ (i \in affectees => u \in Left')
    BY <1>6, <1>8
  <2> QED BY <1>5, <2>1, <2>2, <2>3, <2>4, <2>5 DEF Clearing, Due
<1>11. Pasting'
  <2>1. /\ affectees' = affectees /\ seat' = seat /\ Forced' = Forced /\ cache' = cache
    BY <1>1, Passive DEF values
  <2>2. \A e \in Left' : e.do = "seat" => e \in Left
    BY <1>2, <1>5, <1>6, <1>8
  <2>3. \A do, j : do \in {"added", "removed"} /\ Due(Left, do, j) => Due(Left', do, j)
    BY <1>1, <1>2, <1>8 DEF Due
  <2> QED BY <2>1, <2>2, <2>3 DEF ValueInv, Pasting
<1> QED BY <1>9, <1>10, <1>11 DEF ValueInv

\* The assignment in SolarSystem.source
LEMMA ValueSource ==
  ASSUME AttrInv, ValueInv, SetSourceValue
  PROVE  ValueInv'
<1> DEFINE h == Head(agenda)
           X == Of(Tail(agenda))
<1>1. /\ agenda # <<>> /\ h.do = "source" /\ Then(<<>>)
      /\ UNCHANGED <<seat, override, values, registers, python>>
  BY DEF SetSourceValue, Doing
<1>2. /\ Left = {h} \cup X /\ Left \subseteq Entries /\ \A e \in X : Before(h, e)
  BY <1>1, FromFront
<1>3. \A e \in X : e.do \in {"load", "added"}
  BY <1>1, <1>2 DEF Before, Rank, Entries
<1>4. Left' = X
  BY <1>1, NothingLeft, LeftAfter
<1>5. Keeping' /\ Listening'
  <2>1. \A e \in Left : e.do \notin {"changed", "revise", "stopped", "clear"}
    BY <1>1, <1>2, <1>3
  <2>2. \A e \in Left : e.do = "added" => e \in Left'
    BY <1>1, <1>2, <1>4
  <2>3. \A e \in Left' : ~Switches(e)
    BY <1>3, <1>4 DEF Switches
  <2> QED BY <1>1, <2>1, <2>2, <2>3, PassiveKeeps
<1>6. Clearing' /\ Pasting'
  BY <1>3, <1>4 DEF Clearing, Pasting
<1> QED BY <1>5, <1>6 DEF ValueInv

\* The calls that load and unload, and those that start and stop effects.
LEMMA ValueBegins ==
  ASSUME AttrInv, ValueInv, Idle, UNCHANGED <<seat, override, values, registers, python>>,
         \A e \in Left' : e.do \notin {"loaded", "unloaded", "clear"},
         \A e \in Left' : e.do = "seat" /\ Owner[e.seat] \in affectees =>
           /\ e.item \in Paste => Due(Left', "added", e.item)
           /\ seat[e.seat] \in Paste => Due(Left', "removed", seat[e.seat])
  PROVE  ValueInv'
<1>1. Left = {}
  BY NothingLeft DEF Left, Idle
<1>2. Keeping' /\ Listening'
  <2>1. ASSUME NEW c \in DOMAIN cache
        PROVE  c[1] \in affectees /\ Right(c)
    BY <1>1 DEF ValueInv, Keeping, Due
  <2>2. /\ (DOMAIN cache)' = DOMAIN cache /\ affectees' = affectees /\ Listening'
        /\ \A c : Right(c)' = Right(c)
    BY Passive DEF ValueInv
  <2> QED BY <2>1, <2>2 DEF Keeping
<1>3. Clearing'
  BY DEF Clearing
<1>4. Pasting'
  <2>1. affectees' = affectees /\ seat' = seat
    BY Passive
  <2> QED BY <2>1 DEF Pasting
<1> QED BY <1>2, <1>3, <1>4 DEF ValueInv

\* SolarSystem.source
LEMMA ValueSetSource ==
  ASSUME AttrInv, ValueInv, NEW s \in Sources \cup {None}, SetSource(s)
  PROVE  ValueInv'
<1> DEFINE I == {i \in Items : OnFit(seat, i)}
           q == InOrder(I)
           all(do) == [k \in 1..Len(q) |-> Step(do, q[k])]
           A == IF source = None THEN <<>> ELSE all("unload")
           B == IF s = None THEN <<>> ELSE all("load")
           e == Step("source", s)
<1>1. Idle /\ agenda' = A \o <<e>> \o B
      /\ UNCHANGED <<seat, override, values, registers, python>>
  BY DEF SetSource
<1>2. q \in Seq(Items) /\ Once(q)
  BY InOrderIs
<1>3. <<e>> \in Seq(Entries) /\ Of(<<e>>) = {e} /\ e.do = "source"
  <2>1. e \in Entries /\ e.do = "source"
    BY DEF Step, Entries
  <2> QED BY <2>1, OneLeft
<1> HIDE DEF q, e
<1>4. ASSUME NEW do \in {"load", "unload"}
      PROVE  all(do) \in Seq(Entries) /\ \A a \in Of(all(do)) : a.do = do
  BY <1>2, AllIs
<1>5. A \in Seq(Entries) /\ B \in Seq(Entries)
      /\ \A a \in Of(A) \cup Of(B) : a.do \in {"load", "unload"}
  <2> HIDE DEF all
  <2>1. \A a \in Of(<<>>) : FALSE
    BY NothingLeft
  <2>2. A \in {<<>>, all("unload")} /\ B \in {<<>>, all("load")}
    OBVIOUS
  <2> HIDE DEF A, B
  <2> QED BY <1>4, <2>1, <2>2, NothingLeft
<1> HIDE DEF A, B
<1>6. Left' = Of(A) \cup {e} \cup Of(B)
  <2>1. A \o <<e>> \in Seq(Entries) /\ Of(A \o <<e>>) = Of(A) \cup {e}
    BY <1>3, <1>5, OfBoth
  <2>2. Of(A \o <<e>> \o B) = Of(A) \cup {e} \cup Of(B)
    BY <1>5, <2>1, OfBoth
  <2> QED BY <1>1, <2>2 DEF Left
<1>7. \A d \in Left' : d.do \in {"load", "unload", "source"}
  BY <1>3, <1>5, <1>6
<1> QED BY <1>1, <1>7, ValueBegins

\* A new state or run mode
LEMMA ValueRunning ==
  ASSUME AttrInv, ValueInv, NEW i \in Items, NEW E \in SUBSET EffectsOf[i], SetRunning(i, E)
  PROVE  ValueInv'
<1> DEFINE a == Effects_("started", i, E \ running[i])
           b == Effects_("stopped", i, running[i] \ E)
           p == IF E \ running[i] = {} THEN <<>> ELSE <<a>>
           q == IF running[i] \ E = {} THEN <<>> ELSE <<b>>
<1>1. Idle /\ agenda' = p \o q /\ UNCHANGED <<seat, override, values, registers, python>>
  BY DEF SetRunning
<1>2. running[i] \in SUBSET Effects /\ E \in SUBSET Effects
  BY ModelAssumption DEF ModelAssumption, AttrInv, Typed
<1>3. a \in Entries /\ a.do = "started" /\ b \in Entries /\ b.do = "stopped"
  BY <1>2 DEF Effects_, Entries
<1> HIDE DEF a, b
<1>4. p \in Seq(Entries) /\ Of(p) \subseteq {a} /\ q \in Seq(Entries) /\ Of(q) \subseteq {b}
  BY <1>3, NothingLeft, OneLeft
<1> HIDE DEF p, q
<1>5. Left' = Of(p) \cup Of(q)
  BY <1>1, <1>4, OfBoth DEF Left
<1>6. \A d \in Left' : d.do \in {"started", "stopped"}
  BY <1>3, <1>4, <1>5
<1> QED BY <1>1, <1>6, ValueBegins

\* ItemDescriptor.__set__, append and remove
LEMMA ValueAssign ==
  ASSUME AttrInv, ValueInv, NEW p \in Seats, NEW new \in Items \cup {None}, Assign(p, new)
  PROVE  ValueInv'
<1> DEFINE old == seat[p]
           onFit == Owner[p] # None => Seated(seat, Owner[p])
           With(i) == {j \in Items : j = i \/ (Owner[SeatOf[j]] = i /\ Seated(seat, j))}
           e == [do |-> "seat", item |-> new, seat |-> p]
           A == IF onFit /\ old # None THEN ForEach(Subitems(old), "unload", "removed")
                ELSE <<>>
           B == IF onFit /\ new # None THEN ForEach(Subitems(new), "added", "load")
                ELSE <<>>
<1>1. /\ Idle /\ agenda' = A \o <<e>> \o B
      /\ UNCHANGED <<seat, override, values, registers, python>>
  BY DEF Assign
<1>2. e \in Entries /\ e.do = "seat" /\ e.item = new /\ e.seat = p
  BY DEF Entries
<1>3. old \in Items \cup {None} /\ None \notin Items
  BY ModelAssumption DEF AttrInv, Typed, ModelAssumption
<1>4. ASSUME NEW i \in Items
      PROVE  /\ Subitems(i) \in Seq(Items) /\ Once(Subitems(i))
             /\ \E k \in 1..Len(Subitems(i)) : Subitems(i)[k] = i
  <2> DEFINE I == With(i)
  <2>1. I \in SUBSET Items /\ Subitems(i) = InOrder(I) /\ i \in I
    BY DEF Subitems
  <2> HIDE DEF I
  <2> QED BY <2>1, InOrderIs
<1> HIDE DEF e, old, onFit
<1>5. /\ A \in Seq(Entries) /\ \A a \in Of(A) : a.do \in {"unload", "removed"}
      /\ onFit /\ old # None => Due(Of(A), "removed", old)
  <2>1. CASE onFit /\ old # None
    <3> DEFINE is == Subitems(old)
               q == ForEach(is, "unload", "removed")
    <3>1. is \in Seq(Items) /\ Once(is) /\ \E k \in 1..Len(is) : is[k] = old
      BY <1>3, <1>4, <2>1
    <3> HIDE DEF is
    <3>2. /\ q \in Seq(Entries) /\ \A d \in Of(q) : d.do \in {"unload", "removed"}
          /\ \A j \in 1..Len(is) : Due(Of(q), "removed", is[j])
      BY <3>1, ForEachIs
    <3>3. A = q
      BY <2>1 DEF is
    <3> HIDE DEF q, A
    <3> QED BY <3>1, <3>2, <3>3
  <2>2. CASE ~(onFit /\ old # None)
    BY <2>2, NothingLeft
  <2> QED BY <2>1, <2>2
<1>6. /\ B \in Seq(Entries) /\ \A b \in Of(B) : b.do \in {"load", "added"}
      /\ onFit /\ new # None => Due(Of(B), "added", new)
  <2>1. CASE onFit /\ new # None
    <3> DEFINE is == Subitems(new)
               q == ForEach(is, "added", "load")
    <3>1. is \in Seq(Items) /\ Once(is) /\ \E k \in 1..Len(is) : is[k] = new
      BY <1>4, <2>1
    <3> HIDE DEF is
    <3>2. /\ q \in Seq(Entries) /\ \A d \in Of(q) : d.do \in {"load", "added"}
          /\ \A j \in 1..Len(is) : Due(Of(q), "added", is[j])
      BY <3>1, ForEachIs
    <3>3. B = q
      BY <2>1 DEF is
    <3> HIDE DEF q, B
    <3> QED BY <3>1, <3>2, <3>3
  <2>2. CASE ~(onFit /\ new # None)
    BY <2>2, NothingLeft
  <2> QED BY <2>1, <2>2
<1> HIDE DEF A, B
<1>7. Left' = Of(A) \cup {e} \cup Of(B)
  <2>1. <<e>> \in Seq(Entries) /\ Of(<<e>>) = {e}
    BY <1>2, OneLeft
  <2>2. A \o <<e>> \in Seq(Entries) /\ Of(A \o <<e>>) = Of(A) \cup {e}
    BY <1>5, <2>1, OfBoth
  <2>3. Of(A \o <<e>> \o B) = Of(A) \cup {e} \cup Of(B)
    BY <1>6, <2>2, OfBoth
  <2> QED BY <1>1, <2>3 DEF Left
<1>8. \A d \in Left' : d.do \notin {"loaded", "unloaded", "clear"} /\ (d.do = "seat" => d = e)
  BY <1>2, <1>5, <1>6, <1>7
<1>9. Owner[p] \in affectees => onFit
  BY DEF onFit, AttrInv, Presence, Loaded, OnFit
<1>10. Paste \subseteq Items
  BY ModelAssumption DEF ModelAssumption
<1>11. Owner[p] \in affectees => /\ new \in Paste => Due(Left', "added", new)
                                 /\ old \in Paste => Due(Left', "removed", old)
  BY <1>3, <1>5, <1>6, <1>7, <1>9, <1>10 DEF Due
<1>12. \A d \in Left' : d.do = "seat" /\ Owner[d.seat] \in affectees =>
         /\ d.item \in Paste => Due(Left', "added", d.item)
         /\ seat[d.seat] \in Paste => Due(Left', "removed", seat[d.seat])
  BY <1>2, <1>8, <1>11 DEF old
<1> QED BY <1>1, <1>8, <1>12, ValueBegins
-----------------------------------------------------------------------------
(* Steps that change values. *)

\* Between messages a kept value reads cells of affectees only.
LEMMA ReadsLoaded ==
  ASSUME AttrInv, NEW c \in DOMAIN cache, c[1] \in affectees, NEW d \in ReadsOf(c),
         \A e \in Left : e.do \notin {"loaded", "stopped"}
  PROVE  d[1] \in affectees
<1>1. CASE d \in CapOf(c)
  BY <1>1 DEF CapOf
<1>2. CASE d \notin CapOf(c)
  <2>1. PICK s \in Modifying(seat, AffectorSpecs(c[1]), c[2]) : d \in ModReads(seat, s)
    BY <1>2, ReadBy
  <2>2. s \in AffectorSpecs(c[1]) /\ s.mod.attr = c[2]
    BY <2>1 DEF Modifying
  <2>3. s \in Forced /\ s \in Specs /\ Affects(seat, s, c[1])
    BY <2>2, Modified
  <2>4. s.item \in affectees
    <3>1. s.item \in Items /\ s \in LocalSpecs(s.item, running[s.item])
      BY <2>3, ForcedRuns
    <3>2. running[s.item] # {}
      BY <3>1 DEF LocalSpecs
    <3> QED BY <3>1, <3>2 DEF AttrInv, Runs, Due, Left
  <2>5. CASE d = <<s.item, s.mod.from>>
    BY <2>4, <2>5
  <2>6. CASE s.mod.kind = "propulsion" /\ d = <<Ship(seat, FitOf[s.item]), Mass>>
    BY <2>3, <2>6, PythonActs DEF Affects, Target
  <2> QED BY <2>1, <2>3, <2>5, <2>6, ReadIs
<1> QED BY <1>1, <1>2

\* When nothing is left of a call all values are right.
LEMMA AtRest ==
  ASSUME ValueInv, Idle
  PROVE  Left = {} /\ \A c \in DOMAIN cache : c[1] \in affectees /\ Right(c)
<1>1. Left = {}
  BY NothingLeft DEF Left, Idle
<1> QED BY <1>1 DEF ValueInv, Keeping, Due

\* MutableAttrMap.__getitem__
LEMMA ValueRead ==
  ASSUME AttrInv, ValueInv, NEW x \in Cells, Read(x)
  PROVE  ValueInv'
<1> DEFINE specs == AffectorSpecs(x[1])
<1>1. /\ Idle /\ x[1] \in affectees /\ x \notin DOMAIN cache
      /\ \A d \in ReadsOf(x) : d \in DOMAIN cache \cup DOMAIN override
      /\ DOMAIN cache' = DOMAIN cache \cup {x}
      /\ cache'[x] = Calculated(seat, specs, x, [d \in ReadsOf(x) |-> Exposed(d)])
      /\ \A d \in DOMAIN cache : cache'[d] = cache[d]
      /\ capped' = capped \cup {<<x[1], d[2], x[2]>> : d \in CapOf(x)}
      /\ UNCHANGED <<seat, override, registers, python, agenda>>
  BY DEF Read, ReadsOf
<1>2. /\ affectees' = affectees /\ Forced' = Forced /\ listeners' = listeners /\ hears' = hears
      /\ \A j : AffectorSpecs(j)' = AffectorSpecs(j)
  BY <1>1 DEF registers, python, Forced, AffectorSpecs
<1>3. /\ Left = {} /\ Left' = {} /\ \A c \in DOMAIN cache : c[1] \in affectees /\ Right(c)
  BY <1>1, AtRest DEF Left
<1>4. \A d \in DOMAIN cache \cup DOMAIN override : Exposed(d)' = Exposed(d)
  BY <1>1 DEF Exposed
<1>5. \A s : ModReads(seat, s)' = ModReads(seat, s)
  BY <1>1 DEF ModReads, HasPaste, Seated, Ship
<1>6. ASSUME NEW c \in DOMAIN cache
      PROVE  Right(c)'
  <2>1. Right(c) /\ cache'[c] = cache[c]
    BY <1>1, <1>3
  <2>2. \A d \in ReadsOf(c) : d \in DOMAIN cache' \cup DOMAIN override' /\ Exposed(d)' = Exposed(d)
    BY <1>1, <1>4, <2>1 DEF Right
  <2>3. \A d \in CapOf(c) : <<c[1], d[2], c[2]>> \in capped'
    BY <1>1, <2>1 DEF Right
  <2>4. Modifying(seat, AffectorSpecs(c[1]), c[2])' = Modifying(seat, AffectorSpecs(c[1]), c[2])
    BY <1>1, <1>2, <1>5 DEF Modifying
  <2> QED BY <1>5, <2>1, <2>2, <2>3, <2>4, RightStays
<1>7. Right(x)'
  <2>1. ReadsOf(x)' = ReadsOf(x)
    BY <1>1, <1>2 DEF ReadsOf
  <2>2. [d \in ReadsOf(x) |-> Exposed(d)]' = [d \in ReadsOf(x) |-> Exposed(d)]
    BY <1>1, <1>4, <2>1
  <2>3. \A d \in ReadsOf(x)' : d \in DOMAIN cache' \cup DOMAIN override'
    BY <1>1, <2>1
  <2>4. cache'[x] = Calculated(seat, AffectorSpecs(x[1]), x, [d \in ReadsOf(x) |-> Exposed(d)])'
    BY <1>1, <1>2, <2>1, <2>2
  <2>5. \A d \in CapOf(x) : <<x[1], d[2], x[2]>> \in capped'
    BY <1>1
  <2> QED BY <2>3, <2>4, <2>5 DEF Right
<1>8. Keeping'
  BY <1>1, <1>2, <1>3, <1>6, <1>7 DEF Keeping
<1>9. Listening'
  BY <1>2 DEF ValueInv, Listening
<1>10. Clearing' /\ Pasting'
  BY <1>3 DEF Clearing, Pasting
<1> QED BY <1>8, <1>9, <1>10 DEF ValueInv

\* _set_override_callback, _override_value_may_change, _del_override_callback
LEMMA ValueOverride ==
  ASSUME AttrInv, ValueInv, AttrInv', NEW x \in Overridden,
         DelOverride(x) \/ \E v \in Callbacks : SetOverride(x, v)
  PROVE  ValueInv'
<1>1. /\ Idle /\ agenda' = (IF OnFit(seat, x[1]) THEN <<Changed({x})>> ELSE <<>>)
      /\ UNCHANGED <<seat, values, registers, python>>
      /\ \A d : d # x => (d \in DOMAIN override' <=> d \in DOMAIN override)
      /\ \A d \in DOMAIN override : d # x => override'[d] = override[d]
  BY DEF DelOverride, SetOverride, Announce
<1>2. /\ affectees' = affectees /\ Forced' = Forced /\ listeners' = listeners /\ hears' = hears
      /\ cache' = cache /\ capped' = capped
      /\ \A j : AffectorSpecs(j)' = AffectorSpecs(j)
  BY <1>1 DEF registers, python, Forced, AffectorSpecs, values
<1>3. /\ Left = {} /\ \A c \in DOMAIN cache : c[1] \in affectees /\ Right(c)
  BY <1>1, AtRest
<1>4. Changed({x}).do = "changed" /\ Changed({x}).cells = {x}
  BY DEF Changed
<1>5. Left' = IF OnFit(seat, x[1]) THEN {Changed({x})} ELSE {}
  <2>1. x \in Cells
    BY CalculatorAssumption DEF CalculatorAssumption
  <2>2. Changed({x}) \in Entries
    BY <2>1 DEF Changed, Entries
  <2> HIDE DEF Changed
  <2> QED BY <1>1, <2>2, OneLeft, NothingLeft DEF Left
<1>6. \A s : ModReads(seat, s)' = ModReads(seat, s)
  BY <1>1 DEF ModReads, HasPaste, Seated, Ship
<1>7. Listening'
  BY <1>2 DEF ValueInv, Listening
<1>8. ASSUME NEW c \in DOMAIN cache
      PROVE  Right(c)' \/ \E e \in Left' : Reaches(e, c)'
  <2>1. Right(c) /\ c[1] \in affectees
    BY <1>3
  <2>2. Modifying(seat, AffectorSpecs(c[1]), c[2])' = Modifying(seat, AffectorSpecs(c[1]), c[2])
    BY <1>1, <1>2, <1>6 DEF Modifying
  <2>3. CASE x \notin ReadsOf(c)
    <3>1. \A d \in ReadsOf(c) : d \in DOMAIN cache' \cup DOMAIN override' /\ Exposed(d)' = Exposed(d)
      BY <1>1, <1>2, <2>1, <2>3 DEF Right, Exposed
    <3>2. \A d \in CapOf(c) : <<c[1], d[2], c[2]>> \in capped'
      BY <1>2, <2>1 DEF Right
    <3> QED BY <1>2, <1>6, <2>1, <2>2, <3>1, <3>2, RightStays
  <2>4. CASE x \in ReadsOf(c)
    <3>1. x[1] \in affectees
      BY <1>3, <2>1, <2>4, ReadsLoaded
    <3>2. OnFit(seat, x[1])
      BY <3>1 DEF AttrInv, Presence, Loaded
    <3>3. ReadsOf(c)' = ReadsOf(c)
      BY <1>1, <1>2 DEF ReadsOf
    <3>4. Capped(c)'
      BY <1>2, <2>1 DEF Capped, Right
    <3>5. c \in DOMAIN cache' /\ c[1] \in affectees'
      BY <1>2, <2>1
    <3>6. Depends(c, {x})'
      BY <1>7, <2>4, <3>3, <3>4, <3>5, FollowedAfter DEF Followed
    <3>7. \A e \in Left' : e.do = "changed"
      BY <1>4, <1>5
    <3> QED BY <1>4, <1>5, <3>2, <3>6, <3>7 DEF Depends, Reaches
  <2> QED BY <2>3, <2>4
<1>9. Keeping'
  BY <1>2, <1>3, <1>8 DEF Keeping
<1>10. Clearing' /\ Pasting'
  <2>1. \A e \in Left' : e.do = "changed"
    BY <1>4, <1>5
  <2> QED BY <2>1 DEF Clearing, Pasting
<1> QED BY <1>7, <1>9, <1>10 DEF ValueInv

\* Specs reach what they reached as long as seats and affectees stay.
LEMMA SameReach ==
  ASSUME seat' = seat, affectees' = affectees
  PROVE  /\ \A s : LocalAffectees(s)' = LocalAffectees(s)
         /\ \A S : AffectedBy(S)' = AffectedBy(S)
<1>1. \A s : LocalAffectees(s)' = LocalAffectees(s)
  BY DEF LocalAffectees
<1> QED BY <1>1 DEF AffectedBy

\* What paste to come reaches depends on seats, affectees and subscriptions.
LEMMA SameRestock ==
  ASSUME seat' = seat, affectees' = affectees, listeners' = listeners, hears' = hears
  PROVE  \A i, c : (c \in AffectedBy(Restocked("added", i)))'
                     = (c \in AffectedBy(Restocked("added", i)))
<1>1. \A i : Restocked("added", i)' = Restocked("added", i)
  BY DEF Restocked
<1>2. \A s : LocalAffectees(s)' = LocalAffectees(s)
  BY SameReach
<1> QED BY <1>1, <1>2 DEF AffectedBy

\* An entry reaches what it reached.
LEMMA StillReached ==
  ASSUME UNCHANGED <<seat, running, capped, affectees, listeners, hears>>,
         NEW e, NEW c, Reaches(e, c),
         (\A d \in Left : ~Switches(d)) => \A d \in Left' : ~Switches(d)
  PROVE  Reaches(e, c)'
<1>1. \A s : LocalAffectees(s)' = LocalAffectees(s)
  BY SameReach
<1>2. CASE e.do = "changed" /\ c \in Dependents(e.cells)
  <2> DEFINE D == {s \in UNION {LocalSpecs(x[1], running[x[1]]) : x \in e.cells} :
                     s.mod.kind = "dogma" /\ <<s.item, s.mod.from>> \in e.cells}
  <2>1. D' = D
    OBVIOUS
  <2>2. AffectedBy(D)' = AffectedBy(D)
    BY <1>1, <2>1 DEF AffectedBy
  <2>3. Dependents(e.cells)' = Dependents(e.cells)
    BY <2>2 DEF Dependents
  <2> QED BY <1>2, <2>3 DEF Reaches
<1>3. CASE e.do \in {"changed", "revise"} /\ c \in AffectedBy(Revised(e.cells))
  <2>1. Revised(e.cells)' = Revised(e.cells)
    BY DEF Revised
  <2>2. AffectedBy(Revised(e.cells))' = AffectedBy(Revised(e.cells))
    BY <1>1, <2>1 DEF AffectedBy
  <2> QED BY <1>3, <2>2 DEF Reaches
<1>4. CASE e.do = "stopped" /\ c \in AffectedBy(LocalSpecs(e.item, e.effects))
  <2>1. AffectedBy(LocalSpecs(e.item, e.effects))' = AffectedBy(LocalSpecs(e.item, e.effects))
    BY <1>1 DEF AffectedBy
  <2> QED BY <1>4, <2>1 DEF Reaches
<1>5. CASE /\ e.do = "added" /\ c \in AffectedBy(Restocked("added", e.item))
           /\ \A d \in Left : ~Switches(d)
  <2>1. (c \in AffectedBy(Restocked("added", e.item)))'
    BY <1>5, SameRestock
  <2>2. (\A d \in Left : ~Switches(d))'
    BY <1>5 DEF Switches
  <2> QED BY <1>5, <2>1, <2>2 DEF Reaches
<1> QED BY <1>2, <1>3, <1>4, <1>5 DEF Reaches

\* What is to be reported of an assignment stays so while values, affectees
\* and specs only go.
LEMMA PastingStays ==
  ASSUME ValueInv, seat' = seat, affectees' \subseteq affectees, Forced' \subseteq Forced,
         DOMAIN cache' \subseteq DOMAIN cache,
         \A e \in Left' : e.do = "seat" => e \in Left,
         \A e \in Left : e.do \in {"added", "removed"} => e \in Left'
  PROVE  Pasting'
<1>1. \A do, j : do \in {"added", "removed"} /\ Due(Left, do, j) => Due(Left', do, j)
  BY DEF Due
<1>2. ASSUME NEW e \in Left', e.do = "seat", Owner[e.seat] \in affectees'
      PROVE  /\ e.item \in Paste => Due(Left', "added", e.item)
             /\ seat[e.seat] \in Paste =>
                  \/ Due(Left', "removed", seat[e.seat])
                  \/ \A s \in Forced' : s.item = Owner[e.seat] /\ s.mod.kind = "ancillary" =>
                       <<s.item, s.mod.attr>> \notin DOMAIN cache'
  <2>1. e \in Left /\ Owner[e.seat] \in affectees
    BY <1>2
  <2>2. /\ e.item \in Paste => Due(Left, "added", e.item)
        /\ seat[e.seat] \in Paste =>
             \/ Due(Left, "removed", seat[e.seat])
             \/ \A s \in Forced : s.item = Owner[e.seat] /\ s.mod.kind = "ancillary" =>
                  <<s.item, s.mod.attr>> \notin DOMAIN cache
    BY <1>2, <2>1 DEF ValueInv, Pasting
  <2> QED BY <1>1, <2>2
<1> QED BY <1>2 DEF Pasting

\* MutableAttrMap._clear
LEMMA ValueClear ==
  ASSUME AttrInv, ValueInv, ClearItem
  PROVE  ValueInv'
<1> DEFINE h == Head(agenda)
           X == Of(Tail(agenda))
           i == h.item
<1>1. /\ agenda # <<>> /\ h.do = "clear" /\ Then(<<>>) /\ Drop({i} \X Attrs)
      /\ capped' = {t \in capped : t[1] # i}
      /\ UNCHANGED <<seat, override, affectees, listeners, hears>>
      /\ UNCHANGED <<registers, running>>
  BY DEF ClearItem, Doing, registers, python
<1>2. /\ Left = {h} \cup X /\ Left \subseteq Entries /\ \A e \in X : Before(h, e) /\ h \in Left
  BY <1>1, FromFront
<1>3. \A e \in X : e.do \in {"unload", "removed", "seat", "source", "load", "added"}
  BY <1>1, <1>2 DEF Before, Rank, Entries
<1>4. Left' = X
  BY <1>1, NothingLeft, LeftAfter
<1> HIDE DEF h, X
<1>5. i \notin affectees
  BY <1>1, <1>2, <1>3 DEF ValueInv, Clearing, Due
<1>6. /\ DOMAIN cache' = DOMAIN cache \ ({i} \X Attrs)
      /\ \A d \in DOMAIN cache' : cache'[d] = cache[d]
  BY <1>1 DEF Drop
<1>7. Forced' = Forced /\ \A j : AffectorSpecs(j)' = AffectorSpecs(j)
  BY <1>1 DEF registers, Forced, AffectorSpecs
<1>8. ASSUME NEW c \in DOMAIN cache'
      PROVE  c[1] \in affectees /\ (Right(c)' \/ \E e \in Left' : Reaches(e, c)')
  <2>1. c \in DOMAIN cache /\ c[1] # i
    BY <1>6, CellIs
  <2>2. c[1] \in affectees
    BY <1>2, <1>3, <2>1 DEF ValueInv, Keeping, Due
  <2>3. CASE Right(c)
    <3>1. ASSUME NEW d \in ReadsOf(c)
          PROVE  d \in DOMAIN cache' \cup DOMAIN override' /\ Exposed(d)' = Exposed(d)
      <4>1. d[1] # i
        BY <1>1, <1>2, <1>3, <1>5, <2>1, <2>2, ReadsLoaded
      <4>2. d \in DOMAIN cache \cup DOMAIN override
        BY <2>3 DEF Right
      <4> QED BY <1>1, <1>6, <4>1, <4>2 DEF Exposed
    <3>2. \A s : ModReads(seat, s)' = ModReads(seat, s)
      BY <1>1 DEF ModReads, HasPaste, Seated, Ship
    <3>3. Modifying(seat, AffectorSpecs(c[1]), c[2])' = Modifying(seat, AffectorSpecs(c[1]), c[2])
      BY <1>7, <3>2 DEF Modifying
    <3>4. \A d \in CapOf(c) : <<c[1], d[2], c[2]>> \in capped'
      BY <1>1, <2>1, <2>3 DEF Right
    <3> QED BY <1>6, <2>2, <2>3, <3>1, <3>2, <3>3, <3>4, RightStays
  <2>4. CASE ~Right(c)
    <3>1. PICK e \in Left : Reaches(e, c)
      BY <2>1, <2>2, <2>4 DEF ValueInv, Keeping
    <3>2. /\ e.do = "added" /\ c \in AffectedBy(Restocked("added", e.item))
          /\ \A d \in Left : ~Switches(d)
      BY <1>1, <1>2, <1>3, <3>1 DEF Reaches
    <3>3. (c \in AffectedBy(Restocked("added", e.item)))'
      BY <1>1, <3>2, SameRestock
    <3>4. (\A d \in Left : ~Switches(d))'
      BY <1>2, <1>4, <3>2 DEF Switches
    <3>5. Reaches(e, c)'
      BY <3>2, <3>3, <3>4 DEF Reaches
    <3> QED BY <1>1, <1>2, <1>4, <2>2, <3>2, <3>5
  <2> QED BY <2>3, <2>4
<1>9. Keeping'
  BY <1>1, <1>8 DEF Keeping
<1>10. Listening'
  BY <1>1, <1>7 DEF ValueInv, Listening
<1>11. Clearing'
  BY <1>3, <1>4 DEF Clearing
<1>12. Pasting'
  BY <1>1, <1>2, <1>4, <1>6, <1>7, PastingStays
<1> QED BY <1>9, <1>10, <1>11, <1>12 DEF ValueInv

\* A handler that drops the cells its message reaches, and makes it known,
\* keeps the others right or reached.
LEMMA DropKeeps ==
  ASSUME AttrInv, AttrInv', ValueInv, agenda # <<>>, NEW X, Drop(X),
         UNCHANGED <<seat, running, override, capped, registers, listeners, hears>>,
         Head(agenda).do \in {"changed", "revise", "added", "removed"},
         \A e \in Of(Publish(Recalculated(X))) : e \in Left',
         \A e \in Of(Tail(agenda)) : e \in Left',
         \A e \in Left' : e.do \in {"changed", "revise"} \/ e \in Of(Tail(agenda)),
         \A c : Reaches(Head(agenda), c) => c \in X \/ \E e \in Left' : Reaches(e, c)'
  PROVE  Keeping' /\ Listening' /\ Clearing'
<1> DEFINE h == Head(agenda)
           T == Of(Tail(agenda))
<1>1. Left = {h} \cup T
  BY FromFront
<1> HIDE DEF h, T
<1>2. affectees' = affectees /\ Forced' = Forced /\ \A j : AffectorSpecs(j)' = AffectorSpecs(j)
  BY DEF registers, Forced, AffectorSpecs
<1>3. Listening'
  BY <1>2 DEF ValueInv, Listening
<1>4. \A do, j : do \in {"clear", "unloaded"} /\ Due(Left, do, j) => Due(Left', do, j)
  BY <1>1 DEF Due, h, T
<1>5. (\A d \in Left : ~Switches(d)) => \A d \in Left' : ~Switches(d)
  BY <1>1 DEF Switches, T
<1>6. ASSUME NEW c \in DOMAIN cache'
      PROVE  /\ c[1] \in affectees => Right(c)' \/ \E e \in Left' : Reaches(e, c)'
             /\ c[1] \notin affectees => Due(Left', "clear", c[1])
  <2>1. c \in DOMAIN cache /\ c \notin X
    BY DEF Drop
  <2>2. ASSUME c[1] \in affectees, Right(c)
        PROVE  Right(c)' \/ \E e \in Left' : Reaches(e, c)'
    <3>1. \A s : ModReads(seat, s)' = ModReads(seat, s)
      BY DEF ModReads, HasPaste, Seated, Ship
    <3>2. Modifying(seat, AffectorSpecs(c[1]), c[2])' = Modifying(seat, AffectorSpecs(c[1]), c[2])
      BY <1>2, <3>1 DEF Modifying
    <3> QED BY <1>2, <1>3, <2>2, <3>2, KeptOrReached
  <2>3. ASSUME NEW e \in Left, Reaches(e, c)
        PROVE  \E d \in Left' : Reaches(d, c)'
    <3>1. CASE e = h
      BY <2>1, <2>3, <3>1 DEF h
    <3>2. CASE e \in T
      <4>1. Reaches(e, c)'
        BY <1>2, <1>5, <2>3, StillReached
      <4> QED BY <3>2, <4>1 DEF T
    <3> QED BY <1>1, <3>1, <3>2
  <2>4. c[1] \notin affectees => Due(Left', "clear", c[1])
    BY <1>4, <2>1 DEF ValueInv, Keeping
  <2> QED BY <2>1, <2>2, <2>3, <2>4 DEF ValueInv, Keeping
<1>7. Keeping'
  BY <1>2, <1>6 DEF Keeping
<1>8. Clearing'
  <2>1. \A e \in Left' : e.do \in {"loaded", "unloaded", "clear"} => e \in Left
    BY <1>1 DEF T
  <2> QED BY <1>2, <1>4, <2>1 DEF ValueInv, Clearing
<1> QED BY <1>3, <1>7, <1>8

\* What is left after news about dropped values
LEMMA LeftNews ==
  ASSUME AttrInv, agenda # <<>>, NEW X, Then(Publish(Recalculated(X)))
  PROVE  /\ \A e \in Of(Publish(Recalculated(X))) : e \in Left'
         /\ \A e \in Of(Tail(agenda)) : e \in Left'
         /\ \A e \in Left' : e.do = "changed" \/ e \in Of(Tail(agenda))
<1>1. /\ Publish(Recalculated(X)) \in Seq(Entries)
      /\ \A e \in Of(Publish(Recalculated(X))) : e.do = "changed"
  BY Publishes DEF AttrInv
<1>2. Left' = Of(Publish(Recalculated(X))) \cup Of(Tail(agenda))
  BY <1>1, LeftAfter
<1> QED BY <1>1, <1>2

\* _revise_python_attr_dependents, for changed values
LEMMA ValueRevise ==
  ASSUME AttrInv, AttrInv', ValueInv, ReviseOnChange
  PROVE  ValueInv'
<1> DEFINE h == Head(agenda)
           X == AffectedBy(Revised(h.cells))
<1>1. /\ agenda # <<>> /\ h.do = "revise" /\ Drop(X) /\ Then(Publish(Recalculated(X)))
      /\ UNCHANGED <<seat, running, override, capped, registers, listeners, hears>>
  BY DEF ReviseOnChange, Doing, Revise, Revised, python
<1>2. /\ \A e \in Of(Publish(Recalculated(X))) : e \in Left'
      /\ \A e \in Of(Tail(agenda)) : e \in Left'
      /\ \A e \in Left' : e.do = "changed" \/ e \in Of(Tail(agenda))
  BY <1>1, LeftNews
<1>3. \A c : Reaches(h, c) => c \in X
  BY <1>1 DEF Reaches
<1> HIDE DEF X
<1>4. Keeping' /\ Listening' /\ Clearing'
  BY <1>1, <1>2, <1>3, DropKeeps
<1>5. Pasting'
  <2>1. Left = {h} \cup Of(Tail(agenda))
    BY <1>1, FromFront
  <2>2. affectees' = affectees /\ Forced' = Forced
    BY <1>1 DEF registers, Forced
  <2>3. DOMAIN cache' \subseteq DOMAIN cache
    BY <1>1 DEF Drop
  <2> HIDE DEF h
  <2> QED BY <1>1, <1>2, <2>1, <2>2, <2>3, PastingStays
<1> QED BY <1>4, <1>5 DEF ValueInv

\* _revise_regular_attr_dependents
LEMMA ValueChanged ==
  ASSUME AttrInv, AttrInv', ValueInv, AttrsValueChanged
  PROVE  ValueInv'
<1> DEFINE h == Head(agenda)
           X == Dependents(h.cells)
           news == Publish(Recalculated(X))
<1>0. PICK r : r = [h EXCEPT !.do = "revise"]
  OBVIOUS
<1>1. /\ agenda # <<>> /\ h.do = "changed" /\ Drop(X) /\ Then(news \o news \o <<r>>)
      /\ UNCHANGED <<seat, running, override, capped, registers, listeners, hears>>
  BY <1>0 DEF AttrsValueChanged, Doing, python
<1>2. Left = {h} \cup Of(Tail(agenda)) /\ h \in Entries
  BY <1>1, FromFront
<1>3. r \in Entries /\ r.do = "revise" /\ r.cells = h.cells
  BY <1>0, <1>1, <1>2 DEF Entries
<1>4. news \in Seq(Entries) /\ \A e \in Of(news) : e.do = "changed"
  BY Publishes DEF AttrInv
<1> HIDE DEF h, news
<1>5. news \o news \o <<r>> \in Seq(Entries) /\ Of(news \o news \o <<r>>) = Of(news) \cup {r}
  <2>1. <<r>> \in Seq(Entries) /\ Of(<<r>>) = {r}
    BY <1>3, OneLeft
  <2>2. news \o news \in Seq(Entries) /\ Of(news \o news) = Of(news)
    BY <1>4, OfBoth
  <2> QED BY <2>1, <2>2, OfBoth
<1>6. Left' = Of(news) \cup {r} \cup Of(Tail(agenda))
  BY <1>1, <1>5, LeftAfter
<1>7. ASSUME NEW c, Reaches(h, c)
      PROVE  c \in X \/ Reaches(r, c)'
  <2>1. CASE c \in AffectedBy(Revised(h.cells))
    <3>1. Reaches(r, c)
      BY <1>3, <2>1 DEF Reaches
    <3>2. (\A d \in Left : ~Switches(d)) => \A d \in Left' : ~Switches(d)
      BY <1>2, <1>3, <1>4, <1>6 DEF Switches
    <3>3. UNCHANGED affectees
      BY <1>1 DEF registers
    <3> QED BY <1>1, <3>1, <3>2, <3>3, StillReached
  <2> QED BY <1>1, <1>7, <2>1 DEF Reaches
<1>8. Keeping' /\ Listening' /\ Clearing'
  <2>1. \A c : Reaches(h, c) => c \in X \/ \E e \in Left' : Reaches(e, c)'
    BY <1>6, <1>7
  <2>2. \A e \in Of(Publish(Recalculated(X))) : e \in Left'
    BY <1>6 DEF news
  <2>3. \A e \in Left' : e.do \in {"changed", "revise"} \/ e \in Of(Tail(agenda))
    BY <1>3, <1>4, <1>6
  <2> HIDE DEF X
  <2> QED BY <1>1, <1>6, <2>1, <2>2, <2>3, DropKeeps DEF h
<1>9. Pasting'
  <2>1. affectees' = affectees /\ Forced' = Forced
    BY <1>1 DEF registers, Forced
  <2>2. DOMAIN cache' \subseteq DOMAIN cache
    BY <1>1 DEF Drop
  <2> QED BY <1>1, <1>2, <1>3, <1>4, <1>6, <2>1, <2>2, PastingStays
<1> QED BY <1>8, <1>9 DEF ValueInv

\* An ancillary repairer in force hears of the paste in it.
LEMMA HearsPaste ==
  ASSUME Listening, NEW s \in Forced, s \in Specs, s.mod.kind = "ancillary",
         NEW i \in Items, Owner[SeatOf[i]] = s.item, i \in Paste, Seated(seat, i),
         NEW type \in {"added", "removed"}
  PROVE  /\ s \in Restocked(type, i)
         /\ \A S : s \in S => <<s.item, s.mod.attr>> \in AffectedBy(S)
<1> DEFINE w == <<type, s>>
<1>1. type \in RevisesOn(s)
  BY DEF RevisesOn
<1>2. w \in listeners
  BY <1>1 DEF Listening, Wishes
<1>3. <<FitOf[w[2].item], w[1]>> \in hears
  BY <1>2 DEF Listening
<1>4. FitOf[s.item] = FitOf[i]
  <2>1. s.item \in Items
    BY SpecTyped
  <2> QED BY <2>1, ModelAssumption DEF ModelAssumption
<1>5. s \in Restocked(type, i)
  BY <1>2, <1>3, <1>4 DEF Restocked
<1>6. LocalAffectees(s) = {s.item}
  BY PythonActs DEF LocalAffectees
<1> QED BY <1>5, <1>6, Hits

\* ItemAdded and ItemRemoved, for python modifiers
LEMMA ValuePaste ==
  ASSUME AttrInv, AttrInv', ValueInv, ReviseOnPaste
  PROVE  ValueInv'
<1> DEFINE h == Head(agenda)
           i == h.item
           X == AffectedBy(Restocked(h.do, i))
           T == Of(Tail(agenda))
<1>1. /\ agenda # <<>> /\ h.do \in {"added", "removed"} /\ Drop(X) /\ Then(Publish(Recalculated(X)))
      /\ UNCHANGED <<seat, running, override, capped, registers, listeners, hears>>
  BY DEF ReviseOnPaste, Doing, Revise, Restocked, python
<1>2. /\ \A e \in Of(Publish(Recalculated(X))) : e \in Left'
      /\ \A e \in T : e \in Left'
      /\ \A e \in Left' : e.do = "changed" \/ e \in T
  BY <1>1, LeftNews
<1>3. /\ Left = {h} \cup T /\ Left \subseteq Entries /\ h \in Left /\ \A e \in T : Before(h, e)
  BY <1>1, FromFront
<1>4. \A c : Reaches(h, c) => c \in X
  BY <1>1 DEF Reaches
<1>5. Keeping' /\ Listening' /\ Clearing'
  <2> HIDE DEF X
  <2> QED BY <1>1, <1>2, <1>4, DropKeeps
<1>6. affectees' = affectees /\ Forced' = Forced
  BY <1>1 DEF registers, Forced
<1>7. DOMAIN cache' = DOMAIN cache \ X
  BY <1>1 DEF Drop
<1> HIDE DEF h, T, X
<1>8. CASE h.do = "added"
  <2>1. \A e \in T : e.do \in {"load", "added"}
    BY <1>3, <1>8 DEF Before, Rank, Entries
  <2> QED BY <1>2, <1>5, <2>1 DEF ValueInv, Pasting
<1>9. CASE h.do = "removed"
  <2>1. ASSUME NEW e \in Left', e.do = "seat", Owner[e.seat] \in affectees
        PROVE  /\ e.item \in Paste => Due(Left', "added", e.item)
               /\ seat[e.seat] \in Paste =>
                    \/ Due(Left', "removed", seat[e.seat])
                    \/ \A s \in Forced : s.item = Owner[e.seat] /\ s.mod.kind = "ancillary" =>
                         <<s.item, s.mod.attr>> \notin DOMAIN cache'
    <3>1. e \in Left
      BY <1>2, <1>3, <2>1
    <3>2. e.item \in Paste => Due(Left', "added", e.item)
      BY <1>2, <1>3, <1>9, <2>1, <3>1 DEF ValueInv, Pasting, Due
    <3>3. ASSUME seat[e.seat] \in Paste, ~Due(Left', "removed", seat[e.seat]),
                 NEW s \in Forced, s.item = Owner[e.seat], s.mod.kind = "ancillary"
          PROVE  <<s.item, s.mod.attr>> \notin DOMAIN cache'
      <4>1. CASE <<s.item, s.mod.attr>> \notin DOMAIN cache
        BY <1>7, <4>1
      <4>2. CASE <<s.item, s.mod.attr>> \in DOMAIN cache
        <5>1. Due(Left, "removed", seat[e.seat])
          BY <2>1, <3>1, <3>3, <4>2 DEF ValueInv, Pasting
        <5>2. i = seat[e.seat]
          BY <1>2, <1>3, <3>3, <5>1 DEF Due
        <5>3. i \in Items /\ i # None /\ e.seat \in Seats
          <6>1. e.seat \in Seats
            BY <1>3, <2>1, <3>1 DEF Entries
          <6> QED BY <3>3, <5>2, <6>1, ModelAssumption DEF ModelAssumption
        <5>4. SeatOf[i] = e.seat /\ Seated(seat, i)
          BY <5>2, <5>3 DEF AttrInv, Typed, Seated
        <5>5. s \in Specs
          BY <3>3, ForcedIs
        <5>6. <<s.item, s.mod.attr>> \in X
          BY <1>9, <3>3, <5>2, <5>3, <5>4, <5>5, HearsPaste DEF X, ValueInv
        <5> QED BY <1>7, <5>6
      <4> QED BY <4>1, <4>2
    <3> QED BY <3>2, <3>3
  <2>2. Pasting'
    BY <1>1, <1>6, <2>1 DEF Pasting
  <2> QED BY <1>5, <2>2 DEF ValueInv
<1> QED BY <1>1, <1>8, <1>9

\* The registers find the specs meant for an affectee, before and after a step.
AffectorsSaid == \A j \in affectees : AffectorSpecs(j) = {s \in Forced : Affects(seat, s, j)}
LEMMA AffectorsNow == AttrInv => AffectorsSaid
BY AffectorsAre DEF AffectorsSaid
LEMMA AffectorsAfter == (AttrInv => AffectorsSaid)'
BY AffectorsNow, PTL

\* As items come and go, values of those that stay remain right.
LEMMA RightWhileMoving ==
  ASSUME AttrInv, AttrInv', UNCHANGED <<seat, override, values>>, Forced' = Forced,
         NEW c \in DOMAIN cache, c[1] \in affectees, c[1] \in affectees', Right(c)
  PROVE  Right(c)'
<1>1. AffectorSpecs(c[1])' = AffectorSpecs(c[1])
  <2>1. \A s : Affects(seat, s, c[1])' = Affects(seat, s, c[1])
    BY DEF Affects, Others, Target, Ship, Character, Seated
  <2>2. AffectorSpecs(c[1]) = {s \in Forced : Affects(seat, s, c[1])}
    BY AffectorsNow DEF AffectorsSaid
  <2>3. AffectorSpecs(c[1])' = {s \in Forced' : Affects(seat, s, c[1])'}
    BY AffectorsAfter DEF AffectorsSaid
  <2> QED BY <2>1, <2>2, <2>3
<1>2. \A s : ModReads(seat, s)' = ModReads(seat, s)
  BY DEF ModReads, HasPaste, Seated, Ship
<1>3. Modifying(seat, AffectorSpecs(c[1]), c[2])' = Modifying(seat, AffectorSpecs(c[1]), c[2])
  BY <1>1, <1>2 DEF Modifying
<1>4. \A d \in ReadsOf(c) : d \in DOMAIN cache' \cup DOMAIN override' /\ Exposed(d)' = Exposed(d)
  BY DEF Right, values, Exposed
<1>5. cache'[c] = cache[c] /\ \A d \in CapOf(c) : <<c[1], d[2], c[2]>> \in capped'
  BY DEF values, Right
<1> QED BY <1>2, <1>3, <1>4, <1>5, RightStays

\* A cell that specs reach is reached as long as its item is an affectee.
LEMMA StillHit ==
  ASSUME seat' = seat, NEW S, NEW c, c \in AffectedBy(S), c[1] \in affectees'
  PROVE  c \in AffectedBy(S)'
<1>1. PICK s \in S : \E j \in LocalAffectees(s) : c = <<j, s.mod.attr>>
  BY Hits
<1>2. PICK j \in LocalAffectees(s) : c = <<j, s.mod.attr>>
  BY <1>1
<1>3. j \in affectees'
  BY <1>2
<1>4. j \in LocalAffectees(s)'
  BY <1>2, <1>3 DEF LocalAffectees
<1> QED BY <1>2, <1>4 DEF AffectedBy

\* Paste to come and effects to stop reach the values of items that stay.
LEMMA ReachedWhileMoving ==
  ASSUME UNCHANGED <<seat, listeners, hears>>, NEW c, c[1] \in affectees',
         NEW e, Reaches(e, c), e.do \in {"added", "stopped"},
         (\A d \in Left : ~Switches(d)) => \A d \in Left' : ~Switches(d)
  PROVE  Reaches(e, c)'
<1>1. CASE e.do = "added"
  <2>1. PICK S : S = Restocked("added", e.item)
    OBVIOUS
  <2>2. S = Restocked("added", e.item)'
    BY <2>1 DEF Restocked
  <2>3. c \in AffectedBy(S) /\ \A d \in Left : ~Switches(d)
    BY <1>1, <2>1 DEF Reaches
  <2>4. c \in AffectedBy(S)'
    BY <2>3, StillHit
  <2>5. AffectedBy(S)' = AffectedBy(Restocked("added", e.item))'
    BY <2>2 DEF AffectedBy
  <2>6. (\A d \in Left : ~Switches(d))'
    BY <2>3 DEF Switches
  <2> QED BY <1>1, <2>4, <2>5, <2>6 DEF Reaches
<1>2. CASE e.do = "stopped"
  <2>1. c \in AffectedBy(LocalSpecs(e.item, e.effects))
    BY <1>2 DEF Reaches
  <2>2. c \in AffectedBy(LocalSpecs(e.item, e.effects))'
    BY <2>1, StillHit
  <2> QED BY <1>2, <2>2 DEF Reaches
<1> QED BY <1>1, <1>2

\* _handle_item_loaded
LEMMA ValueLoaded ==
  ASSUME AttrInv, AttrInv', ValueInv, ItemLoaded
  PROVE  ValueInv'
<1> DEFINE h == Head(agenda)
           i == h.item
           T == Of(Tail(agenda))
           woken == {s \in awaiting :
                     /\ FitOf[s.item] = FitOf[i]
                     /\ \/ s.mod.filter = "ship" /\ SeatOf[i] = ShipSeat[FitOf[i]]
                        \/ s.mod.filter = "character"
                             /\ SeatOf[i] = CharacterSeat[FitOf[i]]
                        \/ s.mod.filter = "self" /\ s.item = i}
<1>1. /\ agenda # <<>> /\ h.do = "loaded" /\ Then(<<>>)
      /\ UNCHANGED <<seat, override, values, listeners, hears>>
      /\ UNCHANGED <<other, mass>>
      /\ affectees' = affectees \cup {i} /\ awaiting' = awaiting \ woken
      /\ active' = active \cup
           ({i} \X (woken \cup {s \in other : i \in Others(seat, s.item)}))
  BY DEF ItemLoaded, Doing, python
<1>2. /\ Left = {h} \cup T /\ Left \subseteq Entries /\ h \in Left /\ \A e \in T : Before(h, e)
  BY <1>1, FromFront
<1>3. Left' = T
  BY <1>1, NothingLeft, LeftAfter
<1> HIDE DEF h, T
<1>4. \A e \in Left : ~Switches(e) /\ e.do \notin {"changed", "revise", "clear", "unloaded"}
  <2>1. \A e \in Left : e.do \notin {"changed", "revise"}
    BY <1>1, <1>2 DEF Before, Rank
  <2>2. \A e \in Left : ~Switches(e)
    BY <1>1, <1>2 DEF AttrInv, Presence, Left
  <2>3. \A e \in Left : e.do \notin {"clear", "unloaded"}
    BY <1>1, <1>2 DEF ValueInv, Clearing, Due
  <2> QED BY <2>1, <2>2, <2>3
<1>5. Forced' = Forced
  <2>1. woken \subseteq awaiting
    OBVIOUS
  <2> DEFINE more == {s \in other : i \in Others(seat, s.item)}
  <2>2. {p[2] : p \in active'} = {p[2] : p \in active} \cup woken \cup more
    <3>1. active' = active \cup ({i} \X (woken \cup more))
      BY <1>1
    <3> HIDE DEF woken, more
    <3>2. ASSUME NEW y \in woken \cup more
          PROVE  y \in {p[2] : p \in active'}
      <4> DEFINE p == <<i, y>>
      <4>1. p \in active' /\ p[2] = y
        BY <3>1
      <4> HIDE DEF p
      <4> QED BY <4>1
    <3>3. ASSUME NEW p \in active'
          PROVE  p[2] \in {q[2] : q \in active} \cup woken \cup more
      BY <3>1
    <3>4. \A p \in active : p \in active'
      BY <3>1
    <3> QED BY <3>2, <3>3, <3>4
  <2> HIDE DEF woken
  <2> QED BY <1>1, <2>1, <2>2 DEF Forced
<1>6. ASSUME NEW c \in DOMAIN cache
      PROVE  c[1] \in affectees' /\ (Right(c)' \/ \E e \in Left' : Reaches(e, c)')
  <2>1. c[1] \in affectees /\ c[1] \in affectees'
    BY <1>1, <1>4 DEF ValueInv, Keeping, Due
  <2>2. CASE Right(c)
    BY <1>1, <1>5, <2>1, <2>2, RightWhileMoving
  <2>3. CASE ~Right(c)
    <3>1. PICK e \in Left : Reaches(e, c)
      BY <2>1, <2>3 DEF ValueInv, Keeping
    <3>2. e.do \in {"added", "stopped"}
      BY <1>4, <3>1 DEF Reaches
    <3>3. \A d \in Left' : ~Switches(d)
      BY <1>2, <1>3, <1>4
    <3>4. Reaches(e, c)'
      BY <1>1, <2>1, <3>1, <3>2, <3>3, ReachedWhileMoving
    <3> QED BY <1>1, <1>2, <1>3, <2>1, <3>2, <3>4
  <2> QED BY <2>2, <2>3
<1>7. Keeping'
  BY <1>1, <1>6 DEF Keeping, values
<1>8. Listening'
  BY <1>1, <1>5 DEF ValueInv, Listening
<1>9. Clearing' /\ Pasting'
  BY <1>2, <1>3, <1>4 DEF Clearing, Pasting, Switches
<1> QED BY <1>7, <1>8, <1>9 DEF ValueInv

\* _handle_item_unloaded
LEMMA ValueUnloaded ==
  ASSUME AttrInv, AttrInv', ValueInv, ItemUnloaded
  PROVE  ValueInv'
<1> DEFINE h == Head(agenda)
           i == h.item
           T == Of(Tail(agenda))
           back == {p[2] : p \in {q \in active : q[1] = i /\ q[2].mod.filter \in Single}}
<1>1. /\ agenda # <<>> /\ h.do = "unloaded" /\ Then(<<>>)
      /\ UNCHANGED <<seat, override, values, listeners, hears>>
      /\ UNCHANGED <<other, mass>>
      /\ affectees' = affectees \ {i} /\ awaiting' = awaiting \cup back
      /\ active' = {p \in active : p[1] # i}
  BY DEF ItemUnloaded, Doing, python
<1>2. /\ Left = {h} \cup T /\ Left \subseteq Entries /\ h \in Left /\ \A e \in T : Before(h, e)
  BY <1>1, FromFront
<1>3. Left' = T
  BY <1>1, NothingLeft, LeftAfter
<1> HIDE DEF h, T
<1>4. \A e \in T : e.do \in {"clear", "unload", "removed", "seat", "source", "load", "added"}
  BY <1>1, <1>2 DEF Before, Rank, Entries
<1>5. Forced' = Forced
  <2>1. \A p \in active : p[2].mod.filter \in Single \/ p[2] \in other
    BY Acts DEF AttrInv, Stored, Filtered
  <2>2. back \subseteq {p[2] : p \in active}
    OBVIOUS
  <2>3. {p[2] : p \in active} \subseteq back \cup {p[2] : p \in active'} \cup other
    BY <1>1, <2>1
  <2>4. {p[2] : p \in active'} \subseteq {p[2] : p \in active}
    BY <1>1
  <2> HIDE DEF back
  <2> QED BY <1>1, <2>2, <2>3, <2>4 DEF Forced
<1>6. ASSUME NEW c \in DOMAIN cache
      PROVE  /\ c[1] \in affectees' => Right(c)' \/ \E e \in Left' : Reaches(e, c)'
             /\ c[1] \notin affectees' => Due(Left', "clear", c[1])
  <2>1. ASSUME c[1] \in affectees'
        PROVE  Right(c)' \/ \E e \in Left' : Reaches(e, c)'
    <3>1. c[1] \in affectees
      BY <1>1, <2>1
    <3>2. CASE Right(c)
      BY <1>1, <1>5, <2>1, <3>1, <3>2, RightWhileMoving
    <3>3. CASE ~Right(c)
      <4>1. PICK e \in Left : Reaches(e, c)
        BY <3>1, <3>3 DEF ValueInv, Keeping
      <4>2. e.do = "added"
        BY <1>1, <1>2, <1>4, <4>1 DEF Reaches
      <4>3. (\A d \in Left : ~Switches(d)) => \A d \in Left' : ~Switches(d)
        BY <1>2, <1>3
      <4>4. Reaches(e, c)'
        BY <1>1, <2>1, <4>1, <4>2, <4>3, ReachedWhileMoving
      <4> QED BY <1>1, <1>2, <1>3, <4>2, <4>4
    <3> QED BY <3>2, <3>3
  <2>2. ASSUME c[1] \notin affectees'
        PROVE  Due(Left', "clear", c[1])
    <3>1. Due(Left, "clear", c[1])
      BY <1>1, <1>2, <2>2 DEF ValueInv, Keeping, Clearing
    <3> QED BY <1>1, <1>2, <1>3, <3>1 DEF Due
  <2> QED BY <2>1, <2>2
<1>7. Keeping'
  BY <1>1, <1>6 DEF Keeping, values
<1>8. Listening'
  BY <1>1, <1>5 DEF ValueInv, Listening
<1>9. Clearing'
  <2>1. ASSUME NEW d \in Left', d.do = "clear"
        PROVE  d.item \notin affectees'
    <3>1. d.item \notin affectees \/ Due(Left, "unloaded", d.item)
      BY <1>2, <1>3, <2>1 DEF ValueInv, Clearing
    <3> QED BY <1>1, <1>2, <1>4, <3>1 DEF Due
  <2> QED BY <1>3, <1>4, <2>1 DEF Clearing
<1>10. Pasting'
  <2>1. DOMAIN cache' = DOMAIN cache
    BY <1>1 DEF values
  <2> QED BY <1>1, <1>2, <1>3, <1>5, <2>1, PastingStays
<1> QED BY <1>7, <1>8, <1>9, <1>10 DEF ValueInv

\* Paste in an ancillary repairer reaches what the repairer modifies, before
\* and after a step.
PasteHeard ==
  \A s \in Forced \cap Specs, i \in Items \cap Paste :
    s.mod.kind = "ancillary" /\ Owner[SeatOf[i]] = s.item /\ Seated(seat, i) =>
      <<s.item, s.mod.attr>> \in AffectedBy(Restocked("added", i))
LEMMA PasteHeardNow == Listening => PasteHeard
BY HearsPaste DEF PasteHeard
LEMMA PasteHeardAfter == (Listening => PasteHeard)'
BY PasteHeardNow, PTL

\* The assignment in ItemDescriptor.__set__
LEMMA ValueSeat ==
  ASSUME AttrInv, AttrInv', ValueInv, SetSeat
  PROVE  ValueInv'
<1> DEFINE h == Head(agenda)
           p == h.seat
           n == h.item
           T == Of(Tail(agenda))
<1>1. /\ agenda # <<>> /\ h.do = "seat" /\ Then(<<>>) /\ seat' = [seat EXCEPT ![p] = n]
      /\ UNCHANGED <<source, running, override, values, registers, python>>
  BY DEF SetSeat, Doing
<1>2. /\ affectees' = affectees /\ Forced' = Forced /\ listeners' = listeners /\ hears' = hears
      /\ cache' = cache /\ capped' = capped /\ override' = override
      /\ \A j : AffectorSpecs(j)' = AffectorSpecs(j)
  BY <1>1 DEF registers, python, values, Forced, AffectorSpecs
<1>3. /\ Left = {h} \cup T /\ Left \subseteq Entries /\ h \in Left /\ \A e \in T : Before(h, e)
  BY <1>1, FromFront
<1>4. \A e \in T : e.do \in {"load", "added"}
  BY <1>1, <1>3 DEF Before, Rank, Entries
<1>5. Left' = T
  BY <1>1, NothingLeft, LeftAfter
<1>6. /\ p \in Seats /\ seat \in [Seats -> Items \cup {None}]
      /\ n \in Paste => n \in Items /\ SeatOf[n] = p
  <2>1. p \in Seats
    BY <1>1, <1>3 DEF Entries
  <2>2. n # None => SeatOf[n] = p
    <3>1. BeforeSwitch(Left, h)
      BY <1>1, <1>3 DEF AttrInv, Presence, Switches, Left
    <3> QED BY <1>1, <3>1 DEF BeforeSwitch
  <2> QED BY <2>1, <2>2, ModelAssumption DEF ModelAssumption, AttrInv, Typed
<1> HIDE DEF h, p, n, T
<1>7. /\ seat'[p] = n /\ \A q \in Seats : q # p => seat'[q] = seat[q]
  BY <1>1, <1>6
<1>8. Listening'
  BY <1>2 DEF ValueInv, Listening
<1>9. \A k \in Paste : k \in Items /\ SeatOf[k] \in Seats
  BY ModelAssumption DEF ModelAssumption
<1>10. ASSUME NEW c \in DOMAIN cache
       PROVE  c[1] \in affectees /\ (Right(c)' \/ \E e \in Left' : Reaches(e, c)')
  <2>1. c[1] \in affectees
    BY <1>1, <1>3, <1>4 DEF ValueInv, Keeping, Due
  <2>2. Right(c)
    BY <1>1, <1>3, <1>4, <2>1 DEF ValueInv, Keeping, Reaches, Switches
  <2> DEFINE M == {s \in AffectorSpecs(c[1]) : s.mod.attr = c[2]}
  <2>3. ASSUME NEW s \in M
        PROVE  /\ s \in Forced /\ s \in Specs /\ Affects(seat, s, c[1])
               /\ Affects(seat, s, c[1])'
    <3>1. s \in Forced /\ s \in Specs /\ Affects(seat, s, c[1])
      BY <2>1, Modified
    <3>2. s \in AffectorSpecs(c[1])'
      BY <1>2
    <3> QED BY <1>2, <2>1, <3>1, <3>2, AffectorsAfter DEF AffectorsSaid
  <2>4. CASE \A s \in M : ModReads(seat, s)' = ModReads(seat, s)
    <3>1. Modifying(seat, AffectorSpecs(c[1]), c[2])' = Modifying(seat, AffectorSpecs(c[1]), c[2])
      BY <1>2, <2>4 DEF Modifying
    <3>2. \A s \in Modifying(seat, AffectorSpecs(c[1]), c[2]) : ModReads(seat, s)' = ModReads(seat, s)
      BY <2>4 DEF Modifying
    <3>3. \A d \in ReadsOf(c) : d \in DOMAIN cache' \cup DOMAIN override' /\ Exposed(d)' = Exposed(d)
      BY <1>2, <2>2 DEF Right, Exposed
    <3>4. cache'[c] = cache[c] /\ \A d \in CapOf(c) : <<c[1], d[2], c[2]>> \in capped'
      BY <1>2, <2>2 DEF Right
    <3> QED BY <2>1, <2>2, <3>1, <3>2, <3>3, <3>4, RightStays
  <2>5. ASSUME NEW s \in M, ModReads(seat, s)' # ModReads(seat, s)
        PROVE  \E e \in Left' : Reaches(e, c)'
    <3>1. s.mod.kind = "ancillary" /\ HasPaste(seat, s.item)' # HasPaste(seat, s.item)
      <4>1. s.mod.kind \in {"dogma", "propulsion", "ancillary"}
        BY <2>3, SpecTyped DEF Modifier
      <4>2. s.mod.kind # "dogma"
        BY <2>5 DEF ModReads
      <4>3. ASSUME s.mod.kind = "propulsion"
            PROVE  FALSE
        <5>1. Ship(seat, FitOf[s.item])' = Ship(seat, FitOf[s.item])
          BY <2>3, <4>3, PythonActs DEF Affects, Target
        <5> QED BY <2>5, <4>3, <5>1 DEF ModReads
      <4>4. HasPaste(seat, s.item)' # HasPaste(seat, s.item)
        BY <2>5, <4>1, <4>2, <4>3 DEF ModReads
      <4> QED BY <4>1, <4>2, <4>3, <4>4
    <3>2. s.item = c[1] /\ c = <<s.item, s.mod.attr>>
      BY <2>3, <3>1, CellIs, PythonActs DEF Affects, Target
    <3>3. ASSUME seat[p] \in Paste, Owner[p] = s.item
          PROVE  FALSE
      <4>1. ~Due(Left, "removed", seat[p])
        BY <1>1, <1>3, <1>4 DEF Due
      <4> QED BY <1>1, <1>3, <2>1, <2>3, <3>1, <3>2, <3>3, <4>1 DEF ValueInv, Pasting, p
    <3>4. n \in Paste /\ Owner[p] = s.item
      <4>1. PICK k \in Paste : /\ Owner[SeatOf[k]] = s.item
                               /\ (seat[SeatOf[k]] = k) # (seat'[SeatOf[k]] = k)
        BY <3>1 DEF HasPaste, Seated
      <4>2. SeatOf[k] = p
        BY <1>7, <1>9, <4>1
      <4>3. seat[p] # k
        BY <3>3, <4>1, <4>2
      <4> QED BY <1>7, <4>1, <4>2, <4>3
    <3>5. Due(Left, "added", n)
      BY <1>1, <1>3, <2>1, <3>2, <3>4 DEF ValueInv, Pasting, p, n
    <3>6. PICK e \in Left' : e.do = "added" /\ e.item = n
      BY <1>1, <1>3, <1>5, <3>5 DEF Due
    <3>7. (<<s.item, s.mod.attr>> \in AffectedBy(Restocked("added", e.item)))'
      <4>1. s \in Forced' \cap Specs /\ e.item \in Items \cap Paste
        BY <1>2, <1>6, <2>3, <3>4, <3>6
      <4>2. Owner[SeatOf[e.item]] = s.item /\ Seated(seat, e.item)'
        <5>1. Seated(seat, e.item)'
          BY <1>6, <1>7, <3>4, <3>6 DEF Seated
        <5> QED BY <1>6, <3>4, <3>6, <5>1
      <4> QED BY <1>8, <3>1, <4>1, <4>2, PasteHeardAfter DEF PasteHeard
    <3>8. (\A d \in Left : ~Switches(d))'
      BY <1>4, <1>5 DEF Switches
    <3> QED BY <3>2, <3>6, <3>7, <3>8 DEF Reaches
  <2> QED BY <2>1, <2>4, <2>5
<1>11. Keeping'
  BY <1>2, <1>10 DEF Keeping
<1>12. Clearing' /\ Pasting'
  BY <1>4, <1>5 DEF Clearing, Pasting
<1> QED BY <1>8, <1>11, <1>12 DEF ValueInv
-----------------------------------------------------------------------------
(* Steps that start and stop effects. *)

\* What a message about effects is about
LEMMA EffectsSaid ==
  ASSUME AttrInv, agenda # <<>>, Head(agenda).do \in {"started", "stopped"}
  PROVE  /\ Head(agenda).item \in Items
         /\ LocalSpecs(Head(agenda).item, Head(agenda).effects) \subseteq Specs
<1> DEFINE h == Head(agenda)
<1>1. h \in Left /\ h \in Entries
  BY FromFront
<1>2. h.item \in Items
  BY <1>1 DEF Entries
<1>3. h.effects \subseteq EffectsOf[h.item]
  BY <1>1 DEF AttrInv, Runs, Left
<1> QED BY <1>2, <1>3, LocalTyped

\* The registers hold what has been started, and no more what has been stopped.
LEMMA ForcedMore ==
  ASSUME AttrInv, EffectsStarted
  PROVE  Forced' = Forced \cup LocalSpecs(Head(agenda).item, Head(agenda).effects)
<1> DEFINE F == InForce(Left, running)
           G == LocalSpecs(Head(agenda).item, Head(agenda).effects)
<1>1. Stored(F, seat, affectees, awaiting, active, other, mass)
  BY DEF AttrInv, Left
<1>2. Forced = F /\ F \in SUBSET Specs
  BY ForcedIs
<1>3. G \in SUBSET Specs
  BY EffectsSaid DEF EffectsStarted, Doing
<1>4. /\ awaiting' = awaiting \cup Waiting(G) /\ active' = active \cup Acting(G)
      /\ other' = other \cup Filtered(G, "other") /\ mass' = mass \cup Filtered(G, "mass")
  BY DEF EffectsStarted
<1> HIDE DEF F, G
<1>5. Stored(F \cup G, seat, affectees, awaiting', active', other', mass')
  BY <1>1, <1>4, AsStored, StoredMore
<1>6. Forced' = F \cup G
  <2>1. F \cup G \in SUBSET Specs
    BY <1>2, <1>3
  <2> QED BY <1>5, <2>1, Holds DEF Forced
<1> QED BY <1>2, <1>6 DEF G

LEMMA ForcedLess ==
  ASSUME AttrInv, EffectsStopped
  PROVE  Forced' = Forced \ LocalSpecs(Head(agenda).item, Head(agenda).effects)
<1> DEFINE F == InForce(Left, running)
           G == LocalSpecs(Head(agenda).item, Head(agenda).effects)
<1>1. Stored(F, seat, affectees, awaiting, active, other, mass)
  BY DEF AttrInv, Left
<1>2. Forced = F /\ F \in SUBSET Specs
  BY ForcedIs
<1>3. /\ awaiting' = awaiting \ Waiting(G) /\ active' = active \ Acting(G)
      /\ other' = other \ Filtered(G, "other") /\ mass' = mass \ Filtered(G, "mass")
  BY DEF EffectsStopped
<1> HIDE DEF F, G
<1>4. Stored(F \ G, seat, affectees, awaiting', active', other', mass')
  BY <1>1, <1>3, AsStored, StoredLess
<1>5. Forced' = F \ G
  <2>1. F \ G \in SUBSET Specs
    BY <1>2
  <2> QED BY <1>4, <2>1, Holds DEF Forced
<1> QED BY <1>2, <1>5 DEF G

\* Who wishes for what: only ancillary repairers want to see items.
LEMMA WishIs ==
  ASSUME NEW S \in SUBSET Specs, NEW w \in Wishes(S)
  PROVE  /\ w = <<w[1], w[2]>> /\ w[2] \in S /\ w[1] \in RevisesOn(w[2])
         /\ w[1] # "changed" => w[2].mod.kind = "ancillary"
<1>1. PICK s \in S : w \in RevisesOn(s) \X {s}
  BY DEF Wishes
<1>2. w = <<w[1], w[2]>> /\ w[2] = s /\ w[1] \in RevisesOn(s)
  BY <1>1
<1> QED BY <1>2 DEF RevisesOn

\* What is heard with these subscriptions
Heard(wishes) == {<<FitOf[w[2].item], w[1]>> : w \in {v \in wishes : v[1] # "changed"}}

\* The service goes on hearing for all it knows of, where they are.
LEMMA SubscribedHears ==
  ASSUME OneListens, NEW F \in SUBSET Specs, NEW G \in SUBSET Specs, NEW i,
         \A s \in G : s.item = i
  PROVE  /\ Wishes(F \cup G) = Wishes(F) \cup Wishes(G)
         /\ Heard(Wishes(F \cup G))
              = Heard(Wishes(F)) \cup ({FitOf[i]} \X (Types(Wishes(G)) \ Types(Wishes(F))))
<1> DEFINE A == Wishes(F)
           B == Wishes(G)
<1>1. Wishes(F \cup G) = A \cup B
  BY DEF Wishes
<1>2. ASSUME NEW w \in A \cup B, w[1] # "changed"
      PROVE  w[2] \in Specs /\ w[2].mod.kind = "ancillary"
  BY <1>2, WishIs
<1>3. \A w \in B : w[2].item = i
  BY WishIs
<1> HIDE DEF A, B
<1>4. ASSUME NEW w \in A \cup B, w[1] # "changed"
      PROVE  <<FitOf[w[2].item], w[1]>> \in Heard(A) \cup ({FitOf[i]} \X (Types(B) \ Types(A)))
  <2>1. CASE w \in A
    BY <1>4, <2>1 DEF Heard
  <2>2. CASE w \in B /\ w[1] \notin Types(A)
    BY <1>3, <1>4, <2>2 DEF Types
  <2>3. CASE w \in B /\ w[1] \in Types(A)
    <3>1. PICK v \in A : v[1] = w[1]
      BY <2>3 DEF Types
    <3>2. FitOf[v[2].item] = FitOf[w[2].item]
      BY <1>2, <1>4, <2>3, <3>1 DEF OneListens
    <3>3. <<FitOf[v[2].item], v[1]>> \in Heard(A)
      BY <1>4, <3>1 DEF Heard
    <3> QED BY <3>1, <3>2, <3>3
  <2> QED BY <2>1, <2>2, <2>3
<1>5. ASSUME NEW y \in Heard(A) \cup ({FitOf[i]} \X (Types(B) \ Types(A)))
      PROVE  y \in Heard(A \cup B)
  <2>1. CASE y \in Heard(A)
    BY <2>1 DEF Heard
  <2>2. CASE y \in {FitOf[i]} \X (Types(B) \ Types(A))
    <3>1. PICK t \in Types(B) : y = <<FitOf[i], t>>
      BY <2>2
    <3>2. PICK w \in B : w[1] = t /\ t # "changed"
      BY <3>1 DEF Types
    <3> QED BY <1>3, <3>1, <3>2 DEF Heard
  <2> QED BY <1>5, <2>1, <2>2
<1>6. Heard(A \cup B) \subseteq Heard(A) \cup ({FitOf[i]} \X (Types(B) \ Types(A)))
  BY <1>4 DEF Heard
<1>7. Heard(A \cup B) = Heard(A) \cup ({FitOf[i]} \X (Types(B) \ Types(A)))
  BY <1>5, <1>6
<1> QED BY <1>1, <1>7 DEF A, B

LEMMA UnsubscribedHears ==
  ASSUME OneListens, NEW F \in SUBSET Specs, NEW G \in SUBSET Specs, NEW i,
         \A s \in G : s.item = i
  PROVE  /\ Wishes(F \ G) = Wishes(F) \ Wishes(G)
         /\ Heard(Wishes(F \ G))
              = Heard(Wishes(F)) \ ({FitOf[i]} \X (Types(Wishes(G)) \ Types(Wishes(F \ G))))
<1> DEFINE A == Wishes(F)
           B == Wishes(G)
           C == Wishes(F \ G)
<1>1. C = A \ B
  <2>1. ASSUME NEW w \in C
        PROVE  w \in A /\ w \notin B
    <3>1. w[2] \in F \ G /\ w \in A
      BY WishIs DEF Wishes
    <3> QED BY <3>1, WishIs
  <2>2. ASSUME NEW w \in A, w \notin B
        PROVE  w \in C
    <3>1. w = <<w[1], w[2]>> /\ w[2] \in F /\ w[1] \in RevisesOn(w[2])
      BY WishIs
    <3>2. w[2] \notin G
      BY <2>2, <3>1 DEF Wishes
    <3>3. w \in RevisesOn(w[2]) \X {w[2]} /\ w[2] \in F \ G
      BY <3>1, <3>2
    <3> QED BY <3>3 DEF Wishes
  <2> QED BY <2>1, <2>2
<1>2. ASSUME NEW w \in A, w[1] # "changed"
      PROVE  w[2] \in Specs /\ w[2].mod.kind = "ancillary"
  BY <1>2, WishIs
<1>3. \A w \in B : w[2].item = i
  BY WishIs
<1> HIDE DEF A, B, C
<1>4. ASSUME NEW w \in C, w[1] # "changed"
      PROVE  <<FitOf[w[2].item], w[1]>> \in Heard(A) \ ({FitOf[i]} \X (Types(B) \ Types(C)))
  <2>1. w[1] \in Types(C) /\ w \in A
    BY <1>1, <1>4 DEF Types
  <2>2. <<FitOf[w[2].item], w[1]>> \in Heard(A)
    BY <1>4, <2>1 DEF Heard
  <2> QED BY <2>1, <2>2
<1>5. ASSUME NEW w \in A, w[1] # "changed",
             <<FitOf[w[2].item], w[1]>> \notin {FitOf[i]} \X (Types(B) \ Types(C))
      PROVE  <<FitOf[w[2].item], w[1]>> \in Heard(C)
  <2>1. CASE w \in C
    BY <1>5, <2>1 DEF Heard
  <2>2. CASE w \notin C
    <3>1. w \in B /\ w[1] \in Types(B) /\ w[2].item = i
      BY <1>1, <1>3, <1>5, <2>2 DEF Types
    <3>2. w[1] \in Types(C)
      BY <1>5, <3>1
    <3>3. PICK v \in C : v[1] = w[1]
      BY <3>2 DEF Types
    <3>4. FitOf[v[2].item] = FitOf[w[2].item]
      BY <1>1, <1>2, <1>5, <3>3 DEF OneListens
    <3>5. <<FitOf[v[2].item], v[1]>> \in Heard(C)
      BY <1>5, <3>3 DEF Heard
    <3> QED BY <3>3, <3>4, <3>5
  <2> QED BY <2>1, <2>2
<1>6. Heard(C) = Heard(A) \ ({FitOf[i]} \X (Types(B) \ Types(C)))
  <2>1. Heard(C) \subseteq Heard(A) \ ({FitOf[i]} \X (Types(B) \ Types(C)))
    BY <1>4 DEF Heard
  <2>2. Heard(A) \ ({FitOf[i]} \X (Types(B) \ Types(C))) \subseteq Heard(C)
    BY <1>5 DEF Heard
  <2> QED BY <2>1, <2>2
<1> QED BY <1>1, <1>6 DEF A, B, C

\* Specs that come or go leave a value they do not reach its modifiers.
LEMMA SameModifiers ==
  ASSUME AttrInv, AttrInv', seat' = seat, affectees' = affectees,
         NEW G \in SUBSET Specs, Forced' = Forced \cup G \/ Forced' = Forced \ G,
         NEW c \in DOMAIN cache, c[1] \in affectees, c \notin AffectedBy(G)
  PROVE  Modifying(seat, AffectorSpecs(c[1]), c[2])' = Modifying(seat, AffectorSpecs(c[1]), c[2])
<1>1. /\ \A s : ModReads(seat, s)' = ModReads(seat, s)
      /\ \A s : Affects(seat, s, c[1])' = Affects(seat, s, c[1])
  BY DEF ModReads, HasPaste, Affects, Others, Target, Character, Ship, Seated
<1>2. AffectorSpecs(c[1]) = {s \in Forced : Affects(seat, s, c[1])}
  BY AffectorsNow DEF AffectorsSaid
<1>3. AffectorSpecs(c[1])' = {s \in Forced' : Affects(seat, s, c[1])}
  BY <1>1, AffectorsAfter DEF AffectorsSaid
<1>4. ASSUME NEW s \in G, Affects(seat, s, c[1]), s.mod.attr = c[2]
      PROVE  FALSE
  <2>1. c[1] \in LocalAffectees(s) /\ c = <<c[1], s.mod.attr>>
    BY <1>4, Finds, CellIs
  <2> QED BY <2>1, Hits
<1>5. \A s : s.mod.attr = c[2] => (s \in AffectorSpecs(c[1])' <=> s \in AffectorSpecs(c[1]))
  BY <1>2, <1>3, <1>4
<1> QED BY <1>1, <1>5 DEF Modifying

\* _handle_effects_started
LEMMA ValueStarted ==
  ASSUME OneListens, AttrInv, AttrInv', ValueInv, EffectsStarted
  PROVE  ValueInv'
<1> DEFINE h == Head(agenda)
           i == h.item
           T == Of(Tail(agenda))
           G == LocalSpecs(i, h.effects)
           X == AffectedBy(G)
<1>1. /\ agenda # <<>> /\ h.do = "started" /\ Drop(X) /\ Then(Publish(Recalculated(X)))
      /\ UNCHANGED <<source, seat, running, override, capped, affectees>>
      /\ Subscribe(FitOf[i], G)
  BY DEF EffectsStarted, Doing
<1>2. /\ \A e \in Of(Publish(Recalculated(X))) : e \in Left'
      /\ \A e \in T : e \in Left'
      /\ \A e \in Left' : e.do = "changed" \/ e \in T
  BY <1>1, LeftNews
<1>3. /\ Left = {h} \cup T /\ Left \subseteq Entries /\ h \in Left /\ \A e \in T : Before(h, e)
  BY <1>1, FromFront
<1>4. \A e \in T : e.do \notin {"changed", "revise", "loaded", "started"}
  BY <1>1, <1>3 DEF Before, Rank
<1>5. G \in SUBSET Specs /\ \A s \in G : s.item = i
  BY <1>1, EffectsSaid, SpecOf
<1>6. Forced' = Forced \cup G /\ Forced \in SUBSET Specs
  BY ForcedMore, ForcedIs
<1> HIDE DEF h, T, i, G, X
<1>7. /\ listeners \subseteq listeners' /\ hears \subseteq hears'
      /\ Listening'
  <2>1. listeners = Wishes(Forced) /\ hears = Heard(Wishes(Forced))
    BY DEF ValueInv, Listening, Heard
  <2>2. /\ listeners' = Wishes(Forced) \cup Wishes(G)
        /\ hears' = hears \cup ({FitOf[i]} \X (Types(Wishes(G)) \ Types(Wishes(Forced))))
    BY <1>1, <2>1 DEF Subscribe
  <2>3. /\ Wishes(Forced \cup G) = Wishes(Forced) \cup Wishes(G)
        /\ Heard(Wishes(Forced \cup G))
             = Heard(Wishes(Forced)) \cup ({FitOf[i]} \X (Types(Wishes(G)) \ Types(Wishes(Forced))))
    BY <1>5, <1>6, SubscribedHears
  <2>4. listeners' = Wishes(Forced \cup G) /\ hears' = Heard(Wishes(Forced \cup G))
    BY <2>1, <2>2, <2>3
  <2> QED BY <1>6, <2>1, <2>2, <2>4 DEF Listening, Heard
<1>8. ASSUME NEW c \in DOMAIN cache'
      PROVE  /\ c[1] \in affectees => Right(c)' \/ \E e \in Left' : Reaches(e, c)'
             /\ c[1] \notin affectees => Due(Left', "clear", c[1])
  <2>1. c \in DOMAIN cache /\ c \notin X
    BY <1>1 DEF Drop
  <2>2. ASSUME c[1] \in affectees, Right(c)
        PROVE  Right(c)' \/ \E e \in Left' : Reaches(e, c)'
    <3>1. Modifying(seat, AffectorSpecs(c[1]), c[2])' = Modifying(seat, AffectorSpecs(c[1]), c[2])
      BY <1>1, <1>5, <1>6, <2>1, <2>2, SameModifiers DEF X
    <3> QED BY <1>1, <1>2, <1>7, <2>2, <3>1, KeptOrReached
  <2>3. ASSUME NEW e \in Left, Reaches(e, c)
        PROVE  e \in Left' /\ Reaches(e, c)'
    <3>1. e \in T /\ e \in Left' /\ e.do \in {"stopped", "added"}
      BY <1>1, <1>2, <1>3, <1>4, <2>3 DEF Reaches
    <3>2. CASE e.do = "stopped"
      <4>1. AffectedBy(LocalSpecs(e.item, e.effects))' = AffectedBy(LocalSpecs(e.item, e.effects))
        BY <1>1, SameReach DEF AffectedBy
      <4> QED BY <2>3, <3>1, <3>2, <4>1 DEF Reaches
    <3>3. CASE e.do = "added"
      <4>1. c \in AffectedBy(Restocked("added", e.item)) /\ \A d \in Left : ~Switches(d)
        BY <2>3, <3>3 DEF Reaches
      <4>2. Restocked("added", e.item) \subseteq Restocked("added", e.item)'
        BY <1>1, <1>7 DEF Restocked
      <4>3. \A s : LocalAffectees(s)' = LocalAffectees(s)
        BY <1>1, SameReach
      <4>4. (c \in AffectedBy(Restocked("added", e.item)))'
        BY <4>1, <4>2, <4>3 DEF AffectedBy
      <4>5. (\A d \in Left : ~Switches(d))'
        BY <1>2, <1>3, <4>1 DEF Switches
      <4> QED BY <3>1, <3>3, <4>4, <4>5 DEF Reaches
    <3> QED BY <3>1, <3>2, <3>3
  <2>4. c[1] \notin affectees => Due(Left', "clear", c[1])
    BY <1>1, <1>2, <1>3, <2>1 DEF ValueInv, Keeping, Due
  <2> QED BY <2>1, <2>2, <2>3, <2>4 DEF ValueInv, Keeping
<1>9. Keeping'
  BY <1>1, <1>8 DEF Keeping
<1>10. Clearing'
  <2>1. \A j : Due(Left, "clear", j) => Due(Left', "clear", j)
    BY <1>1, <1>2, <1>3 DEF Due
  <2>2. \A j : Due(Left, "unloaded", j) => Due(Left', "unloaded", j)
    BY <1>1, <1>2, <1>3 DEF Due
  <2>3. \A e \in Left' : e.do # "loaded"
    BY <1>2, <1>4
  <2>4. \A e \in Left' : e.do \in {"unloaded", "clear"} => e \in Left
    BY <1>2, <1>3
  <2> QED BY <1>1, <2>1, <2>2, <2>3, <2>4 DEF ValueInv, Clearing
<1>11. ASSUME NEW e \in Left', e.do = "seat", Owner[e.seat] \in affectees
       PROVE  /\ e.item \in Paste => Due(Left', "added", e.item)
              /\ seat[e.seat] \in Paste =>
                   \/ Due(Left', "removed", seat[e.seat])
                   \/ \A s \in Forced' : s.item = Owner[e.seat] /\ s.mod.kind = "ancillary" =>
                        <<s.item, s.mod.attr>> \notin DOMAIN cache'
  <2>1. e \in Left
    BY <1>2, <1>3, <1>11
  <2>2. \A do, j : do \in {"added", "removed"} /\ Due(Left, do, j) => Due(Left', do, j)
    BY <1>1, <1>2, <1>3 DEF Due
  <2>3. ASSUME NEW s \in G, s.mod.kind = "ancillary"
        PROVE  <<s.item, s.mod.attr>> \notin DOMAIN cache'
    <3>1. s.item \in LocalAffectees(s)
      BY <1>5, <2>3, PythonActs DEF LocalAffectees
    <3>2. <<s.item, s.mod.attr>> \in X
      BY <3>1, Hits DEF X
    <3> QED BY <1>1, <3>2 DEF Drop
  <2>4. DOMAIN cache' \subseteq DOMAIN cache
    BY <1>1 DEF Drop
  <2> QED BY <1>6, <1>11, <2>1, <2>2, <2>3, <2>4 DEF ValueInv, Pasting
<1>12. Pasting'
  BY <1>1, <1>11 DEF Pasting
<1> QED BY <1>7, <1>9, <1>10, <1>12 DEF ValueInv

\* _handle_effects_stopped
LEMMA ValueStopped ==
  ASSUME OneListens, AttrInv, AttrInv', ValueInv, EffectsStopped
  PROVE  ValueInv'
<1> DEFINE h == Head(agenda)
           i == h.item
           T == Of(Tail(agenda))
           G == LocalSpecs(i, h.effects)
           X == AffectedBy(G)
<1>1. /\ agenda # <<>> /\ h.do = "stopped" /\ Drop(X) /\ Then(Publish(Recalculated(X)))
      /\ UNCHANGED <<source, seat, running, override, capped, affectees>>
      /\ Unsubscribe(FitOf[i], G)
  BY DEF EffectsStopped, Doing
<1>2. /\ \A e \in Of(Publish(Recalculated(X))) : e \in Left'
      /\ \A e \in T : e \in Left'
      /\ \A e \in Left' : e.do = "changed" \/ e \in T
  BY <1>1, LeftNews
<1>3. /\ Left = {h} \cup T /\ Left \subseteq Entries /\ h \in Left /\ \A e \in T : Before(h, e)
  BY <1>1, FromFront
<1>4. \A e \in T : e.do \notin {"changed", "revise", "loaded", "started", "stopped"}
  BY <1>1, <1>3 DEF Before, Rank
<1>5. G \in SUBSET Specs /\ \A s \in G : s.item = i
  BY <1>1, EffectsSaid, SpecOf
<1>6. Forced' = Forced \ G /\ Forced \in SUBSET Specs
  BY ForcedLess, ForcedIs
<1>7. \A c : Reaches(h, c) => c \in X
  BY <1>1 DEF Reaches
<1> HIDE DEF h, T, i, G, X
<1>8. listeners' = listeners \ Wishes(G) /\ Listening'
  <2>1. listeners = Wishes(Forced) /\ hears = Heard(Wishes(Forced))
    BY DEF ValueInv, Listening, Heard
  <2> DEFINE less == {FitOf[i]} \X (Types(Wishes(G)) \ Types(Wishes(Forced \ G)))
  <2>2. /\ Wishes(Forced \ G) = Wishes(Forced) \ Wishes(G)
        /\ Heard(Wishes(Forced \ G)) = Heard(Wishes(Forced)) \ less
    <3>1. Forced \in SUBSET Specs /\ G \in SUBSET Specs /\ \A s \in G : s.item = i
      BY <1>5, <1>6
    <3> QED BY ONLY OneListens, <3>1, UnsubscribedHears
  <2>3. /\ listeners' = Wishes(Forced) \ Wishes(G)
        /\ hears' = hears \ ({FitOf[i]} \X (Types(Wishes(G)) \ Types(Wishes(Forced) \ Wishes(G))))
    BY <1>1, <2>1 DEF Unsubscribe
  <2>4. listeners' = Wishes(Forced \ G) /\ hears' = Heard(Wishes(Forced \ G))
    BY <2>1, <2>2, <2>3
  <2> QED BY <1>6, <2>1, <2>3, <2>4 DEF Listening, Heard
<1>9. ASSUME NEW e \in T, e.do = "added", NEW c, c \notin X, Reaches(e, c)
      PROVE  Reaches(e, c)'
  <2>1. c \in AffectedBy(Restocked("added", e.item)) /\ \A d \in Left : ~Switches(d)
    BY <1>9 DEF Reaches
  <2>2. PICK s \in Restocked("added", e.item) : \E j \in LocalAffectees(s) : c = <<j, s.mod.attr>>
    BY <2>1, Hits
  <2>3. s \notin G
    BY <1>9, <2>2, Hits DEF X
  <2> DEFINE w == <<"added", s>>
  <2>4. w \in listeners' /\ w[1] = "added" /\ w[2] = s
    <3>1. w \notin Wishes(G)
      BY <1>5, <2>3, WishIs
    <3> QED BY <1>8, <2>2, <3>1 DEF Restocked
  <2> HIDE DEF w
  <2>5. <<FitOf[s.item], "added">> \in hears'
    <3>1. <<FitOf[w[2].item], w[1]>> \in hears'
      BY <1>8, <2>4 DEF Listening
    <3> QED BY <2>4, <3>1
  <2>6. e.item \in Items /\ s.item \in Items
    BY <1>3, <1>9, <2>2, SpecTyped DEF Entries, Restocked
  <2>7. FitOf[e.item] = FitOf[s.item]
    BY <2>2, <2>6, ModelAssumption DEF ModelAssumption, Restocked
  <2>8. s \in Restocked("added", e.item)'
    BY <1>1, <2>2, <2>4, <2>5, <2>7 DEF Restocked, w
  <2>9. LocalAffectees(s)' = LocalAffectees(s)
    BY <1>1, SameReach
  <2>10. (c \in AffectedBy(Restocked("added", e.item)))'
    BY <2>2, <2>8, <2>9 DEF AffectedBy
  <2>11. (\A d \in Left : ~Switches(d))'
    BY <1>2, <1>3, <2>1 DEF Switches
  <2> QED BY <1>9, <2>10, <2>11 DEF Reaches
<1>10. ASSUME NEW c \in DOMAIN cache'
       PROVE  /\ c[1] \in affectees => Right(c)' \/ \E e \in Left' : Reaches(e, c)'
              /\ c[1] \notin affectees => Due(Left', "clear", c[1])
  <2>1. c \in DOMAIN cache /\ c \notin X
    BY <1>1 DEF Drop
  <2>2. ASSUME c[1] \in affectees, Right(c)
        PROVE  Right(c)' \/ \E e \in Left' : Reaches(e, c)'
    <3>1. Modifying(seat, AffectorSpecs(c[1]), c[2])' = Modifying(seat, AffectorSpecs(c[1]), c[2])
      BY <1>1, <1>5, <1>6, <2>1, <2>2, SameModifiers DEF X
    <3> QED BY <1>1, <1>2, <1>8, <2>2, <3>1, KeptOrReached
  <2>3. ASSUME NEW e \in Left, Reaches(e, c)
        PROVE  e \in Left' /\ Reaches(e, c)'
    <3>1. e \in T /\ e \in Left' /\ e.do = "added"
      BY <1>2, <1>3, <1>4, <1>7, <2>1, <2>3 DEF Reaches
    <3> QED BY <1>9, <2>1, <2>3, <3>1
  <2>4. c[1] \notin affectees => Due(Left', "clear", c[1])
    BY <1>1, <1>2, <1>3, <2>1 DEF ValueInv, Keeping, Due
  <2> QED BY <2>1, <2>2, <2>3, <2>4 DEF ValueInv, Keeping
<1>11. Keeping'
  BY <1>1, <1>10 DEF Keeping
<1>12. Clearing'
  <2>1. \A j : Due(Left, "clear", j) => Due(Left', "clear", j)
    BY <1>1, <1>2, <1>3 DEF Due
  <2>2. \A j : Due(Left, "unloaded", j) => Due(Left', "unloaded", j)
    BY <1>1, <1>2, <1>3 DEF Due
  <2>3. \A e \in Left' : e.do # "loaded"
    BY <1>2, <1>4
  <2>4. \A e \in Left' : e.do \in {"unloaded", "clear"} => e \in Left
    BY <1>2, <1>3
  <2> QED BY <1>1, <2>1, <2>2, <2>3, <2>4 DEF ValueInv, Clearing
<1>13. Pasting'
  <2>1. DOMAIN cache' \subseteq DOMAIN cache
    BY <1>1 DEF Drop
  <2> QED BY <1>1, <1>2, <1>3, <1>6, <2>1, PastingStays
<1> QED BY <1>8, <1>11, <1>12, <1>13 DEF ValueInv
-----------------------------------------------------------------------------
\* With nothing loaded nothing is kept.
LEMMA ValueInit == Init => ValueInv
<1> SUFFICES ASSUME Init PROVE ValueInv
  OBVIOUS
<1>1. Left = {}
  BY NothingLeft DEF Init, Left
<1>2. Keeping
  BY DEF Init, Keeping
<1>3. Forced = {}
  BY DEF Init, Forced
<1>4. Wishes({}) = {}
  BY DEF Wishes
<1>5. Listening
  BY <1>3, <1>4 DEF Init, Listening
<1> QED BY <1>1, <1>2, <1>5 DEF ValueInv, Clearing, Pasting

\* Every step of a call keeps the values.
LEMMA ValueDeliver ==
  ASSUME OneListens, AttrInv, AttrInv', ValueInv, Deliver
  PROVE  ValueInv'
BY ValueLoad, ValueUnload, ValueClear, ValueSeat, ValueSource, ValueLoaded, ValueUnloaded,
   ValueStarted, ValueStopped, ValueChanged, ValueRevise, ValuePaste DEF Deliver

\* Every value kept is right, or one of the messages on their way has it
\* dropped: kept by whatever the user does and every step that follows.
THEOREM ValueInductive ==
  ASSUME OneListens
  PROVE  AttrInv /\ ValueInv /\ [Next]_vars => AttrInv' /\ ValueInv'
<1> SUFFICES ASSUME AttrInv, ValueInv, [Next]_vars PROVE AttrInv' /\ ValueInv'
  OBVIOUS
<1>0. AttrInv'
  BY AttrInductive
<1>1. CASE Deliver
  BY <1>0, <1>1, ValueDeliver
<1>2. CASE \E p \in Seats, new \in Items \cup {None} : Assign(p, new)
  BY <1>0, <1>2, ValueAssign
<1>3. CASE \E s \in Sources \cup {None} : SetSource(s)
  BY <1>0, <1>3, ValueSetSource
<1>4. CASE \E i \in Items : \E effects \in SUBSET EffectsOf[i] : SetRunning(i, effects)
  BY <1>0, <1>4, ValueRunning
<1>5. CASE \E c \in Overridden : DelOverride(c) \/ \E v \in Callbacks : SetOverride(c, v)
  BY <1>0, <1>5, ValueOverride
<1>6. CASE \E c \in Cells : Read(c)
  BY <1>0, <1>6, ValueRead
<1>7. CASE UNCHANGED vars
  <2>1. UNCHANGED <<source, seat, running, override, values, registers, python, agenda>>
    BY <1>7 DEF vars
  <2>2. /\ Listening' /\ Forced' = Forced /\ affectees' = affectees /\ Left' = Left
        /\ cache' = cache
    BY <2>1, Passive DEF ValueInv, Left, values
  <2>3. Clearing' /\ Pasting'
    BY <2>1, <2>2 DEF ValueInv, Clearing, Pasting
  <2>4. ASSUME NEW c \in DOMAIN cache
        PROVE  /\ c[1] \in affectees => Right(c)' \/ \E e \in Left' : Reaches(e, c)'
               /\ c[1] \notin affectees => Due(Left', "clear", c[1])
    <3>1. \A e \in Left : Reaches(e, c) => Reaches(e, c)'
      <4>1. UNCHANGED <<seat, running, capped, affectees, listeners, hears>>
        BY <2>1 DEF values, registers, python
      <4>2. (\A d \in Left : ~Switches(d)) => \A d \in Left' : ~Switches(d)
        BY <2>2
      <4> QED BY <4>1, <4>2, StillReached
    <3>2. Right(c) => Right(c)'
      BY <2>1, Passive
    <3> QED BY <2>2, <3>1, <3>2 DEF ValueInv, Keeping
  <2>5. Keeping'
    BY <2>2, <2>4 DEF Keeping
  <2> QED BY <1>0, <2>2, <2>3, <2>5 DEF ValueInv
<1> QED BY <1>0, <1>1, <1>2, <1>3, <1>4, <1>5, <1>6, <1>7 DEF Next

\* Throughout, every value kept is right or about to be dropped.
LEMMA ValueInvariance ==
  ASSUME OneListens
  PROVE  Spec => [](AttrInv /\ ValueInv)
<1>1. Init => AttrInv /\ ValueInv
  BY AttrInit, ValueInit
<1>2. AttrInv /\ ValueInv /\ [Next]_vars => (AttrInv /\ ValueInv)'
  BY ValueInductive
<1> QED BY <1>1, <1>2, PTL DEF Spec

\* A value kept between calls has all it was calculated from.
LEMMA ValuesSupported == ValueInv => Supported
<1> SUFFICES ASSUME ValueInv, Idle, NEW c \in DOMAIN cache
             PROVE  /\ Reads(seat, AffectorSpecs(c[1]), c) \subseteq DOMAIN cache \cup DOMAIN override
                    /\ \A d \in CapOf(c) : <<c[1], d[2], c[2]>> \in capped
  BY DEF Supported
<1>1. Right(c)
  BY AtRest
<1> QED BY <1>1 DEF Right, ReadsOf

\* A value is only there while all it was calculated from is there too.
THEOREM SupportedHolds ==
  ASSUME OneListens
  PROVE  Spec => []Supported
BY ValueInvariance, ValuesSupported, PTL
-----------------------------------------------------------------------------
(* A calculation from scratch. *)

\* The cells down to depth n, and the depths there are.
Down(n) == {c \in Cells : Depth[c] <= n}
Deepest == Cardinality(Cells)

LEMMA Depths ==
  /\ Deepest \in Nat /\ Down(Deepest) = Cells
  /\ \A c \in Cells : Depth[c] \in 0..Deepest
<1>1. Deepest \in Nat
  BY FS_CardinalityType, ModelAssumption DEF ModelAssumption, Deepest
<1>2. \A c \in Cells : Depth[c] \in 0..Deepest
  BY DepthAssumption DEF DepthAssumption, Deepest
<1> QED BY <1>1, <1>2 DEF Down

\* Between the same contents of the fits, for given loaded items that run
\* effects of their own.
Contents(st, loaded, run) ==
  st \in Seatings /\ loaded \subseteq Items /\ \A j \in loaded : run[j] \subseteq EffectsOf[j]

\* A value is calculated from cells that lie deeper down.
LEMMA ReadsDeeper ==
  ASSUME NEW st, NEW loaded, NEW run, Contents(st, loaded, run), NEW c \in Cells,
         NEW d \in Reads(st, ActingOn(st, loaded, run, c[1]), c)
  PROVE  d \in Cells /\ Depth[d] < Depth[c]
<1>1. CASE d \in CapOf(c)
  BY <1>1, DepthAssumption DEF CapOf, DepthAssumption
<1>2. CASE d \notin CapOf(c)
  <2>1. PICK s \in Modifying(st, ActingOn(st, loaded, run, c[1]), c[2]) : d \in ModReads(st, s)
    BY <1>2 DEF Reads
  <2>2. /\ s \in ActingOn(st, loaded, run, c[1])
        /\ s.mod.attr = c[2] /\ ModReads(st, s) \subseteq Cells
    BY <2>1 DEF Modifying
  <2>3. PICK j \in loaded : s \in LocalSpecs(j, run[j])
    BY <2>2 DEF ActingOn
  <2>4. Affects(st, s, c[1])
    BY <2>2 DEF ActingOn
  <2>5. s \in Specs
    BY <2>3, LocalTyped DEF Contents
  <2>6. d \in ModReads(st, s) \cap Cells
    BY <2>1, <2>2
  <2> QED BY <2>2, <2>4, <2>5, <2>6, DepthAssumption DEF DepthAssumption, Contents
<1> QED BY <1>1, <1>2

\* So it is the same from values that agree deeper down.
LEMMA FromDeeper ==
  ASSUME NEW st, NEW loaded, NEW run, Contents(st, loaded, run), NEW c \in Cells,
         NEW v, NEW w, \A d \in Cells : Depth[d] < Depth[c] => v[d] = w[d]
  PROVE  ValueFrom(st, loaded, run, c, v) = ValueFrom(st, loaded, run, c, w)
<1> DEFINE R == Reads(st, ActingOn(st, loaded, run, c[1]), c)
<1>1. \A d \in R : v[d] = w[d]
  BY ReadsDeeper
<1> HIDE DEF R
<1>2. [d \in R |-> v[d]] = [d \in R |-> w[d]]
  BY <1>1
<1> QED BY <1>2 DEF ValueFrom, R

\* There are values of all cells, each calculated from the others.
LEMMA Settled ==
  ASSUME NEW st, NEW loaded, NEW run, NEW over, Contents(st, loaded, run)
  PROVE  \E w : w = [c \in Cells |-> IF c \in DOMAIN over THEN over[c]
                                     ELSE ValueFrom(st, loaded, run, c, w)]
<1> DEFINE Body(c, w) == IF c \in DOMAIN over THEN over[c] ELSE ValueFrom(st, loaded, run, c, w)
           T == {n \in Nat : \E w : \A c \in Down(n) : w[c] = Body(c, w)}
<1>1. ASSUME NEW c \in Cells, NEW v, NEW w, \A d \in Cells : Depth[d] < Depth[c] => v[d] = w[d]
      PROVE  Body(c, v) = Body(c, w)
  BY <1>1, FromDeeper
<1>2. ASSUME NEW n \in Nat, NEW w, \A d \in Cells : Depth[d] < n => w[d] = Body(d, w)
      PROVE  n \in T
  <2> DEFINE u == [c \in Cells |-> Body(c, w)]
  <2>1. \A c \in Cells : u[c] = Body(c, w)
    OBVIOUS
  <2> HIDE DEF Body, u
  <2>2. ASSUME NEW c \in Down(n)
        PROVE  u[c] = Body(c, u)
    <3>1. c \in Cells /\ Depth[c] \in Nat /\ Depth[c] <= n
      BY Depths DEF Down
    <3>2. \A d \in Cells : Depth[d] \in Nat
      BY Depths
    <3>3. \A d \in Cells : Depth[d] < Depth[c] => w[d] = u[d]
      BY <1>2, <2>1, <3>1, <3>2
    <3> QED BY <1>1, <2>1, <3>1, <3>3
  <2> QED BY <2>2
<1>3. 0 \in T
  <2> DEFINE w == [c \in Cells |-> 0]
  <2>1. \A d \in Cells : Depth[d] < 0 => w[d] = Body(d, w)
    BY Depths
  <2> HIDE DEF w, Body
  <2> QED BY <1>2, <2>1
<1>4. ASSUME NEW n \in 1..Deepest, n - 1 \in T
      PROVE  n \in T
  <2>1. PICK w : \A c \in Down(n - 1) : w[c] = Body(c, w)
    BY <1>4
  <2> HIDE DEF Body
  <2>2. ASSUME NEW d \in Cells, Depth[d] < n
        PROVE  w[d] = Body(d, w)
    <3>1. Depth[d] <= n - 1
      BY <2>2, Depths
    <3> QED BY <2>1, <3>1 DEF Down
  <2>3. n \in Nat
    BY Depths
  <2> QED BY <1>2, <2>2, <2>3
<1>5. Deepest \in T
  <2> HIDE DEF T
  <2>1. 0..Deepest \subseteq T
    BY <1>3, <1>4, Depths, Pick!Upward
  <2> QED BY <2>1, Depths
<1>6. PICK w : \A c \in Cells : w[c] = Body(c, w)
  BY <1>5, Depths
<1> DEFINE u == [c \in Cells |-> Body(c, w)]
<1>7. \A c \in Cells : u[c] = w[c]
  BY <1>6
<1> HIDE DEF Body
<1>8. u = [c \in Cells |-> Body(c, u)]
  <2>1. \A c \in Cells : Body(c, u) = Body(c, w)
    BY <1>1, <1>7
  <2> QED BY <2>1
<1> HIDE DEF u
<1> QED BY <1>8 DEF Body

\* Ideal is calculated from such values.
LEMMA IdealIs ==
  ASSUME NEW st, NEW loaded, NEW run, NEW over, Contents(st, loaded, run)
  PROVE  \E e : /\ \A c \in Cells : e[c] = IF c \in DOMAIN over THEN over[c]
                                           ELSE ValueFrom(st, loaded, run, c, e)
                /\ \A c \in Cells :
                     Ideal(st, loaded, run, over)[c] = ValueFrom(st, loaded, run, c, e)
<1> DEFINE e == CHOOSE w : w = [c \in Cells |-> IF c \in DOMAIN over THEN over[c]
                                               ELSE ValueFrom(st, loaded, run, c, w)]
<1>1. e = [c \in Cells |-> IF c \in DOMAIN over THEN over[c]
                           ELSE ValueFrom(st, loaded, run, c, e)]
  BY Settled
<1>2. Ideal(st, loaded, run, over) = [c \in Cells |-> ValueFrom(st, loaded, run, c, e)]
  BY DEF Ideal
<1> HIDE DEF e
<1>3. \A c \in Cells : e[c] = IF c \in DOMAIN over THEN over[c]
                              ELSE ValueFrom(st, loaded, run, c, e)
  BY <1>1
<1>4. \A c \in Cells : Ideal(st, loaded, run, over)[c] = ValueFrom(st, loaded, run, c, e)
  BY <1>2
<1> QED BY <1>3, <1>4

\* Between calls the values kept are those.
LEMMA ValuesFresh == AttrInv /\ ValueInv => Fresh
<1> DEFINE ideal == Ideal(seat, Loaded, running, override)
<1> SUFFICES ASSUME AttrInv, ValueInv, Idle
             PROVE  \A c \in DOMAIN cache : cache[c] = ideal[c]
  BY DEF Fresh
<1>1. Contents(seat, Loaded, running)
  <2>1. seat \in Seatings /\ Loaded \subseteq Items
    BY DEF AttrInv, Typed, Seatings, Loaded
  <2> QED BY <2>1 DEF AttrInv, Runs, Contents
<1>2. PICK e : /\ \A c \in Cells : e[c] = IF c \in DOMAIN override THEN override[c]
                                          ELSE ValueFrom(seat, Loaded, running, c, e)
               /\ \A c \in Cells : ideal[c] = ValueFrom(seat, Loaded, running, c, e)
  BY <1>1, IdealIs
<1> HIDE DEF ideal
<1>3. \A c \in DOMAIN cache : c \in Cells /\ c[1] \in affectees /\ Right(c)
  BY AtRest, CellIs
<1>4. affectees = Loaded
      /\ \A i \in affectees : AffectorSpecs(i) = ActingOn(seat, Loaded, running, i)
  BY AttrRegisters DEF RegistersTrue, ActingOn
<1>5. DOMAIN override \subseteq Cells
  BY CalculatorAssumption DEF CalculatorAssumption, AttrInv, Typed
<1>6. ASSUME NEW c \in DOMAIN cache,
             \A d \in DOMAIN cache : Depth[d] < Depth[c] => cache[d] = ideal[d]
      PROVE  cache[c] = ideal[c]
  <2> DEFINE specs == AffectorSpecs(c[1])
             R == ReadsOf(c)
  <2>1. specs = ActingOn(seat, Loaded, running, c[1]) /\ R = Reads(seat, specs, c)
    BY <1>3, <1>4 DEF ReadsOf
  <2>2. ASSUME NEW d \in R
        PROVE  Exposed(d) = e[d]
    <3>1. d \in Cells /\ Depth[d] < Depth[c]
      BY <1>1, <1>3, <2>1, <2>2, ReadsDeeper
    <3>2. CASE d \in DOMAIN override
      BY <1>2, <3>1, <3>2 DEF Exposed
    <3>3. CASE d \notin DOMAIN override
      <4>1. d \in DOMAIN cache
        BY <1>3, <3>3 DEF Right
      <4>2. cache[d] = ideal[d]
        BY <1>6, <3>1, <4>1
      <4> QED BY <1>2, <3>1, <3>3, <4>2 DEF Exposed
    <3> QED BY <3>2, <3>3
  <2>3. cache[c] = Calculated(seat, specs, c, [d \in R |-> Exposed(d)])
    BY <1>3 DEF Right
  <2> HIDE DEF specs, R
  <2>4. [d \in R |-> Exposed(d)] = [d \in R |-> e[d]]
    BY <2>2
  <2>5. ValueFrom(seat, Loaded, running, c, e) = Calculated(seat, specs, c, [d \in R |-> e[d]])
    BY <2>1 DEF ValueFrom
  <2> QED BY <1>2, <1>3, <2>3, <2>4, <2>5
<1> DEFINE T == {n \in Nat : \A c \in DOMAIN cache : Depth[c] <= n => cache[c] = ideal[c]}
<1>7. \A c \in DOMAIN cache : Depth[c] \in Nat /\ Depth[c] <= Deepest
  BY <1>3, Depths
<1>8. 0 \in T
  BY <1>6, <1>7
<1>9. ASSUME NEW n \in 1..Deepest, n - 1 \in T
      PROVE  n \in T
  <2>1. n \in Nat
    BY Depths
  <2>2. ASSUME NEW c \in DOMAIN cache, Depth[c] <= n
        PROVE  cache[c] = ideal[c]
    <3>1. \A d \in DOMAIN cache : Depth[d] < Depth[c] => Depth[d] <= n - 1
      BY <1>7, <2>1, <2>2
    <3> QED BY <1>6, <1>9, <3>1
  <2> QED BY <2>1, <2>2
<1>10. Deepest \in T
  <2> HIDE DEF T
  <2>1. 0..Deepest \subseteq T
    BY <1>8, <1>9, Depths, Pick!Upward
  <2> QED BY <2>1, Depths
<1> QED BY <1>7, <1>10

\* What is kept is what a calculation from scratch would give, however items,
\* charges, effects, overrides and sources came and went in between.
THEOREM FreshHolds ==
  ASSUME OneListens
  PROVE  Spec => []Fresh
BY ValueInvariance, ValuesFresh, PTL
=============================================================================
