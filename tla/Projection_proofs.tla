-------------------------- MODULE Projection_proofs --------------------------
(***************************************************************************)
(* Proofs about Projection for any fits, ships, guns and gadgets: first    *)
(* what the ProjectionRegister holds, then that values are kept fresh.  As *)
(* in AttrCalculator_proofs, what is left of a call comes in a fixed order *)
(* of ranks.  The register differs from what the guns run and target by    *)
(* the messages still to come, and so do the values from what they should  *)
(* be, as long as no projection met a ship that was not loaded.            *)
(***************************************************************************)
EXTENDS Projection, TLAPS, FiniteSetTheorems, SequenceTheorems

\* What is left of a call.
Entries ==
  [do : {"load", "unload", "loaded", "unloaded", "clear"}, item : Items]
  \cup [do : {"off"}, item : Guns \cup Gadgets]
  \cup [do : {"started", "stopped"}, item : Guns]
  \cup [do : {"applied", "unapplied"}, item : Guns, ship : Ships]
  \cup [do : {"target"}, item : Guns, ship : Ships \cup {None}]
  \cup [do : {"changed"}, cells : SUBSET Cells]
  \cup [do : {"ship"}, fit : Fits, ship : Ships \cup {None}]
  \cup [do : {"source"}, item : Sources \cup {None}]

Assigns == {"ship", "target", "source", "off"}
Rank(do) ==
  IF do = "changed" THEN 0
  ELSE IF do = "loaded" THEN 1
  ELSE IF do = "started" THEN 2
  ELSE IF do = "unapplied" THEN 3
  ELSE IF do = "stopped" THEN 4
  ELSE IF do = "unloaded" THEN 5
  ELSE IF do = "clear" THEN 6
  ELSE IF do = "unload" THEN 7
  ELSE IF do \in Assigns THEN 8
  ELSE IF do = "applied" THEN 9
  ELSE 10

\* Entry a may come before entry b.
Before(a, b) ==
  Rank(a.do) < Rank(b.do) \/ (Rank(a.do) = Rank(b.do) /\ Rank(a.do) \in {0, 7, 10})

InTurn(q) == \A k, l \in 1..Len(q) : k < l => Before(q[k], q[l])

Of(q) == {q[k] : k \in 1..Len(q)}
Due(R, do, i) == \E e \in R : e.do = do /\ e.item = i
DueOn(R, do, g, s) == \E e \in R : e.do = do /\ e.item = g /\ e.ship = s

\* The assignments that take guns off the fits' loaded items or add to them,
\* and the guns that stay loaded throughout.
Switches(e) == e.do \in {"source", "off"}
On == fitted \cap Guns \cap (IF source = None THEN {} ELSE Known[source])
Stay(e) == IF e.do = "off" THEN On \ {e.item} ELSE {}

\* What is due, and what is loaded and runs, as long as assignment e is to come.
BeforeSwitch(R, e) ==
  /\ Stay(e) \subseteq affectees /\ Stay(e) \cap ready \subseteq running
  /\ \A g \in Guns \cap affectees : g \in Stay(e) \/ Due(R, "unload", g) \/ Due(R, "unloaded", g)
  /\ \A g \in running : g \in Stay(e) \/ Due(R, "unload", g)
  /\ e.do = "source" /\ e.item # None => \A g \in fitted \cap Guns : Due(R, "load", g)
  /\ \A d \in R : d.do \in {"unload", "unloaded"} => d.item \notin Stay(e)
  /\ \A d \in R : d.do # "loaded"
  /\ e.do = "off" => \A d \in R : d.do # "load"

\* The same once it is done, or if there is none to come.
AfterSwitch(R) ==
  /\ \A g \in On : \/ Due(R, "load", g)
                   \/ (g \in ready => g \in running) /\ (g \in affectees \/ Due(R, "loaded", g))
  /\ \A d \in R : d.do \in {"unload", "unloaded"} => d.item \notin Guns
  /\ \A d \in R : d.do = "loaded" => d.item \in On \/ d.item \notin Guns

Presence(R) ==
  /\ affectees \cap Guns \subseteq On
  /\ running \subseteq On \cap ready
  /\ \A e \in R : Switches(e) => BeforeSwitch(R, e)
  /\ (\A e \in R : ~Switches(e)) => AfterSwitch(R)
  /\ \A d \in R : d.do = "load" => d.item \in fitted \/ d.item \notin Guns

\* The projectors in the register are the guns that run, but for messages.
Projecting(R) ==
  /\ \A g \in projectors : g \in running \/ Due(R, "stopped", g)
  /\ \A g \in running : g \in projectors \/ Due(R, "started", g)
  /\ \A d \in R : d.do = "started" => d.item \in running
  /\ \A d \in R : d.do = "stopped" => d.item \notin running

\* The targets in the register are those of the guns that run, but for
\* messages and the assignment of a target.
Retargeted(R, g) == \E e \in R : e.do = "target" /\ e.item = g
Targeting(R) ==
  /\ \A g \in Guns, s \in Ships : <<g, s>> \in tgts =>
       (g \in running /\ s = target[g] /\ ~Retargeted(R, g)) \/ DueOn(R, "unapplied", g, s)
  /\ \A g \in running : target[g] # None =>
       <<g, target[g]>> \in tgts \/ DueOn(R, "applied", g, target[g]) \/ Retargeted(R, g)
  /\ \A d \in R : d.do = "unapplied" => d.item \notin running \/ Retargeted(R, d.item)
  /\ \A d \in R : d.do = "applied" =>
       /\ d.item \in running
       /\ \/ d.ship = target[d.item] /\ ~Retargeted(R, d.item)
          \/ DueOn(R, "target", d.item, d.ship)
       /\ \A e \in R : e.do # "unload"
  /\ \A d \in R : d.do = "target" /\ d.item \in running /\ d.ship # None =>
       DueOn(R, "applied", d.item, d.ship)

Typed ==
  /\ TypeOK
  /\ ready \subseteq Guns /\ projectors \subseteq Guns /\ carrierless \subseteq Guns
  /\ tgts \subseteq Guns \X Ships
  /\ agenda \in Seq(Entries)

\* The inductive invariant; a call that raised leaves nothing of it but types.
ProjInv ==
  /\ Typed
  /\ InTurn(agenda)
  /\ raised => agenda = <<>>
  /\ ~raised => /\ Presence(Of(agenda))
                /\ Projecting(Of(agenda))
                /\ Targeting(Of(agenda))
-----------------------------------------------------------------------------
(* What is left of a call, as a sequence and as a set. *)

\* Nothing is left of a call.
LEMMA NothingLeft == /\ <<>> \in Seq(Entries) /\ InTurn(<<>>) /\ Of(<<>>) = {}
BY DEF InTurn, Of

\* One step is left of a call.
LEMMA OneLeft ==
  ASSUME NEW e \in Entries
  PROVE  <<e>> \in Seq(Entries) /\ InTurn(<<e>>) /\ Of(<<e>>) = {e}
BY DEF InTurn, Of

\* Two sequences after each other are in turn if all of the first may come
\* before all of the second.
LEMMA Joined ==
  ASSUME NEW p \in Seq(Entries), NEW q \in Seq(Entries), InTurn(p), InTurn(q),
         \A a \in Of(p), b \in Of(q) : Before(a, b)
  PROVE  p \o q \in Seq(Entries) /\ InTurn(p \o q) /\ Of(p \o q) = Of(p) \cup Of(q)
<1> DEFINE r == p \o q
<1>1. r \in Seq(Entries) /\ Len(r) = Len(p) + Len(q)
  OBVIOUS
<1>2. \A k \in 1..Len(r) : \/ k \in 1..Len(p) /\ r[k] = p[k]
                           \/ k > Len(p) /\ k - Len(p) \in 1..Len(q) /\ r[k] = q[k - Len(p)]
  OBVIOUS
<1>3. \A k \in 1..Len(p) : k \in 1..Len(r) /\ r[k] = p[k]
  OBVIOUS
<1>4. \A k \in 1..Len(q) : k + Len(p) \in 1..Len(r) /\ r[k + Len(p)] = q[k]
  OBVIOUS
<1> HIDE DEF r
<1>5. Of(r) = Of(p) \cup Of(q)
  <2>1. ASSUME NEW e \in Of(r)
        PROVE  e \in Of(p) \cup Of(q)
    <3>1. PICK k \in 1..Len(r) : e = r[k]
      BY DEF Of
    <3> QED BY <1>2, <3>1 DEF Of
  <2>2. Of(p) \subseteq Of(r)
    BY <1>3 DEF Of
  <2>3. ASSUME NEW k \in 1..Len(q)
        PROVE  q[k] \in Of(r)
    <3>1. k + Len(p) \in 1..Len(r) /\ r[k + Len(p)] = q[k]
      BY <1>4
    <3> DEFINE j == k + Len(p)
    <3> HIDE DEF j
    <3>2. j \in 1..Len(r) /\ r[j] = q[k]
      BY <3>1 DEF j
    <3> QED BY <3>2 DEF Of
  <2>4. Of(q) \subseteq Of(r)
    BY <2>3 DEF Of
  <2> QED BY <2>1, <2>2, <2>4
<1>6. ASSUME NEW k \in 1..Len(r), NEW l \in 1..Len(r), k < l
      PROVE  Before(r[k], r[l])
  <2>1. CASE k \in 1..Len(p) /\ r[k] = p[k] /\ l \in 1..Len(p) /\ r[l] = p[l]
    BY <1>6, <2>1 DEF InTurn
  <2>2. CASE k \in 1..Len(p) /\ r[k] = p[k] /\ l - Len(p) \in 1..Len(q) /\ r[l] = q[l - Len(p)]
    BY <2>2 DEF Of
  <2>3. CASE /\ k - Len(p) \in 1..Len(q) /\ r[k] = q[k - Len(p)]
             /\ l - Len(p) \in 1..Len(q) /\ r[l] = q[l - Len(p)]
    <3>1. k - Len(p) < l - Len(p)
      BY <1>6
    <3> QED BY <2>3, <3>1 DEF InTurn
  <2>4. k > Len(p) => l > Len(p)
    BY <1>6
  <2> QED BY <1>2, <2>1, <2>2, <2>3, <2>4
<1> QED BY <1>1, <1>5, <1>6 DEF InTurn, r

\* The first entry may come before the others.
LEMMA Foremost ==
  ASSUME NEW q \in Seq(Entries), InTurn(q), q # <<>>
  PROVE  /\ Tail(q) \in Seq(Entries) /\ InTurn(Tail(q)) /\ Head(q) \in Entries
         /\ Of(q) = {Head(q)} \cup Of(Tail(q)) /\ Of(q) \subseteq Entries
         /\ \A e \in Of(Tail(q)) : Before(Head(q), e)
<1> DEFINE r == Tail(q)
<1>1. /\ r \in Seq(Entries) /\ Len(r) = Len(q) - 1 /\ Head(q) = q[1] /\ 1 \in 1..Len(q)
      /\ \A k \in 1..Len(r) : k + 1 \in 1..Len(q) /\ r[k] = q[k + 1]
  OBVIOUS
<1> HIDE DEF r
<1>2. \A k \in 1..Len(q) : k = 1 \/ (k - 1 \in 1..Len(r) /\ r[k - 1] = q[k])
  BY <1>1
<1>3. Of(q) = {q[1]} \cup Of(r)
  BY <1>1, <1>2 DEF Of
<1>4. Of(q) \subseteq Entries
  BY DEF Of
<1>5. ASSUME NEW k \in 1..Len(r)
      PROVE  Before(q[1], r[k])
  <2>1. 1 < k + 1 /\ k + 1 \in 1..Len(q) /\ r[k] = q[k + 1]
    BY <1>1
  <2> QED BY <1>1, <2>1 DEF InTurn
<1>6. InTurn(r)
  <2> SUFFICES ASSUME NEW k \in 1..Len(r), NEW l \in 1..Len(r), k < l
               PROVE  Before(r[k], r[l])
    BY DEF InTurn
  <2>1. k + 1 < l + 1
    OBVIOUS
  <2> QED BY <1>1, <2>1 DEF InTurn
<1>7. \A e \in Of(r) : Before(q[1], e)
  BY <1>5 DEF Of
<1>8. q[1] \in Entries
  BY <1>1
<1> QED BY <1>1, <1>3, <1>4, <1>6, <1>7, <1>8 DEF r

\* A call goes on with these steps in place of the first entry.
LEMMA Passed ==
  ASSUME ProjInv, agenda # <<>>, NEW steps \in Seq(Entries), InTurn(steps), Then(steps),
         \A a \in Of(steps), b \in Of(Tail(agenda)) : Before(a, b)
  PROVE  /\ agenda' \in Seq(Entries) /\ InTurn(agenda')
         /\ Of(agenda') = Of(steps) \cup Of(Tail(agenda))
         /\ Of(agenda) = {Head(agenda)} \cup Of(Tail(agenda))
         /\ Of(agenda) \subseteq Entries /\ Head(agenda) \in Entries
         /\ \A b \in Of(Tail(agenda)) : Before(Head(agenda), b)
<1>1. agenda \in Seq(Entries) /\ InTurn(agenda)
  BY DEF ProjInv, Typed
<1>2. /\ Tail(agenda) \in Seq(Entries) /\ InTurn(Tail(agenda)) /\ Head(agenda) \in Entries
      /\ Of(agenda) = {Head(agenda)} \cup Of(Tail(agenda)) /\ Of(agenda) \subseteq Entries
      /\ \A e \in Of(Tail(agenda)) : Before(Head(agenda), e)
  BY <1>1, Foremost
<1> DEFINE r == steps \o Tail(agenda)
<1>3. r \in Seq(Entries) /\ InTurn(r) /\ Of(r) = Of(steps) \cup Of(Tail(agenda))
  BY <1>2, Joined
<1>4. agenda' = r
  BY DEF Then
<1> HIDE DEF r
<1> QED BY <1>2, <1>3, <1>4

\* A call goes on without more steps.
LEMMA Shortened ==
  ASSUME ProjInv, agenda # <<>>, Then(<<>>)
  PROVE  /\ agenda' \in Seq(Entries) /\ InTurn(agenda') /\ Of(agenda') = Of(Tail(agenda))
         /\ Of(agenda) = {Head(agenda)} \cup Of(Tail(agenda))
         /\ Of(agenda) \subseteq Entries /\ Head(agenda) \in Entries
         /\ \A b \in Of(Tail(agenda)) : Before(Head(agenda), b)
<1> DEFINE p == <<>>
<1>1. p \in Seq(Entries) /\ InTurn(p) /\ Of(p) = {} /\ Then(p)
  BY NothingLeft
<1> HIDE DEF p
<1> QED BY <1>1, Passed

\* A message about values that were dropped, or none.
LEMMA NewsAre ==
  ASSUME Typed, NEW cells
  PROVE  /\ News(cells) \in Seq(Entries) /\ InTurn(News(cells))
         /\ \A e \in Of(News(cells)) : e.do = "changed"
<1> DEFINE v == cells \cap DOMAIN cache
           e == [do |-> "changed", cells |-> v]
<1>1. v \subseteq Cells
  BY DEF Typed, TypeOK
<1>2. e \in Entries /\ e.do = "changed"
  BY <1>1 DEF Entries
<1>3. News(cells) = <<>> \/ News(cells) = <<e>>
  BY DEF News
<1> HIDE DEF e
<1>4. CASE News(cells) = <<>>
  BY <1>4, NothingLeft
<1>5. CASE News(cells) = <<e>>
  BY <1>2, <1>5, OneLeft
<1> QED BY <1>3, <1>4, <1>5

\* Messages about values come before anything.
LEMMA Announced ==
  ASSUME ProjInv, agenda # <<>>, NEW steps \in Seq(Entries), InTurn(steps), Then(steps),
         \A a \in Of(steps) : a.do = "changed"
  PROVE  /\ agenda' \in Seq(Entries) /\ InTurn(agenda')
         /\ \A e : e.do # "changed" => (e \in Of(agenda') <=> e \in Of(Tail(agenda)))
         /\ Of(agenda) = {Head(agenda)} \cup Of(Tail(agenda))
         /\ Of(agenda) \subseteq Entries /\ Head(agenda) \in Entries
         /\ \A b \in Of(Tail(agenda)) : Before(Head(agenda), b)
<1>1. agenda \in Seq(Entries) /\ InTurn(agenda)
  BY DEF ProjInv, Typed
<1>2. Of(Tail(agenda)) \subseteq Entries
  BY <1>1, Foremost
<1>3. \A a \in Of(steps), b \in Of(Tail(agenda)) : Before(a, b)
  BY <1>2 DEF Before, Rank, Entries, Assigns
<1>4. Of(agenda') = Of(steps) \cup Of(Tail(agenda))
  BY <1>3, Passed
<1> QED BY <1>3, <1>4, Passed
-----------------------------------------------------------------------------
(* What a step leaves alone. *)

\* Entries that the parts of the invariant speak of.
Loads == {"load", "unload", "loaded", "unloaded", "source", "off"}
Aims == {"applied", "unapplied", "target"}

\* What is said of loaded and running guns stays true when neither changes and
\* nothing about them comes or goes.
LEMMA PresenceKept ==
  ASSUME Presence(Of(agenda)), UNCHANGED <<source, fitted, ready, running, affectees>>,
         \A e : e.do \in Loads => (e \in Of(agenda') <=> e \in Of(agenda))
  PROVE  Presence(Of(agenda))'
<1> DEFINE R == Of(agenda)
           S == Of(agenda')
<1>1. /\ source' = source /\ fitted' = fitted /\ ready' = ready /\ running' = running
      /\ affectees' = affectees /\ On' = On /\ \A e : Stay(e)' = Stay(e)
  BY DEF On, Stay
<1>2. \A e : e.do \in Loads => (e \in S <=> e \in R)
  OBVIOUS
<1>3. Presence(R)
  OBVIOUS
<1> HIDE DEF R, S
<1>4. \A do, i : do \in Loads => (Due(S, do, i) <=> Due(R, do, i))
  BY <1>2 DEF Due
<1>5. \A e : BeforeSwitch(R, e) => BeforeSwitch(Of(agenda), e)'
  <2> SUFFICES ASSUME NEW e, BeforeSwitch(R, e) PROVE BeforeSwitch(Of(agenda), e)'
    OBVIOUS
  <2>1. /\ Stay(e) \subseteq affectees /\ Stay(e) \cap ready \subseteq running
        /\ \A g \in Guns \cap affectees : g \in Stay(e) \/ Due(S, "unload", g) \/ Due(S, "unloaded", g)
        /\ \A g \in running : g \in Stay(e) \/ Due(S, "unload", g)
        /\ e.do = "source" /\ e.item # None => \A g \in fitted \cap Guns : Due(S, "load", g)
    BY <1>4 DEF BeforeSwitch, Loads
  <2>2. /\ \A d \in S : d.do \in {"unload", "unloaded"} => d.item \notin Stay(e)
        /\ \A d \in S : d.do # "loaded"
        /\ e.do = "off" => \A d \in S : d.do # "load"
    BY <1>2 DEF BeforeSwitch, Loads
  <2> QED BY <1>1, <2>1, <2>2 DEF BeforeSwitch, S
<1>6. AfterSwitch(R) => AfterSwitch(Of(agenda))'
  <2> SUFFICES ASSUME AfterSwitch(R) PROVE AfterSwitch(Of(agenda))'
    OBVIOUS
  <2>1. \A g \in On : \/ Due(S, "load", g)
                      \/ (g \in ready => g \in running) /\ (g \in affectees \/ Due(S, "loaded", g))
    BY <1>4 DEF AfterSwitch, Loads
  <2>2. /\ \A d \in S : d.do \in {"unload", "unloaded"} => d.item \notin Guns
        /\ \A d \in S : d.do = "loaded" => d.item \in On \/ d.item \notin Guns
    BY <1>2 DEF AfterSwitch, Loads
  <2> QED BY <1>1, <2>1, <2>2 DEF AfterSwitch, S
<1>7. \A e : Switches(e) => (e \in S <=> e \in R)
  BY <1>2 DEF Switches, Loads
<1>8. \A d \in S : d.do = "load" => d.item \in fitted \/ d.item \notin Guns
  BY <1>2, <1>3 DEF Presence, Loads
<1>9. \A e \in S : Switches(e) => BeforeSwitch(Of(agenda), e)'
  BY <1>3, <1>5, <1>7 DEF Presence
<1>10. (\A e \in S : ~Switches(e)) => AfterSwitch(Of(agenda))'
  BY <1>3, <1>6, <1>7 DEF Presence
<1>11. affectees \cap Guns \subseteq On /\ running \subseteq On \cap ready
  BY <1>3 DEF Presence
<1> QED BY <1>1, <1>8, <1>9, <1>10, <1>11 DEF Presence, S, Switches

\* The same of the projectors in the register.
LEMMA ProjectingKept ==
  ASSUME Projecting(Of(agenda)), UNCHANGED <<running, projectors>>,
         \A e : e.do \in {"started", "stopped"} => (e \in Of(agenda') <=> e \in Of(agenda))
  PROVE  Projecting(Of(agenda))'
<1> DEFINE R == Of(agenda)
           S == Of(agenda')
<1>1. running' = running /\ projectors' = projectors /\ Projecting(R)
  OBVIOUS
<1>2. \A e : e.do \in {"started", "stopped"} => (e \in S <=> e \in R)
  OBVIOUS
<1> HIDE DEF R, S
<1>3. \A do, i : do \in {"started", "stopped"} => (Due(S, do, i) <=> Due(R, do, i))
  BY <1>2 DEF Due
<1>4. /\ \A g \in projectors : g \in running \/ Due(S, "stopped", g)
      /\ \A g \in running : g \in projectors \/ Due(S, "started", g)
  BY <1>1, <1>3 DEF Projecting
<1>5. /\ \A d \in S : d.do = "started" => d.item \in running
      /\ \A d \in S : d.do = "stopped" => d.item \notin running
  BY <1>1, <1>2 DEF Projecting
<1> QED BY <1>1, <1>4, <1>5 DEF Projecting, S

\* The same of the targets in the register.
LEMMA TargetingKept ==
  ASSUME Targeting(Of(agenda)), UNCHANGED <<running, target, tgts>>,
         \A e : e.do \in Aims => (e \in Of(agenda') <=> e \in Of(agenda)),
         \A e \in Of(agenda') : e.do = "unload" =>
           e \in Of(agenda) \/ \A d \in Of(agenda') : d.do # "applied"
  PROVE  Targeting(Of(agenda))'
<1> DEFINE R == Of(agenda)
           S == Of(agenda')
<1>1. running' = running /\ target' = target /\ tgts' = tgts /\ Targeting(R)
  OBVIOUS
<1>2. /\ \A e : e.do \in Aims => (e \in S <=> e \in R)
      /\ \A e \in S : e.do = "unload" => e \in R \/ \A d \in S : d.do # "applied"
  OBVIOUS
<1> HIDE DEF R, S
<1>3. /\ \A do, g, s : do \in Aims => (DueOn(S, do, g, s) <=> DueOn(R, do, g, s))
      /\ \A g : Retargeted(S, g) <=> Retargeted(R, g)
  BY <1>2 DEF DueOn, Retargeted, Aims
<1>4. /\ \A g \in Guns, s \in Ships : <<g, s>> \in tgts =>
           (g \in running /\ s = target[g] /\ ~Retargeted(S, g)) \/ DueOn(S, "unapplied", g, s)
      /\ \A g \in running : target[g] # None =>
           <<g, target[g]>> \in tgts \/ DueOn(S, "applied", g, target[g]) \/ Retargeted(S, g)
  BY <1>1, <1>3 DEF Targeting, Aims
<1>5. \A d \in S : d.do = "unapplied" => d.item \notin running \/ Retargeted(S, d.item)
  BY <1>1, <1>2, <1>3 DEF Targeting, Aims
<1>6. \A d \in S : d.do = "applied" =>
       /\ d.item \in running
       /\ \/ d.ship = target[d.item] /\ ~Retargeted(S, d.item)
          \/ DueOn(S, "target", d.item, d.ship)
       /\ \A e \in S : e.do # "unload"
  <2> SUFFICES ASSUME NEW d \in S, d.do = "applied"
               PROVE  /\ d.item \in running
                      /\ \/ d.ship = target[d.item] /\ ~Retargeted(S, d.item)
                         \/ DueOn(S, "target", d.item, d.ship)
                      /\ \A e \in S : e.do # "unload"
    OBVIOUS
  <2>1. d \in R
    BY <1>2 DEF Aims
  <2> QED BY <1>1, <1>2, <1>3, <2>1 DEF Targeting, Aims
<1>7. \A d \in S : d.do = "target" /\ d.item \in running /\ d.ship # None =>
       DueOn(S, "applied", d.item, d.ship)
  BY <1>1, <1>2, <1>3 DEF Targeting, Aims
<1> QED BY <1>1, <1>4, <1>5, <1>6, <1>7 DEF Targeting, S

\* In the middle of a call nothing has been raised.
LEMMA Under ==
  ASSUME ProjInv, agenda # <<>>
  PROVE  /\ ~raised /\ Presence(Of(agenda)) /\ Projecting(Of(agenda)) /\ Targeting(Of(agenda))
         /\ Typed /\ TypeOK
BY DEF ProjInv, Typed

\* Between calls nothing is due.
LEMMA Between ==
  ASSUME ProjInv, Idle
  PROVE  /\ Typed /\ TypeOK /\ agenda = <<>> /\ Of(agenda) = {} /\ ~raised
         /\ Presence(Of(agenda)) /\ Projecting(Of(agenda)) /\ Targeting(Of(agenda))
         /\ affectees \cap Guns = On /\ running = On \cap ready
         /\ projectors = running
         /\ \A g \in Guns, s \in Ships : <<g, s>> \in tgts <=> g \in running /\ s = target[g]
<1> DEFINE R == Of(agenda)
<1>1. /\ Typed /\ TypeOK /\ agenda = <<>> /\ R = {} /\ ~raised
      /\ Presence(R) /\ Projecting(R) /\ Targeting(R)
  BY NothingLeft DEF ProjInv, Typed, Idle
<1> HIDE DEF R
<1>2. None \notin Ships /\ ready \subseteq Guns /\ On \subseteq Guns
  BY <1>1, ProjectionAssumption DEF ProjectionAssumption, Items, Typed, On
<1>3. affectees \cap Guns = On /\ running = On \cap ready
  BY <1>1, <1>2 DEF Presence, AfterSwitch, Due
<1>4. projectors = running
  BY <1>1 DEF Projecting, Due
<1>5. \A g \in Guns, s \in Ships : <<g, s>> \in tgts <=> g \in running /\ s = target[g]
  BY <1>1, <1>2 DEF Targeting, DueOn, Retargeted
<1> QED BY <1>1, <1>3, <1>4, <1>5 DEF R
-----------------------------------------------------------------------------
(* Steps that change values only. *)

\* Dropping values leaves values of known cells.
LEMMA DroppedTyped ==
  ASSUME Typed, NEW cells, Drop(cells)
  PROVE  DOMAIN cache' \subseteq Cells
BY DEF Typed, TypeOK, Drop

\* A step that changes values, and makes messages about them, keeps the
\* registers true.
LEMMA ValuesOnly ==
  ASSUME ProjInv, UNCHANGED <<source, ship, fitted, ready, target, running>>,
         UNCHANGED <<affection, projection, raised>>,
         DOMAIN cache' \subseteq Cells, local' \in [Cells -> Levels],
         agenda' \in Seq(Entries), InTurn(agenda'), raised => agenda' = <<>>,
         \A e : e.do \notin {"changed", "clear"} => (e \in Of(agenda') <=> e \in Of(agenda))
  PROVE  ProjInv'
<1>1. /\ UNCHANGED <<source, ship, fitted, ready, target, running, affectees, active, domain>>
      /\ UNCHANGED <<projectors, carried, carrierless, tgts, raised>>
  BY DEF affection, projection
<1>2. Typed'
  BY <1>1 DEF ProjInv, Typed, TypeOK
<1>3. ASSUME ~raised
      PROVE  Presence(Of(agenda))' /\ Projecting(Of(agenda))' /\ Targeting(Of(agenda))'
  <2>1. Presence(Of(agenda)) /\ Projecting(Of(agenda)) /\ Targeting(Of(agenda))
    BY <1>3 DEF ProjInv
  <2>2. \A e : e.do \in Loads => (e \in Of(agenda') <=> e \in Of(agenda))
    BY DEF Loads
  <2>3. \A e : e.do \in {"started", "stopped"} => (e \in Of(agenda') <=> e \in Of(agenda))
    OBVIOUS
  <2>4. \A e : e.do \in Aims => (e \in Of(agenda') <=> e \in Of(agenda))
    BY DEF Aims
  <2>5. \A e \in Of(agenda') : e.do = "unload" =>
           e \in Of(agenda) \/ \A d \in Of(agenda') : d.do # "applied"
    OBVIOUS
  <2> QED BY <1>1, <2>1, <2>2, <2>3, <2>4, <2>5, PresenceKept, ProjectingKept, TargetingKept
<1> QED BY <1>1, <1>2, <1>3 DEF ProjInv

\* MutableAttrMap._clear
LEMMA ClearStep ==
  ASSUME ProjInv, ClearItem
  PROVE  ProjInv'
<1>1. /\ agenda # <<>> /\ Head(agenda).do = "clear" /\ Then(<<>>)
      /\ UNCHANGED <<source, ship, fitted, ready, target, running>>
      /\ UNCHANGED <<local, affection, projection, raised>>
  BY DEF ClearItem, Doing, fitVars
<1>2. ~raised /\ Typed /\ TypeOK
  BY <1>1, Under
<1>3. DOMAIN cache' \subseteq Cells
  BY <1>2, DroppedTyped DEF ClearItem
<1>4. /\ agenda' \in Seq(Entries) /\ InTurn(agenda') /\ Of(agenda') = Of(Tail(agenda))
      /\ Of(agenda) = {Head(agenda)} \cup Of(Tail(agenda))
  BY <1>1, Shortened
<1>5. local' \in [Cells -> Levels]
  BY <1>1, <1>2 DEF TypeOK
<1> QED BY <1>1, <1>2, <1>3, <1>4, <1>5, ValuesOnly

\* _revise_regular_attr_dependents
LEMMA ChangedStep ==
  ASSUME ProjInv, AttrsValueChanged
  PROVE  ProjInv'
<1> DEFINE stale == Dependents(Head(agenda).cells)
           n == News(stale)
           nn == n \o n
<1>1. /\ agenda # <<>> /\ Head(agenda).do = "changed" /\ Then(nn) /\ Drop(stale)
      /\ UNCHANGED <<source, ship, fitted, ready, target, running>>
      /\ UNCHANGED <<local, affection, projection, raised>>
  BY DEF AttrsValueChanged, Doing, fitVars
<1>2. ~raised /\ Typed /\ TypeOK
  BY <1>1, Under
<1>3. DOMAIN cache' \subseteq Cells
  BY <1>1, <1>2, DroppedTyped
<1>4. n \in Seq(Entries) /\ InTurn(n) /\ \A e \in Of(n) : e.do = "changed"
  BY <1>2, NewsAre
<1> HIDE DEF n, stale
<1>5. nn \in Seq(Entries) /\ InTurn(nn) /\ \A e \in Of(nn) : e.do = "changed"
  <2>1. \A a \in Of(n), b \in Of(n) : Before(a, b)
    BY <1>4 DEF Before, Rank
  <2> QED BY <1>4, <2>1, Joined
<1> HIDE DEF nn
<1>6. /\ agenda' \in Seq(Entries) /\ InTurn(agenda')
      /\ \A e : e.do # "changed" => (e \in Of(agenda') <=> e \in Of(Tail(agenda)))
      /\ Of(agenda) = {Head(agenda)} \cup Of(Tail(agenda))
  BY <1>1, <1>5, Announced
<1>7. local' \in [Cells -> Levels]
  BY <1>1, <1>2 DEF TypeOK
<1> QED BY <1>1, <1>2, <1>3, <1>6, <1>7, ValuesOnly

\* A local modification.
LEMMA ShiftStep ==
  ASSUME ProjInv, NEW c \in Shifted, NEW v \in Levels, Shift(c, v)
  PROVE  ProjInv'
<1>1. /\ Idle /\ Drop({c}) /\ agenda' = News({c}) /\ local' = [local EXCEPT ![c] = v]
      /\ UNCHANGED <<source, ship, fitted, ready, target, running>>
      /\ UNCHANGED <<affection, projection, raised>>
  BY DEF Shift
<1>2. ~raised /\ Typed /\ TypeOK /\ Of(agenda) = {}
  BY <1>1, Between
<1>3. DOMAIN cache' \subseteq Cells
  BY <1>1, <1>2, DroppedTyped
<1> DEFINE n == News({c})
<1>4. n \in Seq(Entries) /\ InTurn(n) /\ \A e \in Of(n) : e.do = "changed"
  BY <1>2, NewsAre
<1>5. agenda' = n
  BY <1>1
<1> HIDE DEF n
<1>6. local' \in [Cells -> Levels]
  BY <1>1, <1>2 DEF TypeOK
<1> QED BY <1>1, <1>2, <1>3, <1>4, <1>5, <1>6, ValuesOnly

\* Reading a value
LEMMA ReadStep ==
  ASSUME ProjInv, NEW c \in Cells, Read(c)
  PROVE  ProjInv'
<1>1. /\ Idle /\ agenda' = agenda /\ DOMAIN cache' = DOMAIN cache \cup {c}
      /\ UNCHANGED <<source, ship, fitted, ready, target, running>>
      /\ UNCHANGED <<local, affection, projection, raised>>
  BY DEF Read, fitVars
<1>2. ~raised /\ Typed /\ TypeOK
  BY <1>1, Between
<1>3. DOMAIN cache' \subseteq Cells /\ local' \in [Cells -> Levels]
  BY <1>1, <1>2 DEF TypeOK
<1>4. agenda' \in Seq(Entries) /\ InTurn(agenda')
  BY <1>1 DEF ProjInv, Typed
<1> QED BY <1>1, <1>2, <1>3, <1>4, ValuesOnly
-----------------------------------------------------------------------------
(* Messages about items and effects. *)

\* A fit is one of the fits.
LEMMA FitTyped ==
  ASSUME TypeOK, NEW i \in Items
  PROVE  Fit(i) \in Fits \cup {None}
<1>1. CASE i \in Ships
  BY <1>1 DEF Fit
<1>2. CASE i \notin Ships
  <2>1. Home \in [Guns \cup Gadgets -> Fits] /\ i \in Guns \cup Gadgets
    BY <1>2, ProjectionAssumption DEF ProjectionAssumption, Items
  <2> QED BY <1>2, <2>1 DEF Fit
<1> QED BY <1>1, <1>2

\* _handle_effects_started, the projector's part
LEMMA StartedStep ==
  ASSUME ProjInv, EffectsStarted
  PROVE  ProjInv'
<1> DEFINE g == Head(agenda).item
           R == Of(agenda)
           S == Of(agenda')
<1>1. /\ agenda # <<>> /\ Head(agenda).do = "started" /\ Then(<<>>)
      /\ projectors' = projectors \cup {g}
      /\ carried' = IF Carrier(g) = None THEN carried ELSE carried \cup {<<Carrier(g), g>>}
      /\ carrierless' = IF Carrier(g) = None THEN carrierless \cup {g} ELSE carrierless
      /\ UNCHANGED <<source, ship, fitted, ready, target, running, local, cache>>
      /\ UNCHANGED <<affectees, active, domain, tgts, raised>>
  BY DEF EffectsStarted, Doing, fitVars, affection
<1>2. /\ ~raised /\ Presence(R) /\ Projecting(R) /\ Targeting(R) /\ Typed /\ TypeOK
  BY <1>1, Under
<1>3. /\ agenda' \in Seq(Entries) /\ InTurn(agenda') /\ S = Of(Tail(agenda))
      /\ R = {Head(agenda)} \cup S /\ R \subseteq Entries /\ Head(agenda) \in Entries
      /\ \A b \in S : Before(Head(agenda), b)
  BY <1>1, Shortened
<1>4. g \in Guns
  BY <1>1, <1>3 DEF Entries
<1>5. \A e : e.do # "started" => (e \in S <=> e \in R)
  BY <1>1, <1>3
<1>6. \A e \in S : e.do # "started"
  BY <1>1, <1>3 DEF Before, Rank
<1>7. Presence(Of(agenda))'
  <2>1. \A e : e.do \in Loads => (e \in Of(agenda') <=> e \in Of(agenda))
    BY <1>5 DEF Loads
  <2> QED BY <1>1, <1>2, <2>1, PresenceKept
<1>8. Targeting(Of(agenda))'
  <2>1. \A e : e.do \in Aims => (e \in Of(agenda') <=> e \in Of(agenda))
    BY <1>5 DEF Aims
  <2>2. \A e \in S : e.do = "unload" => e \in R
    BY <1>5
  <2> QED BY <1>1, <1>2, <2>1, <2>2, TargetingKept
<1>9. Projecting(Of(agenda))'
  <2> HIDE DEF R, S, g
  <2>0. Head(agenda) \in R /\ Head(agenda).item = g
    BY <1>3 DEF g
  <2>1. \A h : Due(R, "stopped", h) => Due(S, "stopped", h)
    BY <1>5 DEF Due
  <2>2. \A h \in running : h \in projectors \/ h = g
    BY <1>1, <1>2, <1>3, <1>6, <2>0 DEF Projecting, Due
  <2>3. g \in running
    BY <1>1, <1>2, <2>0 DEF Projecting
  <2>4. \A h \in projectors' : h \in running \/ Due(S, "stopped", h)
    BY <1>1, <1>2, <2>1, <2>3 DEF Projecting
  <2>5. \A d \in S : d.do = "stopped" => d.item \notin running
    BY <1>2, <1>3 DEF Projecting
  <2> QED BY <1>1, <1>6, <2>2, <2>4, <2>5 DEF Projecting, S, g
<1>10. Typed'
  <2>1. carried' \subseteq Ships \X Guns
    <3>1. Carrier(g) = None \/ Carrier(g) \in Ships
      BY <1>2, <1>4, ProjectionAssumption DEF Carrier, TypeOK, ProjectionAssumption
    <3> QED BY <1>1, <1>2, <1>4, <3>1 DEF TypeOK
  <2> QED BY <1>1, <1>2, <1>3, <1>4, <2>1 DEF Typed, TypeOK
<1> QED BY <1>1, <1>2, <1>3, <1>7, <1>8, <1>9, <1>10 DEF ProjInv

\* _handle_effects_stopped, the projector's part
LEMMA StoppedStep ==
  ASSUME ProjInv, EffectsStopped
  PROVE  ProjInv'
<1> DEFINE g == Head(agenda).item
           R == Of(agenda)
           S == Of(agenda')
<1>1. /\ agenda # <<>> /\ Head(agenda).do = "stopped" /\ Then(<<>>)
      /\ projectors' = projectors \ {g}
      /\ carried' \subseteq carried /\ carrierless' \subseteq carrierless
      /\ UNCHANGED <<source, ship, fitted, ready, target, running, local, cache>>
      /\ UNCHANGED <<affectees, active, domain, tgts, raised>>
  BY DEF EffectsStopped, Doing, fitVars, affection
<1>2. /\ ~raised /\ Presence(R) /\ Projecting(R) /\ Targeting(R) /\ Typed /\ TypeOK
  BY <1>1, Under
<1>3. /\ agenda' \in Seq(Entries) /\ InTurn(agenda') /\ S = Of(Tail(agenda))
      /\ R = {Head(agenda)} \cup S /\ R \subseteq Entries /\ Head(agenda) \in Entries
      /\ \A b \in S : Before(Head(agenda), b)
  BY <1>1, Shortened
<1>5. \A e : e.do # "stopped" => (e \in S <=> e \in R)
  BY <1>1, <1>3
<1>6. \A e \in S : e.do \notin {"started", "stopped"}
  BY <1>1, <1>3 DEF Before, Rank
<1>7. Presence(Of(agenda))'
  <2>1. \A e : e.do \in Loads => (e \in Of(agenda') <=> e \in Of(agenda))
    BY <1>5 DEF Loads
  <2> QED BY <1>1, <1>2, <2>1, PresenceKept
<1>8. Targeting(Of(agenda))'
  <2>1. \A e : e.do \in Aims => (e \in Of(agenda') <=> e \in Of(agenda))
    BY <1>5 DEF Aims
  <2>2. \A e \in S : e.do = "unload" => e \in R
    BY <1>5
  <2> QED BY <1>1, <1>2, <2>1, <2>2, TargetingKept
<1>9. Projecting(Of(agenda))'
  <2> HIDE DEF R, S, g
  <2>0. Head(agenda) \in R /\ Head(agenda).item = g
    BY <1>3 DEF g
  <2>1. g \notin running
    BY <1>1, <1>2, <2>0 DEF Projecting
  <2>2. \A h \in running : h \in projectors'
    BY <1>1, <1>2, <1>3, <1>6, <2>1 DEF Projecting, Due
  <2>3. \A h \in projectors' : h \in running
    BY <1>1, <1>2, <1>3, <1>6, <2>0 DEF Projecting, Due
  <2> QED BY <1>1, <1>6, <2>2, <2>3 DEF Projecting, S
<1>10. Typed'
  BY <1>1, <1>2, <1>3 DEF Typed, TypeOK
<1> QED BY <1>1, <1>2, <1>3, <1>7, <1>8, <1>9, <1>10 DEF ProjInv

\* _handle_item_loaded; a call that raises leaves the types.
LEMMA LoadedStep ==
  ASSUME ProjInv, ItemLoaded
  PROVE  ProjInv'
<1> DEFINE i == Head(agenda).item
           own == {g \in carrierless : Carrier(g) = i}
           R == Of(agenda)
           S == Of(agenda')
<1>1. /\ agenda # <<>> /\ Head(agenda).do = "loaded"
      /\ affectees' = affectees \cup {i}
      /\ \/ raised' = TRUE /\ agenda' = <<>> /\ UNCHANGED <<carried, carrierless>>
         \/ /\ raised' = raised /\ Then(<<>>)
            /\ carrierless' = carrierless \ own
            /\ carried' = carried \cup ({i} \X own)
      /\ UNCHANGED <<source, ship, fitted, ready, target, running, local, cache>>
      /\ UNCHANGED <<active, domain, projectors, tgts>>
  BY DEF ItemLoaded, Doing, fitVars
<1>2. /\ ~raised /\ Presence(R) /\ Projecting(R) /\ Targeting(R) /\ Typed /\ TypeOK
  BY <1>1, Under
<1>3. /\ Head(agenda) \in Entries /\ i \in Items
  <2>1. agenda \in Seq(Entries)
    BY <1>2 DEF Typed
  <2>2. Head(agenda) \in Entries
    BY <1>1, <2>1
  <2> QED BY <1>1, <2>2 DEF Entries
<1>4. affectees' \subseteq Items /\ active' \subseteq affectees' \X Guns
  BY <1>1, <1>2, <1>3 DEF TypeOK
<1>5. CASE raised' = TRUE /\ agenda' = <<>> /\ UNCHANGED <<carried, carrierless>>
  <2>1. <<>> \in Seq(Entries) /\ InTurn(<<>>)
    BY NothingLeft
  <2>2. Typed'
    BY <1>1, <1>2, <1>4, <1>5, <2>1 DEF Typed, TypeOK
  <2> QED BY <1>5, <2>1, <2>2 DEF ProjInv
<1>6. CASE /\ raised' = raised /\ Then(<<>>) /\ carrierless' = carrierless \ own
           /\ carried' = carried \cup ({i} \X own)
  <2>1. /\ agenda' \in Seq(Entries) /\ InTurn(agenda') /\ S = Of(Tail(agenda))
        /\ R = {Head(agenda)} \cup S /\ R \subseteq Entries
        /\ \A b \in S : Before(Head(agenda), b)
    BY <1>1, <1>6, Shortened
  <2>2. \A e : e.do # "loaded" => (e \in S <=> e \in R)
    BY <1>1, <2>1
  <2>3. \A e \in S : e.do # "loaded"
    BY <1>1, <2>1 DEF Before, Rank
  <2>4. Projecting(Of(agenda))'
    <3>1. \A e : e.do \in {"started", "stopped"} => (e \in S <=> e \in R)
      BY <2>2
    <3> QED BY <1>1, <1>2, <3>1, ProjectingKept
  <2>5. Targeting(Of(agenda))'
    <3>1. \A e : e.do \in Aims => (e \in Of(agenda') <=> e \in Of(agenda))
      BY <2>2 DEF Aims
    <3>2. \A e \in S : e.do = "unload" => e \in R
      BY <2>2
    <3> QED BY <1>1, <1>2, <3>1, <3>2, TargetingKept
  <2>6. Presence(Of(agenda))'
    <3> HIDE DEF R, S, i
    <3>1. Head(agenda) \in R /\ Head(agenda).item = i
      BY <2>1 DEF i
    <3>2. \A e \in R : ~Switches(e)
      BY <1>1, <1>2, <3>1 DEF Presence, BeforeSwitch
    <3>3. AfterSwitch(R) /\ (i \in On \/ i \notin Guns)
      BY <1>1, <1>2, <3>1, <3>2 DEF Presence, AfterSwitch
    <3>4. affectees' \cap Guns \subseteq On /\ On' = On
      BY <1>1, <1>2, <3>3 DEF Presence, On
    <3>5. \A g \in On : \/ Due(S, "load", g)
                        \/ (g \in ready => g \in running) /\ g \in affectees'
      <4> SUFFICES ASSUME NEW g \in On, ~Due(S, "load", g)
                   PROVE  (g \in ready => g \in running) /\ g \in affectees'
        OBVIOUS
      <4>1. ~Due(R, "load", g)
        BY <2>2 DEF Due
      <4>2. Due(R, "loaded", g) => g = i
        BY <1>1, <2>1, <2>3 DEF Due, i
      <4> QED BY <1>1, <3>3, <4>1, <4>2 DEF AfterSwitch
    <3>6. \A d \in S : d \in R
      BY <2>1
    <3>7. AfterSwitch(Of(agenda))'
      BY <1>1, <2>3, <3>3, <3>4, <3>5, <3>6 DEF AfterSwitch, S
    <3> QED BY <1>1, <1>2, <3>2, <3>4, <3>6, <3>7 DEF Presence, S, Switches
  <2>7. carried' \subseteq Ships \X Guns
    <3>1. ASSUME NEW g \in own PROVE i \in Ships /\ g \in Guns
      <4>1. g \in Guns /\ ship[Home[g]] = i
        BY <1>2 DEF Typed, Carrier
      <4>2. ship[Home[g]] \in Ships \cup {None} /\ None \notin Items
        BY <1>2, <4>1, ProjectionAssumption DEF TypeOK, ProjectionAssumption
      <4> QED BY <1>3, <4>1, <4>2
    <3> QED BY <1>2, <1>6, <3>1 DEF TypeOK
  <2>8. Typed'
    BY <1>1, <1>2, <1>4, <1>6, <2>1, <2>7 DEF Typed, TypeOK
  <2> QED BY <1>2, <1>6, <2>1, <2>4, <2>5, <2>6, <2>8 DEF ProjInv
<1> QED BY <1>1, <1>5, <1>6

\* _handle_item_unloaded
LEMMA UnloadedStep ==
  ASSUME ProjInv, ItemUnloaded
  PROVE  ProjInv'
<1> DEFINE i == Head(agenda).item
           R == Of(agenda)
           S == Of(agenda')
<1>1. /\ agenda # <<>> /\ Head(agenda).do = "unloaded" /\ Then(<<>>)
      /\ affectees' = affectees \ {i} /\ active' = {p \in active : p[1] # i}
      /\ carrierless' = carrierless \cup {p[2] : p \in {q \in carried : q[1] = i}}
      /\ carried' \subseteq carried
      /\ UNCHANGED <<source, ship, fitted, ready, target, running, local, cache>>
      /\ UNCHANGED <<domain, projectors, tgts, raised>>
  BY DEF ItemUnloaded, Doing, fitVars
<1>2. /\ ~raised /\ Presence(R) /\ Projecting(R) /\ Targeting(R) /\ Typed /\ TypeOK
  BY <1>1, Under
<1>3. /\ agenda' \in Seq(Entries) /\ InTurn(agenda') /\ S = Of(Tail(agenda))
      /\ R = {Head(agenda)} \cup S /\ R \subseteq Entries /\ Head(agenda) \in Entries
      /\ \A b \in S : Before(Head(agenda), b)
  BY <1>1, Shortened
<1>5. \A e : e.do # "unloaded" => (e \in S <=> e \in R)
  BY <1>1, <1>3
<1>6. \A e \in S : e.do \notin {"unloaded", "loaded"}
  BY <1>1, <1>3 DEF Before, Rank
<1>7. Projecting(Of(agenda))'
  <2>1. \A e : e.do \in {"started", "stopped"} => (e \in S <=> e \in R)
    BY <1>5
  <2> QED BY <1>1, <1>2, <2>1, ProjectingKept
<1>8. Targeting(Of(agenda))'
  <2>1. \A e : e.do \in Aims => (e \in Of(agenda') <=> e \in Of(agenda))
    BY <1>5 DEF Aims
  <2>2. \A e \in S : e.do = "unload" => e \in R
    BY <1>5
  <2> QED BY <1>1, <1>2, <2>1, <2>2, TargetingKept
<1>9. Presence(Of(agenda))'
  <2> HIDE DEF R, S, i
  <2>1. Head(agenda) \in R /\ Head(agenda).item = i
    BY <1>3 DEF i
  <2>2. \A g, do : do # "unloaded" => (Due(R, do, g) <=> Due(S, do, g))
    BY <1>5 DEF Due
  <2>3. \A g : Due(R, "unloaded", g) => g = i
    BY <1>1, <1>3, <1>6 DEF Due, i
  <2>4. On' = On /\ \A e : Stay(e)' = Stay(e)
    BY <1>1 DEF On, Stay
  <2>5. affectees' \cap Guns \subseteq On /\ running \subseteq On \cap ready
    BY <1>1, <1>2 DEF Presence
  <2>6. \A d \in S : d.do = "load" => d.item \in fitted \/ d.item \notin Guns
    BY <1>2, <1>3 DEF Presence
  <2>7. ASSUME NEW e \in S, Switches(e)
        PROVE  BeforeSwitch(Of(agenda), e)'
    <3>1. BeforeSwitch(R, e)
      BY <1>2, <1>3, <2>7 DEF Presence
    <3>2. i \notin Stay(e)
      BY <1>1, <2>1, <3>1 DEF BeforeSwitch
    <3>3. /\ Stay(e) \subseteq affectees' /\ Stay(e) \cap ready \subseteq running
          /\ \A g \in Guns \cap affectees' : g \in Stay(e) \/ Due(S, "unload", g)
          /\ \A g \in running : g \in Stay(e) \/ Due(S, "unload", g)
          /\ e.do = "source" /\ e.item # None => \A g \in fitted \cap Guns : Due(S, "load", g)
      BY <1>1, <2>2, <2>3, <3>1, <3>2 DEF BeforeSwitch
    <3>4. /\ \A d \in S : d.do \in {"unload", "unloaded"} => d.item \notin Stay(e)
          /\ \A d \in S : d.do # "loaded"
          /\ e.do = "off" => \A d \in S : d.do # "load"
      BY <1>3, <3>1 DEF BeforeSwitch
    <3> QED BY <1>1, <2>4, <3>3, <3>4 DEF BeforeSwitch, S
  <2>8. ASSUME \A e \in S : ~Switches(e)
        PROVE  AfterSwitch(Of(agenda))'
    <3>1. \A e \in R : ~Switches(e)
      BY <1>1, <1>3, <2>8 DEF Switches
    <3>2. AfterSwitch(R)
      BY <1>2, <3>1 DEF Presence
    <3>3. i \notin Guns
      BY <1>1, <2>1, <3>2 DEF AfterSwitch
    <3>4. On \subseteq Guns
      BY DEF On
    <3>5. \A g \in On : \/ Due(S, "load", g)
                        \/ (g \in ready => g \in running) /\ (g \in affectees' \/ Due(S, "loaded", g))
      BY <1>1, <2>2, <3>2, <3>3, <3>4 DEF AfterSwitch
    <3>6. /\ \A d \in S : d.do \in {"unload", "unloaded"} => d.item \notin Guns
          /\ \A d \in S : d.do = "loaded" => d.item \in On \/ d.item \notin Guns
      BY <1>3, <3>2 DEF AfterSwitch
    <3> QED BY <1>1, <2>4, <3>5, <3>6 DEF AfterSwitch, S
  <2> QED BY <1>1, <2>4, <2>5, <2>6, <2>7, <2>8 DEF Presence, S, Switches
<1>10. Typed'
  <2>1. carrierless' \subseteq Guns /\ active' \subseteq affectees' \X Guns
    BY <1>1, <1>2 DEF Typed, TypeOK
  <2> QED BY <1>1, <1>2, <1>3, <2>1 DEF Typed, TypeOK
<1> QED BY <1>1, <1>2, <1>3, <1>7, <1>8, <1>9, <1>10 DEF ProjInv

\* _handle_effect_applied: the register has the new target.
LEMMA AppliedStep ==
  ASSUME ProjInv, EffectApplied
  PROVE  ProjInv'
<1> DEFINE g == Head(agenda).item
           s == Head(agenda).ship
           n == News(Hit(s))
           R == Of(agenda)
           S == Of(agenda')
<1>1. /\ agenda # <<>> /\ Head(agenda).do = "applied" /\ Then(n) /\ Drop(Hit(s))
      /\ active' = active \cup (Reached(s) \X {g})
      /\ domain' = domain \cup {<<Fit(s), g>>} /\ tgts' = tgts \cup {<<g, s>>}
      /\ UNCHANGED <<source, ship, fitted, ready, target, running, local>>
      /\ UNCHANGED <<affectees, projectors, carried, carrierless, raised>>
  BY DEF EffectApplied, Doing, fitVars
<1>2. /\ ~raised /\ Presence(R) /\ Projecting(R) /\ Targeting(R) /\ Typed /\ TypeOK
  BY <1>1, Under
<1>n. n \in Seq(Entries) /\ InTurn(n) /\ \A e \in Of(n) : e.do = "changed"
  BY <1>2, NewsAre
<1> HIDE DEF n
<1>3. /\ agenda' \in Seq(Entries) /\ InTurn(agenda')
      /\ \A e : e.do # "changed" => (e \in S <=> e \in Of(Tail(agenda)))
      /\ R = {Head(agenda)} \cup Of(Tail(agenda)) /\ R \subseteq Entries /\ Head(agenda) \in Entries
      /\ \A b \in Of(Tail(agenda)) : Before(Head(agenda), b)
  BY <1>1, <1>n, Announced
<1>4. g \in Guns /\ s \in Ships /\ s \in Items
  BY <1>1, <1>3 DEF Entries, Items
<1>5. \A e : e.do \notin {"changed", "applied"} => (e \in S <=> e \in R)
  BY <1>1, <1>3
<1>6. \A e \in S : e.do # "applied" /\ ~(e.do \in {"unapplied", "target"})
  BY <1>1, <1>3 DEF Before, Rank, Assigns
<1>7. Presence(Of(agenda))'
  <2>1. \A e : e.do \in Loads => (e \in Of(agenda') <=> e \in Of(agenda))
    BY <1>5 DEF Loads
  <2> QED BY <1>1, <1>2, <2>1, PresenceKept
<1>8. Projecting(Of(agenda))'
  <2>1. \A e : e.do \in {"started", "stopped"} => (e \in S <=> e \in R)
    BY <1>5
  <2> QED BY <1>1, <1>2, <2>1, ProjectingKept
<1>9. Targeting(Of(agenda))'
  <2>0. Head(agenda) \in R
    BY <1>3
  <2> HIDE DEF R, S
  <2>1. /\ \A h : ~Retargeted(S, h) /\ ~Retargeted(R, h)
        /\ \A h, x : ~DueOn(R, "target", h, x) /\ ~DueOn(R, "unapplied", h, x)
        /\ \A h, x : ~DueOn(S, "unapplied", h, x)
    BY <1>1, <1>3, <1>5, <1>6 DEF Retargeted, DueOn
  <2>2. g \in running /\ s = target[g]
    BY <1>1, <1>2, <2>0, <2>1 DEF Targeting
  <2>3. \A h, x : DueOn(R, "applied", h, x) => h = g /\ x = s
    BY <1>3, <1>5, <1>6 DEF DueOn
  <2>4. \A h \in Guns, x \in Ships : <<h, x>> \in tgts' => h \in running /\ x = target[h]
    BY <1>1, <1>2, <2>1, <2>2 DEF Targeting
  <2>5. \A h \in running : target[h] # None => <<h, target[h]>> \in tgts'
    BY <1>1, <1>2, <2>1, <2>3 DEF Targeting
  <2> QED BY <1>1, <1>6, <2>1, <2>4, <2>5 DEF Targeting, S
<1>10. Typed'
  <2>1. active' \subseteq affectees \X Guns /\ domain' \subseteq (Fits \cup {None}) \X Guns
    BY <1>1, <1>2, <1>4, FitTyped DEF TypeOK, Reached
  <2>2. DOMAIN cache' \subseteq Cells
    BY <1>1, <1>2, DroppedTyped
  <2>3. tgts' \subseteq Guns \X Ships
    BY <1>1, <1>2, <1>4 DEF TypeOK
  <2> HIDE DEF g, s
  <2> QED BY <1>1, <1>2, <1>3, <2>1, <2>2, <2>3 DEF Typed, TypeOK
<1> QED BY <1>1, <1>2, <1>3, <1>7, <1>8, <1>9, <1>10 DEF ProjInv

\* _handle_effect_unapplied: the register has lost the old target.
LEMMA UnappliedStep ==
  ASSUME ProjInv, EffectUnapplied
  PROVE  ProjInv'
<1> DEFINE g == Head(agenda).item
           s == Head(agenda).ship
           n == News(Hit(s))
           R == Of(agenda)
           S == Of(agenda')
<1>1. /\ agenda # <<>> /\ Head(agenda).do = "unapplied" /\ Then(n) /\ Drop(Hit(s))
      /\ active' \subseteq active /\ domain' \subseteq domain /\ tgts' = tgts \ {<<g, s>>}
      /\ UNCHANGED <<source, ship, fitted, ready, target, running, local>>
      /\ UNCHANGED <<affectees, projectors, carried, carrierless, raised>>
  BY DEF EffectUnapplied, Doing, fitVars
<1>2. /\ ~raised /\ Presence(R) /\ Projecting(R) /\ Targeting(R) /\ Typed /\ TypeOK
  BY <1>1, Under
<1>n. n \in Seq(Entries) /\ InTurn(n) /\ \A e \in Of(n) : e.do = "changed"
  BY <1>2, NewsAre
<1> HIDE DEF n
<1>3. /\ agenda' \in Seq(Entries) /\ InTurn(agenda')
      /\ \A e : e.do # "changed" => (e \in S <=> e \in Of(Tail(agenda)))
      /\ R = {Head(agenda)} \cup Of(Tail(agenda)) /\ R \subseteq Entries /\ Head(agenda) \in Entries
      /\ \A b \in Of(Tail(agenda)) : Before(Head(agenda), b)
  BY <1>1, <1>n, Announced
<1>4. g \in Guns /\ s \in Ships
  BY <1>1, <1>3 DEF Entries
<1>5. \A e : e.do \notin {"changed", "unapplied"} => (e \in S <=> e \in R)
  BY <1>1, <1>3
<1>6. \A e \in S : e.do # "unapplied"
  BY <1>1, <1>3 DEF Before, Rank, Assigns
<1>7. Presence(Of(agenda))'
  <2>1. \A e : e.do \in Loads => (e \in Of(agenda') <=> e \in Of(agenda))
    BY <1>5 DEF Loads
  <2> QED BY <1>1, <1>2, <2>1, PresenceKept
<1>8. Projecting(Of(agenda))'
  <2>1. \A e : e.do \in {"started", "stopped"} => (e \in S <=> e \in R)
    BY <1>5
  <2> QED BY <1>1, <1>2, <2>1, ProjectingKept
<1>9. Targeting(Of(agenda))'
  <2>0. Head(agenda) \in R
    BY <1>3
  <2> HIDE DEF R, S
  <2>1. /\ \A h : Retargeted(S, h) <=> Retargeted(R, h)
        /\ \A h, x : DueOn(S, "applied", h, x) <=> DueOn(R, "applied", h, x)
        /\ \A h, x : DueOn(S, "target", h, x) <=> DueOn(R, "target", h, x)
    BY <1>5 DEF Retargeted, DueOn
  <2>2. g \notin running \/ Retargeted(R, g)
    BY <1>1, <1>2, <2>0 DEF Targeting
  <2>3. \A h, x : DueOn(R, "unapplied", h, x) => h = g /\ x = s
    BY <1>3, <1>5, <1>6 DEF DueOn
  <2>4. \A h \in Guns, x \in Ships : <<h, x>> \in tgts' =>
          h \in running /\ x = target[h] /\ ~Retargeted(S, h)
    BY <1>1, <1>2, <2>1, <2>3 DEF Targeting
  <2>5. \A h \in running : target[h] # None =>
          <<h, target[h]>> \in tgts' \/ DueOn(S, "applied", h, target[h]) \/ Retargeted(S, h)
    BY <1>1, <1>2, <2>1, <2>2 DEF Targeting
  <2>6. \A d \in S : d.do \in {"applied", "target"} => d \in R
    BY <1>5
  <2>7. \A e \in S : e.do = "unload" => e \in R
    BY <1>5
  <2>8. /\ \A d \in S : d.do = "applied" =>
             /\ d.item \in running
             /\ \/ d.ship = target[d.item] /\ ~Retargeted(S, d.item)
                \/ DueOn(S, "target", d.item, d.ship)
             /\ \A e \in S : e.do # "unload"
        /\ \A d \in S : d.do = "target" /\ d.item \in running /\ d.ship # None =>
             DueOn(S, "applied", d.item, d.ship)
    BY <1>2, <2>1, <2>6, <2>7 DEF Targeting
  <2> QED BY <1>1, <1>6, <2>4, <2>5, <2>8 DEF Targeting, S
<1>10. Typed'
  <2>1. DOMAIN cache' \subseteq Cells
    BY <1>1, <1>2, DroppedTyped
  <2>2. tgts' \subseteq Guns \X Ships
    BY <1>1, <1>2 DEF TypeOK
  <2> HIDE DEF g, s
  <2> QED BY <1>1, <1>2, <1>3, <2>1, <2>2 DEF Typed, TypeOK
<1> QED BY <1>1, <1>2, <1>3, <1>7, <1>8, <1>9, <1>10 DEF ProjInv

\* The assignments inside the setters.
LEMMA AssignStep ==
  ASSUME ProjInv, Assign
  PROVE  ProjInv'
<1> DEFINE h == Head(agenda)
           R == Of(agenda)
           S == Of(agenda')
<1>1. /\ agenda # <<>> /\ h.do \in Assigns /\ Then(<<>>)
      /\ ship' = IF h.do = "ship" THEN [ship EXCEPT ![h.fit] = h.ship] ELSE ship
      /\ target' = IF h.do = "target" THEN [target EXCEPT ![h.item] = h.ship] ELSE target
      /\ source' = IF h.do = "source" THEN h.item ELSE source
      /\ fitted' = IF h.do = "off" THEN fitted \ {h.item} ELSE fitted
      /\ UNCHANGED <<ready, running, local, cache, affectees, active, domain>>
      /\ UNCHANGED <<projectors, carried, carrierless, tgts, raised>>
  BY DEF Assign, Doing, Assigns, affection, projection
<1>2. /\ ~raised /\ Presence(R) /\ Projecting(R) /\ Targeting(R) /\ Typed /\ TypeOK
  BY <1>1, Under
<1>3. /\ agenda' \in Seq(Entries) /\ InTurn(agenda') /\ S = Of(Tail(agenda))
      /\ R = {h} \cup S /\ R \subseteq Entries /\ h \in Entries
      /\ \A b \in S : Before(h, b)
  BY <1>1, Shortened
<1>4. \A e \in S : e.do \in {"applied", "load"}
  BY <1>1, <1>3 DEF Before, Rank, Assigns, Entries
<1>5. \A e : e.do \notin Assigns => (e \in S <=> e \in R)
  BY <1>1, <1>3
<1> HIDE DEF h, R, S
<1>6. Projecting(Of(agenda))'
  <2>1. \A e : e.do \in {"started", "stopped"} => (e \in S <=> e \in R)
    BY <1>5 DEF Assigns
  <2> QED BY <1>1, <1>2, <2>1, ProjectingKept DEF R, S
<1>7. Targeting(Of(agenda))'
  <2>1. CASE h.do # "target"
    <3>1. \A e : e.do \in Aims => (e \in S <=> e \in R)
      BY <1>1, <1>3, <2>1 DEF Assigns, Aims
    <3>2. \A e \in S : e.do = "unload" => e \in R
      BY <1>3
    <3> QED BY <1>1, <1>2, <2>1, <3>1, <3>2, TargetingKept DEF R, S
  <2>2. CASE h.do = "target"
    <3> DEFINE g == h.item
               s == h.ship
    <3>1. g \in Guns /\ s \in Ships \cup {None} /\ h \in R
      BY <1>3, <2>2 DEF Entries
    <3>2. target' = [target EXCEPT ![g] = s] /\ target'[g] = s
          /\ \A x \in Guns : x # g => target'[x] = target[x]
      BY <1>1, <1>2, <2>2, <3>1 DEF TypeOK
    <3> HIDE DEF g, s
    <3>3. /\ \A x : ~Retargeted(S, x) /\ (Retargeted(R, x) <=> x = g)
          /\ \A x, y : ~DueOn(R, "unapplied", x, y) /\ ~DueOn(S, "unapplied", x, y)
          /\ \A x, y : DueOn(R, "applied", x, y) <=> DueOn(S, "applied", x, y)
          /\ \A x, y : DueOn(R, "target", x, y) => x = g /\ y = s
      BY <1>3, <1>4, <1>5, <2>2 DEF Retargeted, DueOn, Assigns, g, s
    <3>4. \A x \in Guns, y \in Ships : <<x, y>> \in tgts => x \in running /\ y = target'[x]
      BY <1>2, <3>2, <3>3 DEF Targeting
    <3>5. running \subseteq Guns
      BY <1>2 DEF TypeOK
    <3>6. \A x \in running : target'[x] # None =>
            <<x, target'[x]>> \in tgts \/ DueOn(S, "applied", x, target'[x])
      <4> SUFFICES ASSUME NEW x \in running, target'[x] # None
                   PROVE  <<x, target'[x]>> \in tgts \/ DueOn(S, "applied", x, target'[x])
        OBVIOUS
      <4>1. CASE x = g
        <5>1. h.do = "target" /\ h.item = g /\ h.ship = s /\ h \in R
          BY <2>2, <3>1 DEF g, s
        <5>2. DueOn(R, "applied", g, s)
          BY <1>2, <3>2, <4>1, <5>1 DEF Targeting
        <5> QED BY <3>2, <3>3, <4>1, <5>2
      <4>2. CASE x # g
        BY <1>2, <3>2, <3>3, <3>5, <4>2 DEF Targeting
      <4> QED BY <4>1, <4>2
    <3>7. \A d \in S : d.do = "applied" =>
             d.item \in running /\ d.ship = target'[d.item] /\ \A e \in S : e.do # "unload"
      <4> SUFFICES ASSUME NEW d \in S, d.do = "applied"
                   PROVE  d.item \in running /\ d.ship = target'[d.item]
        BY <1>4
      <4>1. /\ d \in R /\ d.item \in running
            /\ (d.ship = target[d.item] /\ ~Retargeted(R, d.item)) \/ DueOn(R, "target", d.item, d.ship)
        BY <1>2, <1>3 DEF Targeting
      <4> QED BY <3>2, <3>3, <3>5, <4>1
    <3> QED BY <1>1, <1>4, <3>3, <3>4, <3>6, <3>7 DEF Targeting, S
  <2> QED BY <2>1, <2>2
<1>8. Presence(Of(agenda))'
  <2>1. CASE h.do \in {"ship", "target"}
    <3>1. \A e : e.do \in Loads => (e \in S <=> e \in R)
      BY <1>3, <2>1 DEF Loads
    <3> QED BY <1>1, <1>2, <2>1, <3>1, PresenceKept DEF R, S
  <2>2. CASE h.do \in {"source", "off"}
    <3>1. BeforeSwitch(R, h)
      BY <1>2, <1>3, <2>2 DEF Presence, Switches
    <3>2. /\ affectees \cap Guns \subseteq Stay(h) /\ running \subseteq Stay(h)
          /\ Stay(h) \subseteq affectees /\ Stay(h) \cap ready \subseteq running
      BY <1>2, <1>3, <1>4, <2>2, <3>1 DEF BeforeSwitch, Due, TypeOK
    <3>3. CASE h.do = "off"
      <4>1. On' = Stay(h) /\ fitted' = fitted \ {h.item}
        BY <1>1, <3>3 DEF On, Stay
      <4>2. \A d \in S : d.do # "load"
        BY <1>3, <3>1, <3>3 DEF BeforeSwitch
      <4>3. On' \subseteq affectees /\ On' \cap ready \subseteq running
        BY <3>2, <4>1
      <4>4. AfterSwitch(Of(agenda))'
        BY <1>1, <1>4, <4>3 DEF AfterSwitch, S
      <4>5. running \subseteq ready
        BY <1>2 DEF Presence
      <4> QED BY <1>1, <1>4, <3>2, <4>1, <4>2, <4>4, <4>5 DEF Presence, S, Switches
    <3>4. CASE h.do = "source"
      <4>1. Stay(h) = {} /\ running = {} /\ affectees \cap Guns = {}
        BY <3>2, <3>4 DEF Stay
      <4>2. \A g \in On' : Due(S, "load", g)
        <5>1. On' \subseteq fitted \cap Guns /\ (On' # {} => h.item # None)
          BY <1>1, <3>4 DEF On
        <5>2. h.item # None => \A g \in fitted \cap Guns : Due(R, "load", g)
          BY <3>1, <3>4 DEF BeforeSwitch
        <5>3. \A g : Due(R, "load", g) => Due(S, "load", g)
          BY <1>5 DEF Due, Assigns
        <5> QED BY <5>1, <5>2, <5>3
      <4>3. AfterSwitch(Of(agenda))'
        BY <1>1, <1>4, <4>2 DEF AfterSwitch, S
      <4>4. \A d \in S : d.do = "load" => d.item \in fitted \/ d.item \notin Guns
        BY <1>2, <1>3 DEF Presence
      <4>5. fitted' = fitted
        BY <1>1, <3>4
      <4> QED BY <1>1, <1>4, <4>1, <4>3, <4>4, <4>5 DEF Presence, S, Switches
    <3> QED BY <2>2, <3>3, <3>4
  <2> QED BY <1>1, <2>1, <2>2 DEF Assigns
<1>9. Typed'
  <2>1. ship' \in [Fits -> Ships \cup {None}]
    <3>1. h.do = "ship" => h.fit \in Fits /\ h.ship \in Ships \cup {None}
      BY <1>3 DEF Entries
    <3> QED BY <1>1, <1>2, <3>1 DEF TypeOK
  <2>2. target' \in [Guns -> Ships \cup {None}]
    <3>1. h.do = "target" => h.item \in Guns /\ h.ship \in Ships \cup {None}
      BY <1>3 DEF Entries
    <3> QED BY <1>1, <1>2, <3>1 DEF TypeOK
  <2>3. source' \in Sources \cup {None}
    <3>1. h.do = "source" => h.item \in Sources \cup {None}
      BY <1>3 DEF Entries
    <3> QED BY <1>1, <1>2, <3>1 DEF TypeOK
  <2>4. fitted' \subseteq Guns \cup Gadgets
    BY <1>1, <1>2 DEF TypeOK
  <2> QED BY <1>1, <1>2, <1>3, <2>1, <2>2, <2>3, <2>4 DEF Typed, TypeOK
<1> QED BY <1>1, <1>2, <1>3, <1>6, <1>7, <1>8, <1>9 DEF ProjInv
-----------------------------------------------------------------------------
(* Loading and unloading. *)

\* Two steps.
LEMMA TwoLeft ==
  ASSUME NEW a \in Entries, NEW b \in Entries, Before(a, b)
  PROVE  <<a, b>> \in Seq(Entries) /\ InTurn(<<a, b>>) /\ Of(<<a, b>>) = {a, b}
BY DEF InTurn, Of

\* A step that is there or not.
LEMMA OneOrNone ==
  ASSUME NEW e \in Entries, NEW b \in BOOLEAN, NEW q, q = IF b THEN <<e>> ELSE <<>>
  PROVE  q \in Seq(Entries) /\ InTurn(q) /\ Of(q) = IF b THEN {e} ELSE {}
BY NothingLeft, OneLeft

\* A message that the effect of a gun is applied or not any more to its target.
LEMMA ApplyingAre ==
  ASSUME TypeOK, NEW do \in {"applied", "unapplied"}, NEW g \in Guns
  PROVE  /\ Applying(do, g) \in Seq(Entries) /\ InTurn(Applying(do, g))
         /\ \A e \in Of(Applying(do, g)) : e.do = do /\ e.item = g /\ e.ship = target[g]
                                           /\ target[g] # None
         /\ target[g] # None => DueOn(Of(Applying(do, g)), do, g, target[g])
<1> DEFINE q == Applying(do, g)
           e == Aimed(do, g, target[g])
<1>1. CASE target[g] = None
  <2>1. q = <<>>
    BY <1>1 DEF Applying
  <2> HIDE DEF q
  <2>2. q \in Seq(Entries) /\ InTurn(q) /\ Of(q) = {}
    BY <2>1, NothingLeft
  <2> QED BY <1>1, <2>2 DEF q
<1>2. CASE target[g] # None
  <2>1. q = <<e>>
    BY <1>2 DEF Applying
  <2>2. e \in Entries /\ e.do = do /\ e.item = g /\ e.ship = target[g]
    BY <1>2 DEF Aimed, Entries, TypeOK
  <2> HIDE DEF q, e
  <2>3. q \in Seq(Entries) /\ InTurn(q) /\ Of(q) = {e}
    BY <2>1, <2>2, OneLeft
  <2> QED BY <1>2, <2>2, <2>3 DEF q, DueOn
<1> QED BY <1>1, <1>2

\* A gun that is to be loaded, and all that is due with it.
LEMMA AtLoad ==
  ASSUME ProjInv, agenda # <<>>, Head(agenda).do = "load"
  PROVE  /\ Head(agenda).item \in Items
         /\ Of(agenda) = {Head(agenda)} \cup Of(Tail(agenda))
         /\ \A b \in Of(Tail(agenda)) : b.do = "load" /\ b \in Entries
         /\ AfterSwitch(Of(agenda)) /\ affectees \cap Guns \subseteq On
         /\ running \subseteq On \cap ready /\ projectors = running
         /\ \A d \in Of(agenda) : d.item \in fitted \/ d.item \notin Guns
         /\ \A g \in Guns, s \in Ships : <<g, s>> \in tgts => g \in running /\ s = target[g]
         /\ \A g \in running : target[g] # None => <<g, target[g]>> \in tgts
<1> DEFINE h == Head(agenda)
           X == Of(Tail(agenda))
           R == Of(agenda)
<1>1. agenda \in Seq(Entries) /\ InTurn(agenda) /\ Presence(R) /\ Projecting(R) /\ Targeting(R)
  BY Under DEF ProjInv, Typed
<1>2. h \in Entries /\ R = {h} \cup X /\ R \subseteq Entries /\ \A e \in X : Before(h, e)
  BY <1>1, Foremost
<1>3. h.do = "load"
  OBVIOUS
<1> HIDE DEF h, X, R
<1>4. \A e \in R : e.do = "load" /\ e \in Entries
  BY <1>2, <1>3 DEF Before, Rank, Entries, Assigns
<1>5. h.item \in Items
  BY <1>2, <1>3 DEF Entries
<1>6. /\ AfterSwitch(R) /\ affectees \cap Guns \subseteq On /\ running \subseteq On \cap ready
      /\ \A d \in R : d.item \in fitted \/ d.item \notin Guns
  BY <1>1, <1>4 DEF Presence, Switches
<1>7. projectors = running
  BY <1>1, <1>4 DEF Projecting, Due
<1>8. /\ \A g \in Guns, s \in Ships : <<g, s>> \in tgts => g \in running /\ s = target[g]
      /\ \A g \in running : target[g] # None => <<g, target[g]>> \in tgts
  BY <1>1, <1>4 DEF Targeting, DueOn, Retargeted
<1> QED BY <1>2, <1>4, <1>5, <1>6, <1>7, <1>8 DEF h, X, R

\* BaseItemMixin._load leaves these messages.
LEMMA LoadLeaves ==
  ASSUME ProjInv, LoadItem
  PROVE  LET i == Head(agenda).item
             a == Step("loaded", i)
             b == Step("started", i)
             q == Applying("applied", i)
             known == ~(source = None \/ i \notin Known[source])
             goes == i \in Guns /\ i \in ready
             X == Of(Tail(agenda))
             S == Of(agenda')
         IN /\ agenda' \in Seq(Entries) /\ InTurn(agenda') /\ X \subseteq S
            /\ \A e \in S : \/ e = a /\ known
                            \/ e = b /\ known /\ goes
                            \/ known /\ goes /\ e \in Of(q)
                            \/ e \in X
            /\ known => a \in S
            /\ known /\ goes => b \in S /\ Of(q) \subseteq S
            /\ running' = IF known /\ goes THEN running \cup {i} ELSE running
<1> DEFINE h == Head(agenda)
           i == h.item
           a == Step("loaded", i)
           b == Step("started", i)
           X == Of(Tail(agenda))
           S == Of(agenda')
           known == ~(source = None \/ i \notin Known[source])
           goes == i \in Guns /\ i \in ready
           ab == <<a, b>>
           q == Applying("applied", i)
           steps == IF ~known THEN <<>> ELSE IF goes THEN ab \o q ELSE <<a>>
<1>1. /\ agenda # <<>> /\ h.do = "load" /\ Then(steps)
      /\ running' = IF known /\ goes THEN running \cup {i} ELSE running
  BY DEF LoadItem, Doing
<1>2. TypeOK
  BY <1>1, Under
<1>3. i \in Items /\ \A e \in X : e.do = "load" /\ e \in Entries
  BY <1>1, AtLoad
<1>4. /\ a \in Entries /\ a.do = "loaded" /\ a.item = i
      /\ b.do = "started" /\ b.item = i /\ (i \in Guns => b \in Entries)
  BY <1>3 DEF Step, Entries
<1> HIDE DEF a, b
<1>5. i \in Guns => /\ ab \in Seq(Entries) /\ InTurn(ab) /\ Of(ab) = {a, b}
  BY <1>4, TwoLeft DEF Before, Rank
<1>6. i \in Guns => /\ q \in Seq(Entries) /\ InTurn(q)
                    /\ \A e \in Of(q) : e.do = "applied" /\ e.item = i /\ e.ship = target[i]
                    /\ target[i] # None => DueOn(Of(q), "applied", i, target[i])
  BY <1>2, ApplyingAre
<1> HIDE DEF ab, q
<1>7. steps \in Seq(Entries) /\ InTurn(steps)
      /\ Of(steps) = IF ~known THEN {} ELSE IF goes THEN {a, b} \cup Of(q) ELSE {a}
  <2>1. CASE ~known
    BY <2>1, NothingLeft
  <2>2. CASE known /\ ~goes
    BY <1>4, <2>2, OneLeft
  <2>3. CASE known /\ goes
    <3>1. i \in Guns
      BY <2>3
    <3>2. \A x \in Of(ab), y \in Of(q) : Before(x, y)
      BY <1>4, <1>5, <1>6, <3>1 DEF Before, Rank, Assigns
    <3> DEFINE p == ab \o q
    <3>3. p \in Seq(Entries) /\ InTurn(p) /\ Of(p) = Of(ab) \cup Of(q)
      BY <1>5, <1>6, <3>1, <3>2, Joined
    <3>4. steps = p
      BY <2>3
    <3> HIDE DEF p, steps
    <3> QED BY <1>5, <2>3, <3>1, <3>3, <3>4
  <2> QED BY <2>1, <2>2, <2>3
<1> HIDE DEF steps
<1>8. \A e \in Of(steps) : \/ e = a /\ known
                           \/ e = b /\ known /\ goes
                           \/ known /\ goes /\ e \in Of(q)
  BY <1>7
<1>9. \A e \in Of(steps), d \in X : Before(e, d)
  BY <1>3, <1>4, <1>6, <1>8 DEF Before, Rank, Assigns
<1>10. agenda' \in Seq(Entries) /\ InTurn(agenda') /\ S = Of(steps) \cup X
  BY <1>1, <1>7, <1>9, Passed
<1>11. (known => a \in Of(steps)) /\ (known /\ goes => b \in Of(steps) /\ Of(q) \subseteq Of(steps))
  BY <1>7
<1>12. /\ agenda' \in Seq(Entries) /\ InTurn(agenda') /\ X \subseteq S
       /\ \A e \in S : \/ e = a /\ known
                       \/ e = b /\ known /\ goes
                       \/ known /\ goes /\ e \in Of(q)
                       \/ e \in X
       /\ known => a \in S
       /\ known /\ goes => b \in S /\ Of(q) \subseteq S
  <2> HIDE DEF X, S, known, goes
  <2> QED BY <1>8, <1>10, <1>11
<1> QED BY <1>1, <1>12 DEF a, b, q

\* BaseItemMixin._load: a gun that is known is loaded and its effect, if it may
\* run, is started and applied to the target the gun has.
LEMMA LoadStep ==
  ASSUME ProjInv, LoadItem
  PROVE  ProjInv'
<1> DEFINE h == Head(agenda)
           i == h.item
           a == Step("loaded", i)
           b == Step("started", i)
           X == Of(Tail(agenda))
           R == Of(agenda)
           S == Of(agenda')
           known == ~(source = None \/ i \notin Known[source])
           goes == i \in Guns /\ i \in ready
           q == Applying("applied", i)
<1>1. /\ agenda # <<>> /\ h.do = "load"
      /\ running' = IF known /\ goes THEN running \cup {i} ELSE running
      /\ UNCHANGED <<source, ship, fitted, ready, target, local, cache>>
      /\ UNCHANGED <<affectees, active, domain, projectors, carried, carrierless, tgts, raised>>
  BY DEF LoadItem, Doing, affection, projection
<1>2. ~raised /\ Typed /\ TypeOK
  BY <1>1, Under
<1>3. /\ i \in Items /\ R = {h} \cup X /\ \A e \in X : e.do = "load" /\ e \in Entries
      /\ AfterSwitch(R) /\ affectees \cap Guns \subseteq On
      /\ running \subseteq On \cap ready /\ projectors = running
      /\ \A d \in R : d.item \in fitted \/ d.item \notin Guns
      /\ \A g \in Guns, s \in Ships : <<g, s>> \in tgts => g \in running /\ s = target[g]
      /\ \A g \in running : target[g] # None => <<g, target[g]>> \in tgts
  BY <1>1, AtLoad
<1>4. /\ a \in Entries /\ a.do = "loaded" /\ a.item = i
      /\ b.do = "started" /\ b.item = i /\ (i \in Guns => b \in Entries)
  BY <1>3 DEF Step, Entries
<1> HIDE DEF a, b
<1>6. i \in Guns => /\ q \in Seq(Entries) /\ InTurn(q)
                    /\ \A e \in Of(q) : e.do = "applied" /\ e.item = i /\ e.ship = target[i]
                    /\ target[i] # None => DueOn(Of(q), "applied", i, target[i])
  BY <1>2, ApplyingAre
<1> HIDE DEF q
<1>10. /\ agenda' \in Seq(Entries) /\ InTurn(agenda') /\ X \subseteq S
       /\ \A e \in S : \/ e = a /\ known
                       \/ e = b /\ known /\ goes
                       \/ known /\ goes /\ e \in Of(q)
                       \/ e \in X
       /\ known => a \in S
       /\ known /\ goes => b \in S /\ Of(q) \subseteq S
  BY LoadLeaves DEF a, b, q
<1> HIDE DEF h, X, R, S
<1>11. h \in R /\ h.do = "load" /\ h.item = i /\ On' = On
  BY <1>1, <1>3 DEF On, i
<1> HIDE DEF i
<1>12. \A e \in S : \/ e = a /\ known
                    \/ e = b /\ known /\ goes
                    \/ known /\ goes /\ e \in Of(q)
                    \/ e \in X
  BY <1>10
<1>13. i \in Guns /\ known => i \in On
  <2>1. i \in Guns => i \in fitted
    BY <1>3, <1>11
  <2> QED BY <2>1 DEF On
<1>14. i \in On => known
  BY DEF On
<1>15. known => a \in S
  BY <1>10
<1>16. known /\ goes => b \in S /\ Of(q) \subseteq S
  BY <1>10
<1> HIDE DEF known
<1>17. Presence(Of(agenda))'
  <2>1. \A e \in S : ~Switches(e)
    BY <1>3, <1>4, <1>6, <1>12 DEF Switches
  <2>2. running' \subseteq On \cap ready
    BY <1>1, <1>3, <1>13
  <2>3. \A d \in S : d.do = "load" => d.item \in fitted \/ d.item \notin Guns
    <3>1. \A d \in S : d.do = "load" => d \in R
      BY <1>3, <1>4, <1>6, <1>12
    <3> QED BY <1>3, <3>1
  <2>4. \A g \in On : \/ Due(S, "load", g)
                      \/ (g \in ready => g \in running') /\ (g \in affectees \/ Due(S, "loaded", g))
    <3> SUFFICES ASSUME NEW g \in On, ~Due(S, "load", g)
                 PROVE  (g \in ready => g \in running') /\ (g \in affectees \/ Due(S, "loaded", g))
      OBVIOUS
    <3>1. CASE g = i
      <4>1. known /\ i \in Guns
        BY <1>14, <3>1 DEF On
      <4>2. Due(S, "loaded", i)
        BY <1>4, <1>15, <4>1 DEF Due
      <4> QED BY <1>1, <3>1, <4>1, <4>2
    <3>2. CASE g # i
      <4>1. ~Due(R, "load", g)
        BY <1>3, <1>10, <1>11, <3>2 DEF Due
      <4>2. ~Due(R, "loaded", g)
        BY <1>3, <1>11 DEF Due
      <4> QED BY <1>1, <1>3, <4>1, <4>2 DEF AfterSwitch
    <3> QED BY <3>1, <3>2
  <2>5. /\ \A d \in S : d.do \notin {"unload", "unloaded"}
        /\ \A d \in S : d.do = "loaded" => d.item \in On \/ d.item \notin Guns
    BY <1>3, <1>4, <1>6, <1>12, <1>13
  <2>6. AfterSwitch(Of(agenda))'
    BY <1>1, <1>11, <2>4, <2>5 DEF AfterSwitch, S
  <2> QED BY <1>1, <1>3, <1>11, <2>1, <2>2, <2>3, <2>6 DEF Presence, S, Switches
<1>18. Projecting(Of(agenda))'
  <2>1. \A d \in S : d.do # "stopped"
    BY <1>3, <1>4, <1>6, <1>12
  <2>2. \A d \in S : d.do = "started" => known /\ goes /\ d.item = i
    BY <1>3, <1>4, <1>6, <1>12
  <2>3. \A g \in running' : g \in projectors \/ Due(S, "started", g)
    <3>1. known /\ goes => Due(S, "started", i)
      BY <1>4, <1>16 DEF Due
    <3> QED BY <1>1, <1>3, <3>1
  <2> QED BY <1>1, <1>3, <2>1, <2>2, <2>3 DEF Projecting, S
<1>19. Targeting(Of(agenda))'
  <2>1. /\ \A g : ~Retargeted(S, g)
        /\ \A d \in S : d.do \notin {"unapplied", "target", "unload"}
    BY <1>3, <1>4, <1>6, <1>12 DEF Retargeted
  <2>2. \A d \in S : d.do = "applied" => d.item \in running' /\ d.ship = target[d.item]
    BY <1>1, <1>3, <1>4, <1>6, <1>12
  <2>3. \A g \in running' : target[g] # None =>
          <<g, target[g]>> \in tgts \/ DueOn(S, "applied", g, target[g])
    <3>1. known /\ goes /\ target[i] # None => DueOn(S, "applied", i, target[i])
      BY <1>6, <1>16 DEF DueOn
    <3> QED BY <1>1, <1>3, <3>1
  <2>4. \A g \in Guns, s \in Ships : <<g, s>> \in tgts => g \in running' /\ s = target[g]
    BY <1>1, <1>3
  <2> QED BY <1>1, <2>1, <2>2, <2>3, <2>4 DEF Targeting, S
<1>20. Typed'
  <2>1. running' \subseteq Guns
    BY <1>1, <1>2 DEF TypeOK
  <2> QED BY <1>1, <1>2, <1>10, <2>1 DEF Typed, TypeOK
<1> QED BY <1>1, <1>2, <1>10, <1>17, <1>18, <1>19, <1>20 DEF ProjInv

\* BaseItemMixin._unload leaves these messages.
LEMMA UnloadLeaves ==
  ASSUME ProjInv, UnloadItem
  PROVE  LET i == Head(agenda).item
             b == Step("stopped", i)
             u == Step("unloaded", i)
             c == Step("clear", i)
             q == Applying("unapplied", i)
             X == Of(Tail(agenda))
             S == Of(agenda')
             runs == i \in running
             known == i \in affectees
         IN /\ agenda' \in Seq(Entries) /\ InTurn(agenda') /\ X \subseteq S
            /\ \A e \in S : \/ e = b /\ runs
                            \/ e \in Of(q) /\ runs
                            \/ e = u /\ known
                            \/ e = c
                            \/ e \in X
            /\ (runs => b \in S /\ Of(q) \subseteq S) /\ (known => u \in S) /\ c \in S
            /\ \A e \in X : e.do \in {"unload", "load"} \cup Assigns
<1> DEFINE h == Head(agenda)
           i == h.item
           b == Step("stopped", i)
           u == Step("unloaded", i)
           c == Step("clear", i)
           X == Of(Tail(agenda))
           R == Of(agenda)
           S == Of(agenda')
           runs == i \in running
           known == i \in affectees
           q == Applying("unapplied", i)
           bs == <<b>>
           p1 == IF runs THEN q \o bs ELSE <<>>
           p2 == IF known THEN <<u>> ELSE <<>>
           p3 == <<c>>
           p12 == p1 \o p2
           steps == p12 \o p3
<1>1. /\ agenda # <<>> /\ h.do = "unload" /\ Then(steps) /\ running' = running \ {i}
      /\ UNCHANGED <<source, ship, fitted, ready, target, local, cache>>
      /\ UNCHANGED <<affectees, active, domain, projectors, carried, carrierless, tgts, raised>>
  BY DEF UnloadItem, Doing, affection, projection
<1>2. ~raised /\ Typed /\ TypeOK /\ Presence(R) /\ Projecting(R) /\ Targeting(R)
      /\ agenda \in Seq(Entries) /\ InTurn(agenda)
  BY <1>1, Under DEF ProjInv, Typed
<1>3. h \in Entries /\ R = {h} \cup X /\ R \subseteq Entries /\ \A e \in X : Before(h, e)
  BY <1>1, <1>2, Foremost
<1>4. i \in Items
  BY <1>1, <1>3 DEF Entries
<1>5. \A e \in X : e.do \in {"unload", "load"} \cup Assigns
  <2>1. \A e \in X : e.do # "applied"
    BY <1>1, <1>2, <1>3 DEF Targeting
  <2> QED BY <1>1, <1>3, <2>1 DEF Before, Rank, Entries, Assigns
<1>6. /\ runs => b \in Entries
      /\ b.do = "stopped" /\ b.item = i
      /\ u \in Entries /\ u.do = "unloaded" /\ u.item = i
      /\ c \in Entries /\ c.do = "clear"
  <2>1. runs => i \in Guns
    BY <1>2 DEF TypeOK
  <2> QED BY <1>4, <2>1 DEF Step, Entries
<1> HIDE DEF b, u, c
<1>7. runs => /\ q \in Seq(Entries) /\ InTurn(q)
              /\ \A e \in Of(q) : e.do = "unapplied" /\ e.item = i
              /\ target[i] # None => DueOn(Of(q), "unapplied", i, target[i])
  <2>1. runs => i \in Guns
    BY <1>2 DEF TypeOK
  <2> HIDE DEF q, i
  <2>2. ASSUME runs
        PROVE  /\ q \in Seq(Entries) /\ InTurn(q)
               /\ \A e \in Of(q) : e.do = "unapplied" /\ e.item = i
               /\ target[i] # None => DueOn(Of(q), "unapplied", i, target[i])
    BY <1>2, <2>1, <2>2, ApplyingAre DEF q
  <2> QED BY <2>2
<1> HIDE DEF q
<1>8. runs => bs \in Seq(Entries) /\ InTurn(bs) /\ Of(bs) = {b}
  BY <1>6, OneLeft
<1> HIDE DEF bs
<1>9. p1 \in Seq(Entries) /\ InTurn(p1) /\ Of(p1) = IF runs THEN Of(q) \cup {b} ELSE {}
  <2>1. CASE ~runs
    BY <2>1, NothingLeft
  <2>2. CASE runs
    <3>1. \A x \in Of(q), y \in Of(bs) : Before(x, y)
      BY <1>6, <1>7, <1>8, <2>2 DEF Before, Rank
    <3> DEFINE p == q \o bs
    <3>2. p \in Seq(Entries) /\ InTurn(p) /\ Of(p) = Of(q) \cup Of(bs)
      BY <1>7, <1>8, <2>2, <3>1, Joined
    <3>3. p1 = p
      BY <2>2
    <3> HIDE DEF p, p1
    <3> QED BY <1>8, <2>2, <3>2, <3>3
  <2> QED BY <2>1, <2>2
<1>10. p2 \in Seq(Entries) /\ InTurn(p2) /\ Of(p2) = IF known THEN {u} ELSE {}
  BY <1>6, NothingLeft, OneLeft
<1>11. p3 \in Seq(Entries) /\ InTurn(p3) /\ Of(p3) = {c}
  BY <1>6, OneLeft
<1> HIDE DEF p1, p2, p3
<1>12. \A e \in Of(p1) : (e = b /\ runs) \/ (e \in Of(q) /\ runs)
  BY <1>9
<1>13. \A e \in Of(p2) : e = u /\ known
  BY <1>10
<1>14. p12 \in Seq(Entries) /\ InTurn(p12) /\ Of(p12) = Of(p1) \cup Of(p2)
  <2>1. \A x \in Of(p1), y \in Of(p2) : Before(x, y)
    BY <1>6, <1>7, <1>12, <1>13 DEF Before, Rank
  <2> QED BY <1>9, <1>10, <2>1, Joined
<1> HIDE DEF p12
<1>15. steps \in Seq(Entries) /\ InTurn(steps) /\ Of(steps) = (Of(p1) \cup Of(p2)) \cup {c}
  <2>1. \A x \in Of(p12), y \in Of(p3) : Before(x, y)
    BY <1>6, <1>7, <1>11, <1>12, <1>13, <1>14 DEF Before, Rank
  <2>2. steps \in Seq(Entries) /\ InTurn(steps) /\ Of(steps) = Of(p12) \cup Of(p3)
    BY <1>11, <1>14, <2>1, Joined
  <2> HIDE DEF steps
  <2> QED BY <1>11, <1>14, <2>2
<1> HIDE DEF steps
<1>16. \A e \in Of(steps) : \/ e = b /\ runs
                            \/ e \in Of(q) /\ runs
                            \/ e = u /\ known
                            \/ e = c
  BY <1>12, <1>13, <1>15
<1>17. \A e \in Of(steps), d \in X : Before(e, d)
  BY <1>5, <1>6, <1>7, <1>16 DEF Before, Rank, Assigns
<1>18. agenda' \in Seq(Entries) /\ InTurn(agenda') /\ S = Of(steps) \cup X
  BY <1>1, <1>15, <1>17, Passed
<1>19. (runs => b \in Of(steps) /\ Of(q) \subseteq Of(steps)) /\ (known => u \in Of(steps))
  BY <1>9, <1>10, <1>15
<1>20. /\ agenda' \in Seq(Entries) /\ InTurn(agenda') /\ X \subseteq S
       /\ \A e \in S : \/ e = b /\ runs
                       \/ e \in Of(q) /\ runs
                       \/ e = u /\ known
                       \/ e = c
                       \/ e \in X
       /\ (runs => b \in S /\ Of(q) \subseteq S) /\ (known => u \in S) /\ c \in S
  <2> HIDE DEF X, S, runs, known
  <2> QED BY <1>15, <1>16, <1>18, <1>19
<1> QED BY <1>5, <1>20 DEF b, u, c, q

\* BaseItemMixin._unload: the effect of a running gun leaves its target before it
\* stops, and the item is forgotten last.
LEMMA UnloadStep ==
  ASSUME ProjInv, UnloadItem
  PROVE  ProjInv'
<1> DEFINE h == Head(agenda)
           i == h.item
           b == Step("stopped", i)
           u == Step("unloaded", i)
           c == Step("clear", i)
           X == Of(Tail(agenda))
           R == Of(agenda)
           S == Of(agenda')
           runs == i \in running
           known == i \in affectees
           q == Applying("unapplied", i)
<1>1. /\ agenda # <<>> /\ h.do = "unload" /\ running' = running \ {i}
      /\ UNCHANGED <<source, ship, fitted, ready, target, local, cache>>
      /\ UNCHANGED <<affectees, active, domain, projectors, carried, carrierless, tgts, raised>>
  BY DEF UnloadItem, Doing, affection, projection
<1>2. ~raised /\ Typed /\ TypeOK /\ Presence(R) /\ Projecting(R) /\ Targeting(R)
      /\ agenda \in Seq(Entries) /\ InTurn(agenda)
  BY <1>1, Under DEF ProjInv, Typed
<1>3. h \in Entries /\ R = {h} \cup X /\ R \subseteq Entries /\ \A e \in X : Before(h, e)
  BY <1>1, <1>2, Foremost
<1>4. i \in Items
  BY <1>1, <1>3 DEF Entries
<1>5. \A e \in X : e.do \in {"unload", "load"} \cup Assigns
  BY UnloadLeaves
<1>6. /\ runs => b \in Entries
      /\ b.do = "stopped" /\ b.item = i
      /\ u \in Entries /\ u.do = "unloaded" /\ u.item = i
      /\ c \in Entries /\ c.do = "clear"
  <2>1. runs => i \in Guns
    BY <1>2 DEF TypeOK
  <2> QED BY <1>4, <2>1 DEF Step, Entries
<1> HIDE DEF b, u, c
<1>7. runs => /\ q \in Seq(Entries) /\ InTurn(q)
              /\ \A e \in Of(q) : e.do = "unapplied" /\ e.item = i
              /\ target[i] # None => DueOn(Of(q), "unapplied", i, target[i])
  <2>1. runs => i \in Guns
    BY <1>2 DEF TypeOK
  <2> HIDE DEF q, i
  <2>2. ASSUME runs
        PROVE  /\ q \in Seq(Entries) /\ InTurn(q)
               /\ \A e \in Of(q) : e.do = "unapplied" /\ e.item = i
               /\ target[i] # None => DueOn(Of(q), "unapplied", i, target[i])
    BY <1>2, <2>1, <2>2, ApplyingAre DEF q
  <2> QED BY <2>2
<1> HIDE DEF q
<1>18. /\ agenda' \in Seq(Entries) /\ InTurn(agenda') /\ X \subseteq S
       /\ \A e \in S : \/ e = b /\ runs
                       \/ e \in Of(q) /\ runs
                       \/ e = u /\ known
                       \/ e = c
                       \/ e \in X
       /\ (runs => b \in S /\ Of(q) \subseteq S) /\ (known => u \in S)
  BY UnloadLeaves DEF b, u, c, q
<1> HIDE DEF h, X, R, S
<1>19. h \in R /\ h.do = "unload" /\ h.item = i /\ On' = On /\ \A e : Stay(e)' = Stay(e)
  BY <1>1, <1>3 DEF On, Stay, i
<1> HIDE DEF i
<1>20. \A e \in S : \/ e = b /\ runs
                    \/ e \in Of(q) /\ runs
                    \/ e = u /\ known
                    \/ e = c
                    \/ e \in X
  BY <1>18
<1>21. (runs => b \in S /\ Of(q) \subseteq S) /\ (known => u \in S) /\ X \subseteq S
  BY <1>18
<1>22. \A do, j : do \in {"load"} \cup Assigns => (Due(S, do, j) <=> Due(R, do, j))
  BY <1>3, <1>6, <1>7, <1>19, <1>20, <1>21 DEF Due, Assigns
<1>23. \A j : j # i => (Due(R, "unload", j) => Due(S, "unload", j))
  BY <1>3, <1>19, <1>21 DEF Due
<1>24. \A j : ~Due(R, "unloaded", j) /\ ~Due(R, "loaded", j)
  BY <1>3, <1>5, <1>19 DEF Due, Assigns
<1>25. \A e : Switches(e) => (e \in S <=> e \in X) /\ (e \in S <=> e \in R)
  BY <1>3, <1>6, <1>7, <1>19, <1>20, <1>21 DEF Switches
<1>26. Presence(Of(agenda))'
  <2>1. running' \subseteq On \cap ready /\ affectees \cap Guns \subseteq On
    BY <1>1, <1>2 DEF Presence
  <2>2. \A d \in S : d.do = "load" => d \in R
    BY <1>3, <1>6, <1>7, <1>20
  <2>3. \A d \in S : d.do = "load" => d.item \in fitted \/ d.item \notin Guns
    BY <1>2, <2>2 DEF Presence
  <2>4. ASSUME NEW e \in S, Switches(e)
        PROVE  BeforeSwitch(Of(agenda), e)'
    <3>1. BeforeSwitch(R, e) /\ i \notin Stay(e)
      BY <1>2, <1>19, <1>25, <2>4 DEF Presence, BeforeSwitch
    <3>2. /\ Stay(e) \subseteq affectees /\ Stay(e) \cap ready \subseteq running'
          /\ \A g \in running' : g \in Stay(e) \/ Due(S, "unload", g)
          /\ e.do = "source" /\ e.item # None => \A g \in fitted \cap Guns : Due(S, "load", g)
      BY <1>1, <1>22, <1>23, <3>1 DEF BeforeSwitch
    <3>3. ASSUME NEW g \in Guns \cap affectees
          PROVE  g \in Stay(e) \/ Due(S, "unload", g) \/ Due(S, "unloaded", g)
      <4>1. CASE g = i
        BY <1>6, <1>21, <4>1 DEF Due
      <4>2. CASE g # i
        BY <1>23, <1>24, <3>1, <4>2 DEF BeforeSwitch
      <4> QED BY <4>1, <4>2
    <3>4. \A d \in S : d.do \in {"unload", "unloaded"} => d.item \notin Stay(e)
      <4> SUFFICES ASSUME NEW d \in S, d.do \in {"unload", "unloaded"}
                   PROVE  d.item \notin Stay(e)
        OBVIOUS
      <4>1. d = u \/ d \in R
        BY <1>3, <1>6, <1>7, <1>20
      <4> QED BY <1>6, <3>1, <4>1 DEF BeforeSwitch
    <3>5. /\ \A d \in S : d.do # "loaded"
          /\ e.do = "off" => \A d \in S : d.do # "load"
      <4>1. \A d \in S : d.do \in {"loaded", "load"} => d \in R
        BY <1>3, <1>6, <1>7, <1>20
      <4> QED BY <3>1, <4>1 DEF BeforeSwitch
    <3> QED BY <1>1, <1>19, <3>2, <3>3, <3>4, <3>5 DEF BeforeSwitch, S
  <2>5. ASSUME \A e \in S : ~Switches(e)
        PROVE  AfterSwitch(Of(agenda))'
    <3>1. AfterSwitch(R) /\ i \notin Guns
      BY <1>2, <1>19, <1>25, <2>5 DEF Presence, AfterSwitch
    <3>2. running' = running
      BY <1>1, <1>2, <3>1 DEF TypeOK
    <3>3. \A g \in On : \/ Due(S, "load", g)
                        \/ (g \in ready => g \in running') /\ (g \in affectees \/ Due(S, "loaded", g))
      BY <1>22, <1>24, <3>1, <3>2 DEF AfterSwitch
    <3>4. \A d \in S : d = u \/ d \in R \/ d.do \notin {"unload", "unloaded", "loaded"}
      BY <1>3, <1>6, <1>7, <1>20
    <3>5. /\ \A d \in S : d.do \in {"unload", "unloaded"} => d.item \notin Guns
          /\ \A d \in S : d.do = "loaded" => d.item \in On \/ d.item \notin Guns
      BY <1>6, <3>1, <3>4 DEF AfterSwitch
    <3> QED BY <1>1, <1>19, <3>3, <3>5 DEF AfterSwitch, S
  <2> QED BY <1>1, <1>19, <2>1, <2>3, <2>4, <2>5 DEF Presence, S, Switches
<1>27. Projecting(Of(agenda))'
  <2>1. projectors = running
    BY <1>2, <1>3, <1>5, <1>19 DEF Projecting, Due, Assigns
  <2>2. \A d \in S : d.do # "started" /\ (d.do = "stopped" => d.item = i)
    BY <1>5, <1>6, <1>7, <1>20 DEF Assigns
  <2>3. runs => Due(S, "stopped", i)
    BY <1>6, <1>21 DEF Due
  <2>4. /\ \A g \in projectors : g \in running' \/ Due(S, "stopped", g)
        /\ \A g \in running' : g \in projectors
    BY <1>1, <2>1, <2>3
  <2> QED BY <1>1, <2>2, <2>4 DEF Projecting, S
<1>28. Targeting(Of(agenda))'
  <2>1. \A g : Retargeted(S, g) <=> Retargeted(R, g)
    BY <1>3, <1>6, <1>7, <1>19, <1>20, <1>21 DEF Retargeted
  <2>2. \A d \in R : d.do \notin {"applied", "unapplied"}
    BY <1>3, <1>5, <1>19 DEF Assigns
  <2>3. /\ \A g \in Guns, s \in Ships : <<g, s>> \in tgts =>
             g \in running /\ s = target[g] /\ ~Retargeted(R, g)
        /\ \A g \in running : target[g] # None => <<g, target[g]>> \in tgts \/ Retargeted(R, g)
        /\ \A d \in R : d.do = "target" /\ d.item \in running => d.ship = None
    BY <1>2, <2>2 DEF Targeting, DueOn
  <2>4. runs /\ target[i] # None => DueOn(S, "unapplied", i, target[i])
    BY <1>7, <1>21 DEF DueOn
  <2>5. \A g \in Guns, s \in Ships : <<g, s>> \in tgts =>
          (g \in running' /\ s = target[g] /\ ~Retargeted(S, g)) \/ DueOn(S, "unapplied", g, s)
    <3>1. None \notin Ships
      BY ProjectionAssumption DEF ProjectionAssumption, Items
    <3> QED BY <1>1, <2>1, <2>3, <2>4, <3>1
  <2>6. \A g \in running' : target[g] # None => <<g, target[g]>> \in tgts \/ Retargeted(S, g)
    BY <1>1, <2>1, <2>3
  <2>7. \A d \in S : d.do = "unapplied" => d.item \notin running'
    BY <1>1, <1>5, <1>6, <1>7, <1>20 DEF Assigns
  <2>8. \A d \in S : d.do # "applied"
    BY <1>5, <1>6, <1>7, <1>20 DEF Assigns
  <2>9. \A d \in S : d.do = "target" /\ d.item \in running' => d.ship = None
    <3>1. \A d \in S : d.do = "target" => d \in R
      BY <1>3, <1>6, <1>7, <1>20
    <3> QED BY <1>1, <2>3, <3>1
  <2> QED BY <1>1, <2>5, <2>6, <2>7, <2>8, <2>9 DEF Targeting, S
<1>29. Typed'
  <2>1. running' \subseteq Guns
    BY <1>1, <1>2 DEF TypeOK
  <2> QED BY <1>1, <1>2, <1>18, <2>1 DEF Typed, TypeOK
<1> QED BY <1>1, <1>2, <1>18, <1>26, <1>27, <1>28, <1>29 DEF ProjInv
-----------------------------------------------------------------------------
(* Calls of the user. *)

\* Steps before an assignment, the assignment, and steps after it.
LEMMA Framed ==
  ASSUME NEW A \in Seq(Entries), NEW B \in Seq(Entries), NEW e \in Entries,
         InTurn(A), InTurn(B), e.do \in Assigns,
         \A a \in Of(A) : a.do \in {"unapplied", "unload"},
         \A b \in Of(B) : b.do \in {"applied", "load"}
  PROVE  LET q == A \o <<e>> \o B
         IN q \in Seq(Entries) /\ InTurn(q) /\ Of(q) = (Of(A) \cup {e}) \cup Of(B)
<1> DEFINE d == <<e>>
           C == A \o d
           q == C \o B
<1>1. d \in Seq(Entries) /\ InTurn(d) /\ Of(d) = {e}
  BY OneLeft
<1> HIDE DEF d
<1>2. \A a \in Of(A), b \in Of(d) : Before(a, b)
  BY <1>1 DEF Before, Rank, Assigns
<1>3. C \in Seq(Entries) /\ InTurn(C) /\ Of(C) = Of(A) \cup Of(d)
  BY <1>1, <1>2, Joined
<1> HIDE DEF C
<1>4. \A a \in Of(C), b \in Of(B) : Before(a, b)
  <2>1. \A a \in Of(C) : a.do \in {"unapplied", "unload"} \cup Assigns
    BY <1>1, <1>3
  <2> QED BY <2>1 DEF Before, Rank, Assigns
<1>5. q \in Seq(Entries) /\ InTurn(q) /\ Of(q) = Of(C) \cup Of(B)
  BY <1>3, <1>4, Joined
<1> HIDE DEF q
<1>6. q \in Seq(Entries) /\ InTurn(q) /\ Of(q) = (Of(A) \cup {e}) \cup Of(B)
  BY <1>1, <1>3, <1>5
<1> QED BY <1>6 DEF q, C, d

\* A call that only loads, unloads and assigns is in order if it is so for
\* what is loaded.
LEMMA Reloads ==
  ASSUME ProjInv, Idle, UNCHANGED <<source, ship, ready, target, running, local, cache>>,
         UNCHANGED <<affection, projection, raised>>, fitted' \subseteq Guns \cup Gadgets,
         agenda' \in Seq(Entries), InTurn(agenda'),
         \A e \in Of(agenda') : e.do \in {"load", "unload", "ship", "source", "off"},
         Presence(Of(agenda))'
  PROVE  ProjInv'
<1> DEFINE S == Of(agenda')
<1>1. /\ Typed /\ TypeOK /\ ~raised /\ Of(agenda) = {}
      /\ Projecting(Of(agenda)) /\ Targeting(Of(agenda))
  BY Between
<1>2. /\ UNCHANGED <<affectees, active, domain, projectors, carried, carrierless, tgts>>
      /\ UNCHANGED <<source, ship, ready, target, running, local, cache, raised>>
  BY DEF affection, projection
<1>3. Typed'
  BY <1>1, <1>2 DEF Typed, TypeOK
<1>4. \A e \in S : e.do \in {"load", "unload", "ship", "source", "off"}
  OBVIOUS
<1> HIDE DEF S
<1>5. Projecting(Of(agenda))'
  <2>1. \A e : e.do \in {"started", "stopped"} => (e \in S <=> e \in Of(agenda))
    BY <1>1, <1>4
  <2> QED BY <1>1, <1>2, <2>1, ProjectingKept DEF S
<1>6. Targeting(Of(agenda))'
  <2>1. \A e : e.do \in Aims => (e \in S <=> e \in Of(agenda))
    BY <1>1, <1>4 DEF Aims
  <2>2. \A e \in S : e.do = "unload" => e \in Of(agenda) \/ \A d \in S : d.do # "applied"
    BY <1>4
  <2> QED BY <1>1, <1>2, <2>1, <2>2, TargetingKept DEF S
<1> QED BY <1>1, <1>2, <1>3, <1>5, <1>6 DEF ProjInv

\* Loading or unloading an item, as the first step of a call.
LEMMA StepIs ==
  ASSUME NEW do \in {"load", "unload"}, NEW i \in Items
  PROVE  Step(do, i) \in Entries /\ Step(do, i).do = do /\ Step(do, i).item = i
BY DEF Step, Entries

\* Fit.ship
LEMMA SetShipStep ==
  ASSUME ProjInv, NEW f \in Fits, NEW s \in Ships \cup {None}, SetShip(f, s)
  PROVE  ProjInv'
<1> DEFINE old == ship[f]
           e == [do |-> "ship", fit |-> f, ship |-> s]
           u == Step("unload", old)
           l == Step("load", s)
           A == IF old = None THEN <<>> ELSE <<u>>
           B == IF s = None THEN <<>> ELSE <<l>>
           S == Of(agenda')
<1>1. /\ Idle /\ agenda' = A \o <<e>> \o B
      /\ UNCHANGED <<source, ship, fitted, ready, target, running, local, cache>>
      /\ UNCHANGED <<affectees, affection, projection, raised>>
  BY DEF SetShip, Begin, Untouched, affection
<1>2. /\ Typed /\ TypeOK /\ Of(agenda) = {} /\ Presence(Of(agenda))
  BY <1>1, Between
<1>3. old \in Ships \cup {None} /\ Ships \subseteq Items /\ Ships \cap Guns = {}
  BY <1>2, ProjectionAssumption DEF TypeOK, Items, ProjectionAssumption
<1>4. e \in Entries /\ e.do = "ship"
  BY DEF Entries
<1> HIDE DEF old, e
<1>5. old # None => u \in Entries /\ u.do = "unload" /\ u.item = old
  BY <1>3, StepIs
<1>6. s # None => l \in Entries /\ l.do = "load" /\ l.item = s
  BY <1>3, StepIs
<1> HIDE DEF u, l
<1>7. A \in Seq(Entries) /\ InTurn(A) /\ Of(A) = IF old = None THEN {} ELSE {u}
  BY <1>5, NothingLeft, OneLeft
<1>8. B \in Seq(Entries) /\ InTurn(B) /\ Of(B) = IF s = None THEN {} ELSE {l}
  BY <1>6, NothingLeft, OneLeft
<1> HIDE DEF A, B
<1>9. \A a \in Of(A) : a.do = "unload" /\ a.item \in Ships
  BY <1>3, <1>5, <1>7
<1>10. \A b \in Of(B) : b.do = "load" /\ b.item \in Ships
  BY <1>6, <1>8
<1>11. /\ agenda' \in Seq(Entries) /\ InTurn(agenda') /\ S = (Of(A) \cup {e}) \cup Of(B)
  <2>1. e.do \in Assigns
    BY <1>4 DEF Assigns
  <2> QED BY <1>1, <1>4, <1>7, <1>8, <1>9, <1>10, <2>1, Framed
<1>12. \A d \in S : \/ d.do \in {"load", "unload"} /\ d.item \notin Guns
                    \/ d.do = "ship"
  BY <1>3, <1>4, <1>9, <1>10, <1>11
<1> HIDE DEF S
<1>13. On' = On
  BY <1>1 DEF On
<1>14. \A g \in On : (g \in ready => g \in running) /\ g \in affectees
  BY <1>1, Between
<1>15. AfterSwitch(Of(agenda))'
  BY <1>1, <1>12, <1>13, <1>14 DEF AfterSwitch, S
<1>16. Presence(Of(agenda))'
  <2>1. affectees \cap Guns \subseteq On /\ running \subseteq On \cap ready
    BY <1>2 DEF Presence
  <2> QED BY <1>1, <1>12, <1>13, <1>15, <2>1 DEF Presence, S, Switches
<1>17. \A d \in Of(agenda') : d.do \in {"load", "unload", "ship", "source", "off"}
  BY <1>12 DEF S
<1>18. fitted' \subseteq Guns \cup Gadgets
  BY <1>1, <1>2 DEF TypeOK
<1> QED BY <1>1, <1>11, <1>16, <1>17, <1>18, Reloads

\* ItemList.append
LEMMA AddStep ==
  ASSUME ProjInv, NEW i \in Guns \cup Gadgets, AddItem(i)
  PROVE  ProjInv'
<1> DEFINE l == Step("load", i)
           q == <<l>>
           S == Of(agenda')
<1>1. /\ Idle /\ agenda' = q /\ fitted' = fitted \cup {i} /\ i \notin fitted
      /\ UNCHANGED <<source, ship, ready, target, running, local, cache>>
      /\ UNCHANGED <<affectees, affection, projection, raised>>
  BY DEF AddItem, Begin, affection
<1>2. /\ Typed /\ TypeOK /\ Of(agenda) = {} /\ Presence(Of(agenda))
      /\ affectees \cap Guns = On /\ running = On \cap ready
  BY <1>1, Between
<1>3. l \in Entries /\ l.do = "load" /\ l.item = i
  BY StepIs DEF Items
<1> HIDE DEF l
<1>4. q \in Seq(Entries) /\ InTurn(q) /\ Of(q) = {l}
  BY <1>3, OneLeft
<1> HIDE DEF q
<1>5. S = {l} /\ agenda' \in Seq(Entries) /\ InTurn(agenda')
  BY <1>1, <1>4
<1> HIDE DEF S
<1>6. On \subseteq On' /\ On' \subseteq On \cup {i} /\ Due(S, "load", i)
  BY <1>1, <1>3, <1>5 DEF On, Due
<1>7. \A g \in On' : \/ Due(S, "load", g)
                     \/ (g \in ready => g \in running) /\ g \in affectees
  BY <1>2, <1>6
<1>8. AfterSwitch(Of(agenda))'
  BY <1>1, <1>3, <1>5, <1>7 DEF AfterSwitch, S
<1>9. Presence(Of(agenda))'
  BY <1>1, <1>2, <1>3, <1>5, <1>6, <1>8 DEF Presence, S, Switches
<1>10. \A d \in Of(agenda') : d.do \in {"load", "unload", "ship", "source", "off"}
  BY <1>3, <1>5 DEF S
<1>11. fitted' \subseteq Guns \cup Gadgets
  BY <1>1, <1>2 DEF TypeOK
<1> QED BY <1>1, <1>5, <1>9, <1>10, <1>11, Reloads

\* ItemList.remove
LEMMA RemoveStep ==
  ASSUME ProjInv, NEW i \in Guns \cup Gadgets, RemoveItem(i)
  PROVE  ProjInv'
<1> DEFINE u == Step("unload", i)
           o == Step("off", i)
           q == <<u, o>>
           S == Of(agenda')
<1>1. /\ Idle /\ agenda' = q /\ i \in fitted
      /\ UNCHANGED <<source, ship, fitted, ready, target, running, local, cache>>
      /\ UNCHANGED <<affectees, affection, projection, raised>>
  BY DEF RemoveItem, Begin, Untouched, affection
<1>2. /\ Typed /\ TypeOK /\ Of(agenda) = {} /\ Presence(Of(agenda))
      /\ affectees \cap Guns = On /\ running = On \cap ready
  BY <1>1, Between
<1>3. /\ u \in Entries /\ u.do = "unload" /\ u.item = i
      /\ o \in Entries /\ o.do = "off" /\ o.item = i
  BY DEF Step, Entries, Items
<1> HIDE DEF u, o
<1>4. q \in Seq(Entries) /\ InTurn(q) /\ Of(q) = {u, o}
  BY <1>3, TwoLeft DEF Before, Rank, Assigns
<1> HIDE DEF q
<1>5. S = {u, o} /\ agenda' \in Seq(Entries) /\ InTurn(agenda')
  BY <1>1, <1>4
<1> HIDE DEF S
<1>6. On' = On /\ Stay(o) = On \ {i} /\ Stay(o)' = Stay(o) /\ Due(S, "unload", i)
  BY <1>1, <1>3, <1>5 DEF On, Due, Stay
<1>7. BeforeSwitch(Of(agenda), o)'
  <2>1. /\ Stay(o) \subseteq affectees /\ Stay(o) \cap ready \subseteq running
        /\ \A g \in Guns \cap affectees : g \in Stay(o) \/ Due(S, "unload", g)
        /\ \A g \in running : g \in Stay(o) \/ Due(S, "unload", g)
    BY <1>2, <1>6
  <2>2. /\ \A d \in S : d.do \in {"unload", "unloaded"} => d.item \notin Stay(o)
        /\ \A d \in S : d.do # "loaded" /\ d.do # "load"
    BY <1>3, <1>5, <1>6
  <2> QED BY <1>1, <1>3, <1>6, <2>1, <2>2 DEF BeforeSwitch, S
<1>8. Presence(Of(agenda))'
  <2>1. o \in S /\ Switches(o) /\ \A d \in S : Switches(d) => d = o
    BY <1>3, <1>5 DEF Switches
  <2>2. \A d \in S : d.do # "load"
    BY <1>3, <1>5
  <2> QED BY <1>1, <1>2, <1>6, <1>7, <2>1, <2>2 DEF Presence, S, Switches
<1>9. \A d \in Of(agenda') : d.do \in {"load", "unload", "ship", "source", "off"}
  BY <1>3, <1>5 DEF S
<1>10. fitted' \subseteq Guns \cup Gadgets
  BY <1>1, <1>2 DEF TypeOK
<1> QED BY <1>1, <1>5, <1>8, <1>9, <1>10, Reloads
-----------------------------------------------------------------------------
(* The items of all fits.                                                  *)

\* SetToSeq goes through all of a finite set.
LEMMA SeqOfSet ==
  ASSUME NEW S, IsFiniteSet(S)
  PROVE  /\ SetToSeq(S) \in Seq(S)
         /\ \A x \in S : \E k \in 1..Len(SetToSeq(S)) : SetToSeq(S)[k] = x
<1> DEFINE n == Cardinality(S)
           q == SetToSeq(S)
<1>1. n \in Nat /\ ExistsBijection(1..n, S)
  BY FS_CardinalityType
<1>2. \E f \in [1..n -> S] : IsInjective(f)
  BY <1>1 DEF ExistsBijection, Bijection, Injection
<1>3. q \in [1..n -> S] /\ IsInjective(q)
  BY <1>2 DEF SetToSeq
<1>4. q \in Injection(1..n, S)
  BY <1>3 DEF Injection
<1>5. Cardinality(1..n) = n
  BY <1>1, FS_Interval
<1>6. q \in Surjection(1..n, S)
  BY <1>4, <1>5, FS_Injection
<1> HIDE DEF q, n
<1>7. q \in Seq(S) /\ Len(q) = n
  BY <1>1, <1>3
<1>8. \A x \in S : \E k \in 1..Len(q) : q[k] = x
  BY <1>6, <1>7 DEF Surjection
<1> QED BY <1>7, <1>8 DEF q

\* An order of the fits goes through all of them.
LEMMA OrdersAre ==
  ASSUME NEW order \in SetToSeqs(Fits)
  PROVE  order \in Seq(Fits) /\ \A f \in Fits : \E k \in 1..Len(order) : order[k] = f
<1> DEFINE n == Cardinality(Fits)
<1>1. IsFiniteSet(Fits)
  BY ProjectionAssumption DEF ProjectionAssumption
<1>2. n \in Nat
  BY <1>1, FS_CardinalityType
<1>3. order \in [1..n -> Fits] /\ IsInjective(order)
  BY DEF SetToSeqs, IsInjective
<1>4. order \in Injection(1..n, Fits)
  BY <1>3 DEF Injection, IsInjective
<1>5. Cardinality(1..n) = n /\ IsFiniteSet(1..n)
  BY <1>2, FS_Interval
<1>6. order \in Surjection(1..n, Fits)
  BY <1>1, <1>4, <1>5, FS_Injection
<1> HIDE DEF n
<1>7. order \in Seq(Fits) /\ Len(order) = n
  BY <1>2, <1>3
<1> QED BY <1>6, <1>7 DEF Surjection

\* Ships that sit on a fit.
Seated == {s \in Ships : \E f \in Fits : ship[f] = s}

\* The items of a fit: all that is fitted to it, and otherwise the ship.
LEMMA InFitAre ==
  ASSUME TypeOK, NEW f \in Fits
  PROVE  /\ InFit(f) \in Seq(Seated \cup fitted)
         /\ \A i \in fitted : Home[i] = f => \E k \in 1..Len(InFit(f)) : InFit(f)[k] = i
<1> DEFINE W == Seated \cup fitted
           a == ship[f]
           A == IF a = None THEN <<>> ELSE <<a>>
           I == {i \in fitted : Home[i] = f}
           B == SetToSeq(I)
           q == A \o B
<1>1. a \in Ships \cup {None}
  BY DEF TypeOK
<1>2. IsFiniteSet(I)
  <2>1. I \subseteq Guns \cup Gadgets
    BY DEF TypeOK
  <2>2. IsFiniteSet(Guns \cup Gadgets)
    BY ProjectionAssumption DEF ProjectionAssumption
  <2> HIDE DEF I
  <2> QED BY <2>1, <2>2, FS_Subset
<1>3. B \in Seq(I) /\ \A x \in I : \E k \in 1..Len(B) : B[k] = x
  BY <1>2, SeqOfSet
<1>4. I \subseteq W /\ \A i \in fitted : Home[i] = f => i \in I
  OBVIOUS
<1> HIDE DEF a, B, I
<1>5. A \in Seq(W)
  <2>1. CASE a = None
    BY <2>1
  <2>2. CASE a # None
    <3>1. a \in W
      BY <1>1, <2>2 DEF a, Seated
    <3> HIDE DEF W
    <3> QED BY <2>2, <3>1
  <2> QED BY <2>1, <2>2
<1>6. B \in Seq(W)
  BY <1>3, <1>4
<1> HIDE DEF A, W
<1>7. /\ q \in Seq(W) /\ Len(A) \in Nat
      /\ \A k \in 1..Len(B) : k + Len(A) \in 1..Len(q) /\ q[k + Len(A)] = B[k]
  BY <1>5, <1>6
<1>8. InFit(f) = q
  BY DEF InFit, A, a, B, I
<1> HIDE DEF q
<1>9. ASSUME NEW i \in fitted, Home[i] = f
      PROVE  \E k \in 1..Len(q) : q[k] = i
  <2>1. PICK k \in 1..Len(B) : B[k] = i
    BY <1>3, <1>4, <1>9
  <2> DEFINE j == k + Len(A)
  <2>2. j \in 1..Len(q) /\ q[j] = i
    BY <1>7, <2>1
  <2> HIDE DEF j
  <2> QED BY <2>2
<1> QED BY <1>7, <1>8, <1>9 DEF W

\* One fit after the other: all that is fitted anywhere, and otherwise ships.
LEMMA AllItems ==
  ASSUME TypeOK, NEW order \in SetToSeqs(Fits)
  PROVE  LET items == Chain!All(<<>>, [k \in 1..Len(order) |-> InFit(order[k])])
         IN /\ items \in Seq(Seated \cup fitted)
            /\ \A i \in fitted : \E k \in 1..Len(items) : items[k] = i
<1> DEFINE W == Seated \cup fitted
           n == Len(order)
           q == [k \in 1..Len(order) |-> InFit(order[k])]
           empty == <<>>
           items == Chain!All(empty, q)
           Has(r, k) == /\ r \in Seq(W)
                        /\ \A j \in 1..k, i \in fitted :
                             Home[i] = order[j] => \E l \in 1..Len(r) : r[l] = i
<1>1. /\ n \in Nat /\ Len(q) = n /\ \A k \in 1..n : order[k] \in Fits /\ q[k] = InFit(order[k])
      /\ \A f \in Fits : \E k \in 1..n : order[k] = f
  BY OrdersAre
<1>2. \A i \in fitted : Home[i] \in Fits
  BY ProjectionAssumption DEF ProjectionAssumption, TypeOK
<1> HIDE DEF n, q, empty
<1>3. PICK after : /\ after[0] = empty /\ after[Len(q)] = Chain!All(empty, q)
                   /\ \A k \in 1..Len(q) : after[k] = Chained(after[k - 1], q[k])
  <2>1. Len(q) \in Nat
    BY <1>1
  <2> QED BY <2>1, Chain!Trace
<1> DEFINE T == {k \in 0..n : Has(after[k], k)}
<1>4. 0 \in T
  <2>1. Has(empty, 0)
    BY DEF empty
  <2> QED BY <1>1, <1>3, <2>1
<1>5. ASSUME NEW k \in 1..n, k - 1 \in T
      PROVE  k \in T
  <2> DEFINE r == after[k - 1]
             more == q[k]
             s == r \o more
  <2>1. Has(r, k - 1)
    BY <1>5
  <2>2. order[k] \in Fits /\ more = InFit(order[k]) /\ after[k] = s
    BY <1>1, <1>3 DEF Chained
  <2>3. /\ more \in Seq(W)
        /\ \A i \in fitted : Home[i] = order[k] => \E l \in 1..Len(more) : more[l] = i
    <3> DEFINE f == order[k]
    <3>1. f \in Fits /\ more = InFit(f)
      BY <2>2
    <3> HIDE DEF f, more
    <3>2. InFit(f) \in Seq(W) /\ \A i \in fitted : Home[i] = f => \E l \in 1..Len(InFit(f)) : InFit(f)[l] = i
      BY <3>1, InFitAre
    <3> QED BY <3>1, <3>2 DEF f
  <2>4. r \in Seq(W)
    BY <2>1
  <2> HIDE DEF r, more, W
  <2>5. /\ s \in Seq(W) /\ Len(s) = Len(r) + Len(more) /\ Len(r) \in Nat /\ Len(more) \in Nat
        /\ \A l \in 1..Len(r) : l \in 1..Len(s) /\ s[l] = r[l]
        /\ \A l \in 1..Len(more) : l + Len(r) \in 1..Len(s) /\ s[l + Len(r)] = more[l]
    BY <2>3, <2>4
  <2> HIDE DEF s
  <2>6. ASSUME NEW j \in 1..k, NEW i \in fitted, Home[i] = order[j]
        PROVE  \E l \in 1..Len(s) : s[l] = i
    <3>1. CASE j \in 1..(k - 1)
      <4>1. PICK l \in 1..Len(r) : r[l] = i
        BY <2>1, <2>6, <3>1
      <4> QED BY <2>5, <4>1
    <3>2. CASE j = k
      <4>1. PICK l \in 1..Len(more) : more[l] = i
        BY <2>3, <2>6, <3>2
      <4> DEFINE m == l + Len(r)
      <4>2. m \in 1..Len(s) /\ s[m] = i
        BY <2>5, <4>1
      <4> HIDE DEF m
      <4> QED BY <4>2
    <3> QED BY <1>1, <3>1, <3>2
  <2>7. Has(s, k) /\ k \in 0..n
    BY <1>1, <2>5, <2>6
  <2> QED BY <2>2, <2>7
<1> HIDE DEF T
<1>6. 0..n \subseteq T
  BY <1>1, <1>4, <1>5, Chain!Upward
<1>7. Has(items, n)
  <2>1. n \in T /\ after[n] = items
    BY <1>1, <1>3, <1>6
  <2> HIDE DEF items, Has
  <2> QED BY <2>1 DEF T
<1>8. ASSUME NEW i \in fitted
      PROVE  \E k \in 1..Len(items) : items[k] = i
  <2>1. PICK k \in 1..n : order[k] = Home[i]
    BY <1>1, <1>2
  <2> HIDE DEF items
  <2> QED BY <1>7, <2>1
<1> QED BY <1>7, <1>8 DEF q, empty

\* One step for each of all the items.
LEMMA ForAllIs ==
  ASSUME TypeOK, NEW order \in SetToSeqs(Fits), NEW do \in {"load", "unload"}
  PROVE  /\ ForAll(order, do) \in Seq(Entries) /\ InTurn(ForAll(order, do))
         /\ \A e \in Of(ForAll(order, do)) : e.do = do /\ e.item \in Seated \cup fitted
         /\ \A i \in fitted : Due(Of(ForAll(order, do)), do, i)
<1> DEFINE W == Seated \cup fitted
           items == Chain!All(<<>>, [k \in 1..Len(order) |-> InFit(order[k])])
           q == [k \in 1..Len(items) |-> Step(do, items[k])]
<1>1. ForAll(order, do) = q
  BY DEF ForAll
<1>2. items \in Seq(W) /\ \A i \in fitted : \E k \in 1..Len(items) : items[k] = i
  BY AllItems
<1>3. W \subseteq Items
  BY DEF TypeOK, Items, Seated
<1> HIDE DEF items, W
<1>4. Len(items) \in Nat /\ \A k \in 1..Len(items) : items[k] \in W
  BY <1>2
<1>5. \A k \in 1..Len(items) : /\ Step(do, items[k]) \in Entries /\ Step(do, items[k]).do = do
                               /\ Step(do, items[k]).item = items[k]
  BY <1>3, <1>4, StepIs
<1>6. /\ q \in Seq(Entries) /\ Len(q) = Len(items)
      /\ \A k \in 1..Len(items) : q[k].do = do /\ q[k].item = items[k]
  BY <1>4, <1>5
<1> HIDE DEF q
<1>7. InTurn(q)
  BY <1>6 DEF InTurn, Before, Rank, Assigns
<1>8. \A e \in Of(q) : e.do = do /\ e.item \in W
  BY <1>4, <1>6 DEF Of
<1>9. \A i \in fitted : Due(Of(q), do, i)
  <2>1. \A k \in 1..Len(items) : q[k] \in Of(q)
    BY <1>6 DEF Of
  <2> QED BY <1>2, <1>6, <2>1 DEF Due
<1> QED BY <1>1, <1>6, <1>7, <1>8, <1>9 DEF W

\* SolarSystem.source
LEMMA SetSourceStep ==
  ASSUME ProjInv, NEW s \in Sources \cup {None}, NEW order \in SetToSeqs(Fits), SetSource(s, order)
  PROVE  ProjInv'
<1> DEFINE e == Step("source", s)
           un == ForAll(order, "unload")
           lo == ForAll(order, "load")
           A == IF source = None THEN <<>> ELSE un
           B == IF s = None THEN <<>> ELSE lo
           S == Of(agenda')
<1>1. /\ Idle /\ agenda' = A \o <<e>> \o B
      /\ UNCHANGED <<source, ship, fitted, ready, target, running, local, cache>>
      /\ UNCHANGED <<affectees, affection, projection, raised>>
  BY DEF SetSource, Begin, Untouched, affection
<1>2. /\ Typed /\ TypeOK /\ Of(agenda) = {} /\ Presence(Of(agenda))
      /\ affectees \cap Guns = On /\ running = On \cap ready
  BY <1>1, Between
<1>3. Ships \cap Guns = {}
  BY ProjectionAssumption DEF ProjectionAssumption
<1>4. e \in Entries /\ e.do = "source" /\ e.item = s
  BY DEF Step, Entries
<1> HIDE DEF e
<1>5. /\ un \in Seq(Entries) /\ InTurn(un)
      /\ \A d \in Of(un) : d.do = "unload" /\ d.item \in Ships \cup fitted
      /\ \A i \in fitted : Due(Of(un), "unload", i)
  BY <1>2, ForAllIs DEF Seated
<1>6. /\ lo \in Seq(Entries) /\ InTurn(lo)
      /\ \A d \in Of(lo) : d.do = "load" /\ d.item \in Ships \cup fitted
      /\ \A i \in fitted : Due(Of(lo), "load", i)
  BY <1>2, ForAllIs DEF Seated
<1> HIDE DEF un, lo
<1>7. /\ A \in Seq(Entries) /\ InTurn(A) /\ \A d \in Of(A) : d.do = "unload"
      /\ source # None => \A i \in fitted : Due(Of(A), "unload", i)
  BY <1>5, NothingLeft
<1>8. /\ B \in Seq(Entries) /\ InTurn(B)
      /\ \A d \in Of(B) : d.do = "load" /\ d.item \in Ships \cup fitted
      /\ s # None => \A i \in fitted : Due(Of(B), "load", i)
  BY <1>6, NothingLeft
<1> HIDE DEF A, B
<1>9. /\ agenda' \in Seq(Entries) /\ InTurn(agenda') /\ S = (Of(A) \cup {e}) \cup Of(B)
  <2>1. e.do \in Assigns
    BY <1>4 DEF Assigns
  <2> QED BY <1>1, <1>4, <1>7, <1>8, <2>1, Framed
<1> HIDE DEF S
<1>10. \A d \in S : d.do = "unload" \/ d = e \/ (d.do = "load" /\ d.item \in Ships \cup fitted)
  BY <1>7, <1>8, <1>9
<1>11. On' = On /\ Stay(e) = {} /\ Stay(e)' = {}
  BY <1>1, <1>4 DEF On, Stay
<1>12. \A g \in On : Due(S, "unload", g)
  <2>1. \A g \in On : source # None /\ g \in fitted
    BY DEF On
  <2> QED BY <1>7, <1>9, <2>1 DEF Due
<1>13. s # None => \A g \in fitted \cap Guns : Due(S, "load", g)
  BY <1>8, <1>9 DEF Due
<1>14. BeforeSwitch(Of(agenda), e)'
  <2>1. /\ \A g \in Guns \cap affectees : Due(S, "unload", g)
        /\ \A g \in running : Due(S, "unload", g)
    BY <1>2, <1>12
  <2>2. \A d \in S : d.do # "loaded"
    BY <1>4, <1>10
  <2> QED BY <1>1, <1>4, <1>11, <1>13, <2>1, <2>2 DEF BeforeSwitch, S
<1>15. Presence(Of(agenda))'
  <2>1. e \in S /\ Switches(e) /\ \A d \in S : Switches(d) => d = e
    BY <1>4, <1>9, <1>10 DEF Switches
  <2>2. \A d \in S : d.do = "load" => d.item \in fitted \/ d.item \notin Guns
    BY <1>3, <1>4, <1>10
  <2> QED BY <1>1, <1>2, <1>11, <1>14, <2>1, <2>2 DEF Presence, S, Switches
<1>16. \A d \in Of(agenda') : d.do \in {"load", "unload", "ship", "source", "off"}
  BY <1>4, <1>10 DEF S
<1>17. fitted' \subseteq Guns \cup Gadgets
  BY <1>1, <1>2 DEF TypeOK
<1> QED BY <1>1, <1>9, <1>15, <1>16, <1>17, Reloads
-----------------------------------------------------------------------------
(* Calls about guns. *)

\* A gun that is not loaded: its state changes and nothing else.
LEMMA SetIdleState ==
  ASSUME ProjInv, NEW g \in Guns, SetState(g), g \notin affectees
  PROVE  ProjInv'
<1> DEFINE S == Of(agenda')
<1>1. /\ Idle /\ agenda' = <<>> /\ ready' = (IF g \in ready THEN ready \ {g} ELSE ready \cup {g})
      /\ UNCHANGED <<source, ship, fitted, target, running, local, cache>>
      /\ UNCHANGED <<affectees, active, domain, projectors, carried, carrierless, tgts, raised>>
  BY DEF SetState, Begin, affection, projection
<1>2. /\ Typed /\ TypeOK /\ Of(agenda) = {} /\ Presence(Of(agenda)) /\ ~raised
      /\ Projecting(Of(agenda)) /\ Targeting(Of(agenda))
      /\ affectees \cap Guns = On /\ running = On \cap ready
  BY <1>1, Between
<1>3. S = {} /\ agenda' \in Seq(Entries) /\ InTurn(agenda')
  BY <1>1, NothingLeft
<1> HIDE DEF S
<1>4. On' = On /\ g \notin On /\ running \subseteq ready' /\ \A h \in On : h \in ready' => h \in ready
  BY <1>1, <1>2 DEF On
<1>5. Presence(Of(agenda))'
  <2>1. \A h \in On : (h \in ready' => h \in running) /\ h \in affectees
    BY <1>2, <1>4
  <2>2. AfterSwitch(Of(agenda))'
    BY <1>1, <1>3, <1>4, <2>1 DEF AfterSwitch, S
  <2> QED BY <1>1, <1>2, <1>3, <1>4, <2>2 DEF Presence, S
<1>6. Projecting(Of(agenda))' /\ Targeting(Of(agenda))'
  <2>1. \A e : e \in S <=> e \in Of(agenda)
    BY <1>2, <1>3
  <2> QED BY <1>1, <1>2, <1>3, <2>1, ProjectingKept, TargetingKept DEF S
<1>7. Typed'
  BY <1>1, <1>2, <1>3 DEF Typed, TypeOK
<1> QED BY <1>1, <1>2, <1>3, <1>5, <1>6, <1>7 DEF ProjInv

\* A gun that runs is switched off: it leaves its target and stops.
LEMMA SetStateOff ==
  ASSUME ProjInv, NEW g \in Guns, SetState(g), g \in affectees, g \in ready
  PROVE  ProjInv'
<1> DEFINE b == Step("stopped", g)
           bs == <<b>>
           q == Applying("unapplied", g)
           p == q \o bs
           S == Of(agenda')
<1>1. /\ Idle /\ agenda' = p /\ ready' = ready \ {g} /\ running' = running \ {g}
      /\ UNCHANGED <<source, ship, fitted, target, local, cache>>
      /\ UNCHANGED <<affectees, active, domain, projectors, carried, carrierless, tgts, raised>>
  BY DEF SetState, Begin, affection, projection
<1>2. /\ Typed /\ TypeOK /\ Of(agenda) = {} /\ ~raised
      /\ affectees \cap Guns = On /\ running = On \cap ready /\ projectors = running
      /\ \A h \in Guns, s \in Ships : <<h, s>> \in tgts <=> h \in running /\ s = target[h]
  BY <1>1, Between
<1>3. b \in Entries /\ b.do = "stopped" /\ b.item = g
  BY DEF Step, Entries
<1>4. /\ q \in Seq(Entries) /\ InTurn(q)
      /\ \A e \in Of(q) : e.do = "unapplied" /\ e.item = g
      /\ target[g] # None => DueOn(Of(q), "unapplied", g, target[g])
  BY <1>2, ApplyingAre
<1> HIDE DEF b, q
<1>5. bs \in Seq(Entries) /\ InTurn(bs) /\ Of(bs) = {b}
  BY <1>3, OneLeft
<1> HIDE DEF bs
<1>6. \A x \in Of(q), y \in Of(bs) : Before(x, y)
  BY <1>3, <1>4, <1>5 DEF Before, Rank
<1>7. p \in Seq(Entries) /\ InTurn(p) /\ Of(p) = Of(q) \cup Of(bs)
  BY <1>4, <1>5, <1>6, Joined
<1> HIDE DEF p
<1>8. S = Of(q) \cup {b} /\ agenda' \in Seq(Entries) /\ InTurn(agenda')
  BY <1>1, <1>5, <1>7
<1> HIDE DEF S
<1>9. \A e \in S : (e.do = "unapplied" /\ e.item = g) \/ e = b
  BY <1>4, <1>8
<1>10. On' = On /\ running' = On \cap ready'
  BY <1>1, <1>2 DEF On
<1>11. Presence(Of(agenda))'
  <2>1. \A h \in On : (h \in ready' => h \in running') /\ h \in affectees
    BY <1>2, <1>10
  <2>2. \A e \in S : e.do \notin Loads
    BY <1>3, <1>9 DEF Loads
  <2>3. AfterSwitch(Of(agenda))'
    BY <1>1, <1>10, <2>1, <2>2 DEF AfterSwitch, S, Loads
  <2> QED BY <1>1, <1>2, <1>10, <2>2, <2>3 DEF Presence, S, Switches, Loads
<1>12. Projecting(Of(agenda))'
  <2>1. Due(S, "stopped", g)
    BY <1>3, <1>8 DEF Due
  <2>2. \A e \in S : e.do # "started" /\ (e.do = "stopped" => e.item = g)
    BY <1>3, <1>9
  <2> QED BY <1>1, <1>2, <2>1, <2>2 DEF Projecting, S
<1>13. Targeting(Of(agenda))'
  <2>1. \A e \in S : e.do \notin {"applied", "target"} /\ (e.do = "unapplied" => e.item = g)
    BY <1>3, <1>9
  <2>2. \A h : ~Retargeted(S, h)
    BY <2>1 DEF Retargeted
  <2>3. \A s \in Ships : s = target[g] => DueOn(S, "unapplied", g, s)
    <3>1. None \notin Ships
      BY ProjectionAssumption DEF ProjectionAssumption, Items
    <3>2. target[g] # None => DueOn(S, "unapplied", g, target[g])
      BY <1>4, <1>8 DEF DueOn
    <3> QED BY <3>1, <3>2
  <2>4. /\ \A h \in Guns, s \in Ships : <<h, s>> \in tgts =>
             (h \in running' /\ s = target[h]) \/ DueOn(S, "unapplied", h, s)
        /\ \A h \in running' : target[h] # None => <<h, target[h]>> \in tgts
    <3>1. \A h \in Guns : target[h] \in Ships \cup {None}
      BY <1>2 DEF TypeOK
    <3>2. running' \subseteq Guns
      BY <1>1, <1>2 DEF TypeOK
    <3>3. \A h \in Guns, s \in Ships : <<h, s>> \in tgts =>
             (h \in running' /\ s = target[h]) \/ DueOn(S, "unapplied", h, s)
      BY <1>1, <1>2, <2>3
    <3>4. \A h \in running' : target[h] # None => <<h, target[h]>> \in tgts
      BY <1>1, <1>2, <3>1, <3>2
    <3> QED BY <3>3, <3>4
  <2> QED BY <1>1, <2>1, <2>2, <2>4 DEF Targeting, S
<1>14. Typed'
  BY <1>1, <1>2, <1>8 DEF Typed, TypeOK
<1> QED BY <1>1, <1>2, <1>8, <1>11, <1>12, <1>13, <1>14 DEF ProjInv

\* A loaded gun is switched on: it starts and takes its target.
LEMMA SetStateOn ==
  ASSUME ProjInv, NEW g \in Guns, SetState(g), g \in affectees, g \notin ready
  PROVE  ProjInv'
<1> DEFINE b == Step("started", g)
           bs == <<b>>
           q == Applying("applied", g)
           p == bs \o q
           S == Of(agenda')
<1>1. /\ Idle /\ agenda' = p /\ ready' = ready \cup {g} /\ running' = running \cup {g}
      /\ UNCHANGED <<source, ship, fitted, target, local, cache>>
      /\ UNCHANGED <<affectees, active, domain, projectors, carried, carrierless, tgts, raised>>
  BY DEF SetState, Begin, affection, projection
<1>2. /\ Typed /\ TypeOK /\ Of(agenda) = {} /\ ~raised
      /\ affectees \cap Guns = On /\ running = On \cap ready /\ projectors = running
      /\ \A h \in Guns, s \in Ships : <<h, s>> \in tgts <=> h \in running /\ s = target[h]
  BY <1>1, Between
<1>3. b \in Entries /\ b.do = "started" /\ b.item = g
  BY DEF Step, Entries
<1>4. /\ q \in Seq(Entries) /\ InTurn(q)
      /\ \A e \in Of(q) : e.do = "applied" /\ e.item = g /\ e.ship = target[g]
      /\ target[g] # None => DueOn(Of(q), "applied", g, target[g])
  BY <1>2, ApplyingAre
<1> HIDE DEF b, q
<1>5. bs \in Seq(Entries) /\ InTurn(bs) /\ Of(bs) = {b}
  BY <1>3, OneLeft
<1> HIDE DEF bs
<1>6. \A x \in Of(bs), y \in Of(q) : Before(x, y)
  BY <1>3, <1>4, <1>5 DEF Before, Rank, Assigns
<1>7. p \in Seq(Entries) /\ InTurn(p) /\ Of(p) = Of(bs) \cup Of(q)
  BY <1>4, <1>5, <1>6, Joined
<1> HIDE DEF p
<1>8. S = {b} \cup Of(q) /\ agenda' \in Seq(Entries) /\ InTurn(agenda')
  BY <1>1, <1>5, <1>7
<1> HIDE DEF S
<1>9. \A e \in S : (e.do = "applied" /\ e.item = g /\ e.ship = target[g]) \/ e = b
  BY <1>4, <1>8
<1>10. On' = On /\ running' = On \cap ready' /\ g \notin running
  BY <1>1, <1>2 DEF On
<1>11. Presence(Of(agenda))'
  <2>1. \A h \in On : (h \in ready' => h \in running') /\ h \in affectees
    BY <1>2, <1>10
  <2>2. \A e \in S : e.do \notin Loads
    BY <1>3, <1>9 DEF Loads
  <2>3. AfterSwitch(Of(agenda))'
    BY <1>1, <1>10, <2>1, <2>2 DEF AfterSwitch, S, Loads
  <2> QED BY <1>1, <1>2, <1>10, <2>2, <2>3 DEF Presence, S, Switches, Loads
<1>12. Projecting(Of(agenda))'
  <2>1. Due(S, "started", g)
    BY <1>3, <1>8 DEF Due
  <2>2. \A e \in S : e.do # "stopped" /\ (e.do = "started" => e.item = g)
    BY <1>3, <1>9
  <2> QED BY <1>1, <1>2, <2>1, <2>2 DEF Projecting, S
<1>13. Targeting(Of(agenda))'
  <2>1. \A e \in S : e.do \notin {"unapplied", "target", "unload"}
    BY <1>3, <1>9
  <2>2. \A h : ~Retargeted(S, h)
    BY <2>1 DEF Retargeted
  <2>3. \A e \in S : e.do = "applied" => e.item \in running' /\ e.ship = target[e.item]
    BY <1>1, <1>3, <1>9
  <2>4. target[g] # None => DueOn(S, "applied", g, target[g])
    BY <1>4, <1>8 DEF DueOn
  <2>5. \A h \in Guns, s \in Ships : <<h, s>> \in tgts => h \in running' /\ s = target[h]
    BY <1>1, <1>2
  <2>6. \A h \in running' : target[h] # None =>
           <<h, target[h]>> \in tgts \/ DueOn(S, "applied", h, target[h])
    <3>1. \A h \in Guns : target[h] \in Ships \cup {None}
      BY <1>2 DEF TypeOK
    <3>2. running \subseteq Guns
      BY <1>2 DEF TypeOK
    <3> QED BY <1>1, <1>2, <2>4, <3>1, <3>2
  <2> QED BY <1>1, <2>1, <2>2, <2>3, <2>5, <2>6 DEF Targeting, S
<1>14. Typed'
  BY <1>1, <1>2, <1>8 DEF Typed, TypeOK
<1> QED BY <1>1, <1>2, <1>8, <1>11, <1>12, <1>13, <1>14 DEF ProjInv

\* SingleTargetableMixin.target
LEMMA SetTargetStep ==
  ASSUME ProjInv, NEW g \in Guns, NEW s \in Ships \cup {None}, SetTarget(g, s)
  PROVE  ProjInv'
<1> DEFINE runs == g \in running
           e == Aimed("target", g, s)
           a == Aimed("applied", g, s)
           q == Applying("unapplied", g)
           A == IF runs THEN q ELSE <<>>
           goes == runs /\ s # None
           B == IF goes THEN <<a>> ELSE <<>>
           S == Of(agenda')
<1>1. /\ Idle /\ agenda' = A \o <<e>> \o B /\ s # target[g]
      /\ UNCHANGED <<source, ship, fitted, ready, target, running, local, cache>>
      /\ UNCHANGED <<affectees, active, domain, projectors, carried, carrierless, tgts, raised>>
  BY DEF SetTarget, Begin, Untouched, affection, projection
<1>2. /\ Typed /\ TypeOK /\ Of(agenda) = {} /\ ~raised
      /\ Presence(Of(agenda)) /\ Projecting(Of(agenda))
      /\ \A h \in Guns, t \in Ships : <<h, t>> \in tgts <=> h \in running /\ t = target[h]
  BY <1>1, Between
<1>3. e \in Entries /\ e.do = "target" /\ e.item = g /\ e.ship = s
  BY DEF Aimed, Entries
<1>4. a.do = "applied" /\ a.item = g /\ a.ship = s /\ (s # None => a \in Entries)
  BY DEF Aimed, Entries
<1>5. /\ q \in Seq(Entries) /\ InTurn(q)
      /\ \A d \in Of(q) : d.do = "unapplied" /\ d.item = g
      /\ target[g] # None => DueOn(Of(q), "unapplied", g, target[g])
  BY <1>2, ApplyingAre
<1> HIDE DEF e, a, q
<1>6. A \in Seq(Entries) /\ InTurn(A) /\ Of(A) = IF runs THEN Of(q) ELSE {}
  BY <1>5, NothingLeft
<1>7. B \in Seq(Entries) /\ InTurn(B) /\ Of(B) = IF goes THEN {a} ELSE {}
  BY <1>4, NothingLeft, OneLeft
<1> HIDE DEF A, B
<1>8. /\ \A d \in Of(A) : d.do = "unapplied" /\ d.item = g /\ runs
      /\ \A d \in Of(B) : d = a /\ goes
  BY <1>5, <1>6, <1>7
<1>9. /\ agenda' \in Seq(Entries) /\ InTurn(agenda') /\ S = (Of(A) \cup {e}) \cup Of(B)
  <2>1. e.do \in Assigns
    BY <1>3 DEF Assigns
  <2>2. /\ \A d \in Of(A) : d.do \in {"unapplied", "unload"}
        /\ \A d \in Of(B) : d.do \in {"applied", "load"}
    BY <1>4, <1>8
  <2> QED BY <1>1, <1>3, <1>6, <1>7, <2>1, <2>2, Framed
<1> HIDE DEF S
<1>10. \A d \in S : \/ d.do = "unapplied" /\ d.item = g /\ runs
                    \/ d = e
                    \/ d = a /\ goes
  BY <1>8, <1>9
<1>11. e \in S /\ (goes => a \in S) /\ (runs => Of(q) \subseteq S)
  BY <1>6, <1>7, <1>9
<1>12. \A d \in S : d.do \in Aims
  BY <1>3, <1>4, <1>10 DEF Aims
<1>13. Presence(Of(agenda))'
  <2>1. \A d : d.do \in Loads => (d \in S <=> d \in Of(agenda))
    BY <1>2, <1>12 DEF Loads, Aims
  <2> QED BY <1>1, <1>2, <2>1, PresenceKept DEF S
<1>14. Projecting(Of(agenda))'
  <2>1. \A d : d.do \in {"started", "stopped"} => (d \in S <=> d \in Of(agenda))
    BY <1>2, <1>12 DEF Aims
  <2> QED BY <1>1, <1>2, <2>1, ProjectingKept DEF S
<1>15. Targeting(Of(agenda))'
  <2>1. \A h : Retargeted(S, h) <=> h = g
    BY <1>3, <1>4, <1>10, <1>11 DEF Retargeted
  <2>2. DueOn(S, "target", g, s) /\ (goes => DueOn(S, "applied", g, s))
    BY <1>3, <1>4, <1>11 DEF DueOn
  <2>3. \A t \in Ships : runs /\ t = target[g] => DueOn(S, "unapplied", g, t)
    <3>1. None \notin Ships
      BY ProjectionAssumption DEF ProjectionAssumption, Items
    <3>2. runs /\ target[g] # None => DueOn(S, "unapplied", g, target[g])
      BY <1>5, <1>11 DEF DueOn
    <3> QED BY <3>1, <3>2
  <2>4. \A h \in Guns, t \in Ships : <<h, t>> \in tgts =>
          (h \in running /\ t = target[h] /\ ~Retargeted(S, h)) \/ DueOn(S, "unapplied", h, t)
    BY <1>2, <2>1, <2>3
  <2>5. \A h \in running : target[h] # None => <<h, target[h]>> \in tgts
    <3>1. /\ \A h \in Guns : target[h] \in Ships \cup {None}
          /\ running \subseteq Guns
      BY <1>2 DEF TypeOK
    <3> QED BY <1>2, <3>1
  <2>6. \A d \in S : d.do = "unapplied" => Retargeted(S, d.item)
    BY <1>3, <1>4, <1>10, <2>1
  <2>7. \A d \in S : d.do = "applied" =>
          d.item \in running /\ DueOn(S, "target", d.item, d.ship) /\ \A c \in S : c.do # "unload"
    BY <1>3, <1>4, <1>10, <1>12, <2>2 DEF Aims
  <2>8. \A d \in S : d.do = "target" /\ d.item \in running /\ d.ship # None =>
          DueOn(S, "applied", d.item, d.ship)
    BY <1>3, <1>4, <1>10, <2>2
  <2> QED BY <1>1, <2>4, <2>5, <2>6, <2>7, <2>8 DEF Targeting, S
<1>16. Typed'
  BY <1>1, <1>2, <1>9 DEF Typed, TypeOK
<1> QED BY <1>1, <1>2, <1>9, <1>13, <1>14, <1>15, <1>16 DEF ProjInv
-----------------------------------------------------------------------------
(* The theorems. *)

\* Nothing is linked at the start.
LEMMA ProjInit ==
  ASSUME Init
  PROVE  ProjInv
<1>1. Of(agenda) = {} /\ InTurn(agenda) /\ agenda \in Seq(Entries) /\ ~raised
  BY NothingLeft DEF Init
<1>2. (CHOOSE v \in Levels : TRUE) \in Levels
  BY ProjectionAssumption DEF ProjectionAssumption
<1>3. TypeOK
  <2>1. local \in [Cells -> Levels]
    BY <1>2 DEF Init
  <2>2. DOMAIN cache = {}
    BY DEF Init
  <2> QED BY <2>1, <2>2 DEF Init, TypeOK
<1>4. Typed
  BY <1>1, <1>3 DEF Typed, Init
<1>5. Presence(Of(agenda)) /\ Projecting(Of(agenda)) /\ Targeting(Of(agenda))
  BY <1>1 DEF Init, Presence, AfterSwitch, On, Projecting, Targeting
<1> QED BY <1>1, <1>4, <1>5 DEF ProjInv

\* Every step, and a stutter, keeps the invariant.
LEMMA ProjInductive ==
  ASSUME ProjInv, [Next]_vars
  PROVE  ProjInv'
<1>1. CASE Deliver
  BY <1>1, LoadStep, UnloadStep, ClearStep, AssignStep, LoadedStep, UnloadedStep, StartedStep,
     StoppedStep, AppliedStep, UnappliedStep, ChangedStep DEF Deliver
<1>2. CASE UNCHANGED vars
  <2>1. /\ UNCHANGED <<source, ship, fitted, ready, target, running, local, cache>>
        /\ UNCHANGED <<affectees, active, domain, projectors, carried, carrierless, tgts>>
        /\ agenda' = agenda /\ raised' = raised
    BY <1>2 DEF vars, fitVars, affection, projection
  <2>2. Typed'
    BY <2>1 DEF ProjInv, Typed, TypeOK
  <2>3. ASSUME ~raised
        PROVE  Presence(Of(agenda))' /\ Projecting(Of(agenda))' /\ Targeting(Of(agenda))'
    <3>1. Presence(Of(agenda)) /\ Projecting(Of(agenda)) /\ Targeting(Of(agenda))
      BY <2>3 DEF ProjInv
    <3>2. Of(agenda') = Of(agenda)
      BY <2>1
    <3> QED BY <2>1, <3>1, <3>2, PresenceKept, ProjectingKept, TargetingKept
  <2> QED BY <2>1, <2>2, <2>3 DEF ProjInv
<1>3. CASE Over
  BY <1>2, <1>3 DEF Over
<1>4. ASSUME NEW f \in Fits, NEW s \in Ships \cup {None}, SetShip(f, s)
      PROVE  ProjInv'
  BY <1>4, SetShipStep
<1>5. ASSUME NEW i \in Guns \cup Gadgets, AddItem(i) \/ RemoveItem(i)
      PROVE  ProjInv'
  BY <1>5, AddStep, RemoveStep
<1>6. ASSUME NEW s \in Sources \cup {None}, NEW order \in SetToSeqs(Fits), SetSource(s, order)
      PROVE  ProjInv'
  BY <1>6, SetSourceStep
<1>7. ASSUME NEW g \in Guns, SetState(g)
      PROVE  ProjInv'
  BY <1>7, SetIdleState, SetStateOff, SetStateOn
<1>8. ASSUME NEW g \in Guns, NEW s \in Ships \cup {None}, SetTarget(g, s)
      PROVE  ProjInv'
  BY <1>8, SetTargetStep
<1>9. ASSUME NEW c \in Shifted, NEW v \in Levels, Shift(c, v)
      PROVE  ProjInv'
  BY <1>9, ShiftStep
<1>10. ASSUME NEW c \in Cells, Read(c)
       PROVE  ProjInv'
  BY <1>10, ReadStep
<1> QED BY <1>1, <1>2, <1>3, <1>4, <1>5, <1>6, <1>7, <1>8, <1>9, <1>10 DEF Next

\* The invariant holds of every reachable state.
THEOREM ProjInvariance == Spec => []ProjInv
<1>1. Init => ProjInv
  BY ProjInit
<1>2. ProjInv /\ [Next]_vars => ProjInv'
  BY ProjInductive
<1> QED BY <1>1, <1>2, PTL DEF Spec

\* Every variable keeps its type.
THEOREM TypesHold == Spec => []TypeOK
<1>1. ProjInv => TypeOK
  BY DEF ProjInv, Typed
<1> QED BY <1>1, ProjInvariance, PTL

\* Between calls the targets in the register are those of the guns that run,
\* and the guns that run are those whose state lets them and that are loaded.
THEOREM TargetsHold == Spec => []TargetsTrue
<1>1. ASSUME ProjInv
      PROVE  TargetsTrue
  <2> SUFFICES ASSUME Idle
               PROVE  /\ tgts = {<<g, target[g]>> : g \in {h \in running : target[h] # None}}
                      /\ projectors = running
                      /\ running = ready \cap Loaded
    BY DEF TargetsTrue
  <2>1. /\ Typed /\ TypeOK /\ running = On \cap ready /\ projectors = running
        /\ \A g \in Guns, s \in Ships : <<g, s>> \in tgts <=> g \in running /\ s = target[g]
    BY <1>1, Between
  <2>2. /\ None \notin Ships /\ None \notin Fits /\ Ships \cap Guns = {}
        /\ Home \in [Guns \cup Gadgets -> Fits]
    BY ProjectionAssumption DEF ProjectionAssumption, Items
  <2>3. \A g \in Guns : g \in Loaded <=> g \in On
    <3> SUFFICES ASSUME NEW g \in Guns PROVE g \in Loaded <=> g \in On
      OBVIOUS
    <3>1. g \in Items /\ g \notin Ships /\ Home[g] # None
      BY <2>2 DEF Items
    <3>2. Fit(g) # None <=> g \in fitted
      BY <3>1 DEF Fit
    <3> QED BY <3>1, <3>2 DEF Loaded, On
  <2>4. running = ready \cap Loaded
    <3>1. ready \subseteq Guns /\ On \subseteq Guns
      BY <2>1 DEF Typed, On
    <3> QED BY <2>1, <2>3, <3>1
  <2>5. tgts = {<<g, target[g]>> : g \in {h \in running : target[h] # None}}
    <3> DEFINE links == {<<g, target[g]>> : g \in {h \in running : target[h] # None}}
    <3>1. /\ tgts \subseteq Guns \X Ships /\ running \subseteq Guns
          /\ \A g \in Guns : target[g] \in Ships \cup {None}
      BY <2>1 DEF TypeOK
    <3>2. ASSUME NEW p \in tgts
          PROVE  p \in links
      <4>1. PICK g \in Guns, s \in Ships : p = <<g, s>>
        BY <3>1
      <4>2. g \in running /\ s = target[g] /\ target[g] # None
        BY <2>1, <2>2, <4>1
      <4> QED BY <4>1, <4>2
    <3>3. ASSUME NEW g \in running, target[g] # None
          PROVE  <<g, target[g]>> \in tgts
      BY <2>1, <3>1, <3>3
    <3> QED BY <3>2, <3>3
  <2> QED BY <2>1, <2>4, <2>5
<1> QED BY <1>1, ProjInvariance, PTL
-----------------------------------------------------------------------------
(* What the values rest on: the invariant that ProjectionFresh needs.        *)

\* Items that are on a fit, and those that are not or soon no longer loaded.
Aboard(i) == Fit(i) # None
Leaving(R, i) == i \notin affectees \/ Due(R, "unload", i) \/ Due(R, "unloaded", i)

\* A ship sits on one fit; what is loaded is on a fit; an item is loaded after
\* it has got there and taken off when it is not loaded any more.
Seating(R) ==
  /\ \A f, h \in Fits : ship[f] = ship[h] /\ ship[f] # None => f = h
  /\ \A i \in affectees : Aboard(i)
  /\ \A d \in R : d.do = "loaded" => Aboard(d.item)
  /\ \A d \in R : d.do = "load" =>
       Aboard(d.item) \/ \E e \in R : e.do = "ship" /\ e.ship = d.item
  /\ \A e \in R : e.do = "ship" =>
       /\ e.ship # None => ~Aboard(e.ship)
       /\ Leaving(R, ship[e.fit])
       /\ \A d \in R : d.do = "load" => d.item = e.ship
  /\ \A e \in R : e.do = "off" => Leaving(R, e.item)

\* When an item gets loaded nothing is left of unloading, values or assignments.
Arriving(R) ==
  \A d, e \in R : d.do = "loaded" => e.do \in {"loaded", "started", "applied", "load"}

\* Guns that run are loaded; values are cleared once an item is not loaded.
Departing(R) ==
  /\ \A g \in running : g \in affectees \/ Due(R, "loaded", g)
  /\ \A d \in R : d.do = "unloaded" => d.item \notin running /\ Due(R, "clear", d.item)
  /\ \A d \in R : d.do = "clear" => d.item \notin affectees \/ Due(R, "unloaded", d.item)

\* Both specs of a projector are stored for the targets it has, all loaded.
Storing ==
  /\ \A p \in tgts : p[1] \in affectees /\ p[2] \in affectees
  /\ active = {<<p[2], p[1]>> : p \in tgts}
  /\ domain = {<<Fit(p[2]), p[1]>> : p \in tgts}

\* A kept value is what a calculation would give, or will be dropped.
Right(c) ==
  /\ Reads(c, ActingOn(c[1])) \subseteq DOMAIN cache
  /\ cache[c] = Value(c, ActingOn(c[1]), cache)
Keeping(R) ==
  \A c \in DOMAIN cache :
    IF c[1] \in affectees
    THEN Right(c) \/ \E e \in R : e.do = "changed" /\ c \in Dependents(e.cells)
    ELSE Due(R, "clear", c[1])

FreshInv ==
  ~raised => /\ Seating(Of(agenda)) /\ Arriving(Of(agenda)) /\ Departing(Of(agenda))
             /\ ~strayed => Storing /\ Keeping(Of(agenda))
-----------------------------------------------------------------------------
\* None is no item; items are of one kind.
LEMMA Kinds ==
  /\ None \notin Items /\ None \notin Fits
  /\ Ships \cap Guns = {} /\ Ships \cap Gadgets = {} /\ Guns \cap Gadgets = {}
  /\ Home \in [Guns \cup Gadgets -> Fits]
BY ProjectionAssumption DEF ProjectionAssumption

\* No ship sits on two fits.
Alone == \A f, h \in Fits : ship[f] = ship[h] /\ ship[f] # None => f = h

\* The fit of a ship and of what is fitted.
LEMMA FitIs ==
  /\ \A s \in Ships, f \in Fits : Alone /\ ship[f] = s => Fit(s) = f
  /\ \A s \in Ships : Aboard(s) => Fit(s) \in Fits /\ ship[Fit(s)] = s
  /\ \A i \in Guns \cup Gadgets : Aboard(i) => i \in fitted /\ Fit(i) = Home[i]
<1>1. ASSUME NEW s \in Ships, NEW f \in Fits, Alone, ship[f] = s
      PROVE  Fit(s) = f
  <2>1. s # None
    BY Kinds DEF Items
  <2>2. \A h \in Fits : ship[h] = s <=> h = f
    BY <1>1, <2>1 DEF Alone
  <2>3. Fit(s) = CHOOSE h \in Fits : ship[h] = s
    BY <1>1 DEF Fit
  <2> QED BY <2>2, <2>3
<1>2. ASSUME NEW s \in Ships, Aboard(s)
      PROVE  Fit(s) \in Fits /\ ship[Fit(s)] = s
  BY <1>2 DEF Fit, Aboard
<1>3. ASSUME NEW i \in Guns \cup Gadgets, Aboard(i)
      PROVE  i \in fitted /\ Fit(i) = Home[i]
  BY <1>3, Kinds DEF Fit, Aboard
<1> QED BY <1>1, <1>2, <1>3

\* The same of the fit that a ship will have.
LEMMA FitAfter == (\A s \in Ships, f \in Fits : Alone /\ ship[f] = s => Fit(s) = f)'
BY FitIs, PTL

\* What acts on an item are the guns whose target carries it.
LEMMA ActingIs ==
  ASSUME TypeOK, Alone, Storing, \A i \in affectees : Aboard(i),
         NEW i \in Ships \cup Gadgets, Aboard(i)
  PROVE  ActingOn(i) = {g \in Guns : <<g, SolsysCarrier(i)>> \in tgts}
<1>1. \A p \in tgts : /\ p[1] \in affectees /\ p[2] \in affectees /\ Aboard(p[2])
                      /\ p[1] \in Guns /\ p[2] \in Ships /\ p = <<p[1], p[2]>>
  BY DEF Storing, TypeOK
<1>2. CASE i \in Ships
  <2>1. SolsysCarrier(i) = i /\ ActingOn(i) = {g \in affectees \cap Guns : <<i, g>> \in active}
    BY <1>2 DEF SolsysCarrier, ActingOn
  <2>2. \A g \in Guns : <<i, g>> \in active <=> <<g, i>> \in tgts
    <3>1. ASSUME NEW g \in Guns, <<i, g>> \in active
          PROVE  <<g, i>> \in tgts
      <4>1. PICK p \in tgts : <<i, g>> = <<p[2], p[1]>>
        BY <3>1 DEF Storing
      <4> QED BY <1>1, <4>1
    <3>2. ASSUME NEW g \in Guns, <<g, i>> \in tgts
          PROVE  <<i, g>> \in active
      BY <3>2 DEF Storing
    <3> QED BY <3>1, <3>2
  <2> QED BY <1>1, <2>1, <2>2
<1>3. CASE i \in Gadgets
  <2> DEFINE f == Home[i]
  <2>1. i \notin Ships /\ i \in fitted /\ Fit(i) = f /\ f \in Fits
    BY <1>3, Kinds, FitIs
  <2>2. /\ SolsysCarrier(i) = ship[f]
        /\ ActingOn(i) = {g \in affectees \cap Guns : <<f, g>> \in domain}
    BY <1>3, <2>1 DEF SolsysCarrier, ActingOn
  <2>3. \A s \in Ships : Aboard(s) => (Fit(s) = f <=> ship[f] = s)
    BY <2>1, FitIs
  <2>4. ASSUME NEW g \in Guns
        PROVE  <<f, g>> \in domain <=> <<g, ship[f]>> \in tgts
    <3>1. ASSUME <<f, g>> \in domain
          PROVE  <<g, ship[f]>> \in tgts
      <4>1. PICK p \in tgts : <<f, g>> = <<Fit(p[2]), p[1]>>
        BY <3>1 DEF Storing
      <4> QED BY <1>1, <2>3, <4>1
    <3>2. ASSUME <<g, ship[f]>> \in tgts
          PROVE  <<f, g>> \in domain
      <4> DEFINE p == <<g, ship[f]>>
      <4>1. p \in tgts /\ p[1] = g /\ p[2] = ship[f]
        BY <3>2
      <4> HIDE DEF p
      <4>2. Fit(p[2]) = f
        BY <1>1, <2>3, <4>1
      <4> QED BY <4>1, <4>2 DEF Storing
    <3> QED BY <3>1, <3>2
  <2> HIDE DEF f
  <2>5. \A g \in Guns : <<g, ship[f]>> \in tgts => g \in affectees
    BY <1>1
  <2> QED BY <2>2, <2>4, <2>5
<1> QED BY <1>2, <1>3

\* What is hit with a ship is what the ship carries.
LEMMA HitIs ==
  ASSUME TypeOK, Alone, \A i \in affectees : Aboard(i), NEW s \in Ships, NEW i \in Items
  PROVE  <<i, "hit">> \in Hit(s) <=>
           i \in affectees \cap (Ships \cup Gadgets) /\ SolsysCarrier(i) = s
<1>1. <<i, "hit">> \in Hit(s) <=>
        /\ i \in affectees
        /\ i = s \/ (i \in Gadgets /\ Fit(s) # None /\ Fit(i) = Fit(s))
  BY DEF Hit
<1>2. CASE i \in Ships
  BY <1>1, <1>2, Kinds DEF SolsysCarrier
<1>3. CASE i \in Gadgets
  <2>1. i \notin Ships /\ i # s /\ SolsysCarrier(i) = ship[Home[i]] /\ Home[i] \in Fits
    BY <1>3, Kinds DEF SolsysCarrier
  <2>2. i \in affectees => Fit(i) = Home[i]
    BY <1>3, FitIs
  <2>3. ship[Home[i]] = s => Fit(s) = Home[i] /\ Fit(s) # None
    BY <2>1, Kinds, FitIs
  <2>4. Fit(s) # None => ship[Fit(s)] = s
    BY FitIs DEF Aboard
  <2> QED BY <1>1, <1>3, <2>1, <2>2, <2>3, <2>4
<1>4. CASE i \in Guns
  BY <1>1, <1>4, Kinds
<1> QED BY <1>2, <1>3, <1>4 DEF Items

\* Only values of the attribute that guns hit depend on others.
LEMMA HitsOnly ==
  /\ \A s : \A c \in Hit(s) : c[2] = "hit"
  /\ \A guns : \A c \in HitBy(guns) : c[2] = "hit"
  /\ \A cells : \A c \in Dependents(cells) : c[2] = "hit"
<1>1. \A s : \A c \in Hit(s) : c[2] = "hit"
  BY DEF Hit
<1>2. \A guns : \A c \in HitBy(guns) : c[2] = "hit"
  BY <1>1 DEF HitBy
<1> QED BY <1>1, <1>2 DEF Dependents

\* A calculation reads strengths and resistances of what is loaded.
LEMMA ReadsAre ==
  ASSUME NEW c, NEW r \in Reads(c, ActingOn(c[1]))
  PROVE  r[2] # "hit" /\ r[1] \in affectees /\ c[2] = "hit"
BY DEF Reads, Resist, ActingOn

\* The shape of cells.
LEMMA CellsAre ==
  ASSUME NEW c \in Cells
  PROVE  /\ c[1] \in Items /\ c = <<c[1], c[2]>>
         /\ c[2] = "hit" => c[1] \in Ships \cup Gadgets
BY DEF Cells, Items

\* A calculation from the same guns, resistances and values it reads.
LEMMA ValueSame ==
  ASSUME NEW c, NEW G, NEW v, NEW w, \A r \in Reads(c, G) : v[r] = w[r]
  PROVE  Value(c, G, v) = Value(c, G, w)
<1>1. CASE c[2] # "hit"
  BY <1>1 DEF Value
<1>2. CASE G = {}
  BY <1>2 DEF Value
<1>3. CASE c[2] = "hit" /\ G # {}
  <2>1. \A g \in G : v[<<g, "strength">>] = w[<<g, "strength">>]
    BY <1>3 DEF Reads
  <2>2. \A r \in Resist(c[1]) : v[r] = w[r]
    BY <1>3 DEF Reads
  <2>3. {<<g, v[<<g, "strength">>]>> : g \in G} = {<<g, w[<<g, "strength">>]>> : g \in G}
    BY <2>1
  <2>4. {v[r] : r \in Resist(c[1])} = {w[r] : r \in Resist(c[1])}
    BY <2>2
  <2> QED BY <1>3, <2>3, <2>4 DEF Value
<1> QED BY <1>1, <1>2, <1>3

\* A right value stays right when nothing it is calculated from changes.
LEMMA RightKept ==
  ASSUME NEW c, Right(c), local'[c] = local[c], cache'[c] = cache[c],
         c[2] = "hit" => /\ ActingOn(c[1])' = ActingOn(c[1])
                         /\ ActingOn(c[1]) # {} => Resist(c[1])' = Resist(c[1]),
         \A r \in Reads(c, ActingOn(c[1])) : r \in DOMAIN cache' /\ cache'[r] = cache[r]
  PROVE  Right(c)'
<1> DEFINE G == ActingOn(c[1])
<1>1. CASE c[2] # "hit"
  BY <1>1 DEF Right, Reads, Value
<1>2. CASE c[2] = "hit"
  <2>1. ActingOn(c[1])' = ActingOn(c[1])
    BY <1>2
  <2>2. Reads(c, ActingOn(c[1]))' = Reads(c, ActingOn(c[1]))
    BY <1>2, <2>1 DEF Reads
  <2>3. Value(c, ActingOn(c[1]), cache)' = Value(c, ActingOn(c[1]), cache')
    BY <1>2, <2>1 DEF Value
  <2>4. Value(c, ActingOn(c[1]), cache') = Value(c, ActingOn(c[1]), cache)
    <3> HIDE DEF G
    <3>1. Value(c, G, cache') = Value(c, G, cache)
      BY ValueSame DEF G
    <3> QED BY <3>1 DEF G
  <2> QED BY <2>2, <2>3, <2>4 DEF Right
<1> QED BY <1>1, <1>2
-----------------------------------------------------------------------------
(* What a step leaves alone, again. *)

\* Every kept value is right, or its item is not loaded and will be cleared.
Clean(R) ==
  \A c \in DOMAIN cache : IF c[1] \in affectees THEN Right(c) ELSE Due(R, "clear", c[1])

\* Items that are loaded have their place; with that, what acts on an item and
\* what is hit with a ship, as formulas on a state.
Placed == TypeOK /\ Alone /\ \A i \in affectees : Aboard(i)
Acts ==
  \A i \in Ships \cup Gadgets :
    Aboard(i) => ActingOn(i) = {g \in Guns : <<g, SolsysCarrier(i)>> \in tgts}
Hits ==
  \A s \in Ships, i \in Items :
    <<i, "hit">> \in Hit(s) <=>
      i \in affectees \cap (Ships \cup Gadgets) /\ SolsysCarrier(i) = s

\* With both specs stored, what acts on an item is what targets its carrier.
LEMMA ActsHold == Placed /\ Storing => Acts
BY ActingIs DEF Placed, Acts

\* And on the next state.
LEMMA ActsAfter == (Placed /\ Storing => Acts)'
BY ActsHold, PTL

\* A ship and its gadgets are what is hit with it.
LEMMA HitsHold == Placed => Hits
BY HitIs DEF Placed, Hits

\* In the middle of a call.
LEMMA AtHead ==
  ASSUME ProjInv, FreshInv, agenda # <<>>
  PROVE  /\ Placed /\ Typed /\ ~raised
         /\ Seating(Of(agenda)) /\ Arriving(Of(agenda)) /\ Departing(Of(agenda))
         /\ Head(agenda) \in Of(agenda) /\ Of(agenda) \subseteq Entries
         /\ Of(agenda) = {Head(agenda)} \cup Of(Tail(agenda))
         /\ \A b \in Of(Tail(agenda)) : Before(Head(agenda), b)
         /\ ~strayed => Storing /\ Acts /\ Keeping(Of(agenda))
         /\ ~strayed /\ Head(agenda).do # "changed" => Clean(Of(agenda))
<1>1. /\ ~raised /\ Typed /\ TypeOK /\ Seating(Of(agenda)) /\ Arriving(Of(agenda))
      /\ Departing(Of(agenda)) /\ (~strayed => Storing /\ Keeping(Of(agenda)))
      /\ agenda \in Seq(Entries) /\ InTurn(agenda)
  BY Under DEF FreshInv, ProjInv, Typed
<1>2. Placed
  BY <1>1 DEF Placed, Seating, Alone
<1>3. /\ Head(agenda) \in Of(agenda) /\ Of(agenda) \subseteq Entries
      /\ Of(agenda) = {Head(agenda)} \cup Of(Tail(agenda))
      /\ \A b \in Of(Tail(agenda)) : Before(Head(agenda), b)
      /\ Head(agenda) \in Entries
  BY <1>1, Foremost
<1>4. Head(agenda).do # "changed" => \A e \in Of(agenda) : e.do # "changed"
  <2>1. ASSUME Head(agenda).do # "changed", NEW e \in Of(Tail(agenda))
        PROVE  e.do # "changed"
    <3>1. Before(Head(agenda), e)
      BY <1>3
    <3> QED BY <1>3, <2>1, <3>1 DEF Before, Rank, Entries, Assigns
  <2> QED BY <1>3, <2>1
<1> QED BY <1>1, <1>2, <1>3, <1>4, ActsHold DEF Keeping, Clean

\* Between calls.
LEMMA AtRest ==
  ASSUME ProjInv, FreshInv, Idle
  PROVE  /\ Placed /\ Typed /\ ~raised /\ Of(agenda) = {}
         /\ running \subseteq affectees
         /\ ~strayed => Storing /\ Acts /\ \A c \in DOMAIN cache : c[1] \in affectees /\ Right(c)
<1> DEFINE R == Of(agenda)
<1>1. ~raised /\ Typed /\ TypeOK /\ R = {}
  BY Between
<1>2. Seating(R) /\ Departing(R) /\ (~strayed => Storing /\ Keeping(R))
  BY <1>1 DEF FreshInv
<1> HIDE DEF R
<1>3. Placed
  BY <1>1, <1>2 DEF Placed, Seating, Alone
<1> QED BY <1>1, <1>2, <1>3, ActsHold DEF Keeping, Departing, Due, R

\* Nobody changes fits.
LEMMA FitSame ==
  ASSUME UNCHANGED <<ship, fitted>>
  PROVE  \A i : Fit(i)' = Fit(i) /\ (Aboard(i)' <=> Aboard(i))
BY DEF Fit, Aboard

\* Nobody changes fits, and what is loaded or due stays as it was.
LEMMA SeatingKept ==
  ASSUME Seating(Of(agenda)), UNCHANGED <<ship, fitted>>,
         \A i \in affectees' : i \in affectees \/ Aboard(i),
         \A e \in Of(agenda') : e.do = "loaded" => e \in Of(agenda) \/ Aboard(e.item),
         \A e \in Of(agenda') : e.do \in {"load", "ship", "off"} => e \in Of(agenda),
         \A e \in Of(agenda) : e.do = "ship" => e \in Of(agenda'),
         \A e \in Of(agenda') : e.do \in {"ship", "off"} =>
           \A i : Leaving(Of(agenda), i) => Leaving(Of(agenda), i)'
  PROVE  Seating(Of(agenda))'
<1> DEFINE R == Of(agenda)
           S == Of(agenda')
<1>1. \A i : Aboard(i)' <=> Aboard(i)
  BY FitSame
<1>2. /\ Seating(R) /\ ship' = ship
      /\ \A i \in affectees' : i \in affectees \/ Aboard(i)
      /\ \A e \in S : e.do = "loaded" => e \in R \/ Aboard(e.item)
      /\ \A e \in S : e.do \in {"load", "ship", "off"} => e \in R
      /\ \A e \in R : e.do = "ship" => e \in S
      /\ \A e \in S : e.do \in {"ship", "off"} => \A i : Leaving(R, i) => Leaving(Of(agenda), i)'
  OBVIOUS
<1> HIDE DEF R
<1>3. \A i \in affectees' : Aboard(i)'
  BY <1>1, <1>2 DEF Seating
<1>4. \A d \in S : d.do = "loaded" => Aboard(d.item)'
  BY <1>1, <1>2 DEF Seating
<1>5. \A d \in S : d.do = "load" => Aboard(d.item)' \/ \E e \in S : e.do = "ship" /\ e.ship = d.item
  BY <1>1, <1>2 DEF Seating
<1>6. \A e \in S : e.do = "ship" =>
        /\ e.ship # None => ~Aboard(e.ship)'
        /\ Leaving(Of(agenda), ship[e.fit])'
        /\ \A d \in S : d.do = "load" => d.item = e.ship
  BY <1>1, <1>2 DEF Seating
<1>7. \A e \in S : e.do = "off" => Leaving(Of(agenda), e.item)'
  BY <1>1, <1>2 DEF Seating
<1>8. \A f, h \in Fits : ship'[f] = ship'[h] /\ ship'[f] # None => f = h
  BY <1>2 DEF Seating
<1> QED BY <1>3, <1>4, <1>5, <1>6, <1>7, <1>8 DEF Seating

\* Nobody is loaded any more.
LEMMA ArrivingKept ==
  ASSUME \A e \in Of(agenda') : e.do # "loaded"
  PROVE  Arriving(Of(agenda))'
BY DEF Arriving

\* Guns run as before, and the messages about items are as before.
LEMMA DepartingKept ==
  ASSUME Departing(Of(agenda)), UNCHANGED <<running, affectees>>,
         \A e : e.do \in {"loaded", "unloaded", "clear"} => (e \in Of(agenda') <=> e \in Of(agenda))
  PROVE  Departing(Of(agenda))'
<1> DEFINE R == Of(agenda)
           S == Of(agenda')
<1>1. /\ Departing(R) /\ running' = running /\ affectees' = affectees
      /\ \A e : e.do \in {"loaded", "unloaded", "clear"} => (e \in S <=> e \in R)
  OBVIOUS
<1> HIDE DEF R, S
<1>2. \A do, i : do \in {"loaded", "unloaded", "clear"} => (Due(S, do, i) <=> Due(R, do, i))
  BY <1>1 DEF Due
<1> QED BY <1>1, <1>2 DEF Departing, S

\* What depends on some values stays the same with what is linked.
LEMMA DependentsSame ==
  ASSUME UNCHANGED <<ship, fitted, affectees, running, tgts>>
  PROVE  \A cells : Dependents(cells)' = Dependents(cells)
<1>1. \A s : Hit(s)' = Hit(s)
  BY FitSame DEF Hit
<1>2. \A g : Targets(g)' = Targets(g)
  BY DEF Targets
<1>3. \A guns : HitBy(guns)' = HitBy(guns)
  BY <1>1, <1>2 DEF HitBy
<1> QED BY <1>3 DEF Dependents

\* Registers stay as they are.
LEMMA StoringKept ==
  ASSUME Storing, UNCHANGED <<ship, fitted, affectees, active, domain, tgts>>
  PROVE  Storing'
BY FitSame DEF Storing

\* Nothing that a calculation looks at changes.
LEMMA RightSame ==
  ASSUME NEW c \in DOMAIN cache, Right(c),
         UNCHANGED <<cache, local, ship, fitted, affectees, active, domain>>
  PROVE  Right(c)'
<1>1. ActingOn(c[1])' = ActingOn(c[1]) /\ Resist(c[1])' = Resist(c[1])
  BY FitSame DEF ActingOn, Resist, SolsysCarrier
<1>2. Reads(c, ActingOn(c[1])) \subseteq DOMAIN cache
  BY DEF Right
<1> QED BY <1>1, <1>2, RightKept

\* Kept values stay right, or are due to be cleared, when nothing that a
\* calculation looks at changes.
LEMMA CleanKept ==
  ASSUME Clean(Of(agenda)),
         UNCHANGED <<cache, local, ship, fitted, affectees, active, domain>>,
         \A i : Due(Of(agenda), "clear", i) => Due(Of(agenda'), "clear", i)
  PROVE  Clean(Of(agenda))'
BY RightSame DEF Clean

\* What is right does not wait for a message.
LEMMA CleanKeeps == (Clean(Of(agenda)) => Keeping(Of(agenda)))'
BY DEF Clean, Keeping
-----------------------------------------------------------------------------
(* The steps of a call. *)

\* BaseItemMixin._load: what starts to run is about to be loaded.
LEMMA LoadFresh ==
  ASSUME ProjInv, FreshInv, LoadItem
  PROVE  FreshInv'
<1> DEFINE i == Head(agenda).item
           a == Step("loaded", i)
           R == Of(agenda)
           S == Of(agenda')
<1>1. /\ agenda # <<>> /\ Head(agenda).do = "load"
      /\ UNCHANGED <<ship, fitted, local, cache, affectees, active, domain, tgts>>
      /\ UNCHANGED <<raised, strayed>>
  BY DEF LoadItem, Doing, affection, projection
<1>2. /\ ~raised /\ TypeOK /\ Seating(R) /\ Departing(R)
      /\ R = {Head(agenda)} \cup Of(Tail(agenda)) /\ Head(agenda) \in R
      /\ ~strayed => Storing /\ Clean(R)
  BY <1>1, AtHead DEF Placed
<1>3. i \in Items /\ \A e \in R : e.do = "load"
  BY <1>1, <1>2, AtLoad
<1>4. /\ \A e \in S : e \in Of(Tail(agenda)) \/ e = a \/ e.do \in {"started", "applied"}
      /\ running' = running \/ (a \in S /\ running' = running \cup {i})
  <2> DEFINE b == Step("started", i)
             q == Applying("applied", i)
             known == ~(source = None \/ i \notin Known[source])
             goes == i \in Guns /\ i \in ready
  <2>1. /\ \A e \in S : \/ e = a /\ known
                        \/ e = b /\ known /\ goes
                        \/ known /\ goes /\ e \in Of(q)
                        \/ e \in Of(Tail(agenda))
        /\ known => a \in S
        /\ running' = IF known /\ goes THEN running \cup {i} ELSE running
    BY LoadLeaves
  <2>2. b.do = "started"
    BY DEF Step
  <2>3. goes => \A e \in Of(q) : e.do = "applied"
    BY <1>2, ApplyingAre
  <2> HIDE DEF a, b, q, known, S
  <2> QED BY <2>1, <2>2, <2>3
<1>5. a.do = "loaded" /\ a.item = i
  BY DEF Step
<1> HIDE DEF a, R, S
<1>6. Aboard(i)
  BY <1>1, <1>2, <1>3 DEF Seating
<1>7. \A e \in S : (e.do = "load" /\ e \in R) \/ e = a \/ e.do \in {"started", "applied"}
  BY <1>2, <1>3, <1>4
<1>8. Seating(Of(agenda))'
  <2>1. /\ \A e \in Of(agenda') : e.do = "loaded" => Aboard(e.item)
        /\ \A e \in Of(agenda') : e.do \in {"load", "ship", "off"} => e \in Of(agenda)
        /\ \A e \in Of(agenda') : ~(e.do \in {"ship", "off"})
    BY <1>5, <1>6, <1>7 DEF R, S
  <2>2. \A e \in Of(agenda) : e.do # "ship"
    BY <1>3 DEF R
  <2> QED BY <1>1, <1>2, <2>1, <2>2, SeatingKept DEF R
<1>9. Arriving(Of(agenda))'
  BY <1>5, <1>7 DEF Arriving, S
<1>10. Departing(Of(agenda))'
  <2>1. \A g \in running : g \in affectees
    BY <1>2, <1>3 DEF Departing, Due
  <2>2. \A g \in running' : g \in affectees \/ Due(S, "loaded", g)
    BY <1>4, <1>5, <2>1 DEF Due
  <2>3. \A e \in S : ~(e.do \in {"unloaded", "clear"})
    BY <1>5, <1>7
  <2> QED BY <1>1, <2>2, <2>3 DEF Departing, S
<1>11. ASSUME ~strayed
       PROVE  Storing' /\ Keeping(Of(agenda))'
  <2>1. Storing'
    BY <1>1, <1>2, <1>11, StoringKept
  <2>2. \A j : ~Due(R, "clear", j)
    BY <1>3 DEF Due
  <2>3. Clean(Of(agenda))'
    BY <1>1, <1>2, <1>11, <2>2, CleanKept DEF R
  <2> QED BY <2>1, <2>3, CleanKeeps
<1> QED BY <1>1, <1>8, <1>9, <1>10, <1>11 DEF FreshInv

\* BaseItemMixin._unload: what is loaded is to be unloaded, then cleared.
LEMMA UnloadFresh ==
  ASSUME ProjInv, FreshInv, UnloadItem
  PROVE  FreshInv'
<1> DEFINE i == Head(agenda).item
           X == Of(Tail(agenda))
           R == Of(agenda)
           S == Of(agenda')
<1>1. /\ agenda # <<>> /\ Head(agenda).do = "unload" /\ running' = running \ {i}
      /\ UNCHANGED <<ship, fitted, local, cache, affectees, active, domain, tgts>>
      /\ UNCHANGED <<raised, strayed>>
  BY DEF UnloadItem, Doing, affection, projection
<1>2. /\ ~raised /\ TypeOK /\ Seating(R) /\ Arriving(R) /\ Departing(R)
      /\ R = {Head(agenda)} \cup X /\ Head(agenda) \in R
      /\ ~strayed => Storing /\ Clean(R)
  BY <1>1, AtHead DEF Placed
<1>3. /\ X \subseteq S /\ \A e \in X : e.do \in {"unload", "load"} \cup Assigns
      /\ \A e \in S : \/ e.do \in {"stopped", "unapplied"}
                      \/ e.do = "unloaded" /\ e.item = i /\ i \in affectees
                      \/ e.do = "clear" /\ e.item = i
                      \/ e \in X
      /\ i \in affectees => Due(S, "unloaded", i)
      /\ Due(S, "clear", i)
  <2> DEFINE b == Step("stopped", i)
             u == Step("unloaded", i)
             c == Step("clear", i)
             q == Applying("unapplied", i)
             runs == i \in running
             known == i \in affectees
  <2>1. /\ X \subseteq S /\ \A e \in X : e.do \in {"unload", "load"} \cup Assigns
        /\ \A e \in S : \/ e = b /\ runs
                        \/ e \in Of(q) /\ runs
                        \/ e = u /\ known
                        \/ e = c
                        \/ e \in X
        /\ (known => u \in S) /\ c \in S
    BY UnloadLeaves
  <2>2. /\ b.do = "stopped" /\ u.do = "unloaded" /\ u.item = i
        /\ c.do = "clear" /\ c.item = i
    BY DEF Step
  <2>3. runs => \A e \in Of(q) : e.do = "unapplied"
    BY <1>2, ApplyingAre DEF TypeOK
  <2> HIDE DEF b, u, c, q, S, X, i
  <2> QED BY <2>1, <2>2, <2>3 DEF Due
<1> HIDE DEF R, S, X
<1>4. \A e \in S : e.do # "loaded" /\ (e.do \in {"load", "ship", "off"} => e \in R)
  BY <1>2, <1>3 DEF Assigns
<1>5. \A e \in R : e.do \in {"load", "ship", "off"} => e \in S
  BY <1>1, <1>2, <1>3
<1>6. \A e \in R : ~(e.do \in {"loaded", "unloaded", "clear"})
  BY <1>1, <1>2, <1>3 DEF Assigns
<1>7. Seating(Of(agenda))'
  <2>1. \A j : Leaving(R, j) => Leaving(Of(agenda), j)'
    <3> SUFFICES ASSUME NEW j, Leaving(R, j), j \in affectees
                 PROVE  Due(S, "unload", j) \/ Due(S, "unloaded", j)
      BY <1>1 DEF Leaving, S
    <3>1. Due(R, "unload", j)
      BY <1>6 DEF Leaving, Due
    <3>2. j = i \/ Due(S, "unload", j)
      BY <1>2, <1>3, <3>1 DEF Due
    <3> QED BY <1>3, <3>2
  <2> QED BY <1>1, <1>2, <1>4, <1>5, <2>1, SeatingKept DEF R, S
<1>8. Arriving(Of(agenda))'
  BY <1>4, ArrivingKept DEF S
<1>9. Departing(Of(agenda))'
  <2>1. \A g \in running' : g \in affectees
    BY <1>1, <1>2, <1>6 DEF Departing, Due
  <2>2. \A d \in S : d.do = "unloaded" => d.item \notin running' /\ Due(S, "clear", d.item)
    BY <1>1, <1>3 DEF Assigns
  <2>3. \A d \in S : d.do = "clear" => d.item \notin affectees \/ Due(S, "unloaded", d.item)
    BY <1>3 DEF Assigns
  <2> QED BY <1>1, <2>1, <2>2, <2>3 DEF Departing, S
<1>10. ASSUME ~strayed
       PROVE  Storing' /\ Keeping(Of(agenda))'
  <2>1. Storing'
    BY <1>1, <1>2, <1>10, StoringKept
  <2>2. \A j : ~Due(R, "clear", j)
    BY <1>6 DEF Due
  <2>3. Clean(Of(agenda))'
    BY <1>1, <1>2, <1>10, <2>2, CleanKept DEF R
  <2> QED BY <2>1, <2>3, CleanKeeps
<1> QED BY <1>1, <1>7, <1>8, <1>9, <1>10 DEF FreshInv

\* MutableAttrMap._clear: nobody reads what an item had that is not loaded.
LEMMA ClearFresh ==
  ASSUME ProjInv, FreshInv, ClearItem
  PROVE  FreshInv'
<1> DEFINE i == Head(agenda).item
           R == Of(agenda)
           S == Of(agenda')
<1>1. /\ agenda # <<>> /\ Head(agenda).do = "clear" /\ Then(<<>>)
      /\ Drop({c \in Cells : c[1] = i})
      /\ UNCHANGED <<ship, fitted, local, running, affectees, active, domain, tgts>>
      /\ UNCHANGED <<raised, strayed>>
  BY DEF ClearItem, Doing, fitVars, affection, projection
<1>2. /\ ~raised /\ TypeOK /\ Seating(R) /\ Arriving(R) /\ Departing(R)
      /\ Head(agenda) \in R /\ R \subseteq Entries /\ \A e \in Of(Tail(agenda)) : Before(Head(agenda), e)
      /\ ~strayed => Storing /\ Clean(R)
  BY <1>1, AtHead DEF Placed
<1>3. S = Of(Tail(agenda)) /\ R = {Head(agenda)} \cup S
  BY <1>1, Shortened
<1>4. \A e \in S : ~(e.do \in {"unloaded", "clear", "loaded"})
  BY <1>1, <1>2, <1>3 DEF Before, Rank, Assigns
<1> HIDE DEF R, S
<1>5. \A e : e.do # "clear" => (e \in S <=> e \in R)
  BY <1>1, <1>3
<1>6. i \notin affectees
  <2>1. ~Due(R, "unloaded", i)
    BY <1>4, <1>5 DEF Due
  <2> QED BY <1>1, <1>2, <2>1 DEF Departing
<1>7. Seating(Of(agenda))'
  <2>1. \A j : Leaving(R, j) => Leaving(Of(agenda), j)'
    BY <1>1, <1>5 DEF Leaving, Due, S
  <2> QED BY <1>1, <1>2, <1>5, <2>1, SeatingKept DEF R, S
<1>8. Arriving(Of(agenda))'
  BY <1>4, ArrivingKept DEF S
<1>9. Departing(Of(agenda))'
  <2>1. \A g \in running : g \in affectees
    BY <1>2, <1>4, <1>5 DEF Departing, Due
  <2> QED BY <1>1, <1>4, <2>1 DEF Departing, S
<1>10. ASSUME ~strayed
       PROVE  Storing' /\ Keeping(Of(agenda))'
  <2>1. Storing'
    BY <1>1, <1>2, <1>10, StoringKept
  <2>2. /\ DOMAIN cache' = {c \in DOMAIN cache : c[1] # i}
        /\ \A c \in DOMAIN cache' : cache'[c] = cache[c]
    BY <1>1, <1>2 DEF Drop, TypeOK
  <2>3. Clean(Of(agenda))'
    <3> SUFFICES ASSUME NEW c \in DOMAIN cache'
                 PROVE  c[1] \in affectees /\ Right(c)'
      BY <1>1 DEF Clean
    <3>1. c \in DOMAIN cache /\ c[1] # i /\ cache'[c] = cache[c]
      BY <2>2
    <3>2. ~Due(R, "clear", c[1])
      BY <1>1, <1>3, <1>4, <3>1 DEF Due
    <3>3. c[1] \in affectees /\ Right(c)
      BY <1>2, <1>10, <3>1, <3>2 DEF Clean
    <3>4. \A r \in Reads(c, ActingOn(c[1])) : r \in DOMAIN cache' /\ cache'[r] = cache[r]
      BY <1>6, <2>2, <3>3, ReadsAre DEF Right
    <3>5. ActingOn(c[1])' = ActingOn(c[1]) /\ Resist(c[1])' = Resist(c[1])
      BY <1>1, FitSame DEF ActingOn, Resist, SolsysCarrier
    <3> QED BY <1>1, <3>1, <3>3, <3>4, <3>5, RightKept
  <2> QED BY <2>1, <2>3, CleanKeeps
<1> QED BY <1>1, <1>7, <1>8, <1>9, <1>10 DEF FreshInv

\* Messages about the projector's effect alone.
LEMMA ProjectorFresh ==
  ASSUME ProjInv, FreshInv, EffectsStarted \/ EffectsStopped
  PROVE  FreshInv'
<1> DEFINE R == Of(agenda)
           S == Of(agenda')
<1>1. /\ agenda # <<>> /\ Head(agenda).do \in {"started", "stopped"} /\ Then(<<>>)
      /\ UNCHANGED <<ship, fitted, local, cache, running, affectees, active, domain, tgts>>
      /\ UNCHANGED <<raised, strayed>>
  BY DEF EffectsStarted, EffectsStopped, Doing, fitVars, affection
<1>2. /\ ~raised /\ Seating(R) /\ Arriving(R) /\ Departing(R)
      /\ ~strayed => Storing /\ Clean(R)
  BY <1>1, AtHead
<1>3. S = Of(Tail(agenda)) /\ R = {Head(agenda)} \cup S
  BY <1>1, Shortened
<1> HIDE DEF R, S
<1>4. S \subseteq R /\ \A e : ~(e.do \in {"started", "stopped"}) => (e \in S <=> e \in R)
  BY <1>1, <1>3
<1>5. \A j : Due(R, "clear", j) => Due(S, "clear", j)
  BY <1>4 DEF Due
<1>6. Seating(Of(agenda))'
  <2>1. \A j : Leaving(R, j) => Leaving(Of(agenda), j)'
    BY <1>1, <1>4 DEF Leaving, Due, S
  <2> QED BY <1>1, <1>2, <1>4, <2>1, SeatingKept DEF R, S
<1>7. Arriving(Of(agenda))'
  BY <1>2, <1>4 DEF Arriving, S
<1>8. Departing(Of(agenda))'
  BY <1>1, <1>2, <1>4, DepartingKept DEF R, S
<1>9. ASSUME ~strayed
      PROVE  Storing' /\ Keeping(Of(agenda))'
  <2>1. Storing'
    BY <1>1, <1>2, <1>9, StoringKept
  <2>2. Clean(Of(agenda))'
    BY <1>1, <1>2, <1>5, <1>9, CleanKept DEF R, S
  <2> QED BY <2>1, <2>2, CleanKeeps
<1> QED BY <1>1, <1>6, <1>7, <1>8, <1>9 DEF FreshInv

\* Dropping values that are hit with a ship leaves the values that are read;
\* those left are on what other ships carry, and right if nothing else changes.
LEMMA DropKeeps ==
  ASSUME Placed, Acts, Placed', Acts', NEW s \in Ships, Drop(Hit(s)),
         UNCHANGED <<local, ship, fitted, affectees>>,
         \A g \in Guns, x \in Ships : x # s => (<<g, x>> \in tgts' <=> <<g, x>> \in tgts),
         NEW c \in DOMAIN cache', c[1] \in affectees, Right(c)
  PROVE  Right(c)'
<1>1. /\ DOMAIN cache' = DOMAIN cache \ Hit(s)
      /\ \A d \in DOMAIN cache' : cache'[d] = cache[d]
  BY DEF Drop
<1>2. c \in Cells /\ c \in DOMAIN cache /\ c \notin Hit(s)
  BY <1>1 DEF Placed, TypeOK
<1>3. \A r \in Reads(c, ActingOn(c[1])) : r \in DOMAIN cache' /\ cache'[r] = cache[r]
  BY <1>1, ReadsAre, HitsOnly DEF Right
<1>4. ASSUME c[2] = "hit"
      PROVE  ActingOn(c[1])' = ActingOn(c[1]) /\ Resist(c[1])' = Resist(c[1])
  <2> DEFINE i == c[1]
             x == SolsysCarrier(i)
  <2>1. i \in Ships \cup Gadgets /\ i \in Items /\ c = <<i, "hit">>
    BY <1>2, <1>4, CellsAre
  <2>2. x # s
    BY <1>2, <2>1, HitsHold DEF Hits
  <2>3. Aboard(i) /\ Aboard(i)' /\ SolsysCarrier(i)' = x
    BY FitSame DEF Placed, SolsysCarrier
  <2>4. x \in Ships \cup {None}
    <3>1. Home[i] \in Fits \/ i \in Ships
      BY <2>1, Kinds
    <3> QED BY <2>1, <3>1 DEF SolsysCarrier, Placed, TypeOK
  <2>5. \A g : <<g, None>> \notin tgts /\ <<g, None>> \notin tgts'
    BY Kinds DEF Placed, TypeOK, Items
  <2> HIDE DEF i, x
  <2>6. /\ ActingOn(i) = {g \in Guns : <<g, x>> \in tgts}
        /\ ActingOn(i)' = {g \in Guns : <<g, x>> \in tgts'}
    BY <2>1, <2>3 DEF Acts, x
  <2>7. ActingOn(i)' = ActingOn(i)
    BY <2>2, <2>4, <2>5, <2>6
  <2> QED BY <2>7 DEF Resist, SolsysCarrier, i
<1> QED BY <1>1, <1>3, <1>4, RightKept

\* _handle_effect_applied: a target that is loaded is stored and what it
\* carries loses its values.
LEMMA AppliedFresh ==
  ASSUME ProjInv, FreshInv, EffectApplied, ProjInv'
  PROVE  FreshInv'
<1> DEFINE g == Head(agenda).item
           s == Head(agenda).ship
           n == News(Hit(s))
           X == Of(Tail(agenda))
           R == Of(agenda)
           S == Of(agenda')
<1>1. /\ agenda # <<>> /\ Head(agenda).do = "applied" /\ Then(n) /\ Drop(Hit(s))
      /\ active' = active \cup (Reached(s) \X {g})
      /\ domain' = domain \cup {<<Fit(s), g>>} /\ tgts' = tgts \cup {<<g, s>>}
      /\ UNCHANGED <<ship, fitted, local, running, affectees, raised>>
      /\ strayed' = (strayed \/ s \notin affectees)
  BY DEF EffectApplied, Doing, fitVars
<1>2. /\ ~raised /\ Placed /\ Seating(R) /\ Arriving(R) /\ Departing(R) /\ R \subseteq Entries
      /\ Head(agenda) \in R /\ \A e \in X : Before(Head(agenda), e)
      /\ R = {Head(agenda)} \cup X
      /\ ~strayed => Storing /\ Acts /\ Clean(R)
  BY <1>1, AtHead
<1>3. \A e : e.do # "changed" => (e \in S <=> e \in X)
  <2>1. n \in Seq(Entries) /\ InTurn(n) /\ \A e \in Of(n) : e.do = "changed"
    BY <1>1, AtHead, NewsAre
  <2> HIDE DEF n
  <2> QED BY <1>1, <2>1, Announced
<1>4. g \in Guns /\ s \in Ships
  BY <1>1, <1>2 DEF Entries
<1>5. \A e \in X : e.do = "load"
  BY <1>1, <1>2 DEF Before, Rank, Assigns, Entries
<1>6. g \in running
  BY <1>1, <1>2, Under DEF Targeting
<1> HIDE DEF R, S, X, n
<1>7. /\ \A e \in S : e.do \in {"changed", "load"}
      /\ \A e \in R : e.do \in {"applied", "load"}
      /\ \A e : e.do \notin {"changed", "applied"} => (e \in S <=> e \in R)
  BY <1>1, <1>2, <1>3, <1>5
<1>8. Seating(Of(agenda))'
  BY <1>1, <1>2, <1>7, SeatingKept DEF R, S
<1>9. Arriving(Of(agenda))'
  BY <1>7, ArrivingKept DEF S
<1>10. Departing(Of(agenda))'
  BY <1>1, <1>2, <1>7, DepartingKept DEF R, S
<1>11. ASSUME ~strayed'
       PROVE  Storing' /\ Keeping(Of(agenda))'
  <2>1. ~strayed /\ s \in affectees /\ g \in affectees
    BY <1>1, <1>2, <1>6, <1>7, <1>11 DEF Departing, Due
  <2>2. Storing /\ Acts /\ Clean(R)
    BY <1>2, <2>1
  <2> HIDE DEF g, s
  <2>3. Storing'
    <3>1. active' = active \cup {<<s, g>>}
      BY <1>1, <2>1 DEF Reached
    <3> DEFINE p == <<g, s>>
    <3>2. tgts' = tgts \cup {p} /\ p[1] = g /\ p[2] = s
      BY <1>1
    <3> HIDE DEF p
    <3>3. active' = {<<q[2], q[1]>> : q \in tgts'}
      BY <2>2, <3>1, <3>2 DEF Storing
    <3>4. domain' = {<<Fit(q[2]), q[1]>> : q \in tgts'}
      BY <1>1, <2>2, <3>2 DEF Storing
    <3>5. \A q \in tgts' : Fit(q[2])' = Fit(q[2])
      BY <1>1, FitSame
    <3>6. \A q \in tgts' : q[1] \in affectees' /\ q[2] \in affectees'
      BY <1>1, <2>1, <2>2, <3>2 DEF Storing
    <3> QED BY <3>3, <3>4, <3>5, <3>6 DEF Storing
  <2>4. Placed'
    BY <1>1, <1>2, FitSame DEF Placed, Alone, ProjInv, Typed
  <2>5. Acts'
    BY <2>3, <2>4, ActsAfter
  <2>6. Clean(Of(agenda))'
    <3> SUFFICES ASSUME NEW c \in DOMAIN cache'
                 PROVE  c[1] \in affectees /\ Right(c)'
      BY <1>1 DEF Clean
    <3>1. c \in DOMAIN cache
      BY <1>1 DEF Drop
    <3>2. c[1] \in affectees /\ Right(c)
      BY <1>7, <2>2, <3>1 DEF Clean, Due
    <3>3. \A h \in Guns, x \in Ships : x # s => (<<h, x>> \in tgts' <=> <<h, x>> \in tgts)
      BY <1>1
    <3> QED BY <1>1, <1>2, <1>4, <2>2, <2>4, <2>5, <3>2, <3>3, DropKeeps DEF g, s
  <2> QED BY <2>3, <2>6, CleanKeeps
<1> QED BY <1>1, <1>8, <1>9, <1>10, <1>11 DEF FreshInv

\* _handle_effect_unapplied: the specs of the target go, and what the target
\* carries loses its values.
LEMMA UnappliedFresh ==
  ASSUME ProjInv, FreshInv, EffectUnapplied, ProjInv'
  PROVE  FreshInv'
<1> DEFINE g == Head(agenda).item
           s == Head(agenda).ship
           n == News(Hit(s))
           X == Of(Tail(agenda))
           R == Of(agenda)
           S == Of(agenda')
<1>1. /\ agenda # <<>> /\ Head(agenda).do = "unapplied" /\ Then(n) /\ Drop(Hit(s))
      /\ active' = active \ (Reached(s) \X {g})
      /\ domain' = domain \ {<<Fit(s), g>>} /\ tgts' = tgts \ {<<g, s>>}
      /\ UNCHANGED <<ship, fitted, local, running, affectees, raised, strayed>>
  BY DEF EffectUnapplied, Doing, fitVars
<1>2. /\ ~raised /\ Placed /\ Seating(R) /\ Arriving(R) /\ Departing(R) /\ R \subseteq Entries
      /\ Head(agenda) \in R /\ R = {Head(agenda)} \cup X
      /\ ~strayed => Storing /\ Acts /\ Clean(R)
  BY <1>1, AtHead
<1>3. \A e : e.do # "changed" => (e \in S <=> e \in X)
  <2>1. n \in Seq(Entries) /\ InTurn(n) /\ \A e \in Of(n) : e.do = "changed"
    BY <1>1, AtHead, NewsAre
  <2> HIDE DEF n
  <2> QED BY <1>1, <2>1, Announced
<1>4. g \in Guns /\ s \in Ships
  BY <1>1, <1>2 DEF Entries
<1> HIDE DEF R, S, X, n
<1>5. /\ \A e \in R : e.do # "loaded"
      /\ \A e : e.do \notin {"changed", "unapplied"} => (e \in S <=> e \in R)
  BY <1>1, <1>2, <1>3 DEF Arriving
<1>6. Seating(Of(agenda))'
  <2>1. \A j : Leaving(R, j) => Leaving(Of(agenda), j)'
    BY <1>1, <1>5 DEF Leaving, Due, S
  <2> QED BY <1>1, <1>2, <1>5, <2>1, SeatingKept DEF R, S
<1>7. Arriving(Of(agenda))'
  BY <1>5, ArrivingKept DEF S
<1>8. Departing(Of(agenda))'
  BY <1>1, <1>2, <1>5, DepartingKept DEF R, S
<1>9. ASSUME ~strayed
      PROVE  Storing' /\ Keeping(Of(agenda))'
  <2>1. Storing /\ Acts /\ Clean(R)
    BY <1>2, <1>9
  <2> HIDE DEF g, s
  <2>2. Storing'
    <3> DEFINE p == <<g, s>>
    <3>1. tgts' = tgts \ {p} /\ p[1] = g /\ p[2] = s
      BY <1>1
    <3>2. \A q \in tgts : /\ q = <<q[1], q[2]>> /\ q[2] \in Ships
                          /\ q[1] \in affectees /\ q[2] \in affectees /\ Aboard(q[2])
      BY <1>2, <2>1 DEF Placed, TypeOK, Storing
    <3>3. ASSUME NEW q \in tgts
          PROVE  Fit(q[2]) = Fit(s) /\ q[1] = g <=> q = p
      <4>1. Fit(q[2]) = Fit(s) => q[2] = s
        BY <1>4, <3>2, FitIs DEF Aboard, g, s
      <4> QED BY <3>2, <4>1
    <3>4. \A q \in tgts : <<q[2], q[1]>> = <<s, g>> <=> q = p
      BY <3>2
    <3> HIDE DEF p
    <3>5. active' = active \ {<<s, g>>}
      <4>1. <<s, g>> \in active => s \in affectees
        BY <2>1, <3>2 DEF Storing
      <4> QED BY <1>1, <4>1 DEF Reached
    <3>6. active' = {<<q[2], q[1]>> : q \in tgts'}
      BY <2>1, <3>1, <3>4, <3>5 DEF Storing
    <3>7. domain' = {<<Fit(q[2]), q[1]>> : q \in tgts'}
      BY <1>1, <2>1, <3>1, <3>3 DEF Storing
    <3>8. \A q \in tgts' : Fit(q[2])' = Fit(q[2])
      BY <1>1, FitSame
    <3>9. \A q \in tgts' : q[1] \in affectees' /\ q[2] \in affectees'
      BY <1>1, <3>1, <3>2
    <3> QED BY <3>6, <3>7, <3>8, <3>9 DEF Storing
  <2>3. Placed'
    BY <1>1, <1>2, FitSame DEF Placed, Alone, ProjInv, Typed
  <2>4. Acts'
    BY <2>2, <2>3, ActsAfter
  <2>5. Clean(Of(agenda))'
    <3> SUFFICES ASSUME NEW c \in DOMAIN cache'
                 PROVE  IF c[1] \in affectees THEN Right(c)' ELSE Due(S, "clear", c[1])
      BY <1>1 DEF Clean, S
    <3>1. c \in DOMAIN cache
      BY <1>1 DEF Drop
    <3>2. CASE c[1] \notin affectees
      BY <1>5, <2>1, <3>1, <3>2 DEF Clean, Due
    <3>3. CASE c[1] \in affectees
      <4>1. \A h \in Guns, x \in Ships : x # s => (<<h, x>> \in tgts' <=> <<h, x>> \in tgts)
        BY <1>1
      <4>2. Right(c)
        BY <2>1, <3>1, <3>3 DEF Clean
      <4> QED BY <1>1, <1>2, <1>4, <2>1, <2>3, <2>4, <3>3, <4>1, <4>2, DropKeeps DEF g, s
    <3> QED BY <3>2, <3>3
  <2> QED BY <2>2, <2>5, CleanKeeps
<1> QED BY <1>1, <1>6, <1>7, <1>8, <1>9 DEF FreshInv

\* _revise_regular_attr_dependents: what the message speaks of is dropped.
LEMMA ChangedFresh ==
  ASSUME ProjInv, FreshInv, AttrsValueChanged
  PROVE  FreshInv'
<1> DEFINE h == Head(agenda)
           stale == Dependents(h.cells)
           n == News(stale)
           nn == n \o n
           X == Of(Tail(agenda))
           R == Of(agenda)
           S == Of(agenda')
<1>1. /\ agenda # <<>> /\ h.do = "changed" /\ Then(nn) /\ Drop(stale)
      /\ UNCHANGED <<ship, fitted, local, running, affectees, active, domain, tgts>>
      /\ UNCHANGED <<raised, strayed>>
  BY DEF AttrsValueChanged, Doing, fitVars, affection, projection
<1>2. /\ ~raised /\ Placed /\ Seating(R) /\ Arriving(R) /\ Departing(R)
      /\ h \in R /\ R = {h} \cup X
      /\ ~strayed => Storing /\ Keeping(R)
  BY <1>1, AtHead
<1>3. X \subseteq S /\ \A e : e.do # "changed" => (e \in S <=> e \in X)
  <2>1. n \in Seq(Entries) /\ InTurn(n) /\ \A e \in Of(n) : e.do = "changed"
    BY <1>1, AtHead, NewsAre
  <2> HIDE DEF n
  <2>2. \A x, y \in Of(n) : Before(x, y)
    BY <2>1 DEF Before, Rank
  <2>3. nn \in Seq(Entries) /\ InTurn(nn) /\ Of(nn) = Of(n)
    BY <2>1, <2>2, Joined
  <2> HIDE DEF nn
  <2>4. X \subseteq Entries
    BY <1>1, AtHead
  <2>5. \A a \in Of(nn), b \in X : Before(a, b)
    BY <2>1, <2>3, <2>4 DEF Before, Rank, Entries, Assigns
  <2>6. S = Of(nn) \cup X
    BY <1>1, <2>3, <2>5, Passed
  <2> QED BY <2>1, <2>3, <2>6
<1> HIDE DEF R, S, X, n
<1>4. /\ \A e \in R : e.do # "loaded"
      /\ \A e : e.do # "changed" => (e \in S <=> e \in R)
  BY <1>1, <1>2, <1>3 DEF Arriving
<1>5. Seating(Of(agenda))'
  <2>1. \A j : Leaving(R, j) => Leaving(Of(agenda), j)'
    BY <1>1, <1>4 DEF Leaving, Due, S
  <2> QED BY <1>1, <1>2, <1>4, <2>1, SeatingKept DEF R, S
<1>6. Arriving(Of(agenda))'
  BY <1>4, ArrivingKept DEF S
<1>7. Departing(Of(agenda))'
  BY <1>1, <1>2, <1>4, DepartingKept DEF R, S
<1>8. ASSUME ~strayed
      PROVE  Storing' /\ Keeping(Of(agenda))'
  <2>1. Storing'
    BY <1>1, <1>2, <1>8, StoringKept
  <2>2. \A cells : Dependents(cells)' = Dependents(cells)
    BY <1>1, DependentsSame
  <2>3. /\ DOMAIN cache' = DOMAIN cache \ stale
        /\ \A c \in DOMAIN cache' : cache'[c] = cache[c]
    BY <1>1 DEF Drop
  <2>4. Keeping(Of(agenda))'
    <3> SUFFICES ASSUME NEW c \in DOMAIN cache'
                 PROVE  IF c[1] \in affectees
                        THEN Right(c)' \/ \E e \in S : e.do = "changed" /\ c \in Dependents(e.cells)
                        ELSE Due(S, "clear", c[1])
      BY <1>1, <2>2 DEF Keeping, S
    <3>1. c \in DOMAIN cache /\ c \notin stale
      BY <2>3
    <3>2. CASE c[1] \notin affectees
      <4>1. Due(R, "clear", c[1])
        BY <1>2, <1>8, <3>1, <3>2 DEF Keeping
      <4> QED BY <1>4, <3>2, <4>1 DEF Due
    <3>3. CASE c[1] \in affectees /\ Right(c)
      <4>1. \A r \in Reads(c, ActingOn(c[1])) : r \in DOMAIN cache' /\ cache'[r] = cache[r]
        BY <2>3, <3>3, ReadsAre, HitsOnly DEF Right
      <4>2. ActingOn(c[1])' = ActingOn(c[1]) /\ Resist(c[1])' = Resist(c[1])
        BY <1>1, FitSame DEF ActingOn, Resist, SolsysCarrier
      <4> QED BY <1>1, <2>3, <3>3, <4>1, <4>2, RightKept
    <3>4. CASE c[1] \in affectees /\ ~Right(c)
      <4>1. PICK e \in R : e.do = "changed" /\ c \in Dependents(e.cells)
        BY <1>2, <1>8, <3>1, <3>4 DEF Keeping
      <4>2. e \in X
        BY <1>2, <3>1, <4>1
      <4> QED BY <1>3, <3>4, <4>1, <4>2
    <3> QED BY <3>2, <3>3, <3>4
  <2> QED BY <2>1, <2>4
<1> QED BY <1>1, <1>5, <1>6, <1>7, <1>8 DEF FreshInv

\* _handle_item_loaded: nothing acted on what the item carries.
LEMMA LoadedFresh ==
  ASSUME ProjInv, FreshInv, ItemLoaded, ProjInv'
  PROVE  FreshInv'
<1> SUFFICES ASSUME ~raised' PROVE FreshInv'
  BY DEF FreshInv
<1> DEFINE i == Head(agenda).item
           R == Of(agenda)
           S == Of(agenda')
<1>1. /\ agenda # <<>> /\ Head(agenda).do = "loaded" /\ Then(<<>>)
      /\ affectees' = affectees \cup {i}
      /\ UNCHANGED <<ship, fitted, local, cache, running, active, domain, tgts, strayed>>
  BY DEF ItemLoaded, Doing, fitVars
<1>2. /\ Placed /\ Seating(R) /\ Arriving(R) /\ Departing(R)
      /\ Head(agenda) \in R /\ \A e \in Of(Tail(agenda)) : Before(Head(agenda), e)
      /\ ~strayed => Storing /\ Acts /\ Clean(R)
  BY <1>1, AtHead
<1>3. S = Of(Tail(agenda)) /\ R = {Head(agenda)} \cup S
  BY <1>1, Shortened
<1> HIDE DEF R, S
<1>4. /\ \A e \in R : e.do \in {"loaded", "started", "applied", "load"}
      /\ \A e \in S : e \in R /\ e.do \in {"started", "applied", "load"}
  BY <1>1, <1>2, <1>3 DEF Arriving, Before, Rank
<1>5. Aboard(i)
  BY <1>1, <1>2 DEF Seating
<1>6. Seating(Of(agenda))'
  BY <1>1, <1>2, <1>4, <1>5, SeatingKept DEF R, S
<1>7. Arriving(Of(agenda))'
  BY <1>4, ArrivingKept DEF S
<1>8. Departing(Of(agenda))'
  <2>1. \A g : Due(R, "loaded", g) => g = i
    BY <1>3, <1>4 DEF Due
  <2>2. \A g \in running : g \in affectees'
    BY <1>1, <1>2, <2>1 DEF Departing
  <2> QED BY <1>1, <1>4, <2>2 DEF Departing, S
<1>9. ASSUME ~strayed
      PROVE  Storing' /\ Keeping(Of(agenda))'
  <2>1. Storing /\ Acts /\ Clean(R)
    BY <1>2, <1>9
  <2>2. Storing'
    BY <1>1, <2>1, FitSame DEF Storing
  <2>3. Placed'
    BY <1>1, <1>2, <1>5, FitSame DEF Placed, Alone, ProjInv, Typed
  <2>4. Acts'
    BY <2>2, <2>3, ActsAfter
  <2>5. Clean(Of(agenda))'
    <3> SUFFICES ASSUME NEW c \in DOMAIN cache
                 PROVE  c[1] \in affectees' /\ Right(c)'
      BY <1>1 DEF Clean
    <3>1. c[1] \in affectees /\ Right(c)
      BY <1>4, <2>1 DEF Clean, Due
    <3>2. \A r \in Reads(c, ActingOn(c[1])) : r \in DOMAIN cache' /\ cache'[r] = cache[r]
      BY <1>1, <3>1 DEF Right
    <3>3. ASSUME c[2] = "hit"
          PROVE  /\ ActingOn(c[1])' = ActingOn(c[1])
                 /\ ActingOn(c[1]) # {} => Resist(c[1])' = Resist(c[1])
      <4> DEFINE j == c[1]
      <4>1. j \in Ships \cup Gadgets
        BY <1>2, <3>3, CellsAre DEF Placed, TypeOK
      <4>2. Aboard(j) /\ Aboard(j)' /\ SolsysCarrier(j)' = SolsysCarrier(j)
        BY <1>1, <1>2, <3>1, FitSame DEF Placed, SolsysCarrier
      <4> HIDE DEF j
      <4>3. /\ ActingOn(j) = {g \in Guns : <<g, SolsysCarrier(j)>> \in tgts}
            /\ ActingOn(j)' = ActingOn(j)
        BY <1>1, <2>1, <2>4, <4>1, <4>2 DEF Acts
      <4>4. ActingOn(j) # {} => SolsysCarrier(j) \in affectees
        BY <2>1, <4>3 DEF Storing
      <4>5. SolsysCarrier(j) \in affectees => Resist(j)' = Resist(j)
        BY <1>1, <4>2 DEF Resist
      <4> QED BY <4>3, <4>4, <4>5 DEF j
    <3> QED BY <1>1, <3>1, <3>2, <3>3, RightKept
  <2> QED BY <2>2, <2>5, CleanKeeps
<1> QED BY <1>1, <1>6, <1>7, <1>8, <1>9 DEF FreshInv

\* _handle_item_unloaded: unless a target is left, nothing has acted with the
\* item or on what it carries.
LEMMA UnloadedFresh ==
  ASSUME ProjInv, FreshInv, ItemUnloaded, ProjInv'
  PROVE  FreshInv'
<1> DEFINE i == Head(agenda).item
           R == Of(agenda)
           S == Of(agenda')
<1>1. /\ agenda # <<>> /\ Head(agenda).do = "unloaded" /\ Then(<<>>)
      /\ affectees' = affectees \ {i} /\ active' = {p \in active : p[1] # i}
      /\ strayed' = (strayed \/ \E p \in tgts : p[2] = i)
      /\ UNCHANGED <<ship, fitted, local, cache, running, domain, tgts, raised>>
  BY DEF ItemUnloaded, Doing, fitVars
<1>2. /\ ~raised /\ Placed /\ Seating(R) /\ Arriving(R) /\ Departing(R)
      /\ Head(agenda) \in R /\ \A e \in Of(Tail(agenda)) : Before(Head(agenda), e)
      /\ ~strayed => Storing /\ Acts /\ Clean(R)
  BY <1>1, AtHead
<1>3. S = Of(Tail(agenda)) /\ R = {Head(agenda)} \cup S
  BY <1>1, Shortened
<1>4. \A e \in S : e.do \notin {"unapplied", "unloaded", "loaded"}
  BY <1>1, <1>2, <1>3 DEF Before, Rank, Assigns
<1>5. Targeting(R)
  BY <1>1, Under
<1> HIDE DEF R, S
<1>6. /\ S \subseteq R /\ \A e : e.do # "unloaded" => (e \in S <=> e \in R)
      /\ \A j : Due(R, "unloaded", j) => j = i
      /\ \A j : Due(R, "clear", j) => Due(S, "clear", j)
  BY <1>1, <1>3, <1>4 DEF Due
<1>7. i \notin running /\ Due(S, "clear", i)
  BY <1>1, <1>2, <1>6 DEF Departing
<1>8. Seating(Of(agenda))'
  <2>1. \A j : Leaving(R, j) => Leaving(Of(agenda), j)'
    <3>1. \A j : Due(R, "unload", j) => Due(S, "unload", j)
      BY <1>6 DEF Due
    <3> QED BY <1>1, <1>6, <3>1 DEF Leaving, S
  <2>2. \A j \in affectees' : j \in affectees
    BY <1>1
  <2> QED BY <1>1, <1>2, <1>4, <1>6, <2>1, <2>2, SeatingKept DEF R, S
<1>9. Arriving(Of(agenda))'
  BY <1>4, ArrivingKept DEF S
<1>10. Departing(Of(agenda))'
  <2>1. \A g \in running : g \in affectees'
    BY <1>1, <1>2, <1>4, <1>6, <1>7 DEF Departing, Due
  <2>2. \A d \in S : d.do = "clear" => d.item \notin affectees'
    BY <1>1, <1>2, <1>6 DEF Departing
  <2> QED BY <1>1, <1>4, <2>1, <2>2 DEF Departing, S
<1>11. ASSUME ~strayed'
       PROVE  Storing' /\ Keeping(Of(agenda))'
  <2>1. Storing /\ Acts /\ Clean(R) /\ \A p \in tgts : p[2] # i
    BY <1>1, <1>2, <1>11
  <2>2. \A p \in tgts : p[1] # i /\ p = <<p[1], p[2]>> /\ p[1] \in Guns /\ p[2] \in Ships
    <3>1. \A g, s : ~DueOn(R, "unapplied", g, s)
      BY <1>4, <1>6 DEF DueOn
    <3>2. ASSUME NEW g \in Guns, NEW s \in Ships, <<g, s>> \in tgts
          PROVE  g # i
      BY <1>5, <1>7, <3>1, <3>2 DEF Targeting
    <3> QED BY <1>2, <3>2 DEF Placed, TypeOK
  <2>3. Storing'
    <3>1. active' = active
      BY <1>1, <2>1 DEF Storing
    <3> QED BY <1>1, <2>1, <2>2, <3>1, FitSame DEF Storing
  <2>4. Placed'
    BY <1>1, <1>2, FitSame DEF Placed, Alone, ProjInv, Typed
  <2>5. Acts'
    BY <2>3, <2>4, ActsAfter
  <2>6. Clean(Of(agenda))'
    <3> SUFFICES ASSUME NEW c \in DOMAIN cache
                 PROVE  IF c[1] \in affectees' THEN Right(c)' ELSE Due(S, "clear", c[1])
      BY <1>1 DEF Clean, S
    <3>1. CASE c[1] \notin affectees'
      <4>1. c[1] = i \/ Due(R, "clear", c[1])
        BY <1>1, <2>1, <3>1 DEF Clean
      <4> QED BY <1>6, <1>7, <3>1, <4>1
    <3>2. CASE c[1] \in affectees'
      <4> DEFINE j == c[1]
      <4>1. j \in affectees /\ Right(c)
        BY <1>1, <2>1, <3>2 DEF Clean
      <4>2. \A r \in Reads(c, ActingOn(j)) : r \in DOMAIN cache' /\ cache'[r] = cache[r]
        BY <1>1, <4>1 DEF Right
      <4>3. ASSUME c[2] = "hit"
            PROVE  /\ ActingOn(j)' = ActingOn(j)
                   /\ ActingOn(j) # {} => Resist(j)' = Resist(j)
        <5>1. j \in Ships \cup Gadgets
          BY <1>2, <4>3, CellsAre DEF Placed, TypeOK
        <5>2. Aboard(j) /\ Aboard(j)' /\ SolsysCarrier(j)' = SolsysCarrier(j)
          BY <1>1, <1>2, <4>1, FitSame DEF Placed, SolsysCarrier
        <5> HIDE DEF j
        <5>3. /\ ActingOn(j) = {g \in Guns : <<g, SolsysCarrier(j)>> \in tgts}
              /\ ActingOn(j)' = ActingOn(j)
          BY <1>1, <2>1, <2>5, <5>1, <5>2 DEF Acts
        <5>4. ActingOn(j) # {} => SolsysCarrier(j) # i
          BY <2>1, <5>3
        <5>5. SolsysCarrier(j) # i => Resist(j)' = Resist(j)
          BY <1>1, <5>2 DEF Resist
        <5> QED BY <5>3, <5>4, <5>5
      <4> QED BY <1>1, <3>2, <4>1, <4>2, <4>3, RightKept
    <3> QED BY <3>1, <3>2
  <2> QED BY <2>3, <2>6, CleanKeeps
<1> QED BY <1>1, <1>8, <1>9, <1>10, <1>11 DEF FreshInv

\* A ship or an item that nothing loaded is carried by or is takes its place
\* or leaves it: what is loaded keeps its fit.
LEMMA RefitKeeps ==
  ASSUME Placed, Storing, \A i \in affectees : Fit(i)' = Fit(i),
         \A i \in affectees : Resist(i)' = Resist(i),
         UNCHANGED <<local, cache, affectees, active, domain, tgts>>,
         \A c \in DOMAIN cache : c[1] \in affectees /\ Right(c)
  PROVE  Storing' /\ Clean(Of(agenda))'
<1>1. Storing'
  <2>1. \A p \in tgts : p[2] \in affectees /\ Fit(p[2])' = Fit(p[2])
    BY DEF Storing
  <2> QED BY <2>1 DEF Storing
<1>2. ASSUME NEW c \in DOMAIN cache
      PROVE  Right(c)'
  <2>1. c[1] \in affectees /\ Right(c)
    BY <1>2
  <2>2. ActingOn(c[1])' = ActingOn(c[1]) /\ Resist(c[1])' = Resist(c[1])
    BY <2>1 DEF ActingOn
  <2>3. Reads(c, ActingOn(c[1])) \subseteq DOMAIN cache
    BY <2>1 DEF Right
  <2> QED BY <2>1, <2>2, <2>3, RightKept
<1> QED BY <1>1, <1>2 DEF Clean

\* What an assignment finds: nothing is loaded, unloaded or cleared any more.
LEMMA AtAssign ==
  ASSUME ProjInv, FreshInv, Assign
  PROVE  /\ Placed /\ ~raised /\ Seating(Of(agenda)) /\ Presence(Of(agenda))
         /\ Head(agenda) \in Of(agenda) /\ Head(agenda) \in Entries
         /\ Head(agenda).do \in Assigns
         /\ Of(agenda) = {Head(agenda)} \cup Of(agenda')
         /\ Of(agenda) \subseteq Entries
         /\ \A e \in Of(agenda') : e.do \in {"applied", "load"}
         /\ \A i : Leaving(Of(agenda), i) => i \notin affectees
         /\ Arriving(Of(agenda))' /\ Departing(Of(agenda))'
         /\ ~strayed => Storing /\ \A c \in DOMAIN cache : c[1] \in affectees /\ Right(c)
         /\ UNCHANGED <<local, cache, affectees, active, domain, tgts, raised, strayed>>
<1> DEFINE R == Of(agenda)
           S == Of(agenda')
<1>1. /\ agenda # <<>> /\ Head(agenda).do \in Assigns /\ Then(<<>>)
      /\ UNCHANGED <<local, cache, running, affectees, active, domain, tgts, raised, strayed>>
  BY DEF Assign, Doing, affection, projection, Assigns
<1>2. /\ ~raised /\ Placed /\ Seating(R) /\ Departing(R) /\ Head(agenda) \in R
      /\ R \subseteq Entries /\ \A e \in Of(Tail(agenda)) : Before(Head(agenda), e)
      /\ ~strayed => Storing /\ Clean(R)
  BY <1>1, AtHead DEF Assigns
<1>3. S = Of(Tail(agenda)) /\ R = {Head(agenda)} \cup S
  BY <1>1, Shortened
<1>4. Presence(R)
  BY <1>1, Under
<1> HIDE DEF R, S
<1>5. \A e \in S : e.do \in {"applied", "load"}
  BY <1>1, <1>2, <1>3 DEF Before, Rank, Assigns, Entries
<1>6. \A j : /\ ~Due(R, "unload", j) /\ ~Due(R, "unloaded", j)
            /\ ~Due(R, "clear", j) /\ ~Due(R, "loaded", j)
  BY <1>1, <1>3, <1>5 DEF Due, Assigns
<1>7. \A i : Leaving(R, i) => i \notin affectees
  BY <1>6 DEF Leaving
<1>8. Arriving(Of(agenda))' /\ Departing(Of(agenda))'
  <2>1. Arriving(Of(agenda))'
    BY <1>5, ArrivingKept DEF S
  <2>2. \A g \in running : g \in affectees
    BY <1>2, <1>6 DEF Departing
  <2> QED BY <1>1, <1>5, <2>1, <2>2 DEF Departing, S
<1>9. ~strayed => Storing /\ \A c \in DOMAIN cache : c[1] \in affectees /\ Right(c)
  BY <1>2, <1>6 DEF Clean
<1> QED BY <1>1, <1>2, <1>3, <1>4, <1>5, <1>7, <1>8, <1>9 DEF R, S

\* Fit.ship is assigned when the old ship is not loaded any more.
LEMMA ShipFresh ==
  ASSUME ProjInv, FreshInv, Assign, Head(agenda).do = "ship"
  PROVE  FreshInv'
<1> DEFINE h == Head(agenda)
           f == h.fit
           s == h.ship
           old == ship[f]
           R == Of(agenda)
           S == Of(agenda')
<1>1. /\ Placed /\ ~raised /\ Seating(R) /\ h \in R /\ h \in Entries
      /\ R = {h} \cup S /\ R \subseteq Entries
      /\ \A e \in S : e.do \in {"applied", "load"}
      /\ \A i : Leaving(R, i) => i \notin affectees
      /\ Arriving(Of(agenda))' /\ Departing(Of(agenda))'
      /\ ~strayed => Storing /\ \A c \in DOMAIN cache : c[1] \in affectees /\ Right(c)
      /\ UNCHANGED <<local, cache, affectees, active, domain, tgts, raised, strayed>>
  BY AtAssign
<1>2. ship' = [ship EXCEPT ![f] = s] /\ fitted' = fitted
  BY DEF Assign
<1>3. f \in Fits /\ s \in Ships \cup {None}
  BY <1>1 DEF Entries
<1>4. ship \in [Fits -> Ships \cup {None}] /\ affectees \subseteq Items /\ Alone
  BY <1>1 DEF Placed, TypeOK
<1> HIDE DEF R, S
<1>5. /\ s # None => ~Aboard(s)
      /\ old \notin affectees
      /\ \A d \in S : d.do = "load" => d.item = s /\ d.item \in Items
  <2>1. \A d \in S : d.do = "load" => d.item = s
    BY <1>1 DEF Seating
  <2>2. \A d \in S : d.do = "load" => d.item \in Items
    BY <1>1 DEF Entries
  <2>3. Leaving(R, old)
    BY <1>1 DEF Seating
  <2> QED BY <1>1, <2>1, <2>2, <2>3 DEF Seating
<1> HIDE DEF f, s, h, old
<1>6. s \notin affectees /\ None \notin affectees /\ (s # None => s \in Ships)
  BY <1>1, <1>3, <1>4, <1>5, Kinds DEF Placed
<1>7. s # None => \A g \in Fits : ship[g] # s
  BY <1>3, <1>4, <1>5, Kinds, FitIs DEF Aboard
<1>8. \A g, k \in Fits : ship'[g] = ship'[k] /\ ship'[g] # None => g = k
  BY <1>2, <1>3, <1>4, <1>7 DEF Alone
<1>9. Alone' /\ \A i \in Ships, g \in Fits : ship'[g] = i => Fit(i)' = g
  <2>1. Alone'
    BY <1>8 DEF Alone
  <2> QED BY <2>1, FitAfter
<1>10. \A i \in affectees : Aboard(i)
  BY <1>1 DEF Placed
<1>11. ASSUME NEW i \in affectees
       PROVE  Fit(i)' = Fit(i) /\ Resist(i)' = Resist(i)
  <2>1. CASE i \in Ships
    <3> DEFINE g == Fit(i)
    <3>1. g \in Fits /\ ship[g] = i
      BY <1>10, <2>1, FitIs
    <3>2. g # f
      BY <1>5, <3>1 DEF old
    <3> HIDE DEF g
    <3>3. ship'[g] = i
      BY <1>2, <1>3, <1>4, <3>1, <3>2
    <3>4. Fit(i)' = g
      BY <1>9, <2>1, <3>1, <3>3
    <3> QED BY <1>1, <2>1, <3>4 DEF g, Resist, SolsysCarrier
  <2>2. CASE i \notin Ships
    <3>1. Fit(i)' = Fit(i)
      BY <1>2, <2>2 DEF Fit
    <3>2. Home[i] \in Fits
      BY <1>4, <2>2, Kinds DEF Items
    <3> DEFINE g == Home[i]
    <3>3. Resist(i) = {<<ship[g], "resist">>} \cap (affectees \X {"resist"})
      BY <2>2 DEF Resist, SolsysCarrier
    <3>4. Resist(i)' = {<<ship'[g], "resist">>} \cap (affectees \X {"resist"})
      BY <1>1, <2>2 DEF Resist, SolsysCarrier
    <3> HIDE DEF g
    <3>5. CASE g = f
      <4>1. ship[g] = old /\ ship'[g] = s
        BY <1>2, <1>3, <1>4, <3>5 DEF old
      <4> QED BY <1>5, <1>6, <3>1, <3>3, <3>4, <4>1
    <3>6. CASE g # f
      <4>1. ship'[g] = ship[g]
        BY <1>2, <1>3, <1>4, <3>2, <3>6 DEF g
      <4> QED BY <3>1, <3>3, <3>4, <4>1
    <3> QED BY <3>5, <3>6
  <2> QED BY <2>1, <2>2
<1>12. Seating(Of(agenda))'
  <2>1. \A i \in affectees' : Aboard(i)'
    BY <1>1, <1>10, <1>11 DEF Aboard
  <2>2. \A i \in Ships : i = s => Aboard(i)'
    <3>1. ship'[f] = s
      BY <1>2, <1>3, <1>4
    <3>2. \A i \in Ships : i = s => Fit(i)' = f
      BY <1>3, <1>9, <3>1
    <3> QED BY <1>3, <3>2, Kinds DEF Aboard
  <2>3. \A d \in S : d.do = "load" => Aboard(d.item)'
    BY <1>5, <1>6, <2>2, Kinds
  <2> QED BY <1>1, <1>8, <2>1, <2>3 DEF Seating, S
<1>13. ~strayed => Storing' /\ Keeping(Of(agenda))'
  BY <1>1, <1>11, RefitKeeps, CleanKeeps
<1> QED BY <1>1, <1>12, <1>13 DEF FreshInv

\* What goes off its fit is not loaded any more; source and targets are nothing
\* that values rest on.
LEMMA OtherFresh ==
  ASSUME ProjInv, FreshInv, Assign, Head(agenda).do # "ship"
  PROVE  FreshInv'
<1> DEFINE h == Head(agenda)
           R == Of(agenda)
           S == Of(agenda')
<1>1. /\ Placed /\ ~raised /\ Seating(R) /\ Presence(R) /\ h \in R
      /\ R = {h} \cup S /\ h.do \in Assigns
      /\ \A e \in S : e.do \in {"applied", "load"}
      /\ \A i : Leaving(R, i) => i \notin affectees
      /\ Arriving(Of(agenda))' /\ Departing(Of(agenda))'
      /\ ~strayed => Storing /\ \A c \in DOMAIN cache : c[1] \in affectees /\ Right(c)
      /\ UNCHANGED <<local, cache, affectees, active, domain, tgts, raised, strayed>>
  BY AtAssign
<1>2. ship' = ship /\ fitted' = IF h.do = "off" THEN fitted \ {h.item} ELSE fitted
  BY DEF Assign
<1> HIDE DEF R, S, h
<1>3. h.do = "off" => h.item \notin affectees /\ \A d \in S : d.do # "load"
  <2>1. h.do = "off" => BeforeSwitch(R, h)
    BY <1>1 DEF Presence, Switches
  <2> QED BY <1>1, <2>1 DEF Seating, BeforeSwitch
<1>4. \A i : (h.do = "off" => i # h.item) => Fit(i)' = Fit(i) /\ (Aboard(i)' <=> Aboard(i))
  BY <1>2 DEF Fit, Aboard
<1>5. Seating(Of(agenda))'
  <2>1. \A i \in affectees' : Aboard(i)'
    BY <1>1, <1>3, <1>4 DEF Placed
  <2>2. \A d \in S : d.do = "load" => Aboard(d.item)'
    <3>1. \A e \in R : e.do # "ship"
      BY <1>1 DEF h
    <3>2. \A d \in S : d.do = "load" => Aboard(d.item)
      BY <1>1, <3>1 DEF Seating
    <3> QED BY <1>3, <1>4, <3>2
  <2>3. \A f, k \in Fits : ship'[f] = ship'[k] /\ ship'[f] # None => f = k
    BY <1>1, <1>2 DEF Seating
  <2> QED BY <1>1, <2>1, <2>2, <2>3 DEF Seating, S
<1>6. ~strayed => Storing' /\ Keeping(Of(agenda))'
  <2>1. \A i \in affectees : Fit(i)' = Fit(i) /\ Resist(i)' = Resist(i)
    BY <1>1, <1>2, <1>3, <1>4 DEF Resist, SolsysCarrier
  <2> QED BY <1>1, <2>1, RefitKeeps, CleanKeeps
<1> QED BY <1>1, <1>5, <1>6 DEF FreshInv
-----------------------------------------------------------------------------
(* What the user does. *)

\* Between calls a call is begun: values and registers stay as they are.
LEMMA CallFresh ==
  ASSUME ProjInv, FreshInv, Idle, raised' = raised, strayed' = strayed,
         UNCHANGED <<local, cache, affectees, active, domain, tgts, ship>>,
         \A i \in affectees : i \in fitted' <=> i \in fitted,
         \A g \in running' : g \in running \/ g \in affectees,
         \A e \in Of(agenda') : e.do \notin {"loaded", "unloaded", "clear"},
         \A d \in Of(agenda') : d.do = "load" =>
           Aboard(d.item)' \/ \E e \in Of(agenda') : e.do = "ship" /\ e.ship = d.item,
         \A e \in Of(agenda') : e.do = "ship" =>
           /\ e.ship # None => ~Aboard(e.ship)'
           /\ ship[e.fit] \in affectees => Due(Of(agenda'), "unload", ship[e.fit])
           /\ \A d \in Of(agenda') : d.do = "load" => d.item = e.ship,
         \A e \in Of(agenda') : e.do = "off" => Due(Of(agenda'), "unload", e.item)
  PROVE  FreshInv'
<1> DEFINE S == Of(agenda')
<1>1. /\ ~raised /\ Placed /\ running \subseteq affectees
      /\ ~strayed => Storing /\ \A c \in DOMAIN cache : c[1] \in affectees /\ Right(c)
  BY AtRest
<1>2. \A i \in affectees : Fit(i)' = Fit(i) /\ Resist(i)' = Resist(i)
  BY DEF Fit, Resist, SolsysCarrier
<1>3. Seating(Of(agenda))'
  <2>1. \A i \in affectees' : Aboard(i)'
    BY <1>1, <1>2 DEF Placed, Aboard
  <2>2. \A f, h \in Fits : ship'[f] = ship'[h] /\ ship'[f] # None => f = h
    BY <1>1 DEF Placed, Alone
  <2>3. \A e \in S : e.do = "ship" => Leaving(Of(agenda), ship[e.fit])'
    BY DEF Leaving
  <2>4. \A e \in S : e.do = "off" => Leaving(Of(agenda), e.item)'
    BY DEF Leaving
  <2> QED BY <2>1, <2>2, <2>3, <2>4 DEF Seating
<1>4. Arriving(Of(agenda))'
  BY ArrivingKept
<1>5. Departing(Of(agenda))'
  BY <1>1 DEF Departing
<1>6. ~strayed => Storing' /\ Keeping(Of(agenda))'
  BY <1>1, <1>2, RefitKeeps, CleanKeeps
<1> QED BY <1>3, <1>4, <1>5, <1>6 DEF FreshInv

\* Fit.ship
LEMMA SetShipFresh ==
  ASSUME ProjInv, FreshInv, NEW f \in Fits, NEW s \in Ships \cup {None}, SetShip(f, s)
  PROVE  FreshInv'
<1> DEFINE old == ship[f]
           e == [do |-> "ship", fit |-> f, ship |-> s]
           u == Step("unload", old)
           l == Step("load", s)
           A == IF old = None THEN <<>> ELSE <<u>>
           B == IF s = None THEN <<>> ELSE <<l>>
           S == Of(agenda')
<1>1. /\ Idle /\ (s # None => Fit(s) = None) /\ agenda' = A \o <<e>> \o B
      /\ UNCHANGED <<ship, fitted, running, local, cache, affectees, active, domain, tgts>>
      /\ UNCHANGED <<raised, strayed>>
  BY DEF SetShip, Begin, Untouched, affection, projection
<1>2. Placed
  BY <1>1, AtRest
<1>3. \A d \in S : (d = u /\ old # None) \/ d = e \/ (d = l /\ s # None)
  BY <1>1 DEF Of
<1>4. /\ e \in S /\ e.do = "ship" /\ e.fit = f /\ e.ship = s
      /\ old # None => u \in S
      /\ u.do = "unload" /\ u.item = old /\ l.do = "load" /\ l.item = s
  BY <1>1 DEF Of, Step
<1> HIDE DEF e, u, l, S, A, B, old
<1>5. old \in affectees => Due(S, "unload", old)
  BY <1>2, <1>4, Kinds DEF Due, Placed, TypeOK
<1>6. \A d \in S : d.do \in {"unload", "ship", "load"}
  BY <1>3, <1>4
<1>7. \A d \in S : d.do = "load" => \E x \in S : x.do = "ship" /\ x.ship = d.item
  BY <1>3, <1>4
<1>8. \A d \in S : d.do = "ship" =>
        /\ d.ship # None => ~Aboard(d.ship)
        /\ ship[d.fit] \in affectees => Due(S, "unload", ship[d.fit])
        /\ \A x \in S : x.do = "load" => x.item = d.ship
  BY <1>1, <1>3, <1>4, <1>5 DEF Aboard, old
<1>9. \A i : Aboard(i)' <=> Aboard(i)
  BY <1>1, FitSame
<1> QED BY <1>1, <1>6, <1>7, <1>8, <1>9, CallFresh DEF S

\* ItemList.append
LEMMA AddFresh ==
  ASSUME ProjInv, FreshInv, NEW i \in Guns \cup Gadgets, AddItem(i)
  PROVE  FreshInv'
<1> DEFINE l == Step("load", i)
           S == Of(agenda')
<1>1. /\ Idle /\ i \notin fitted /\ fitted' = fitted \cup {i} /\ agenda' = <<l>>
      /\ UNCHANGED <<ship, running, local, cache, affectees, active, domain, tgts>>
      /\ UNCHANGED <<raised, strayed>>
  BY DEF AddItem, Begin, affection, projection
<1>2. \A d \in S : d.do = "load" /\ d.item = i
  BY <1>1 DEF Of, Step
<1>3. Aboard(i)'
  <2>1. Home[i] \in Fits /\ i \notin Ships
    BY Kinds
  <2> QED BY <1>1, <2>1, Kinds DEF Aboard, Fit
<1>4. i \notin affectees
  <2>1. Aboard(i) => i \in fitted
    BY FitIs
  <2> QED BY <1>1, <2>1, AtRest DEF Placed
<1> HIDE DEF S, l
<1> QED BY <1>1, <1>2, <1>3, <1>4, CallFresh DEF S

\* ItemList.remove
LEMMA RemoveFresh ==
  ASSUME ProjInv, FreshInv, NEW i \in Guns \cup Gadgets, RemoveItem(i)
  PROVE  FreshInv'
<1> DEFINE u == Step("unload", i)
           o == Step("off", i)
           S == Of(agenda')
<1>1. /\ Idle /\ agenda' = <<u, o>>
      /\ UNCHANGED <<ship, fitted, running, local, cache, affectees, active, domain, tgts>>
      /\ UNCHANGED <<raised, strayed>>
  BY DEF RemoveItem, Begin, Untouched, affection, projection
<1>2. (\A d \in S : d = u \/ d = o) /\ u \in S
  BY <1>1 DEF Of
<1>3. u.do = "unload" /\ u.item = i /\ o.do = "off" /\ o.item = i
  BY DEF Step
<1> HIDE DEF S, u, o
<1>4. /\ \A d \in S : d.do \in {"unload", "off"}
      /\ \A d \in S : d.do = "off" => Due(S, "unload", d.item)
  BY <1>2, <1>3 DEF Due
<1> QED BY <1>1, <1>4, CallFresh DEF S

\* SolarSystem.source: all that gets loaded again is on a fit.
LEMMA SetSourceFresh ==
  ASSUME ProjInv, FreshInv, NEW s \in Sources \cup {None}, NEW order \in SetToSeqs(Fits),
         SetSource(s, order)
  PROVE  FreshInv'
<1> DEFINE e == Step("source", s)
           un == ForAll(order, "unload")
           lo == ForAll(order, "load")
           A == IF source = None THEN <<>> ELSE un
           B == IF s = None THEN <<>> ELSE lo
           S == Of(agenda')
<1>1. /\ Idle /\ agenda' = A \o <<e>> \o B
      /\ UNCHANGED <<ship, fitted, running, local, cache, affectees, active, domain, tgts>>
      /\ UNCHANGED <<raised, strayed>>
  BY DEF SetSource, Begin, Untouched, affection, projection
<1>2. Placed /\ TypeOK
  BY <1>1, AtRest DEF Placed
<1>3. e \in Entries /\ e.do = "source"
  BY DEF Step, Entries
<1>4. /\ un \in Seq(Entries) /\ InTurn(un) /\ \A d \in Of(un) : d.do = "unload"
      /\ lo \in Seq(Entries) /\ InTurn(lo)
      /\ \A d \in Of(lo) : d.do = "load" /\ d.item \in Seated \cup fitted
  BY <1>2, ForAllIs
<1> HIDE DEF e, un, lo
<1>5. /\ A \in Seq(Entries) /\ InTurn(A) /\ \A d \in Of(A) : d.do = "unload"
      /\ B \in Seq(Entries) /\ InTurn(B)
      /\ \A d \in Of(B) : d.do = "load" /\ d.item \in Seated \cup fitted
  BY <1>4, NothingLeft
<1> HIDE DEF A, B
<1>6. S = (Of(A) \cup {e}) \cup Of(B)
  <2>1. e.do \in Assigns
    BY <1>3 DEF Assigns
  <2> QED BY <1>1, <1>3, <1>5, <2>1, Framed
<1> HIDE DEF S
<1>7. \A d \in S : \/ d.do \in {"unload", "source"}
                   \/ d.do = "load" /\ d.item \in Seated \cup fitted
  BY <1>3, <1>5, <1>6
<1>8. \A i \in Seated \cup fitted : Aboard(i)'
  <2>1. \A i \in Seated : Aboard(i)
    <3>1. ASSUME NEW i \in Ships, NEW f \in Fits, ship[f] = i PROVE Aboard(i)
      BY <1>2, <3>1, FitIs, Kinds DEF Placed, Aboard
    <3> QED BY <3>1 DEF Seated
  <2>2. \A i \in fitted : i \notin Ships /\ Home[i] \in Fits
    BY <1>2, Kinds DEF TypeOK
  <2>3. \A i \in fitted : Aboard(i)
    BY <2>2, Kinds DEF Aboard, Fit
  <2> QED BY <1>1, <2>1, <2>3, FitSame
<1> QED BY <1>1, <1>7, <1>8, CallFresh DEF S

\* A call that only moves effects and targets leaves values as they are.
LEMMA AimFresh ==
  ASSUME ProjInv, FreshInv, Idle,
         UNCHANGED <<ship, fitted, local, cache, affectees, active, domain, tgts>>,
         raised' = raised, strayed' = strayed,
         \A g \in running' : g \in running \/ g \in affectees,
         \A d \in Of(agenda') : d.do \in {"applied", "unapplied", "started", "stopped", "target"}
  PROVE  FreshInv'
<1> DEFINE S == Of(agenda')
<1>1. \A d \in S : d.do \notin {"loaded", "unloaded", "clear", "load", "ship", "off"}
  OBVIOUS
<1> HIDE DEF S
<1> QED BY <1>1, CallFresh DEF S

\* MutableStateMixin.state of a gun
LEMMA SetStateFresh ==
  ASSUME ProjInv, FreshInv, NEW g \in Guns, SetState(g)
  PROVE  FreshInv'
<1> DEFINE S == Of(agenda')
           on == Applying("applied", g)
           out == Applying("unapplied", g)
           b == Step("started", g)
           e == Step("stopped", g)
           bs == <<b>>
           es == <<e>>
<1>1. /\ Idle
      /\ UNCHANGED <<ship, fitted, local, cache, affectees, active, domain, tgts>>
      /\ raised' = raised /\ strayed' = strayed
      /\ \/ g \notin affectees /\ running' = running /\ agenda' = <<>>
         \/ g \in affectees /\ running' = running \ {g} /\ agenda' = out \o es
         \/ g \in affectees /\ running' = running \cup {g} /\ agenda' = bs \o on
  BY DEF SetState, Begin, affection, projection
<1>2. TypeOK
  BY <1>1, AtRest DEF Placed
<1>3. /\ b \in Entries /\ b.do = "started" /\ e \in Entries /\ e.do = "stopped"
  BY DEF Step, Entries
<1>4. /\ on \in Seq(Entries) /\ InTurn(on) /\ \A d \in Of(on) : d.do = "applied"
      /\ out \in Seq(Entries) /\ InTurn(out) /\ \A d \in Of(out) : d.do = "unapplied"
  BY <1>2, ApplyingAre
<1> HIDE DEF b, e, on, out
<1>5. /\ bs \in Seq(Entries) /\ InTurn(bs) /\ Of(bs) = {b}
      /\ es \in Seq(Entries) /\ InTurn(es) /\ Of(es) = {e}
  BY <1>3, OneLeft
<1> HIDE DEF bs, es
<1>6. Of(out \o es) = Of(out) \cup {e}
  <2>1. \A x \in Of(out), y \in Of(es) : Before(x, y)
    BY <1>3, <1>4, <1>5 DEF Before, Rank
  <2> QED BY <1>4, <1>5, <2>1, Joined
<1>7. Of(bs \o on) = {b} \cup Of(on)
  <2>1. \A x \in Of(bs), y \in Of(on) : Before(x, y)
    BY <1>3, <1>4, <1>5 DEF Before, Rank, Assigns
  <2> QED BY <1>4, <1>5, <2>1, Joined
<1>8. S = {} \/ S = Of(out) \cup {e} \/ S = {b} \cup Of(on)
  BY <1>1, <1>6, <1>7, NothingLeft
<1> HIDE DEF S
<1>9. \A d \in S : d.do \in {"applied", "unapplied", "started", "stopped", "target"}
  BY <1>3, <1>4, <1>8
<1>10. \A h \in running' : h \in running \/ h \in affectees
  BY <1>1
<1> QED BY <1>1, <1>9, <1>10, AimFresh DEF S

\* SingleTargetableMixin.target
LEMMA SetTargetFresh ==
  ASSUME ProjInv, FreshInv, NEW g \in Guns, NEW s \in Ships \cup {None}, SetTarget(g, s)
  PROVE  FreshInv'
<1> DEFINE runs == g \in running
           e == Aimed("target", g, s)
           a == Aimed("applied", g, s)
           q == Applying("unapplied", g)
           A == IF runs THEN q ELSE <<>>
           goes == runs /\ s # None
           B == IF goes THEN <<a>> ELSE <<>>
           S == Of(agenda')
<1>1. /\ Idle /\ agenda' = A \o <<e>> \o B
      /\ UNCHANGED <<ship, fitted, running, local, cache, affectees, active, domain, tgts>>
      /\ raised' = raised /\ strayed' = strayed
  BY DEF SetTarget, Begin, Untouched, affection, projection
<1>2. TypeOK
  BY <1>1, AtRest DEF Placed
<1>3. e \in Entries /\ e.do = "target"
  BY DEF Aimed, Entries
<1>4. a.do = "applied" /\ (s # None => a \in Entries)
  BY DEF Aimed, Entries
<1>5. q \in Seq(Entries) /\ InTurn(q) /\ \A d \in Of(q) : d.do = "unapplied"
  BY <1>2, ApplyingAre
<1> HIDE DEF e, a, q
<1>6. A \in Seq(Entries) /\ InTurn(A) /\ \A d \in Of(A) : d.do = "unapplied"
  BY <1>5, NothingLeft
<1>7. B \in Seq(Entries) /\ InTurn(B) /\ \A d \in Of(B) : d.do = "applied"
  BY <1>4, NothingLeft, OneLeft
<1> HIDE DEF A, B
<1>8. S = (Of(A) \cup {e}) \cup Of(B)
  <2>1. e.do \in Assigns
    BY <1>3 DEF Assigns
  <2> QED BY <1>1, <1>3, <1>6, <1>7, <2>1, Framed
<1> HIDE DEF S
<1>9. \A d \in S : d.do \in {"applied", "unapplied", "started", "stopped", "target"}
  BY <1>3, <1>6, <1>7, <1>8
<1> QED BY <1>1, <1>9, AimFresh DEF S

\* What reads a changed value is hit by a gun that has it, or whose target has.
LEMMA ReadersDepend ==
  ASSUME ProjInv, Idle, Placed, Acts, NEW d \in Cells, d[1] \in affectees,
         NEW c \in Reads(d, ActingOn(d[1]))
  PROVE  d \in Dependents({c})
<1> DEFINE i == d[1]
           x == SolsysCarrier(i)
<1>1. d[2] = "hit" /\ i \in Ships \cup Gadgets /\ i \in Items /\ d = <<i, "hit">> /\ Aboard(i)
  BY ReadsAre, CellsAre DEF Placed
<1>2. \A g \in Guns, s \in Ships : <<g, s>> \in tgts => g \in running
  BY Between
<1>3. tgts \subseteq Guns \X Ships
  BY DEF Placed, TypeOK
<1>4. c \in Resist(i) \cup (ActingOn(i) \X {"strength"}) /\ ActingOn(i) # {}
  BY <1>1 DEF Reads
<1> HIDE DEF i
<1>5. ActingOn(i) = {g \in Guns : <<g, x>> \in tgts}
  BY <1>1 DEF Acts
<1>6. x \in Ships
  BY <1>3, <1>4, <1>5
<1>7. d \in Hit(x)
  BY <1>1, <1>6, HitsHold DEF Hits, i
<1> HIDE DEF x
<1>8. ASSUME NEW g \in Guns, <<g, x>> \in tgts, NEW guns, g \in guns
      PROVE  d \in HitBy(guns)
  <2>1. x \in Targets(g)
    BY <1>8 DEF Targets
  <2> QED BY <1>7, <1>8, <2>1 DEF HitBy
<1>9. CASE c \in ActingOn(i) \X {"strength"}
  <2>1. PICK g \in Guns : c = <<g, "strength">> /\ <<g, x>> \in tgts
    BY <1>5, <1>9
  <2>2. g \in running
    BY <1>2, <1>6, <2>1
  <2>3. d \in HitBy({h \in running : <<h, "strength">> \in {c}})
    BY <1>8, <2>1, <2>2
  <2> QED BY <2>3 DEF Dependents
<1>10. CASE c \in Resist(i)
  <2>1. c = <<x, "resist">>
    BY <1>10 DEF Resist, x
  <2>2. PICK g \in Guns : <<g, x>> \in tgts
    BY <1>4, <1>5
  <2> DEFINE p == <<g, x>>
             G == {q[1] : q \in {r \in tgts : <<r[2], "resist">> \in {c}}}
  <2>3. p \in tgts /\ p[1] = g /\ p[2] = x
    BY <2>2
  <2> HIDE DEF p
  <2>4. g \in G
    BY <2>1, <2>3
  <2> HIDE DEF G
  <2>5. d \in HitBy(G)
    BY <1>8, <2>2, <2>4
  <2> QED BY <2>5 DEF Dependents, G
<1> QED BY <1>4, <1>9, <1>10

\* A local modification: what reads the value waits for the message.
LEMMA ShiftFresh ==
  ASSUME ProjInv, FreshInv, NEW c \in Shifted, NEW v \in Levels, Shift(c, v)
  PROVE  FreshInv'
<1> DEFINE S == Of(agenda')
           n == News({c})
<1>1. /\ Idle /\ local' = [local EXCEPT ![c] = v] /\ Drop({c}) /\ agenda' = n
      /\ UNCHANGED <<ship, fitted, running, affectees, active, domain, tgts>>
      /\ raised' = raised /\ strayed' = strayed
  BY DEF Shift, affection, projection
<1>2. /\ Placed /\ Typed /\ TypeOK /\ ~raised /\ Of(agenda) = {}
      /\ ~strayed => Storing /\ Acts /\ \A d \in DOMAIN cache : d[1] \in affectees /\ Right(d)
      /\ Seating(Of(agenda)) /\ Departing(Of(agenda))
  BY <1>1, AtRest DEF FreshInv, Placed
<1>3. /\ \A e \in S : e.do = "changed"
      /\ c \in DOMAIN cache => \E e \in S : e.do = "changed" /\ e.cells = {c}
  <2>1. \A e \in Of(n) : e.do = "changed"
    BY <1>2, NewsAre
  <2>2. ASSUME c \in DOMAIN cache
        PROVE  \E e \in Of(n) : e.do = "changed" /\ e.cells = {c}
    <3> DEFINE e == [do |-> "changed", cells |-> {c}]
    <3>1. n = <<e>> /\ e.do = "changed" /\ e.cells = {c}
      <4>1. {c} \cap DOMAIN cache = {c}
        BY <2>2
      <4> QED BY <4>1 DEF News
    <3> HIDE DEF e, n
    <3>2. e \in Of(n)
      BY <3>1 DEF Of
    <3> QED BY <3>1, <3>2
  <2> HIDE DEF n
  <2> QED BY <1>1, <2>1, <2>2
<1> HIDE DEF S, n
<1>4. Seating(Of(agenda))'
  <2>1. \A e \in S : e.do \notin {"loaded", "load", "ship", "off"}
    BY <1>3
  <2> QED BY <1>1, <1>2, <2>1, SeatingKept DEF S
<1>5. Arriving(Of(agenda))'
  BY <1>3, ArrivingKept DEF S
<1>6. Departing(Of(agenda))'
  BY <1>1, <1>2, <1>3, DepartingKept DEF S
<1>7. ASSUME ~strayed
      PROVE  Storing' /\ Keeping(Of(agenda))'
  <2>1. Storing'
    BY <1>1, <1>2, <1>7, StoringKept
  <2>2. \A cells : Dependents(cells)' = Dependents(cells)
    BY <1>1, DependentsSame
  <2>3. /\ DOMAIN cache' = DOMAIN cache \ {c}
        /\ \A d \in DOMAIN cache' : cache'[d] = cache[d]
    BY <1>1 DEF Drop
  <2>4. ASSUME NEW d \in DOMAIN cache'
        PROVE  /\ d[1] \in affectees
               /\ Right(d)' \/ \E e \in S : e.do = "changed" /\ d \in Dependents(e.cells)
    <3>1. d \in DOMAIN cache /\ d # c /\ d \in Cells /\ d[1] \in affectees /\ Right(d)
      BY <1>2, <1>7, <2>3 DEF TypeOK
    <3>2. CASE c \in Reads(d, ActingOn(d[1]))
      <4>1. d \in Dependents({c})
        BY <1>1, <1>2, <1>7, <3>1, <3>2, ReadersDepend
      <4>2. c \in DOMAIN cache
        BY <3>1, <3>2 DEF Right
      <4> QED BY <1>3, <3>1, <4>1, <4>2
    <3>3. CASE c \notin Reads(d, ActingOn(d[1]))
      <4>1. \A r \in Reads(d, ActingOn(d[1])) : r \in DOMAIN cache' /\ cache'[r] = cache[r]
        BY <2>3, <3>1, <3>3 DEF Right
      <4>2. ActingOn(d[1])' = ActingOn(d[1]) /\ Resist(d[1])' = Resist(d[1])
        BY <1>1, FitSame DEF ActingOn, Resist, SolsysCarrier
      <4>3. local'[d] = local[d]
        BY <1>1, <1>2, <3>1 DEF TypeOK
      <4> QED BY <2>3, <3>1, <4>1, <4>2, <4>3, RightKept
    <3> QED BY <3>2, <3>3
  <2> QED BY <1>1, <2>1, <2>2, <2>4 DEF Keeping, S
<1> QED BY <1>1, <1>4, <1>5, <1>6, <1>7 DEF FreshInv

\* Reading a value: it is right, and no other changes.
LEMMA ReadFresh ==
  ASSUME ProjInv, FreshInv, NEW c \in Cells, Read(c)
  PROVE  FreshInv'
<1> DEFINE G == ActingOn(c[1])
<1>1. /\ Idle /\ c[1] \in affectees /\ c \notin DOMAIN cache /\ Reads(c, G) \subseteq DOMAIN cache
      /\ cache' = [d \in DOMAIN cache \cup {c} |-> IF d = c THEN Value(c, G, cache) ELSE cache[d]]
      /\ UNCHANGED <<ship, fitted, local, running, affectees, active, domain, tgts, agenda>>
      /\ raised' = raised /\ strayed' = strayed /\ ~strayed
  BY DEF Read, fitVars, affection, projection
<1>2. /\ Placed /\ ~raised /\ Of(agenda) = {}
      /\ Storing /\ \A d \in DOMAIN cache : d[1] \in affectees /\ Right(d)
      /\ Seating(Of(agenda)) /\ Departing(Of(agenda))
  BY <1>1, AtRest DEF FreshInv
<1>3. Of(agenda') = {}
  BY <1>1, <1>2
<1>4. Seating(Of(agenda))'
  BY <1>1, <1>2, <1>3, SeatingKept
<1>5. Arriving(Of(agenda))' /\ Departing(Of(agenda))'
  BY <1>1, <1>2, <1>3, ArrivingKept, DepartingKept
<1>6. Storing'
  BY <1>1, <1>2, StoringKept
<1>7. /\ DOMAIN cache' = DOMAIN cache \cup {c} /\ cache'[c] = Value(c, G, cache)
      /\ \A d \in DOMAIN cache : cache'[d] = cache[d]
  BY <1>1
<1>8. \A i : ActingOn(i)' = ActingOn(i) /\ Resist(i)' = Resist(i)
  BY <1>1, FitSame DEF ActingOn, Resist, SolsysCarrier
<1>9. ASSUME NEW d \in DOMAIN cache
      PROVE  Right(d)'
  <2>1. Right(d) /\ \A r \in Reads(d, ActingOn(d[1])) : r \in DOMAIN cache' /\ cache'[r] = cache[r]
    BY <1>2, <1>7, <1>9 DEF Right
  <2> QED BY <1>1, <1>7, <1>8, <2>1, RightKept
<1>10. Right(c)'
  <2>1. ActingOn(c[1])' = ActingOn(c[1]) /\ Resist(c[1])' = Resist(c[1])
    BY <1>8
  <2>2. Reads(c, ActingOn(c[1]))' = Reads(c, G)
    BY <2>1 DEF Reads
  <2>3. Value(c, ActingOn(c[1]), cache)' = Value(c, G, cache')
    BY <1>1, <2>1 DEF Value
  <2> HIDE DEF G
  <2>4. Value(c, G, cache') = Value(c, G, cache)
    BY <1>1, <1>7, ValueSame
  <2> QED BY <1>1, <1>7, <2>2, <2>3, <2>4 DEF Right
<1>11. Clean(Of(agenda))'
  <2>1. \A d \in DOMAIN cache' : d[1] \in affectees /\ Right(d)'
    BY <1>1, <1>2, <1>7, <1>9, <1>10
  <2> QED BY <1>1, <2>1 DEF Clean
<1> QED BY <1>1, <1>4, <1>5, <1>6, <1>11, CleanKeeps DEF FreshInv

\* Nothing is kept, linked or due at the start.
LEMMA FreshInit ==
  ASSUME Init
  PROVE  FreshInv
<1>1. Of(agenda) = {}
  BY NothingLeft DEF Init
<1>2. DOMAIN cache = {}
  BY DEF Init
<1>3. Seating({}) /\ Arriving({}) /\ Departing({})
  BY DEF Init, Seating, Arriving, Departing
<1>4. Storing /\ Keeping({})
  BY <1>2 DEF Init, Storing, Keeping
<1> QED BY <1>1, <1>3, <1>4 DEF FreshInv

\* A stutter leaves everything as it is.
LEMMA StutterFresh ==
  ASSUME FreshInv, UNCHANGED vars
  PROVE  FreshInv'
<1> DEFINE R == Of(agenda)
<1>1. /\ UNCHANGED <<ship, fitted, running, local, cache, affectees, active, domain, tgts>>
      /\ UNCHANGED <<agenda, raised, strayed>>
  BY DEF vars, fitVars, affection, projection
<1>2. Of(agenda') = R
  BY <1>1
<1>3. ASSUME Seating(R)
      PROVE  Seating(Of(agenda))'
  <2>1. \A i : Leaving(R, i) => Leaving(Of(agenda), i)'
    BY <1>1, <1>2 DEF Leaving
  <2> QED BY <1>1, <1>2, <1>3, <2>1, SeatingKept
<1>4. ASSUME Arriving(R)
      PROVE  Arriving(Of(agenda))'
  BY <1>1, <1>2, <1>4 DEF Arriving
<1>5. ASSUME Departing(R)
      PROVE  Departing(Of(agenda))'
  BY <1>1, <1>2, <1>5, DepartingKept
<1>6. ASSUME Storing
      PROVE  Storing'
  BY <1>1, <1>6, StoringKept
<1>7. ASSUME Keeping(R)
      PROVE  Keeping(Of(agenda))'
  <2>1. \A cells : Dependents(cells)' = Dependents(cells)
    BY <1>1, DependentsSame
  <2>2. \A c \in DOMAIN cache : Right(c) => Right(c)'
    BY <1>1, RightSame
  <2> HIDE DEF R
  <2> QED BY <1>1, <1>2, <1>7, <2>1, <2>2 DEF Keeping
<1> QED BY <1>1, <1>3, <1>4, <1>5, <1>6, <1>7 DEF FreshInv

\* Every step, and a stutter, keeps the invariant.
LEMMA FreshInductive ==
  ASSUME ProjInv, FreshInv, [Next]_vars
  PROVE  FreshInv'
<1>1. ProjInv'
  BY ProjInductive
<1>2. CASE Deliver
  BY <1>1, <1>2, LoadFresh, UnloadFresh, ClearFresh, ShipFresh, OtherFresh, LoadedFresh, UnloadedFresh,
     ProjectorFresh, AppliedFresh, UnappliedFresh, ChangedFresh DEF Deliver
<1>3. CASE UNCHANGED vars \/ Over
  BY <1>3, StutterFresh DEF Over
<1>4. ASSUME NEW f \in Fits, NEW s \in Ships \cup {None}, SetShip(f, s)
      PROVE  FreshInv'
  BY <1>4, SetShipFresh
<1>5. ASSUME NEW i \in Guns \cup Gadgets, AddItem(i) \/ RemoveItem(i)
      PROVE  FreshInv'
  BY <1>5, AddFresh, RemoveFresh
<1>6. ASSUME NEW s \in Sources \cup {None}, NEW order \in SetToSeqs(Fits), SetSource(s, order)
      PROVE  FreshInv'
  BY <1>6, SetSourceFresh
<1>7. ASSUME NEW g \in Guns, SetState(g) \/ \E s \in Ships \cup {None} : SetTarget(g, s)
      PROVE  FreshInv'
  BY <1>7, SetStateFresh, SetTargetFresh
<1>8. ASSUME NEW c \in Shifted, NEW v \in Levels, Shift(c, v)
      PROVE  FreshInv'
  BY <1>8, ShiftFresh
<1>9. ASSUME NEW c \in Cells, Read(c)
      PROVE  FreshInv'
  BY <1>9, ReadFresh
<1> QED BY <1>2, <1>3, <1>4, <1>5, <1>6, <1>7, <1>8, <1>9 DEF Next

\* The invariant holds of every reachable state.
THEOREM FreshInvariance == Spec => []FreshInv
<1>1. Init => FreshInv
  BY FreshInit
<1>2. ProjInv /\ FreshInv /\ [Next]_vars => FreshInv'
  BY FreshInductive
<1> QED BY <1>1, <1>2, ProjInvariance, PTL DEF Spec

\* What values would be, calculated from nothing: strengths and resistances
\* are read by the others and read none.
Ideals(v) ==
  v = [c \in Cells |-> Value(c, Shooting(c[1]), [r \in Reads(c, Shooting(c[1])) |-> v[r]])]

\* There are such values, and they say of what is read its local part.
LEMMA IdealsAre ==
  ASSUME Placed
  PROVE  /\ \E v : Ideals(v)
         /\ \A v : Ideals(v) => \A c \in Cells :
              /\ v[c] = Value(c, Shooting(c[1]), [r \in Reads(c, Shooting(c[1])) |-> v[r]])
              /\ c[2] # "hit" => v[c] = <<local[c]>>
<1> DEFINE G(c) == Shooting(c[1])
           F == [c \in Cells |-> Value(c, G(c), [r \in Reads(c, G(c)) |-> <<local[r]>>])]
<1>1. ASSUME NEW c \in Cells, NEW r \in Reads(c, G(c))
      PROVE  r \in Cells /\ r[2] # "hit"
  <2> DEFINE x == SolsysCarrier(c[1])
  <2>1. c[2] = "hit" /\ r \in Resist(c[1]) \cup (G(c) \X {"strength"})
    BY <1>1 DEF Reads
  <2>2. G(c) \subseteq Guns
    BY DEF Shooting, Placed, TypeOK
  <2>3. CASE r \in G(c) \X {"strength"}
    BY <2>2, <2>3 DEF Cells
  <2>4. CASE r \in Resist(c[1])
    <3>1. r = <<x, "resist">> /\ x \in affectees
      BY <2>4 DEF Resist
    <3>2. x \in Ships \cup {None}
      <4>1. c[1] \in Ships \/ Home[c[1]] \in Fits
        BY <2>1, CellsAre, Kinds
      <4> QED BY <4>1 DEF SolsysCarrier, Placed, TypeOK
    <3>3. x \in Ships
      BY <3>1, <3>2, Kinds DEF Placed, TypeOK
    <3> QED BY <3>1, <3>3 DEF Cells
  <2> QED BY <2>1, <2>3, <2>4
<1>2. \A c \in Cells : c[2] # "hit" => \A guns, v : Value(c, guns, v) = <<local[c]>>
  BY DEF Value
<1>3. Ideals(F)
  <2>1. ASSUME NEW c \in Cells
        PROVE  [r \in Reads(c, G(c)) |-> <<local[r]>>] = [r \in Reads(c, G(c)) |-> F[r]]
    BY <1>1, <1>2
  <2> HIDE DEF G
  <2>2. F = [c \in Cells |-> Value(c, G(c), [r \in Reads(c, G(c)) |-> F[r]])]
    BY <2>1
  <2> QED BY <2>2 DEF Ideals, G
<1>4. ASSUME NEW v, Ideals(v), NEW c \in Cells
      PROVE  /\ v[c] = Value(c, Shooting(c[1]), [r \in Reads(c, Shooting(c[1])) |-> v[r]])
             /\ c[2] # "hit" => v[c] = <<local[c]>>
  <2> DEFINE w == [d \in Cells |-> Value(d, G(d), [r \in Reads(d, G(d)) |-> v[r]])]
  <2>1. v = w
    BY <1>4 DEF Ideals
  <2>2. w[c] = Value(c, Shooting(c[1]), [r \in Reads(c, Shooting(c[1])) |-> v[r]])
    OBVIOUS
  <2> HIDE DEF w
  <2>3. v[c] = Value(c, Shooting(c[1]), [r \in Reads(c, Shooting(c[1])) |-> v[r]])
    <3>1. v[c] = w[c]
      BY <2>1
    <3> QED BY <2>2, <3>1, Zenon
  <2> QED BY <1>2, <2>3
<1> QED BY <1>3, <1>4

\* Between calls, while no projection met a ship that was not loaded, what acts
\* on ships and gadgets are the guns that run and target the ship, and every
\* value kept is the one a calculation from nothing gives.
THEOREM FreshHolds == Spec => []ProjectionFresh
<1>1. ASSUME ProjInv, FreshInv, Idle, ~strayed
      PROVE  /\ \A i \in Loaded \cap (Ships \cup Gadgets) : ActingOn(i) = Shooting(i)
             /\ \A v : Ideals(v) => \A c \in DOMAIN cache : cache[c] = v[c]
             /\ \A c \in DOMAIN cache : Reads(c, Shooting(c[1])) \subseteq DOMAIN cache
             /\ \E v : Ideals(v)
  <2>1. /\ Placed /\ TypeOK /\ Acts /\ DOMAIN cache \subseteq Cells
        /\ \A c \in DOMAIN cache : c[1] \in affectees /\ Right(c)
    BY <1>1, AtRest DEF Placed, TypeOK
  <2>2. \A g \in Guns, s \in Ships : <<g, s>> \in tgts <=> g \in running /\ s = target[g]
    BY <1>1, Between
  <2>3. ASSUME NEW i \in Ships \cup Gadgets, Aboard(i)
        PROVE  ActingOn(i) = Shooting(i)
    <3> DEFINE x == SolsysCarrier(i)
    <3>1. x \in Ships \cup {None}
      <4>1. i \in Ships \/ Home[i] \in Fits
        BY Kinds
      <4> QED BY <2>1, <4>1 DEF SolsysCarrier, TypeOK
    <3>2. tgts \subseteq Guns \X Ships /\ running \subseteq Guns /\ None \notin Ships
      BY <2>1, Kinds DEF TypeOK, Items
    <3>3. ActingOn(i) = {g \in Guns : <<g, x>> \in tgts}
      BY <2>1, <2>3 DEF Acts
    <3> HIDE DEF x
    <3>4. ASSUME NEW g \in Guns
          PROVE  <<g, x>> \in tgts <=> g \in running /\ target[g] \in {x} \ {None}
      BY <2>2, <3>1, <3>2
    <3>5. Shooting(i) = {g \in running : target[g] \in {x} \ {None}}
      BY DEF Shooting, x
    <3> QED BY <3>2, <3>3, <3>4, <3>5
  <2>4. ASSUME NEW i \in Loaded \cap (Ships \cup Gadgets)
        PROVE  ActingOn(i) = Shooting(i)
    BY <2>3 DEF Loaded, Aboard
  <2>5. ASSUME NEW c \in DOMAIN cache
        PROVE  /\ Reads(c, Shooting(c[1])) = Reads(c, ActingOn(c[1]))
               /\ \A v : Value(c, Shooting(c[1]), v) = Value(c, ActingOn(c[1]), v)
    <3>1. CASE c[2] # "hit"
      BY <3>1 DEF Reads, Value
    <3>2. CASE c[2] = "hit"
      <4>1. c[1] \in Ships \cup Gadgets /\ Aboard(c[1])
        BY <2>1, <3>2, CellsAre DEF Placed
      <4> QED BY <2>3, <4>1
    <3> QED BY <3>1, <3>2
  <2>6. ASSUME NEW v, Ideals(v), NEW c \in DOMAIN cache
        PROVE  cache[c] = v[c]
    <3> DEFINE G == Shooting(c[1])
               w == [r \in Reads(c, G) |-> v[r]]
    <3>1. cache[c] = Value(c, G, cache)
      BY <2>1, <2>5 DEF Right
    <3>2. v[c] = Value(c, G, w)
      BY <2>1, <2>6, IdealsAre
    <3>3. ASSUME NEW r \in Reads(c, G)
          PROVE  cache[r] = w[r]
      <4>1. r \in Reads(c, ActingOn(c[1])) /\ r \in DOMAIN cache /\ r[2] # "hit"
        BY <2>1, <2>5, ReadsAre DEF Right
      <4>2. cache[r] = <<local[r]>>
        BY <2>1, <4>1 DEF Right, Value
      <4>3. v[r] = <<local[r]>>
        BY <2>1, <2>6, <4>1, IdealsAre
      <4> QED BY <4>2, <4>3
    <3> HIDE DEF G, w
    <3>4. Value(c, G, cache) = Value(c, G, w)
      BY <3>3, ValueSame
    <3> QED BY <3>1, <3>2, <3>4
  <2>7. \A c \in DOMAIN cache : Reads(c, Shooting(c[1])) \subseteq DOMAIN cache
    BY <2>1, <2>5 DEF Right
  <2> QED BY <2>1, <2>4, <2>6, <2>7, IdealsAre
<1>2. ASSUME ProjInv, FreshInv
      PROVE  ProjectionFresh
  <2> DEFINE ideal[c \in Cells] ==
               Value(c, Shooting(c[1]), [r \in Reads(c, Shooting(c[1])) |-> ideal[r]])
  <2> SUFFICES ASSUME Idle, ~strayed
               PROVE  /\ \A i \in Loaded \cap (Ships \cup Gadgets) : ActingOn(i) = Shooting(i)
                      /\ \A c \in DOMAIN cache : cache[c] = ideal[c]
                      /\ \A c \in DOMAIN cache : Reads(c, Shooting(c[1])) \subseteq DOMAIN cache
    BY DEF ProjectionFresh
  <2>1. Ideals(ideal)
    BY <1>1, <1>2 DEF Ideals
  <2> HIDE DEF ideal
  <2> QED BY <1>1, <1>2, <2>1
<1> QED BY <1>1, <1>2, ProjInvariance, FreshInvariance, PTL
=============================================================================
