---------------------------- MODULE Fleet_proofs ----------------------------
(***************************************************************************)
(* Proofs about Fleet for any fits, fleets, ships, boosters, gadgets and   *)
(* templates.  The inductive invariant is said of registers c under given  *)
(* fleets fl, ships sh and buffs bf, because most calls change registers   *)
(* in several steps: one lemma says what a step does to it, and loops over *)
(* items and fits carry it from step to step.                              *)
(***************************************************************************)
EXTENDS Fleet, TLAPS, SequenceTheorems, FiniteSetTheorems

Register == {"fits", "affectees", "projectors", "buffs", "tgts", "active",
             "domain", "cache", "missed"}

Rights(fl, b, f) == Home[b] = f \/ Mates(fl, Home[b], f)

\* No ship is on two fits.
Apart(sh) == \A f, g \in Fits : sh[f] = sh[g] /\ sh[f] # None => f = g

\* What each register holds; projectors are loaded.
Kinds(c) ==
  /\ DOMAIN c = Register
  /\ c.fits \subseteq Fits
  /\ c.affectees \subseteq Items
  /\ c.projectors \subseteq Boosters \cap c.affectees
  /\ c.buffs \subseteq Specs
  /\ c.tgts \subseteq Boosters \X (Ships \cup {None})
  /\ c.active \subseteq Ships \X Specs
  /\ c.domain \subseteq (Fits \cup {None}) \X Specs
  /\ DOMAIN c.cache \subseteq c.affectees \cap (Ships \cup Gadgets)
  /\ c.missed \in BOOLEAN

\* What is loaded is on a fit of the solar system.
Aboard(c, sh) ==
  /\ \A i \in c.affectees \ Ships : Home[i] \in c.fits
  /\ \A i \in c.affectees \cap Ships : \E f \in c.fits : sh[f] = i

\* A buff that is registered is the present one of a running booster.
BuffsSound(c, bf) ==
  \A s \in c.buffs : /\ s.item \in c.projectors /\ s.buff = bf[s.item]
                     /\ s.filter \in Templates[s.buff]

\* Of the boosters in B every spec is registered.
BuffsThere(c, bf, B) ==
  \A b \in B : \A t \in Templates[bf[b]] : Spec(b, bf[b], t) \in c.buffs

\* A spec stored for a ship belongs to a registered buff that has the ship as
\* target, and may act on it.
ActiveSound(c, fl, sh) ==
  \A p \in c.active :
    /\ p[1] \in c.affectees /\ p[2] \in c.buffs /\ p[2].filter = "ship"
    /\ <<p[2].item, p[1]>> \in c.tgts
    /\ \A f \in Fits : sh[f] = p[1] => Rights(fl, p[2].item, f)

\* The same of a spec stored for the items of a fit.
DomainSound(c, fl, sh) ==
  \A p \in c.domain :
    /\ p[1] \in Fits /\ sh[p[1]] # None
    /\ p[2] \in c.buffs /\ p[2].filter = "domain"
    /\ <<p[2].item, sh[p[1]]>> \in c.tgts
    /\ Rights(fl, p[2].item, p[1])

\* Values kept are those of the specs that act.
CacheSound(c) == \A i \in DOMAIN c.cache : c.cache[i] = Value(ActingOn(c, i))

Sound(c, fl, sh, bf, st) ==
  /\ Kinds(c) /\ Aboard(c, sh) /\ BuffsSound(c, bf) /\ ActiveSound(c, fl, sh)
  /\ ~st => DomainSound(c, fl, sh) /\ CacheSound(c)

\* The boosters in B act on all loaded ships they are meant for.
Reaches(c, fl, sh, bf, B) ==
  \A b \in B, f \in c.fits :
    sh[f] \in c.affectees /\ Rights(fl, b, f) =>
      \A t \in Templates[bf[b]] :
        IF t = "ship" THEN <<sh[f], Spec(b, bf[b], t)>> \in c.active
        ELSE <<f, Spec(b, bf[b], t)>> \in c.domain

\* All of it, as it is between two calls.
Settled(c, fl, sh, bf, st) ==
  /\ Sound(c, fl, sh, bf, st)
  /\ BuffsThere(c, bf, c.projectors)
  /\ ~st /\ ~c.missed => Reaches(c, fl, sh, bf, c.projectors)

Typed ==
  /\ source \in BOOLEAN /\ strayed \in BOOLEAN
  /\ ship \in [Fits -> Ships \cup {None}] /\ Apart(ship)
  /\ fleet \in [Fits -> Fleets \cup {None}]
  /\ ready \subseteq Boosters
  /\ buff \in [Boosters -> DOMAIN Templates]

\* The inductive invariant
FleetInv ==
  /\ Typed
  /\ Settled(calc, fleet, ship, buff, strayed)
  /\ calc.affectees # {} => source
-----------------------------------------------------------------------------
(* What the operators of the service return.                               *)

LEMMA FitOfItem ==
  ASSUME Typed
  PROVE  /\ \A f \in Fits : ship[f] # None => FitOf(ship[f]) = f
         /\ \A s \in Ships : /\ FitOf(s) \in Fits \cup {None}
                             /\ FitOf(s) \in Fits => ship[FitOf(s)] = s
         /\ \A s \in Ships, f \in Fits : ship[f] = s => FitOf(s) = f
         /\ \A i \in Boosters \cup Gadgets : FitOf(i) = Home[i]
<1>1. ASSUME NEW s \in Ships, NEW f \in Fits, ship[f] = s
      PROVE  FitOf(s) = f
  <2>1. s \notin Boosters \cup Gadgets /\ s # None
    BY FleetAssumption DEF Items
  <2>2. FitOf(s) = CHOOSE g \in Fits : ship[g] = s
    BY <1>1, <2>1 DEF FitOf
  <2>3. FitOf(s) \in Fits /\ ship[FitOf(s)] = s
    BY <1>1, <2>2
  <2> QED BY <1>1, <2>1, <2>3 DEF Typed, Apart
<1>2. ASSUME NEW s \in Ships, \A f \in Fits : ship[f] # s
      PROVE  FitOf(s) = None
  BY <1>2, FleetAssumption DEF FitOf, Items
<1>3. \A i \in Boosters \cup Gadgets : FitOf(i) = Home[i]
  BY DEF FitOf
<1>4. ASSUME NEW f \in Fits, ship[f] # None
      PROVE  ship[f] \in Ships
  BY <1>4 DEF Typed
<1>5. None \notin Fits
  BY FleetAssumption
<1> QED BY <1>1, <1>2, <1>3, <1>4, <1>5

LEMMA DirectHas ==
  ASSUME NEW c, NEW uses
  PROVE  /\ \A p \in Direct(c, uses) :
              /\ p = <<p[1], p[2]>> /\ p[2] \in c.buffs /\ p[2].filter = "ship"
              /\ \E u \in uses : u[2] = p[1] /\ u[2] \in c.affectees /\ u[1] = p[2].item
         /\ \A u \in uses, s \in c.buffs :
              u[2] \in c.affectees /\ s.item = u[1] /\ s.filter = "ship"
                => <<u[2], s>> \in Direct(c, uses)
         /\ \A p \in Direct(c, uses) : p[1] \in Hit(c, uses)
BY DEF Direct, Hit

LEMMA WideHas ==
  ASSUME NEW c, NEW uses
  PROVE  /\ \A p \in Wide(c, uses) :
              /\ p = <<p[1], p[2]>> /\ p[2] \in c.buffs /\ p[2].filter = "domain"
              /\ \E u \in uses : FitOf(u[2]) = p[1] /\ u[2] \in Ships /\ u[1] = p[2].item
         /\ \A u \in uses, s \in c.buffs :
              u[2] \in Ships /\ s.item = u[1] /\ s.filter = "domain"
                => <<FitOf(u[2]), s>> \in Wide(c, uses)
         /\ \A p \in Wide(c, uses), i \in c.affectees \cap Gadgets :
              Home[i] = p[1] => i \in Hit(c, uses)
<1>1. \A p \in Wide(c, uses) :
        /\ p = <<p[1], p[2]>> /\ p[2] \in c.buffs /\ p[2].filter = "domain"
        /\ \E u \in uses : FitOf(u[2]) = p[1] /\ u[2] \in Ships /\ u[1] = p[2].item
  BY DEF Wide
<1>2. \A u \in uses, s \in c.buffs :
        u[2] \in Ships /\ s.item = u[1] /\ s.filter = "domain"
          => <<FitOf(u[2]), s>> \in Wide(c, uses)
  BY DEF Wide
<1>3. \A p \in Wide(c, uses), i \in c.affectees \cap Gadgets :
        Home[i] = p[1] => i \in Hit(c, uses)
  BY DEF Hit, InDomain
<1> QED BY <1>1, <1>2, <1>3

\* An item has the same value as long as the specs that act on it, or on the
\* items of its fit, are the same and their boosters as much loaded.
LEMMA SameActing ==
  ASSUME NEW c, NEW d, NEW i,
         \A p \in c.active \cup d.active : p[1] = i => (p \in c.active <=> p \in d.active),
         i \notin Ships =>
           \A p \in c.domain \cup d.domain : p[1] = Home[i] => (p \in c.domain <=> p \in d.domain),
         \A p \in c.active : p[1] = i => (p[2].item \in c.affectees <=> p[2].item \in d.affectees),
         i \notin Ships =>
           \A p \in c.domain :
             p[1] = Home[i] => (p[2].item \in c.affectees <=> p[2].item \in d.affectees)
  PROVE  ActingOn(d, i) = ActingOn(c, i)
<1> DEFINE on(x) == IF i \in Ships THEN {q \in x.active : q[1] = i}
                    ELSE {q \in x.domain : q[1] = Home[i]}
<1>1. on(c) = on(d)
  OBVIOUS
<1>2. \A q \in on(c) : q[2].item \in c.affectees <=> q[2].item \in d.affectees
  OBVIOUS
<1>3. /\ ActingOn(c, i) = {s \in {p[2] : p \in on(c)} : s.item \in c.affectees}
      /\ ActingOn(d, i) = {s \in {p[2] : p \in on(d)} : s.item \in d.affectees}
  BY DEF ActingOn
<1> HIDE DEF on
<1> QED BY <1>1, <1>2, <1>3

\* The registers after a buff is applied to, or unapplied from, its targets.
LEMMA AppliedIs ==
  ASSUME NEW c, DOMAIN c = Register, NEW uses
  PROVE  LET d == Applied(c, uses)
         IN /\ DOMAIN d = Register
            /\ d.fits = c.fits /\ d.affectees = c.affectees /\ d.projectors = c.projectors
            /\ d.buffs = c.buffs /\ d.missed = c.missed
            /\ d.tgts = c.tgts \cup uses
            /\ d.active = c.active \cup Direct(c, uses)
            /\ d.domain = c.domain \cup Wide(c, uses)
            /\ d.cache = Recalc(c.cache, Hit(c, uses))
BY DEF Applied, Register

LEMMA UnappliedIs ==
  ASSUME NEW c, DOMAIN c = Register, NEW uses
  PROVE  LET d == Unapplied(c, uses)
         IN /\ DOMAIN d = Register
            /\ d.fits = c.fits /\ d.affectees = c.affectees /\ d.projectors = c.projectors
            /\ d.buffs = c.buffs /\ d.missed = c.missed
            /\ d.tgts = c.tgts \ uses
            /\ d.active = c.active \ Direct(c, uses)
            /\ d.domain = c.domain \ Wide(c, uses)
            /\ d.cache = Recalc(c.cache, Hit(c, uses))
BY DEF Unapplied, Register
-----------------------------------------------------------------------------
(* Buffs applied to targets and unapplied from them.                       *)

\* Values that are kept stay right when specs come to act, or stop acting, on
\* items whose values are dropped only.
LEMMA CacheStays ==
  ASSUME NEW c, NEW d, NEW items,
         DOMAIN c.cache \subseteq Ships \cup Gadgets, CacheSound(c),
         d.affectees = c.affectees, d.cache = Recalc(c.cache, items),
         \A p \in c.active \cup d.active :
           p[1] \notin items => (p \in c.active <=> p \in d.active),
         \A p \in c.domain \cup d.domain : \A i \in DOMAIN c.cache \ Ships :
           p[1] = Home[i] /\ i \notin items => (p \in c.domain <=> p \in d.domain)
  PROVE  CacheSound(d)
<1> SUFFICES ASSUME NEW i \in DOMAIN d.cache
             PROVE  d.cache[i] = Value(ActingOn(d, i))
  BY DEF CacheSound
<1>1. i \in DOMAIN c.cache /\ i \notin items /\ d.cache[i] = c.cache[i]
  BY DEF Recalc
<1>2. ActingOn(d, i) = ActingOn(c, i)
  BY <1>1, SameActing
<1> QED BY <1>1, <1>2 DEF CacheSound

LEMMA AppliedCache ==
  ASSUME NEW c, DOMAIN c = Register, NEW uses,
         DOMAIN c.cache \subseteq c.affectees \cap (Ships \cup Gadgets), CacheSound(c)
  PROVE  CacheSound(Applied(c, uses)) /\ CacheSound(Unapplied(c, uses))
<1> DEFINE H == Hit(c, uses)
<1>1. \A p \in Direct(c, uses) : p[1] \in H
  BY DirectHas
<1>2. \A p \in Wide(c, uses) : \A i \in DOMAIN c.cache \ Ships : Home[i] = p[1] => i \in H
  BY WideHas
<1>3. CacheSound(Applied(c, uses))
  <2> DEFINE d == Applied(c, uses)
  <2>1. /\ d.affectees = c.affectees /\ d.cache = Recalc(c.cache, H)
        /\ d.active = c.active \cup Direct(c, uses) /\ d.domain = c.domain \cup Wide(c, uses)
    BY AppliedIs
  <2> HIDE DEF H, d
  <2> QED BY <1>1, <1>2, <2>1, CacheStays DEF d
<1>4. CacheSound(Unapplied(c, uses))
  <2> DEFINE d == Unapplied(c, uses)
  <2>1. /\ d.affectees = c.affectees /\ d.cache = Recalc(c.cache, H)
        /\ d.active = c.active \ Direct(c, uses) /\ d.domain = c.domain \ Wide(c, uses)
    BY UnappliedIs
  <2> HIDE DEF H, d
  <2> QED BY <1>1, <1>2, <2>1, CacheStays DEF d
<1> QED BY <1>3, <1>4

\* What a call promises of the targets it has buffs applied to: they are ships
\* on fits, or none, and the booster may act on them under the fleets fl.
Granted(c, fl, uses) ==
  /\ uses \subseteq Boosters \X (Ships \cup {None})
  /\ \A u \in uses : u[2] # None => \E f \in Fits : ship[f] = u[2]
  /\ \A u \in uses, f \in Fits :
       ship[f] = u[2] /\ u[2] # None /\ u[1] \in c.projectors => Rights(fl, u[1], f)

LEMMA AppliedSound ==
  ASSUME Typed, NEW fl0, NEW fl, NEW bf, NEW st, NEW c, Sound(c, fl0, ship, bf, st),
         \A b \in c.projectors, f \in Fits : Rights(fl0, b, f) => Rights(fl, b, f),
         NEW uses, Granted(c, fl, uses)
  PROVE  Sound(Applied(c, uses), fl, ship, bf, st)
<1> DEFINE d == Applied(c, uses)
<1> USE DEF Sound
<1>1. /\ DOMAIN d = Register
      /\ d.fits = c.fits /\ d.affectees = c.affectees /\ d.projectors = c.projectors
      /\ d.buffs = c.buffs /\ d.missed = c.missed
      /\ d.tgts = c.tgts \cup uses
      /\ d.active = c.active \cup Direct(c, uses)
      /\ d.domain = c.domain \cup Wide(c, uses)
      /\ d.cache = Recalc(c.cache, Hit(c, uses))
  BY AppliedIs DEF Kinds
<1>b. ~st => CacheSound(d)
  BY AppliedCache DEF Kinds
<1> HIDE DEF d
<1>a. DOMAIN d.cache \subseteq DOMAIN c.cache
  BY <1>1 DEF Recalc
<1>2. ASSUME NEW p \in Direct(c, uses)
      PROVE  /\ p \in Ships \X Specs
             /\ p[1] \in c.affectees /\ p[2] \in c.buffs /\ p[2].filter = "ship"
             /\ <<p[2].item, p[1]>> \in d.tgts
             /\ \A f \in Fits : ship[f] = p[1] => Rights(fl, p[2].item, f)
  <2>1. /\ p = <<p[1], p[2]>> /\ p[2] \in c.buffs /\ p[2].filter = "ship"
        /\ \E u \in uses : u[2] = p[1] /\ u[2] \in c.affectees /\ u[1] = p[2].item
    BY DirectHas
  <2>2. PICK u \in uses : u[2] = p[1] /\ u[2] \in c.affectees /\ u[1] = p[2].item
    BY <2>1
  <2>3. u = <<u[1], u[2]>> /\ u[2] # None /\ u[2] \in Ships
    BY <2>2, FleetAssumption DEF Granted, Kinds
  <2>4. p[2].item \in c.projectors /\ p[2] \in Specs
    BY <2>1 DEF BuffsSound, Kinds
  <2> QED BY <1>1, <2>1, <2>2, <2>3, <2>4 DEF Granted
<1>3. ASSUME NEW p \in Wide(c, uses)
      PROVE  /\ p \in (Fits \cup {None}) \X Specs
             /\ p[1] \in Fits /\ ship[p[1]] # None
             /\ p[2] \in c.buffs /\ p[2].filter = "domain"
             /\ <<p[2].item, ship[p[1]]>> \in d.tgts
             /\ Rights(fl, p[2].item, p[1])
  <2>1. /\ p = <<p[1], p[2]>> /\ p[2] \in c.buffs /\ p[2].filter = "domain"
        /\ \E u \in uses : FitOf(u[2]) = p[1] /\ u[2] \in Ships /\ u[1] = p[2].item
    BY WideHas
  <2>2. PICK u \in uses : FitOf(u[2]) = p[1] /\ u[2] \in Ships /\ u[1] = p[2].item
    BY <2>1
  <2>3. u = <<u[1], u[2]>> /\ u[2] # None
    BY <2>2, FleetAssumption DEF Granted, Items
  <2>4. PICK f \in Fits : ship[f] = u[2]
    BY <2>3 DEF Granted
  <2>5. p[1] = f
    BY <2>2, <2>4, FitOfItem
  <2>6. p[2].item \in c.projectors /\ p[2] \in Specs
    BY <2>1 DEF BuffsSound, Kinds
  <2> QED BY <1>1, <2>1, <2>2, <2>3, <2>4, <2>5, <2>6 DEF Granted
<1>4. Kinds(d)
  <2>1. d.active \subseteq Ships \X Specs
    BY <1>1, <1>2 DEF Kinds
  <2>2. d.domain \subseteq (Fits \cup {None}) \X Specs
    BY <1>1, <1>3 DEF Kinds
  <2>3. d.tgts \subseteq Boosters \X (Ships \cup {None})
    BY <1>1 DEF Granted, Kinds
  <2> QED BY <1>1, <1>a, <2>1, <2>2, <2>3 DEF Kinds
<1>5. Aboard(d, ship) /\ BuffsSound(d, bf)
  BY <1>1 DEF Aboard, BuffsSound
<1>6. \A p \in c.buffs : p.item \in c.projectors
  BY DEF BuffsSound
<1>7. ActiveSound(d, fl, ship)
  BY <1>1, <1>2, <1>6 DEF ActiveSound
<1>8. ~st => DomainSound(d, fl, ship)
  BY <1>1, <1>3, <1>6 DEF DomainSound
<1> QED BY <1>b, <1>4, <1>5, <1>7, <1>8 DEF d

\* The boosters in B reach their ships once they are applied to those that
\* they did not reach before.
LEMMA AppliedReaches ==
  ASSUME Typed, NEW fl0, NEW fl, NEW bf, NEW c, Kinds(c), NEW uses, NEW B0, NEW B,
         BuffsThere(c, bf, B), Reaches(c, fl0, ship, bf, B0),
         \A b \in B, f \in c.fits :
           ship[f] \in c.affectees /\ Rights(fl, b, f) =>
             \/ <<b, ship[f]>> \in uses
             \/ b \in B0 /\ Rights(fl0, b, f)
  PROVE  Reaches(Applied(c, uses), fl, ship, bf, B)
<1> DEFINE d == Applied(c, uses)
<1>1. /\ d.fits = c.fits /\ d.affectees = c.affectees
      /\ d.active = c.active \cup Direct(c, uses)
      /\ d.domain = c.domain \cup Wide(c, uses)
  BY AppliedIs DEF Kinds
<1> HIDE DEF d
<1> SUFFICES ASSUME NEW b \in B, NEW f \in c.fits,
                    ship[f] \in c.affectees, Rights(fl, b, f),
                    NEW t \in Templates[bf[b]]
             PROVE  IF t = "ship" THEN <<ship[f], Spec(b, bf[b], t)>> \in d.active
                    ELSE <<f, Spec(b, bf[b], t)>> \in d.domain
  BY <1>1 DEF Reaches, d
<1>2. CASE b \in B0 /\ Rights(fl0, b, f)
  BY <1>1, <1>2 DEF Reaches
<1>3. CASE <<b, ship[f]>> \in uses
  <2> DEFINE s == Spec(b, bf[b], t)
  <2>1. s \in c.buffs /\ s.item = b /\ s.filter = t
    BY DEF BuffsThere, Spec
  <2>2. t \in {"ship", "domain"}
    BY <2>1 DEF Kinds, Specs
  <2>3. f \in Fits /\ ship[f] \in Ships /\ ship[f] # None
    BY FleetAssumption DEF Kinds, Items, Typed
  <2>4. FitOf(ship[f]) = f
    BY <2>3, FitOfItem
  <2> HIDE DEF s
  <2>5. CASE t = "ship"
    <3>1. <<ship[f], s>> \in Direct(c, uses)
      BY <1>3, <2>1, <2>5, DirectHas
    <3> QED BY <1>1, <2>5, <3>1 DEF s
  <2>6. CASE t = "domain"
    <3>1. <<f, s>> \in Wide(c, uses)
      BY <1>3, <2>1, <2>3, <2>4, <2>6, WideHas
    <3> QED BY <1>1, <2>6, <3>1 DEF s
  <2> QED BY <2>2, <2>5, <2>6
<1> QED BY <1>2, <1>3
LEMMA UnappliedSound ==
  ASSUME Typed, NEW fl0, NEW fl, NEW bf, NEW st, NEW c, Sound(c, fl0, ship, bf, st),
         NEW uses,
         \A b \in c.projectors, f \in Fits :
           Rights(fl0, b, f) /\ ship[f] # None /\ <<b, ship[f]>> \notin uses => Rights(fl, b, f)
  PROVE  Sound(Unapplied(c, uses), fl, ship, bf, st)
<1> DEFINE d == Unapplied(c, uses)
<1> USE DEF Sound
<1>1. /\ DOMAIN d = Register
      /\ d.fits = c.fits /\ d.affectees = c.affectees /\ d.projectors = c.projectors
      /\ d.buffs = c.buffs /\ d.missed = c.missed
      /\ d.tgts = c.tgts \ uses
      /\ d.active = c.active \ Direct(c, uses)
      /\ d.domain = c.domain \ Wide(c, uses)
      /\ d.cache = Recalc(c.cache, Hit(c, uses))
  BY UnappliedIs DEF Kinds
<1>2. ~st => CacheSound(d)
  BY AppliedCache DEF Kinds
<1> HIDE DEF d
<1>3. DOMAIN d.cache \subseteq DOMAIN c.cache
  BY <1>1 DEF Recalc
<1>4. Kinds(d)
  BY <1>1, <1>3 DEF Kinds
<1>5. Aboard(d, ship) /\ BuffsSound(d, bf)
  BY <1>1 DEF Aboard, BuffsSound
<1>6. ASSUME NEW p \in d.active
      PROVE  /\ p[1] \in d.affectees /\ p[2] \in d.buffs /\ p[2].filter = "ship"
             /\ <<p[2].item, p[1]>> \in d.tgts
             /\ \A f \in Fits : ship[f] = p[1] => Rights(fl, p[2].item, f)
  <2>1. /\ p \in c.active /\ p \notin Direct(c, uses)
        /\ p = <<p[1], p[2]>> /\ p[1] \in Ships /\ p[1] # None
    BY <1>1, FleetAssumption DEF Kinds, Items
  <2>2. /\ p[1] \in c.affectees /\ p[2] \in c.buffs /\ p[2].filter = "ship"
        /\ <<p[2].item, p[1]>> \in c.tgts
        /\ p[2].item \in c.projectors
    BY <2>1 DEF ActiveSound, BuffsSound
  <2>3. <<p[2].item, p[1]>> \notin uses
    <3> DEFINE u == <<p[2].item, p[1]>>
    <3>1. u[1] = p[2].item /\ u[2] = p[1]
      OBVIOUS
    <3> HIDE DEF u
    <3>2. u \notin uses
      BY <2>1, <2>2, <3>1, DirectHas
    <3> QED BY <3>2 DEF u
  <2>4. \A f \in Fits : ship[f] = p[1] => Rights(fl0, p[2].item, f)
    BY <2>1 DEF ActiveSound
  <2> QED BY <1>1, <2>1, <2>2, <2>3, <2>4
<1>7. ActiveSound(d, fl, ship)
  BY <1>6 DEF ActiveSound
<1>8. ASSUME ~st, NEW p \in d.domain
      PROVE  /\ p[1] \in Fits /\ ship[p[1]] # None
             /\ p[2] \in d.buffs /\ p[2].filter = "domain"
             /\ <<p[2].item, ship[p[1]]>> \in d.tgts
             /\ Rights(fl, p[2].item, p[1])
  <2>1. p \in c.domain /\ p \notin Wide(c, uses) /\ p = <<p[1], p[2]>>
    BY <1>1 DEF Kinds
  <2>2. /\ p[1] \in Fits /\ ship[p[1]] # None
        /\ p[2] \in c.buffs /\ p[2].filter = "domain"
        /\ <<p[2].item, ship[p[1]]>> \in c.tgts
        /\ Rights(fl0, p[2].item, p[1])
        /\ p[2].item \in c.projectors
    BY <1>8, <2>1 DEF DomainSound, BuffsSound
  <2>3. <<p[2].item, ship[p[1]]>> \notin uses
    <3> DEFINE u == <<p[2].item, ship[p[1]]>>
    <3>1. u[1] = p[2].item /\ u[2] = ship[p[1]]
      OBVIOUS
    <3> HIDE DEF u
    <3>2. u[2] \in Ships /\ FitOf(u[2]) = p[1]
      BY <2>2, <3>1, FitOfItem DEF Typed
    <3>3. u \notin uses
      BY <2>1, <2>2, <3>1, <3>2, WideHas
    <3> QED BY <3>3 DEF u
  <2> QED BY <1>1, <2>2, <2>3
<1>9. ~st => DomainSound(d, fl, ship)
  BY <1>8 DEF DomainSound
<1> QED BY <1>2, <1>4, <1>5, <1>7, <1>9 DEF d

\* Boosters go on reaching the ships they are not unapplied from.
LEMMA UnappliedReaches ==
  ASSUME Typed, NEW fl0, NEW fl, NEW bf, NEW c, Kinds(c), NEW uses, NEW B0, NEW B \in SUBSET B0,
         Reaches(c, fl0, ship, bf, B0),
         \A b \in B, f \in c.fits :
           ship[f] \in c.affectees /\ Rights(fl, b, f) =>
             Rights(fl0, b, f) /\ <<b, ship[f]>> \notin uses,
         \A u \in uses : u = <<u[1], u[2]>>
  PROVE  Reaches(Unapplied(c, uses), fl, ship, bf, B)
<1> DEFINE d == Unapplied(c, uses)
<1>1. /\ d.fits = c.fits /\ d.affectees = c.affectees
      /\ d.active = c.active \ Direct(c, uses)
      /\ d.domain = c.domain \ Wide(c, uses)
  BY UnappliedIs DEF Kinds
<1> HIDE DEF d
<1> SUFFICES ASSUME NEW b \in B, NEW f \in c.fits,
                    ship[f] \in c.affectees, Rights(fl, b, f),
                    NEW t \in Templates[bf[b]]
             PROVE  IF t = "ship" THEN <<ship[f], Spec(b, bf[b], t)>> \in d.active
                    ELSE <<f, Spec(b, bf[b], t)>> \in d.domain
  BY <1>1 DEF Reaches, d
<1> DEFINE s == Spec(b, bf[b], t)
<1>2. s.item = b
  BY DEF Spec
<1>3. /\ <<b, ship[f]>> \notin uses
      /\ IF t = "ship" THEN <<ship[f], s>> \in c.active ELSE <<f, s>> \in c.domain
  BY DEF Reaches
<1> HIDE DEF s
<1>4. <<ship[f], s>> \notin Direct(c, uses)
  <2> DEFINE p == <<ship[f], s>>
  <2>1. p[1] = ship[f] /\ p[2] = s
    OBVIOUS
  <2> HIDE DEF p
  <2>2. p \notin Direct(c, uses)
    BY <1>2, <1>3, <2>1, DirectHas
  <2> QED BY <2>2 DEF p
<1>5. <<f, s>> \notin Wide(c, uses)
  <2> DEFINE p == <<f, s>>
  <2>1. p[1] = f /\ p[2] = s
    OBVIOUS
  <2> HIDE DEF p
  <2>2. ASSUME NEW u \in uses, FitOf(u[2]) = f, u[2] \in Ships
        PROVE  ship[f] = u[2]
    BY <2>2, FitOfItem DEF Kinds
  <2>3. p \notin Wide(c, uses)
    BY <1>2, <1>3, <2>1, <2>2, WideHas
  <2> QED BY <2>3 DEF p
<1> QED BY <1>1, <1>3, <1>4, <1>5 DEF s
-----------------------------------------------------------------------------
(* Buffs registered and forgotten as effects start and stop.               *)

\* Registers that buffs leave alone.
Steady(c, d) == /\ d.fits = c.fits /\ d.affectees = c.affectees
                /\ d.projectors = c.projectors /\ d.missed = c.missed

LEMMA RegisteredSettled ==
  ASSUME Typed, NEW bf \in [Boosters -> DOMAIN Templates], NEW st, NEW c,
         NEW b \in c.projectors,
         Sound(c, fleet, ship, bf, st),
         BuffsThere(c, bf, c.projectors \ {b}),
         ~st /\ ~c.missed => Reaches(c, fleet, ship, bf, c.projectors \ {b})
  PROVE  /\ Settled(Registered(c, b, bf[b]), fleet, ship, bf, st)
         /\ Steady(c, Registered(c, b, bf[b]))
<1>1. CASE Templates[bf[b]] = {}
  <2>1. Registered(c, b, bf[b]) = c
    BY <1>1 DEF Registered
  <2>2. BuffsThere(c, bf, c.projectors)
    BY <1>1 DEF BuffsThere
  <2>3. ~st /\ ~c.missed => Reaches(c, fleet, ship, bf, c.projectors)
    BY <1>1 DEF Reaches
  <2> QED BY <2>1, <2>2, <2>3 DEF Settled, Steady
<1>2. CASE Templates[bf[b]] # {}
  <2> DEFINE new == {Spec(b, bf[b], t) : t \in Templates[bf[b]]}
             e == [c EXCEPT !.buffs = @ \cup new]
             uses == Reach(c, b)
             d == Applied(e, uses)
  <2>1. Registered(c, b, bf[b]) = d
    BY <1>2 DEF Registered
  <2>2. /\ DOMAIN e = Register /\ Steady(c, e) /\ e.tgts = c.tgts
        /\ e.active = c.active /\ e.domain = c.domain /\ e.cache = c.cache
        /\ e.buffs = c.buffs \cup new
    BY DEF Sound, Kinds, Register, Steady
  <2>3. /\ DOMAIN d = Register
        /\ d.fits = e.fits /\ d.affectees = e.affectees /\ d.projectors = e.projectors
        /\ d.buffs = e.buffs /\ d.missed = e.missed
    <3> HIDE DEF e, uses
    <3> QED BY <2>2, AppliedIs
  <2>4. \A s \in new : /\ s \in Specs /\ s.item = b /\ s.buff = bf[b]
                       /\ s.filter \in Templates[bf[b]]
    BY FleetAssumption DEF Spec, Specs, Sound, Kinds
  <2>a. \A t \in Templates[bf[b]] : Spec(b, bf[b], t) \in new
    OBVIOUS
  <2> HIDE DEF e, uses, new
  <2>5. Sound(e, fleet, ship, bf, st)
    <3> USE DEF Sound, Steady
    <3>1. Kinds(e)
      BY <2>2, <2>4 DEF Kinds
    <3>2. Aboard(e, ship)
      BY <2>2 DEF Aboard
    <3>3. BuffsSound(e, bf)
      BY <2>2, <2>4 DEF BuffsSound
    <3>4. ActiveSound(e, fleet, ship)
      BY <2>2 DEF ActiveSound
    <3>5. ~st => DomainSound(e, fleet, ship)
      BY <2>2 DEF DomainSound
    <3>6. \A i \in DOMAIN c.cache : ActingOn(e, i) = ActingOn(c, i)
      BY <2>2 DEF ActingOn
    <3>7. ~st => CacheSound(e)
      BY <2>2, <3>6 DEF CacheSound
    <3> QED BY <3>1, <3>2, <3>3, <3>4, <3>5, <3>7
  <2>6. /\ \A u \in uses : /\ u = <<b, u[2]>> /\ u[1] = b /\ u[2] # None
                           /\ \E f \in c.fits : ship[f] = u[2] /\ Rights(fleet, b, f)
        /\ \A f \in c.fits :
             ship[f] # None /\ Rights(fleet, b, f) => <<b, ship[f]>> \in uses
    BY DEF uses, Reach, Rights
  <2>7. b \in Boosters /\ c.fits \subseteq Fits
    BY DEF Sound, Kinds
  <2>8. Granted(e, fleet, uses)
    <3>1. \A u \in uses : u[2] \in Ships
      BY <2>6, <2>7 DEF Typed
    <3>2. uses \subseteq Boosters \X (Ships \cup {None})
      BY <2>6, <2>7, <3>1
    <3>3. \A u \in uses : \E f \in Fits : ship[f] = u[2]
      BY <2>6, <2>7
    <3>4. \A u \in uses, f \in Fits : ship[f] = u[2] => Rights(fleet, u[1], f)
      BY <2>6, <2>7 DEF Typed, Apart
    <3> QED BY <3>2, <3>3, <3>4 DEF Granted
  <2>9. Sound(d, fleet, ship, bf, st)
    BY <2>5, <2>8, AppliedSound
  <2>10. BuffsThere(e, bf, c.projectors)
    BY <2>2, <2>a DEF BuffsThere
  <2>11. BuffsThere(d, bf, d.projectors)
    <3> HIDE DEF d
    <3> QED BY <2>2, <2>3, <2>10 DEF BuffsThere, Steady
  <2>12. ASSUME ~st /\ ~c.missed
         PROVE  Reaches(d, fleet, ship, bf, c.projectors)
    <3>1. Reaches(e, fleet, ship, bf, c.projectors \ {b})
      BY <2>2, <2>12 DEF Reaches, Steady
    <3>2. None \notin e.affectees
      BY <2>5, FleetAssumption DEF Sound, Kinds
    <3>3. ASSUME NEW x \in c.projectors, NEW f \in e.fits,
                 ship[f] \in e.affectees, Rights(fleet, x, f)
          PROVE  <<x, ship[f]>> \in uses \/ (x \in c.projectors \ {b} /\ Rights(fleet, x, f))
      BY <2>2, <2>6, <3>2, <3>3 DEF Steady
    <3>4. Kinds(e)
      BY <2>5 DEF Sound
    <3> HIDE DEF d
    <3> QED BY <2>10, <3>1, <3>3, <3>4, AppliedReaches DEF d
  <2>13. Steady(c, d)
    <3> HIDE DEF d
    <3> QED BY <2>2, <2>3 DEF Steady
  <2> HIDE DEF d
  <2> QED BY <2>1, <2>9, <2>11, <2>12, <2>13 DEF Settled, Steady
<1> QED BY <1>1, <1>2

\* Once its buff is forgotten nothing of a booster is left.
LEMMA UnregisteredSound ==
  ASSUME Typed, NEW bf, NEW st, NEW c, NEW b \in Boosters,
         Settled(c, fleet, ship, bf, st)
  PROVE  LET d == Unregistered(c, b)
         IN /\ Sound(d, fleet, ship, bf, st)
            /\ BuffsThere(d, bf, c.projectors \ {b})
            /\ ~st /\ ~c.missed => Reaches(d, fleet, ship, bf, c.projectors \ {b})
            /\ \A s \in d.buffs : s.item # b
            /\ Steady(c, d) /\ d.tgts \subseteq c.tgts
<1>1. CASE \A s \in c.buffs : s.item # b
  <2>1. Unregistered(c, b) = c
    BY <1>1 DEF Unregistered
  <2> QED BY <1>1, <2>1 DEF Settled, BuffsThere, Reaches, Steady
<1>2. CASE ~ \A s \in c.buffs : s.item # b
  <2> DEFINE uses == Uses(c, b)
             e == Unapplied(c, uses)
             d == [e EXCEPT !.buffs = {s \in @ : s.item # b}]
  <2>1. Unregistered(c, b) = d
    BY <1>2 DEF Unregistered
  <2>2. \A u \in uses : u \in c.tgts /\ u = <<b, u[2]>> /\ u[1] = b
    BY DEF Uses, Settled, Sound, Kinds
  <2>3. \A x : <<b, x>> \in c.tgts => <<b, x>> \in uses
    BY DEF Uses
  <2> HIDE DEF uses
  <2>4. DOMAIN c = Register
    BY DEF Settled, Sound, Kinds
  <2>5. Sound(e, fleet, ship, bf, st)
    BY UnappliedSound DEF Settled
  <2>6. /\ e.fits = c.fits /\ e.affectees = c.affectees /\ e.projectors = c.projectors
        /\ e.buffs = c.buffs /\ e.missed = c.missed
        /\ e.tgts = c.tgts \ uses /\ DOMAIN e = Register
    BY <2>4, UnappliedIs
  <2>7. ~st /\ ~c.missed => Reaches(e, fleet, ship, bf, c.projectors \ {b})
    <3>1. Kinds(c) /\ \A u \in uses : u = <<u[1], u[2]>>
      BY <2>2 DEF Settled, Sound
    <3>2. \A x \in c.projectors \ {b} : \A y : <<x, y>> \notin uses
      <4>1. ASSUME NEW x \in c.projectors \ {b}, NEW y, <<x, y>> \in uses
            PROVE  <<x, y>>[1] = b
        BY <4>1, <2>2
      <4> QED BY <4>1
    <3> HIDE DEF e
    <3> QED BY <3>1, <3>2, UnappliedReaches DEF Settled, e
  <2> HIDE DEF e
  <2>8. /\ DOMAIN d = Register /\ Steady(e, d) /\ d.tgts = e.tgts
        /\ d.active = e.active /\ d.domain = e.domain /\ d.cache = e.cache
        /\ d.buffs = {s \in e.buffs : s.item # b}
    BY <2>6 DEF Register, Steady
  <2> HIDE DEF d
  <2>9. \A p \in e.active : p[2].item # b
    <3> SUFFICES ASSUME NEW p \in e.active, p[2].item = b
                 PROVE  FALSE
      OBVIOUS
    <3>1. <<b, p[1]>> \in e.tgts
      BY <2>5 DEF Sound, ActiveSound
    <3> QED BY <2>3, <2>6, <3>1
  <2>10. ASSUME ~st
         PROVE  \A p \in e.domain : p[2].item # b
    <3> SUFFICES ASSUME NEW p \in e.domain, p[2].item = b
                 PROVE  FALSE
      OBVIOUS
    <3>1. <<b, ship[p[1]]>> \in e.tgts
      BY <2>5, <2>10 DEF Sound, DomainSound
    <3> QED BY <2>3, <2>6, <3>1
  <2>11. Sound(d, fleet, ship, bf, st)
    <3> USE DEF Sound, Steady
    <3>1. Kinds(d)
      BY <2>5, <2>8 DEF Kinds
    <3>2. Aboard(d, ship) /\ BuffsSound(d, bf)
      BY <2>5, <2>8 DEF Aboard, BuffsSound
    <3>3. ActiveSound(d, fleet, ship)
      BY <2>5, <2>8, <2>9 DEF ActiveSound
    <3>4. ~st => DomainSound(d, fleet, ship)
      BY <2>5, <2>8, <2>10 DEF DomainSound
    <3>5. \A i \in DOMAIN e.cache : ActingOn(d, i) = ActingOn(e, i)
      BY <2>8 DEF ActingOn
    <3>6. ~st => CacheSound(d)
      BY <2>5, <2>8, <3>5 DEF CacheSound
    <3> QED BY <3>1, <3>2, <3>3, <3>4, <3>6
  <2>12. BuffsThere(d, bf, c.projectors \ {b})
    BY <2>6, <2>8 DEF BuffsThere, Settled, Spec
  <2>13. ~st /\ ~c.missed => Reaches(d, fleet, ship, bf, c.projectors \ {b})
    BY <2>7, <2>8 DEF Reaches, Steady
  <2> QED BY <2>1, <2>6, <2>8, <2>11, <2>12, <2>13 DEF Steady
<1> QED BY <1>1, <1>2

LEMMA StartedSettled ==
  ASSUME Typed, NEW st, NEW c, Settled(c, fleet, ship, buff, st),
         NEW b \in Boosters \cap c.affectees
  PROVE  LET d == Started(c, b)
         IN /\ Settled(d, fleet, ship, buff, st)
            /\ d.fits = c.fits /\ d.affectees = c.affectees
<1> DEFINE e == [c EXCEPT !.projectors = @ \cup {b}]
<1>1. DOMAIN c = Register
  BY DEF Settled, Sound, Kinds
<1>2. /\ DOMAIN e = Register /\ e.projectors = c.projectors \cup {b}
      /\ e.fits = c.fits /\ e.affectees = c.affectees
      /\ e.buffs = c.buffs /\ e.tgts = c.tgts /\ e.active = c.active
      /\ e.domain = c.domain /\ e.cache = c.cache /\ e.missed = c.missed
  BY <1>1 DEF Register
<1>3. Started(c, b) = Registered(e, b, buff[b])
  BY DEF Started
<1> HIDE DEF e
<1>4. Sound(e, fleet, ship, buff, st)
  <2> USE DEF Settled, Sound
  <2>1. Kinds(e)
    BY <1>2 DEF Kinds
  <2>2. Aboard(e, ship) /\ BuffsSound(e, buff)
    BY <1>2 DEF Aboard, BuffsSound
  <2>3. ActiveSound(e, fleet, ship)
    BY <1>2 DEF ActiveSound
  <2>4. ~st => DomainSound(e, fleet, ship)
    BY <1>2 DEF DomainSound
  <2>5. \A i \in DOMAIN c.cache : ActingOn(e, i) = ActingOn(c, i)
    BY <1>2 DEF ActingOn
  <2>6. ~st => CacheSound(e)
    BY <1>2, <2>5 DEF CacheSound
  <2> QED BY <2>1, <2>2, <2>3, <2>4, <2>6
<1>5. BuffsThere(e, buff, e.projectors \ {b})
  BY <1>2 DEF Settled, BuffsThere
<1>6. ~st /\ ~e.missed => Reaches(e, fleet, ship, buff, e.projectors \ {b})
  BY <1>2 DEF Settled, Reaches
<1>7. b \in e.projectors /\ buff \in [Boosters -> DOMAIN Templates]
  BY <1>2 DEF Typed
<1>8. /\ Settled(Registered(e, b, buff[b]), fleet, ship, buff, st)
      /\ Steady(e, Registered(e, b, buff[b]))
  BY <1>4, <1>5, <1>6, <1>7, RegisteredSettled
<1> QED BY <1>2, <1>3, <1>8 DEF Steady

LEMMA StoppedSettled ==
  ASSUME Typed, NEW st, NEW c, Settled(c, fleet, ship, buff, st), NEW b \in Boosters
  PROVE  LET d == Stopped(c, b)
         IN /\ Settled(d, fleet, ship, buff, st)
            /\ d.fits = c.fits /\ d.affectees = c.affectees
            /\ d.projectors = c.projectors \ {b} /\ d.tgts \subseteq c.tgts
            /\ d.missed = c.missed
<1> DEFINE e == Unregistered(c, b)
           d == [e EXCEPT !.projectors = @ \ {b}]
<1>1. /\ Sound(e, fleet, ship, buff, st)
      /\ BuffsThere(e, buff, c.projectors \ {b})
      /\ ~st /\ ~c.missed => Reaches(e, fleet, ship, buff, c.projectors \ {b})
      /\ \A s \in e.buffs : s.item # b
      /\ Steady(c, e) /\ e.tgts \subseteq c.tgts
  BY UnregisteredSound
<1>2. Stopped(c, b) = d
  BY DEF Stopped
<1> HIDE DEF e
<1>3. DOMAIN e = Register
  BY <1>1 DEF Sound, Kinds
<1>4. /\ DOMAIN d = Register /\ d.projectors = e.projectors \ {b}
      /\ d.fits = e.fits /\ d.affectees = e.affectees
      /\ d.buffs = e.buffs /\ d.tgts = e.tgts /\ d.active = e.active
      /\ d.domain = e.domain /\ d.cache = e.cache /\ d.missed = e.missed
  BY <1>3 DEF Register
<1> HIDE DEF d
<1>5. Sound(d, fleet, ship, buff, st)
  <2> USE DEF Sound
  <2>1. Kinds(d)
    BY <1>1, <1>4 DEF Kinds
  <2>2. Aboard(d, ship)
    BY <1>1, <1>4 DEF Aboard
  <2>3. BuffsSound(d, buff)
    BY <1>1, <1>4 DEF BuffsSound
  <2>4. ActiveSound(d, fleet, ship)
    BY <1>1, <1>4 DEF ActiveSound
  <2>5. ~st => DomainSound(d, fleet, ship)
    BY <1>1, <1>4 DEF DomainSound
  <2>6. \A i \in DOMAIN e.cache : ActingOn(d, i) = ActingOn(e, i)
    BY <1>4 DEF ActingOn
  <2>7. ~st => CacheSound(d)
    BY <1>1, <1>4, <2>6 DEF CacheSound
  <2> QED BY <2>1, <2>2, <2>3, <2>4, <2>5, <2>7
<1>6. BuffsThere(d, buff, d.projectors)
  BY <1>1, <1>4 DEF BuffsThere, Steady
<1>7. ~st /\ ~d.missed => Reaches(d, fleet, ship, buff, d.projectors)
  BY <1>1, <1>4 DEF Reaches, Steady
<1> QED BY <1>1, <1>2, <1>4, <1>5, <1>6, <1>7 DEF Settled, Steady
-----------------------------------------------------------------------------
(* Items loaded and unloaded, one at a time.                               *)

LEMMA LoadItemSettled ==
  ASSUME Typed, NEW st, NEW c, Settled(c, fleet, ship, buff, st),
         NEW i \in Items, FitOf(i) \in c.fits
  PROVE  LET d == LoadItem(c, i)
         IN Settled(d, fleet, ship, buff, st) /\ d.fits = c.fits
<1> DEFINE e == [c EXCEPT !.affectees = @ \cup {i},
                          !.missed = @ \/ (i \in Ships /\ Owed(c, FitOf(i)) # {})]
<1>1. DOMAIN c = Register
  BY DEF Settled, Sound, Kinds
<1>2. /\ DOMAIN e = Register /\ e.affectees = c.affectees \cup {i}
      /\ e.fits = c.fits /\ e.projectors = c.projectors
      /\ e.buffs = c.buffs /\ e.tgts = c.tgts /\ e.active = c.active
      /\ e.domain = c.domain /\ e.cache = c.cache
      /\ e.missed = (c.missed \/ (i \in Ships /\ Owed(c, FitOf(i)) # {}))
  BY <1>1 DEF Register
<1>3. LoadItem(c, i) = IF i \in ready THEN Started(e, i) ELSE e
  BY DEF LoadItem
<1> HIDE DEF e
<1>4. Settled(e, fleet, ship, buff, st)
  <2> USE DEF Settled, Sound
  <2>1. Kinds(e)
    BY <1>2 DEF Kinds
  <2>2. Aboard(e, ship)
    <3>1. i \notin Ships => Home[i] = FitOf(i)
      BY FitOfItem DEF Items
    <3>2. i \in Ships => ship[FitOf(i)] = i
      BY FitOfItem DEF Kinds
    <3> QED BY <1>2, <3>1, <3>2 DEF Aboard
  <2>3. BuffsSound(e, buff) /\ BuffsThere(e, buff, e.projectors)
    BY <1>2 DEF BuffsSound, BuffsThere
  <2>4. ActiveSound(e, fleet, ship)
    BY <1>2 DEF ActiveSound
  <2>5. ~st => DomainSound(e, fleet, ship)
    BY <1>2 DEF DomainSound
  <2>6. ASSUME ~st, NEW j \in DOMAIN c.cache
        PROVE  ActingOn(e, j) = ActingOn(c, j)
    <3>1. \A p \in c.active : p[2].item \in c.affectees
      BY DEF ActiveSound, BuffsSound, Kinds
    <3>2. \A p \in c.domain : p[2].item \in c.affectees
      BY <2>6 DEF DomainSound, BuffsSound, Kinds
    <3> QED BY <1>2, <3>1, <3>2, SameActing
  <2>7. ~st => CacheSound(e)
    BY <1>2, <2>6 DEF CacheSound
  <2>8. ASSUME ~st, ~e.missed
        PROVE  Reaches(e, fleet, ship, buff, e.projectors)
    <3> SUFFICES ASSUME NEW b \in c.projectors, NEW f \in c.fits,
                        ship[f] \in c.affectees \cup {i}, Rights(fleet, b, f)
                 PROVE  ship[f] \in c.affectees
      BY <1>2, <2>8 DEF Reaches
    <3>1. SUFFICES ASSUME ship[f] = i
                   PROVE  FALSE
      OBVIOUS
    <3>2. f \in Fits /\ i # None
      BY FleetAssumption DEF Kinds
    <3>3. i \in Ships /\ FitOf(i) = f
      BY <3>1, <3>2, FitOfItem DEF Typed
    <3>4. b \in Owed(c, f)
      BY DEF Owed, Rights
    <3> QED BY <1>2, <2>8, <3>3, <3>4
  <2> QED BY <2>1, <2>2, <2>3, <2>4, <2>5, <2>7, <2>8
<1>5. ASSUME i \in ready
      PROVE  Settled(Started(e, i), fleet, ship, buff, st) /\ Started(e, i).fits = e.fits
  <2>1. i \in Boosters \cap e.affectees
    BY <1>2, <1>5 DEF Typed
  <2> QED BY <1>4, <2>1, StartedSettled
<1> QED BY <1>2, <1>3, <1>4, <1>5

LEMMA UnloadItemSettled ==
  ASSUME Typed, NEW st, NEW c, Settled(c, fleet, ship, buff, st), NEW i
  PROVE  LET d == UnloadItem(c, i)
         IN /\ Settled(d, fleet, ship, buff, st)
            /\ d.fits = c.fits /\ d.affectees = c.affectees \ {i}
            /\ d.tgts \subseteq c.tgts /\ d.missed = c.missed
<1> DEFINE e == IF i \in c.projectors THEN Stopped(c, i) ELSE c
           d == [e EXCEPT !.affectees = @ \ {i},
                          !.active = {p \in @ : p[1] # i},
                          !.cache = Recalc(@, {i})]
<1>1. UnloadItem(c, i) = d
  BY DEF UnloadItem
<1>2. /\ Settled(e, fleet, ship, buff, st)
      /\ e.fits = c.fits /\ e.affectees = c.affectees /\ e.tgts \subseteq c.tgts
      /\ e.missed = c.missed /\ i \notin e.projectors
  <2>1. CASE i \in c.projectors
    <3>1. i \in Boosters
      BY <2>1 DEF Settled, Sound, Kinds
    <3> QED BY <2>1, <3>1, StoppedSettled
  <2>2. CASE i \notin c.projectors
    BY <2>2
  <2> QED BY <2>1, <2>2
<1> HIDE DEF e
<1>3. DOMAIN e = Register
  BY <1>2 DEF Settled, Sound, Kinds
<1>4. /\ DOMAIN d = Register /\ d.affectees = e.affectees \ {i}
      /\ d.fits = e.fits /\ d.projectors = e.projectors
      /\ d.buffs = e.buffs /\ d.tgts = e.tgts /\ d.missed = e.missed
      /\ d.active = {p \in e.active : p[1] # i}
      /\ d.domain = e.domain /\ d.cache = Recalc(e.cache, {i})
  BY <1>3 DEF Register
<1> HIDE DEF d
<1>5. /\ DOMAIN d.cache = DOMAIN e.cache \ {i}
      /\ \A j \in DOMAIN d.cache : d.cache[j] = e.cache[j]
  BY <1>4 DEF Recalc
<1>6. Settled(d, fleet, ship, buff, st)
  <2> USE <1>2 DEF Settled, Sound
  <2>1. Kinds(d)
    BY <1>4, <1>5 DEF Kinds
  <2>2. Aboard(d, ship)
    BY <1>4 DEF Aboard
  <2>3. BuffsSound(d, buff) /\ BuffsThere(d, buff, d.projectors)
    BY <1>4 DEF BuffsSound, BuffsThere
  <2>4. ActiveSound(d, fleet, ship)
    BY <1>4 DEF ActiveSound
  <2>5. ~st => DomainSound(d, fleet, ship)
    BY <1>4 DEF DomainSound
  <2>6. ASSUME ~st, NEW j \in DOMAIN d.cache
        PROVE  ActingOn(d, j) = ActingOn(e, j)
    <3>1. \A p \in e.active : p[2].item \in e.affectees /\ p[2].item # i
      BY DEF ActiveSound, BuffsSound, Kinds
    <3>2. \A p \in e.domain : p[2].item \in e.affectees /\ p[2].item # i
      BY <2>6 DEF DomainSound, BuffsSound, Kinds
    <3>3. j # i
      BY <1>5
    <3> QED BY <1>4, <3>1, <3>2, <3>3, SameActing
  <2>7. ~st => CacheSound(d)
    BY <1>5, <2>6 DEF CacheSound
  <2>8. ~st /\ ~d.missed => Reaches(d, fleet, ship, buff, d.projectors)
    BY <1>4 DEF Reaches
  <2> QED BY <2>1, <2>2, <2>3, <2>4, <2>5, <2>7, <2>8
<1> QED BY <1>1, <1>2, <1>4, <1>6

-----------------------------------------------------------------------------
(* Loops over the items of a fit, and over fits.                           *)

\* SetToSeq goes through all of a finite set.
LEMMA SeqOfSet ==
  ASSUME NEW S, IsFiniteSet(S)
  PROVE  /\ Cardinality(S) \in Nat
         /\ SetToSeq(S) \in [1..Cardinality(S) -> S]
         /\ \A x \in S : \E k \in 1..Cardinality(S) : SetToSeq(S)[k] = x
<1> DEFINE n == Cardinality(S)
<1>1. n \in Nat /\ ExistsBijection(1..n, S)
  BY FS_CardinalityType
<1>2. \E f \in [1..n -> S] : IsInjective(f)
  BY <1>1 DEF ExistsBijection, Bijection, Injection
<1>3. SetToSeq(S) \in [1..n -> S] /\ IsInjective(SetToSeq(S))
  BY <1>2 DEF SetToSeq
<1>4. SetToSeq(S) \in Injection(1..n, S)
  BY <1>3 DEF Injection
<1>5. Cardinality(1..n) = n
  BY <1>1, FS_Interval
<1>6. SetToSeq(S) \in Surjection(1..n, S)
  BY <1>4, <1>5, FS_Injection
<1> QED BY <1>1, <1>3, <1>6 DEF Surjection

LEMMA Prepended ==
  ASSUME NEW T, NEW x \in T, NEW n \in Nat, NEW q \in [1..n -> T]
  PROVE  /\ Len(<<x>> \o q) = n + 1 /\ (<<x>> \o q)[1] = x
         /\ \A k \in 2..(n + 1) : (<<x>> \o q)[k] = q[k - 1]
<1>1. q \in Seq(T) /\ Len(q) = n
  OBVIOUS
<1>2. <<x>> \in Seq(T) /\ Len(<<x>>) = 1 /\ <<x>>[1] = x
  OBVIOUS
<1> QED BY <1>1, <1>2, ConcatProperties

LEMMA InFitHas ==
  ASSUME Typed, NEW f \in Fits
  PROVE  /\ Len(InFit(f)) \in Nat
         /\ \A k \in 1..Len(InFit(f)) : InFit(f)[k] \in Items /\ FitOf(InFit(f)[k]) = f
         /\ \A i \in Items : FitOf(i) = f => \E k \in 1..Len(InFit(f)) : InFit(f)[k] = i
<1> DEFINE S == {i \in Boosters \cup Gadgets : Home[i] = f}
           n == Cardinality(S)
           q == SetToSeq(S)
           h == IF ship[f] = None THEN <<>> ELSE <<ship[f]>>
<1>1. IsFiniteSet(S)
  BY FS_Subset, FleetAssumption
<1>2. InFit(f) = h \o q
  BY DEF InFit
<1> HIDE DEF S
<1>3. n \in Nat /\ q \in [1..n -> S] /\ \A x \in S : \E k \in 1..n : q[k] = x
  BY <1>1, SeqOfSet
<1>4. ship[f] # None => ship[f] \in Items /\ FitOf(ship[f]) = f
  BY FitOfItem DEF Typed, Items
<1>5. \A i \in S : i \in Items /\ FitOf(i) = f
  BY FitOfItem DEF S, Items
<1>6. \A i \in Items : FitOf(i) = f => i \in S \/ (i = ship[f] /\ ship[f] # None)
  <2> SUFFICES ASSUME NEW i \in Items, FitOf(i) = f
               PROVE  i \in S \/ (i = ship[f] /\ ship[f] # None)
    OBVIOUS
  <2>1. CASE i \in Ships
    <3>1. ship[f] = i /\ i # None
      BY <2>1, FitOfItem, FleetAssumption DEF Items
    <3> QED BY <3>1
  <2>2. CASE i \in Boosters \cup Gadgets
    BY <2>2, FitOfItem DEF S
  <2> QED BY <2>1, <2>2 DEF Items
<1> HIDE DEF n, q
<1>7. q \in Seq(S) /\ Len(q) = n
  BY <1>3
<1>8. CASE ship[f] = None
  <2>1. h \o q = q
    BY <1>7, <1>8, ConcatEmptySeq
  <2> QED BY <1>2, <1>3, <1>5, <1>6, <1>7, <1>8, <2>1
<1>9. CASE ship[f] # None
  <2> DEFINE x == ship[f]
  <2>1. h = <<x>>
    BY <1>9
  <2>2. q \in [1..n -> S \cup {x}]
    BY <1>3
  <2> HIDE DEF h, x
  <2>3. /\ Len(<<x>> \o q) = n + 1 /\ (<<x>> \o q)[1] = x
        /\ \A k \in 2..(n + 1) : (<<x>> \o q)[k] = q[k - 1]
    <3>1. x \in S \cup {x}
      OBVIOUS
    <3> QED BY <1>3, <2>2, <3>1, Prepended
  <2> DEFINE w == <<x>> \o q
  <2> HIDE DEF w
  <2>4. ASSUME NEW k \in 1..(n + 1)
        PROVE  w[k] \in S \cup {x}
    <3>1. CASE k = 1
      BY <2>3, <3>1 DEF w
    <3>2. CASE k # 1
      <4>1. k \in 2..(n + 1) /\ k - 1 \in 1..n
        BY <1>3, <3>2
      <4> QED BY <1>3, <2>3, <4>1 DEF w
    <3> QED BY <3>1, <3>2
  <2>5. ASSUME NEW i \in S
        PROVE  \E k \in 1..(n + 1) : w[k] = i
    <3>1. PICK k \in 1..n : q[k] = i
      BY <1>3
    <3>2. k + 1 \in 2..(n + 1) /\ (k + 1) - 1 = k /\ k + 1 \in 1..(n + 1)
      BY <1>3
    <3>3. w[k + 1] = i
      BY <2>3, <3>1, <3>2 DEF w
    <3> QED BY <3>2, <3>3
  <2>6. w[1] = x /\ 1 \in 1..(n + 1)
    BY <1>3, <2>3 DEF w
  <2>7. InFit(f) = w /\ Len(w) = n + 1
    BY <1>2, <2>1, <2>3 DEF w
  <2>8. \A k \in 1..(n + 1) : w[k] \in Items /\ FitOf(w[k]) = f
    BY <1>4, <1>5, <1>9, <2>4 DEF x
  <2>9. \A i \in Items : FitOf(i) = f => \E k \in 1..(n + 1) : w[k] = i
    BY <1>6, <2>5, <2>6 DEF x
  <2> QED BY <1>3, <2>7, <2>8, <2>9
<1> QED BY <1>8, <1>9
LEMMA LoadFitSettled ==
  ASSUME Typed, NEW st, NEW c, Settled(c, fleet, ship, buff, st), NEW f \in c.fits
  PROVE  Settled(LoadFit(c, f), fleet, ship, buff, st) /\ LoadFit(c, f).fits = c.fits
<1> DEFINE q == InFit(f)
           n == Len(q)
<1>1. /\ n \in Nat
      /\ \A k \in 1..n : q[k] \in Items /\ FitOf(q[k]) = f
  BY InFitHas DEF Settled, Sound, Kinds
<1> HIDE DEF n, q
<1>2. PICK after : /\ after[0] = c /\ after[n] = LoadFit(c, f)
                   /\ \A k \in 1..n : after[k] = LoadItem(after[k - 1], q[k])
  BY <1>1, Load!Trace DEF LoadFit, n, q
<1> DEFINE T == {k \in 0..n : /\ Settled(after[k], fleet, ship, buff, st)
                              /\ after[k].fits = c.fits}
<1>3. 0 \in T
  BY <1>1, <1>2
<1>4. ASSUME NEW k \in 1..n, k - 1 \in T
      PROVE  k \in T
  <2>1. q[k] \in Items /\ FitOf(q[k]) \in after[k - 1].fits
    BY <1>1, <1>4
  <2>2. k \in 0..n
    BY <1>1
  <2> QED BY <1>2, <1>4, <2>1, <2>2, LoadItemSettled
<1>5. 0..n \subseteq T
  <2> HIDE DEF T
  <2> QED BY <1>1, <1>3, <1>4, Load!Upward
<1> QED BY <1>1, <1>2, <1>5

LEMMA UnloadFitSettled ==
  ASSUME Typed, NEW st, NEW c, Settled(c, fleet, ship, buff, st), NEW f \in Fits
  PROVE  LET d == UnloadFit(c, f)
         IN /\ Settled(d, fleet, ship, buff, st)
            /\ d.fits = c.fits /\ d.affectees \subseteq c.affectees
            /\ \A i \in d.affectees : FitOf(i) # f
<1> DEFINE q == InFit(f)
           n == Len(q)
<1>1. /\ n \in Nat
      /\ \A i \in Items : FitOf(i) = f => \E k \in 1..n : q[k] = i
  BY InFitHas
<1> HIDE DEF n, q
<1>2. PICK after : /\ after[0] = c /\ after[n] = UnloadFit(c, f)
                   /\ \A k \in 1..n : after[k] = UnloadItem(after[k - 1], q[k])
  BY <1>1, Unload!Trace DEF UnloadFit, n, q
<1> DEFINE T == {k \in 0..n : /\ Settled(after[k], fleet, ship, buff, st)
                              /\ after[k].fits = c.fits
                              /\ after[k].affectees \subseteq c.affectees
                              /\ \A j \in 1..k : q[j] \notin after[k].affectees}
<1>3. 0 \in T
  BY <1>1, <1>2
<1>4. ASSUME NEW k \in 1..n, k - 1 \in T
      PROVE  k \in T
  <2>1. k \in 0..n /\ \A j \in 1..k : j \in 1..(k - 1) \/ j = k
    BY <1>1
  <2> QED BY <1>2, <1>4, <2>1, UnloadItemSettled
<1>5. 0..n \subseteq T
  <2> HIDE DEF T
  <2> QED BY <1>1, <1>3, <1>4, Load!Upward
<1>6. n \in T
  BY <1>1, <1>5
<1>7. \A i \in after[n].affectees : i \in Items
  BY <1>6 DEF Settled, Sound, Kinds
<1> QED BY <1>1, <1>2, <1>6, <1>7

LEMMA LoadFitsSettled ==
  ASSUME Typed, NEW st, NEW c, Settled(c, fleet, ship, buff, st),
         NEW q, Len(q) \in Nat, \A k \in 1..Len(q) : q[k] \in c.fits
  PROVE  LET d == LoadFits!All(c, q)
         IN Settled(d, fleet, ship, buff, st) /\ d.fits = c.fits
<1> DEFINE n == Len(q)
<1>1. n \in Nat
  OBVIOUS
<1> HIDE DEF n
<1>2. PICK after : /\ after[0] = c /\ after[n] = LoadFits!All(c, q)
                   /\ \A k \in 1..n : after[k] = LoadFit(after[k - 1], q[k])
  BY LoadFits!Trace DEF n
<1> DEFINE T == {k \in 0..n : /\ Settled(after[k], fleet, ship, buff, st)
                              /\ after[k].fits = c.fits}
<1>3. 0 \in T
  BY <1>1, <1>2
<1>4. ASSUME NEW k \in 1..n, k - 1 \in T
      PROVE  k \in T
  <2>1. k \in 0..n /\ q[k] \in after[k - 1].fits
    BY <1>1, <1>4 DEF n
  <2> QED BY <1>2, <1>4, <2>1, LoadFitSettled
<1>5. 0..n \subseteq T
  <2> HIDE DEF T
  <2> QED BY <1>1, <1>3, <1>4, Load!Upward
<1> QED BY <1>1, <1>2, <1>5

LEMMA UnloadFitsSettled ==
  ASSUME Typed, NEW st, NEW c, Settled(c, fleet, ship, buff, st),
         NEW q, Len(q) \in Nat, \A k \in 1..Len(q) : q[k] \in Fits
  PROVE  LET d == UnloadFits!All(c, q)
         IN /\ Settled(d, fleet, ship, buff, st)
            /\ d.fits = c.fits /\ d.affectees \subseteq c.affectees
            /\ \A i \in d.affectees : \A k \in 1..Len(q) : FitOf(i) # q[k]
<1> DEFINE n == Len(q)
<1>1. n \in Nat
  OBVIOUS
<1> HIDE DEF n
<1>2. PICK after : /\ after[0] = c /\ after[n] = UnloadFits!All(c, q)
                   /\ \A k \in 1..n : after[k] = UnloadFit(after[k - 1], q[k])
  BY UnloadFits!Trace DEF n
<1> DEFINE T == {k \in 0..n : /\ Settled(after[k], fleet, ship, buff, st)
                              /\ after[k].fits = c.fits
                              /\ after[k].affectees \subseteq c.affectees
                              /\ \A i \in after[k].affectees : \A j \in 1..k : FitOf(i) # q[j]}
<1>3. 0 \in T
  BY <1>1, <1>2
<1>4. ASSUME NEW k \in 1..n, k - 1 \in T
      PROVE  k \in T
  <2>1. k \in 0..n /\ q[k] \in Fits /\ \A j \in 1..k : j \in 1..(k - 1) \/ j = k
    BY <1>1 DEF n
  <2>2. /\ Settled(after[k], fleet, ship, buff, st)
        /\ after[k].fits = c.fits
        /\ after[k].affectees \subseteq after[k - 1].affectees
        /\ \A i \in after[k].affectees : FitOf(i) # q[k]
    BY <1>2, <1>4, <2>1, UnloadFitSettled
  <2> QED BY <1>4, <2>1, <2>2
<1>5. 0..n \subseteq T
  <2> HIDE DEF T
  <2> QED BY <1>1, <1>3, <1>4, Load!Upward
<1>6. n \in T
  BY <1>1, <1>5
<1> QED BY <1>2, <1>6 DEF n
-----------------------------------------------------------------------------
(* Fits that join and leave a fleet.                                       *)

LEMMA AppliedSettled ==
  ASSUME Typed, NEW fl0, NEW fl, NEW st, NEW c, Settled(c, fl0, ship, buff, st),
         \A b \in c.projectors, f \in Fits : Rights(fl0, b, f) => Rights(fl, b, f),
         NEW uses, Granted(c, fl, uses),
         \A b \in c.projectors, f \in c.fits :
           ship[f] \in c.affectees /\ Rights(fl, b, f) =>
             <<b, ship[f]>> \in uses \/ Rights(fl0, b, f)
  PROVE  Settled(Applied(c, uses), fl, ship, buff, st)
<1> DEFINE d == Applied(c, uses)
<1>1. Kinds(c) /\ DOMAIN c = Register
  BY DEF Settled, Sound, Kinds
<1>2. d.projectors = c.projectors /\ d.buffs = c.buffs /\ d.missed = c.missed
  BY <1>1, AppliedIs
<1>3. Sound(d, fl, ship, buff, st)
  BY AppliedSound DEF Settled
<1>4. ~st /\ ~c.missed => Reaches(d, fl, ship, buff, c.projectors)
  BY <1>1, AppliedReaches DEF Settled
<1> HIDE DEF d
<1>5. BuffsThere(d, buff, d.projectors)
  BY <1>2 DEF Settled, BuffsThere
<1> QED BY <1>2, <1>3, <1>4, <1>5 DEF Settled, d

\* Of a fit that is not in the solar system nothing is loaded.
LEMMA Outside ==
  ASSUME Typed, NEW fl, NEW bf, NEW st, NEW c, Settled(c, fl, ship, bf, st),
         NEW f \in Fits, f \notin c.fits
  PROVE  /\ ship[f] \notin c.affectees
         /\ \A b \in c.projectors : Home[b] # f
<1>1. None \notin c.affectees
  BY FleetAssumption DEF Settled, Sound, Kinds
<1>2. ship[f] \notin c.affectees
  BY <1>1 DEF Settled, Sound, Kinds, Aboard, Typed, Apart
<1>3. \A b \in c.projectors : b \in c.affectees \ Ships
  BY FleetAssumption DEF Settled, Sound, Kinds
<1> QED BY <1>2, <1>3 DEF Settled, Sound, Aboard

LEMMA LeavesSettled ==
  ASSUME Typed, NEW fl \in [Fits -> Fleets \cup {None}], NEW f \in Fits, fl[f] # None,
         NEW st, NEW c, Settled(c, fl, ship, buff, st),
         ~st => f \in c.fits \/ ship[f] = None \/ \A u \in c.tgts : u[2] # ship[f]
  PROVE  LET d == Leaves(c, <<fl, f>>)
         IN /\ Settled(d, [fl EXCEPT ![f] = None], ship, buff, st)
            /\ d.fits = c.fits /\ d.affectees = c.affectees /\ d.tgts \subseteq c.tgts
<1> DEFINE fl2 == [fl EXCEPT ![f] = None]
<1>1. \A g \in Fits : fl2[g] = IF g = f THEN None ELSE fl[g]
  OBVIOUS
<1>2. Kinds(c) /\ DOMAIN c = Register /\ c.fits \subseteq Fits
  BY DEF Settled, Sound, Kinds
<1>3. \A b \in c.projectors : b \in Boosters /\ Home[b] \in Fits
  BY <1>2, FleetAssumption DEF Kinds
<1> HIDE DEF fl2
<1>4. \A b \in c.projectors, g \in Fits : Rights(fl2, b, g) => Rights(fl, b, g)
  BY <1>1, <1>3 DEF Rights, Mates
<1>5. \A b \in c.projectors, g \in Fits :
        Rights(fl, b, g) /\ g # f /\ Home[b] # f => Rights(fl2, b, g)
  BY <1>1, <1>3 DEF Rights, Mates
<1>6. CASE f \notin c.fits
  <2>1. Leaves(c, <<fl, f>>) = c
    BY <1>6 DEF Leaves
  <2>2. /\ ship[f] \notin c.affectees
        /\ \A b \in c.projectors : Home[b] # f
    BY <1>6, Outside
  <2>3. ActiveSound(c, fl2, ship)
    <3> SUFFICES ASSUME NEW p \in c.active, NEW g \in Fits, ship[g] = p[1]
                 PROVE  Rights(fl2, p[2].item, g)
      BY DEF Settled, Sound, ActiveSound
    <3>1. g # f /\ p[2].item \in c.projectors /\ Rights(fl, p[2].item, g)
      BY <2>2 DEF Settled, Sound, ActiveSound, BuffsSound
    <3> QED BY <1>5, <2>2, <3>1
  <2>4. ASSUME ~st
        PROVE  DomainSound(c, fl2, ship)
    <3> SUFFICES ASSUME NEW p \in c.domain
                 PROVE  Rights(fl2, p[2].item, p[1])
      BY <2>4 DEF Settled, Sound, DomainSound
    <3>1. /\ p[1] \in Fits /\ ship[p[1]] # None /\ p[2].item \in c.projectors
          /\ <<p[2].item, ship[p[1]]>> \in c.tgts /\ Rights(fl, p[2].item, p[1])
      BY <2>4 DEF Settled, Sound, DomainSound, BuffsSound
    <3>2. p[1] # f
      <4> DEFINE u == <<p[2].item, ship[p[1]]>>
      <4>1. u[2] = ship[p[1]] /\ u \in c.tgts
        BY <3>1
      <4> HIDE DEF u
      <4> QED BY <1>6, <2>4, <3>1, <4>1
    <3> QED BY <1>5, <2>2, <3>1, <3>2
  <2>5. ~st /\ ~c.missed => Reaches(c, fl2, ship, buff, c.projectors)
    BY <1>2, <1>4 DEF Settled, Reaches
  <2> QED BY <2>1, <2>3, <2>4, <2>5 DEF Settled, Sound, fl2
<1>7. CASE f \in c.fits
  <2> DEFINE uses == Left(c, fl, f)
             e == Unapplied(c, uses)
             gone == \E b \in c.projectors : Home[b] = f
             d == [e EXCEPT !.missed = @ \/ gone]
  <2>1. Leaves(c, <<fl, f>>) = d
    BY <1>7 DEF Leaves
  <2>2. /\ \A b \in c.projectors : fl[Home[b]] = fl[f] /\ ship[f] # None
             => <<b, ship[f]>> \in uses
        /\ \A b \in c.projectors, g \in Fits : Home[b] = f /\ g # f /\ fl[g] = fl[f]
             => <<b, ship[g]>> \in uses
        /\ \A u \in uses : /\ u = <<u[1], u[2]>>
                           /\ (u[2] = ship[f] /\ u[2] # None) \/ Home[u[1]] = f
    BY DEF Left
  <2> HIDE DEF uses
  <2>3. /\ e.fits = c.fits /\ e.affectees = c.affectees /\ e.projectors = c.projectors
        /\ e.buffs = c.buffs /\ e.missed = c.missed
        /\ e.tgts = c.tgts \ uses /\ DOMAIN e = Register
    BY <1>2, UnappliedIs
  <2>4. Sound(e, fl2, ship, buff, st)
    <3>1. ASSUME NEW b \in c.projectors, NEW g \in Fits,
                 Rights(fl, b, g), ship[g] # None, <<b, ship[g]>> \notin uses
          PROVE  Rights(fl2, b, g)
      <4>1. CASE Home[b] = g
        BY <4>1 DEF Rights
      <4>2. CASE Home[b] # g /\ g = f
        BY <2>2, <3>1, <4>2 DEF Rights, Mates
      <4>3. CASE Home[b] # g /\ Home[b] = f
        BY <2>2, <3>1, <4>3 DEF Rights, Mates
      <4>4. CASE g # f /\ Home[b] # f
        BY <1>5, <3>1, <4>4
      <4> QED BY <4>1, <4>2, <4>3, <4>4
    <3> QED BY <3>1, UnappliedSound DEF Settled
  <2>5. ASSUME ~st, ~c.missed, ~gone
        PROVE  Reaches(e, fl2, ship, buff, c.projectors)
    <3>1. ASSUME NEW b \in c.projectors, NEW g \in c.fits,
                 ship[g] \in c.affectees, Rights(fl2, b, g)
          PROVE  Rights(fl, b, g) /\ <<b, ship[g]>> \notin uses
      <4>1. Rights(fl, b, g) /\ Home[b] # f
        BY <1>2, <1>4, <2>5, <3>1
      <4>2. g # f
        BY <1>1, <3>1, <4>1 DEF Rights, Mates
      <4>3. ship[g] # None
        BY <3>1, FleetAssumption DEF Settled, Sound, Kinds
      <4>4. ship[g] # ship[f]
        BY <1>2, <4>2, <4>3 DEF Typed, Apart
      <4> DEFINE u == <<b, ship[g]>>
      <4>5. u[1] = b /\ u[2] = ship[g]
        OBVIOUS
      <4> HIDE DEF u
      <4>6. u \notin uses
        BY <2>2, <4>1, <4>4, <4>5
      <4> QED BY <4>1, <4>6 DEF u
    <3>2. Reaches(c, fl, ship, buff, c.projectors)
      BY <2>5 DEF Settled
    <3> HIDE DEF e
    <3> QED BY <1>2, <2>2, <3>1, <3>2, UnappliedReaches DEF e
  <2> HIDE DEF e, gone
  <2>6. /\ DOMAIN d = Register /\ d.missed = (e.missed \/ gone)
        /\ d.fits = e.fits /\ d.affectees = e.affectees /\ d.projectors = e.projectors
        /\ d.buffs = e.buffs /\ d.tgts = e.tgts /\ d.active = e.active
        /\ d.domain = e.domain /\ d.cache = e.cache
    BY <2>3 DEF Register
  <2> HIDE DEF d
  <2>7. Sound(d, fl2, ship, buff, st)
    <3> USE <2>4, <2>6 DEF Sound
    <3>1. gone \in BOOLEAN
      BY DEF gone
    <3>2. Kinds(d)
      BY <3>1 DEF Kinds
    <3>3. Aboard(d, ship) /\ BuffsSound(d, buff)
      BY DEF Aboard, BuffsSound
    <3>4. ActiveSound(d, fl2, ship)
      BY DEF ActiveSound
    <3>5. ~st => DomainSound(d, fl2, ship)
      BY DEF DomainSound
    <3>6. \A i \in DOMAIN e.cache : ActingOn(d, i) = ActingOn(e, i)
      BY DEF ActingOn
    <3>7. ~st => CacheSound(d)
      BY <3>6 DEF CacheSound
    <3> QED BY <3>2, <3>3, <3>4, <3>5, <3>7
  <2>8. BuffsThere(d, buff, d.projectors)
    BY <2>3, <2>6 DEF Settled, BuffsThere
  <2>9. ~st /\ ~d.missed => Reaches(d, fl2, ship, buff, d.projectors)
    BY <2>3, <2>5, <2>6 DEF Reaches
  <2> QED BY <2>1, <2>3, <2>6, <2>7, <2>8, <2>9 DEF Settled, fl2
<1> QED BY <1>6, <1>7

\* The orders a finite set may be gone through in.
LEMMA OrdersAre ==
  ASSUME NEW S, IsFiniteSet(S), NEW order \in Orders(S)
  PROVE  /\ Len(order) \in Nat /\ DOMAIN order = 1..Len(order)
         /\ \A k \in 1..Len(order) : order[k] \in S
         /\ \A j, k \in 1..Len(order) : order[j] = order[k] => j = k
<1>1. Cardinality(S) \in Nat
  BY FS_CardinalityType
<1>2. order \in [1..Cardinality(S) -> S] /\ IsInjective(order)
  BY DEF Orders, SetToSeqs, IsInjective
<1>3. Len(order) = Cardinality(S)
  BY <1>1, <1>2
<1> QED BY <1>1, <1>2, <1>3 DEF IsInjective

\* The fits of a fleet that is disbanded, one after the other.
LEMMA DisbandSettled ==
  ASSUME FleetInv, NEW fl \in Fleets,
         NEW order \in Orders({f \in Fits : fleet[f] = fl}), Disband(fl, order)
  PROVE  /\ Settled(calc', fleet', ship, buff, strayed')
         /\ calc'.affectees = calc.affectees
<1> DEFINE n == Len(order)
           st == strayed'
           without(k) == [f \in Fits |-> IF \E j \in 1..(k - 1) : order[j] = f THEN None
                                         ELSE fleet[f]]
           q == [k \in 1..n |-> <<without(k), order[k]>>]
<1>c. /\ {order[k] : k \in DOMAIN order} = {f \in Fits : fleet[f] = fl}
      /\ calc' = Depart!All(calc, q)
      /\ fleet' = [f \in Fits |-> IF fleet[f] = fl THEN None ELSE fleet[f]]
  BY DEF Disband
<1>f. ~st => ~strayed /\ \A k \in DOMAIN order : ~Unheard(order[k])
  BY DEF Disband
<1>d. IsFiniteSet({f \in Fits : fleet[f] = fl})
  BY FS_Subset, FleetAssumption
<1>1. /\ n \in Nat /\ DOMAIN order = 1..n
      /\ \A k \in 1..n : order[k] \in Fits /\ fleet[order[k]] = fl
      /\ \A j, k \in 1..n : order[j] = order[k] => j = k
  BY <1>d, OrdersAre
<1> HIDE DEF n, st
<1>e. /\ \A f \in Fits : fleet[f] = fl => \E k \in 1..n : order[k] = f
      /\ (~st => ~strayed /\ \A k \in 1..n : ~Unheard(order[k]))
  BY <1>1, <1>c, <1>f
<1>2. Len(q) = n /\ \A k \in 1..n : q[k] = <<without(k), order[k]>>
  BY <1>1
<1> HIDE DEF q
<1>a. Len(q) \in Nat
  BY <1>1, <1>2
<1>b. PICK after : /\ after[0] = calc /\ after[Len(q)] = Depart!All(calc, q)
                   /\ \A k \in 1..Len(q) : after[k] = Leaves(after[k - 1], q[k])
  BY <1>a, Depart!Trace
<1>3. /\ after[0] = calc /\ after[n] = Depart!All(calc, q)
      /\ \A k \in 1..n : after[k] = Leaves(after[k - 1], q[k])
  BY <1>2, <1>b
<1>4. fl # None /\ fleet \in [Fits -> Fleets \cup {None}] /\ Typed
  BY FleetAssumption DEF FleetInv, Typed
<1>5. \A k \in 1..(n + 1) : \A f \in Fits :
        without(k)[f] = IF \E j \in 1..(k - 1) : order[j] = f THEN None ELSE fleet[f]
  OBVIOUS
<1>6. \A k \in 1..(n + 1) : without(k) \in [Fits -> Fleets \cup {None}]
  BY <1>4
<1>7. ASSUME NEW k \in 1..n
      PROVE  /\ without(k)[order[k]] # None
             /\ without(k + 1) = [without(k) EXCEPT ![order[k]] = None]
  <2> HIDE DEF without
  <2>a. n \in Nat /\ order[k] \in Fits
    BY <1>1
  <2>1. k \in 1..(n + 1) /\ k + 1 \in 1..(n + 1) /\ (k + 1) - 1 = k
    BY <2>a
  <2>2. \A j \in 1..(k - 1) : j \in 1..n /\ j # k
    BY <1>1
  <2>3. without(k)[order[k]] # None
    BY <1>1, <1>4, <1>5, <2>a, <2>1, <2>2
  <2>4. \A f \in Fits : without(k + 1)[f] = IF f = order[k] THEN None ELSE without(k)[f]
    <3>1. \A j \in 1..k : j \in 1..(k - 1) \/ j = k
      BY <1>1
    <3>2. k \in 1..k /\ \A j \in 1..(k - 1) : j \in 1..k
      BY <1>1
    <3> QED BY <1>5, <2>1, <3>1, <3>2
  <2>5. without(k + 1) \in [Fits -> Fleets \cup {None}]
        /\ without(k) \in [Fits -> Fleets \cup {None}]
    BY <1>6, <2>1
  <2> DEFINE v == without(k + 1)
             w == without(k)
             x == order[k]
  <2>6. v \in [Fits -> Fleets \cup {None}] /\ w \in [Fits -> Fleets \cup {None}]
        /\ \A f \in Fits : v[f] = IF f = x THEN None ELSE w[f]
    BY <2>4, <2>5
  <2> HIDE DEF v, w, x
  <2>7. v = [w EXCEPT ![x] = None]
    BY <2>6
  <2> QED BY <2>3, <2>7 DEF v, w, x
<1>8. without(1) = fleet
  BY <1>4
<1>9. without(n + 1) = [f \in Fits |-> IF fleet[f] = fl THEN None ELSE fleet[f]]
  <2>1. n + 1 \in 1..(n + 1) /\ (n + 1) - 1 = n
    BY <1>1
  <2>2. \A f \in Fits : (\E j \in 1..n : order[j] = f) <=> fleet[f] = fl
    BY <1>1, <1>e
  <2> QED BY <2>1, <2>2
<1> HIDE DEF without
<1> DEFINE T == {k \in 0..n : /\ Settled(after[k], without(k + 1), ship, buff, st)
                              /\ after[k].fits = calc.fits
                              /\ after[k].affectees = calc.affectees
                              /\ after[k].tgts \subseteq calc.tgts}
<1>10. 0 \in T
  <2>1. Settled(calc, fleet, ship, buff, st)
    BY <1>e DEF FleetInv, Settled, Sound
  <2> QED BY <1>1, <1>3, <1>8, <2>1
<1>11. ASSUME NEW k \in 1..n, k - 1 \in T
       PROVE  k \in T
  <2> DEFINE c == after[k - 1]
             f == order[k]
             w == without(k)
  <2>1. k \in 0..n /\ (k - 1) + 1 = k /\ k \in 1..(n + 1) /\ f \in Fits
    BY <1>1
  <2>2. /\ Settled(c, w, ship, buff, st)
        /\ c.fits = calc.fits /\ c.affectees = calc.affectees /\ c.tgts \subseteq calc.tgts
    BY <1>11, <2>1
  <2>3. /\ w \in [Fits -> Fleets \cup {None}] /\ w[f] # None
        /\ after[k] = Leaves(c, <<w, f>>) /\ without(k + 1) = [w EXCEPT ![f] = None]
    BY <1>2, <1>3, <1>6, <1>7, <2>1
  <2>4. ~st => f \in c.fits \/ ship[f] = None \/ \A u \in c.tgts : u[2] # ship[f]
    BY <1>e, <2>2 DEF Unheard, Targeted
  <2> HIDE DEF c, f, w
  <2>5. LET d == Leaves(c, <<w, f>>)
        IN /\ Settled(d, [w EXCEPT ![f] = None], ship, buff, st)
           /\ d.fits = c.fits /\ d.affectees = c.affectees /\ d.tgts \subseteq c.tgts
    BY <1>4, <2>1, <2>2, <2>3, <2>4, LeavesSettled
  <2> QED BY <2>1, <2>2, <2>3, <2>5
<1>12. 0..n \subseteq T
  <2> HIDE DEF T
  <2> QED BY <1>1, <1>10, <1>11, Load!Upward
<1>13. n \in T
  BY <1>1, <1>12
<1> QED BY <1>3, <1>9, <1>13, <1>c DEF st
-----------------------------------------------------------------------------
(* The calls.                                                              *)

\* Values depend on strengths, so what holds of new registers while strengths
\* are the same holds in the next state.
LEMMA NextSettled ==
  ASSUME strength' = strength, Settled(calc', fleet', ship', buff', strayed')
  PROVE  Settled(calc, fleet, ship, buff, strayed)'
<1>a. ASSUME NEW specs
      PROVE  Value(specs)' = Value(specs)
  <2> DEFINE now(id) == {strength[s.item] : s \in {t \in specs : t.buff = id}}
             next(id) == {strength'[s.item] : s \in {t \in specs : t.buff = id}}
  <2>1. \A id : next(id) = now(id)
    OBVIOUS
  <2>2. /\ Value(specs) = [id \in {s.buff : s \in specs} |-> Max(now(id))]
        /\ Value(specs)' = [id \in {s.buff : s \in specs} |-> Max(next(id))]
    BY DEF Value
  <2> HIDE DEF now, next
  <2> QED BY <2>1, <2>2
<1>b. ASSUME NEW i
      PROVE  ActingOn(calc, i)' = ActingOn(calc', i)
  BY DEF ActingOn
<1>c. \A i : Value(ActingOn(calc, i))' = Value(ActingOn(calc', i))
  BY <1>a, <1>b
<1>1. CacheSound(calc') => CacheSound(calc)'
  BY <1>c DEF CacheSound
<1>2. Kinds(calc)' /\ Aboard(calc, ship)' /\ BuffsSound(calc, buff)'
      /\ ActiveSound(calc, fleet, ship)'
  BY DEF Settled, Sound, Kinds, Aboard, BuffsSound, ActiveSound, Rights, Mates, Register,
         Specs, Items
<1>3. ~strayed' => DomainSound(calc, fleet, ship)'
  BY DEF Settled, Sound, DomainSound, Rights, Mates
<1>4. /\ BuffsThere(calc, buff, calc.projectors)'
      /\ ~strayed' /\ ~calc'.missed => Reaches(calc, fleet, ship, buff, calc.projectors)'
  BY DEF Settled, BuffsThere, Reaches, Rights, Mates, Spec
<1> QED BY <1>1, <1>2, <1>3, <1>4 DEF Settled, Sound

LEMMA JoinKeeps ==
  ASSUME FleetInv, NEW f \in Fits, NEW fl \in Fleets, Join(f, fl)
  PROVE  FleetInv'
<1> DEFINE onThis == {b \in calc.projectors : fleet'[Home[b]] = fl} \X ({ship[f]} \ {None})
           onOthers == {b \in calc.projectors : Home[b] = f} \X
                       {ship[g] : g \in {h \in Fits \ {f} : fleet[h] = fl}}
           uses == onThis \cup onOthers
<1>1. /\ fleet[f] = None /\ fleet' = [fleet EXCEPT ![f] = fl]
      /\ calc' = IF f \in calc.fits THEN Applied(calc, uses) ELSE calc
      /\ UNCHANGED <<source, ship, ready, buff, strength, strayed>>
  BY DEF Join
<1>2. Typed /\ Settled(calc, fleet, ship, buff, strayed)
  BY DEF FleetInv
<1>3. \A g \in Fits : fleet'[g] = IF g = f THEN fl ELSE fleet[g]
  BY <1>1, <1>2 DEF Typed
<1>4. Typed'
  BY <1>1, <1>2 DEF Typed, Apart
<1>5. /\ Kinds(calc) /\ DOMAIN calc = Register /\ calc.fits \subseteq Fits
      /\ \A b \in calc.projectors : b \in Boosters /\ Home[b] \in Fits
  BY <1>2, FleetAssumption DEF Settled, Sound, Kinds
<1>6. /\ \A u \in onThis : /\ u = <<u[1], u[2]>> /\ u[1] \in calc.projectors
                           /\ u[2] = ship[f] /\ u[2] # None /\ fleet'[Home[u[1]]] = fl
      /\ \A u \in onOthers : /\ u = <<u[1], u[2]>> /\ u[1] \in calc.projectors /\ Home[u[1]] = f
                             /\ \E g \in Fits \ {f} : fleet[g] = fl /\ u[2] = ship[g]
      /\ \A b \in calc.projectors :
           fleet'[Home[b]] = fl /\ ship[f] # None => <<b, ship[f]>> \in onThis
      /\ \A b \in calc.projectors, g \in Fits \ {f} :
           Home[b] = f /\ fleet[g] = fl => <<b, ship[g]>> \in onOthers
  OBVIOUS
<1> HIDE DEF onThis, onOthers
<1>7. fl # None
  BY FleetAssumption
<1>8. \A b \in calc.projectors, g \in Fits : Rights(fleet, b, g) => Rights(fleet', b, g)
  BY <1>1, <1>3, <1>5 DEF Rights, Mates
<1>9. Settled(calc', fleet', ship, buff, strayed)
  <2>1. CASE f \in calc.fits
    <3>1. Granted(calc, fleet', uses)
      <4>1. \A u \in uses : u = <<u[1], u[2]>> /\ u[1] \in Boosters /\ u[2] \in Ships \cup {None}
        BY <1>2, <1>5, <1>6 DEF Typed
      <4>2. \A u \in uses : u[2] # None => \E g \in Fits : ship[g] = u[2]
        BY <1>6
      <4>3. ASSUME NEW u \in uses, NEW g \in Fits, ship[g] = u[2], u[2] # None
            PROVE  Rights(fleet', u[1], g)
        <5>1. CASE u \in onThis
          <6>1. g = f
            BY <1>2, <1>6, <4>3, <5>1 DEF Typed, Apart
          <6> QED BY <1>3, <1>6, <1>7, <5>1, <6>1 DEF Rights, Mates
        <5>2. CASE u \in onOthers
          <6>1. PICK h \in Fits \ {f} : fleet[h] = fl /\ u[2] = ship[h]
            BY <1>6, <5>2
          <6>2. g = h
            BY <1>2, <4>3, <5>2, <6>1 DEF Typed, Apart
          <6> QED BY <1>3, <1>6, <1>7, <5>2, <6>1, <6>2 DEF Rights, Mates
        <5> QED BY <5>1, <5>2
      <4> QED BY <4>1, <4>2, <4>3 DEF Granted
    <3>2. ASSUME NEW b \in calc.projectors, NEW g \in calc.fits,
                 ship[g] \in calc.affectees, Rights(fleet', b, g)
          PROVE  <<b, ship[g]>> \in uses \/ Rights(fleet, b, g)
      <4>1. ship[g] # None /\ g \in Fits
        BY <1>5, <3>2, FleetAssumption DEF Kinds
      <4>2. CASE g = f
        BY <1>3, <1>6, <3>2, <4>1, <4>2 DEF Rights, Mates
      <4>3. CASE g # f /\ Home[b] = f
        BY <1>3, <1>6, <3>2, <4>1, <4>3 DEF Rights, Mates
      <4>4. CASE g # f /\ Home[b] # f
        BY <1>3, <1>5, <3>2, <4>1, <4>4 DEF Rights, Mates
      <4> QED BY <4>2, <4>3, <4>4
    <3>3. Settled(Applied(calc, uses), fleet', ship, buff, strayed)
      BY <1>2, <1>8, <3>1, <3>2, AppliedSettled
    <3> QED BY <1>1, <2>1, <3>3
  <2>2. CASE f \notin calc.fits
    <3>1. /\ ship[f] \notin calc.affectees
          /\ \A b \in calc.projectors : Home[b] # f
      BY <1>2, <2>2, Outside
    <3>2. calc' = calc
      BY <1>1, <2>2
    <3>3. ActiveSound(calc, fleet', ship)
      <4> SUFFICES ASSUME NEW p \in calc.active, NEW g \in Fits, ship[g] = p[1]
                   PROVE  Rights(fleet', p[2].item, g)
        BY <1>2 DEF Settled, Sound, ActiveSound
      <4> QED BY <1>2, <1>8 DEF Settled, Sound, ActiveSound, BuffsSound
    <3>4. ~strayed => DomainSound(calc, fleet', ship)
      BY <1>2, <1>8 DEF Settled, Sound, DomainSound, BuffsSound
    <3>5. ASSUME ~strayed, ~calc.missed
          PROVE  Reaches(calc, fleet', ship, buff, calc.projectors)
      <4>1. \A b \in calc.projectors, g \in calc.fits : Rights(fleet', b, g) => Rights(fleet, b, g)
        BY <1>3, <1>5, <2>2, <3>1 DEF Rights, Mates
      <4> QED BY <1>2, <3>5, <4>1 DEF Settled, Reaches
    <3> QED BY <1>2, <3>2, <3>3, <3>4, <3>5 DEF Settled, Sound
  <2> QED BY <2>1, <2>2
<1>10. calc'.affectees = calc.affectees
  BY <1>1, <1>5, AppliedIs
<1>11. Settled(calc, fleet, ship, buff, strayed)'
  BY <1>1, <1>9, NextSettled
<1> QED BY <1>1, <1>4, <1>10, <1>11 DEF FleetInv

LEMMA LeaveKeeps ==
  ASSUME FleetInv, NEW f \in Fits, Leave(f)
  PROVE  FleetInv'
<1>1. /\ fleet[f] # None /\ fleet' = [fleet EXCEPT ![f] = None]
      /\ calc' = Leaves(calc, <<fleet, f>>) /\ strayed' = (strayed \/ Unheard(f))
      /\ UNCHANGED <<source, ship, ready, buff, strength>>
  BY DEF Leave
<1>2. Typed /\ Settled(calc, fleet, ship, buff, strayed')
  BY <1>1 DEF FleetInv, Settled, Sound
<1>3. Typed'
  BY <1>1, <1>2 DEF Typed, Apart
<1> DEFINE st == strayed'
<1>4. ~st => f \in calc.fits \/ ship[f] = None \/ \A u \in calc.tgts : u[2] # ship[f]
  BY <1>1 DEF Unheard, Targeted
<1>a. /\ Settled(calc, fleet, ship, buff, st) /\ Typed /\ fleet[f] # None
      /\ fleet \in [Fits -> Fleets \cup {None}]
  BY <1>1, <1>2 DEF Typed
<1> DEFINE c == calc
           fl == fleet
<1> HIDE DEF st, c, fl
<1>b. LET d == Leaves(c, <<fl, f>>)
      IN /\ Settled(d, [fl EXCEPT ![f] = None], ship, buff, st)
         /\ d.fits = c.fits /\ d.affectees = c.affectees /\ d.tgts \subseteq c.tgts
  BY <1>4, <1>a, LeavesSettled DEF c, fl
<1>5. /\ Settled(calc', fleet', ship, buff, strayed')
      /\ calc'.affectees = calc.affectees
  BY <1>1, <1>b DEF st, c, fl
<1>6. Settled(calc, fleet, ship, buff, strayed)'
  BY <1>1, <1>5, NextSettled
<1> QED BY <1>1, <1>3, <1>5, <1>6 DEF FleetInv

LEMMA DisbandKeeps ==
  ASSUME FleetInv, NEW fl \in Fleets,
         NEW order \in Orders({f \in Fits : fleet[f] = fl}), Disband(fl, order)
  PROVE  FleetInv'
<1>1. /\ fleet' = [f \in Fits |-> IF fleet[f] = fl THEN None ELSE fleet[f]]
      /\ strayed' = (strayed \/ \E k \in DOMAIN order : Unheard(order[k]))
      /\ UNCHANGED <<source, ship, ready, buff, strength>>
  BY DEF Disband
<1>2. Typed'
  BY <1>1 DEF FleetInv, Typed, Apart
<1>3. Settled(calc, fleet, ship, buff, strayed)'
  BY <1>1, DisbandSettled, NextSettled
<1> QED BY <1>1, <1>2, <1>3, DisbandSettled DEF FleetInv

LEMMA SetShipKeeps ==
  ASSUME FleetInv, NEW f \in Fits, NEW s \in Ships \cup {None}, SetShip(f, s)
  PROVE  FleetInv'
<1> DEFINE old == ship[f]
           loads == source /\ f \in calc.fits
           gone == IF loads /\ old # None THEN UnloadItem(calc, old) ELSE calc
           new == IF loads /\ s # None
                  THEN [gone EXCEPT !.affectees = @ \cup {s},
                                    !.missed = @ \/ Owed(gone, f) # {}]
                  ELSE gone
<1>1. /\ s # old /\ (s # None => FitOf(s) = None)
      /\ ship' = [ship EXCEPT ![f] = s] /\ calc' = new
      /\ strayed' = (strayed \/ (old # None /\ Targeted(old)))
      /\ UNCHANGED <<source, fleet, ready, buff, strength>>
  BY DEF SetShip
<1> DEFINE st == strayed'
           sh == ship'
<1>2. Typed /\ Settled(calc, fleet, ship, buff, st) /\ (calc.affectees # {} => source)
  BY <1>1 DEF FleetInv, Settled, Sound
<1>3. ~st => old = None \/ \A u \in calc.tgts : u[2] # old
  BY <1>1 DEF Targeted
<1>4. /\ \A g \in Fits : sh[g] = IF g = f THEN s ELSE ship[g]
      /\ \A g \in Fits : s # None => ship[g] # s
      /\ old \in Ships \cup {None} /\ None \notin Items
  BY <1>1, <1>2, FitOfItem, FleetAssumption DEF Typed
<1>5. Typed'
  <2>1. Apart(ship')
    BY <1>2, <1>4 DEF Apart, Typed
  <2> QED BY <1>1, <1>2, <2>1 DEF Typed, Apart
<1> HIDE DEF st, sh
<1>6. /\ Settled(gone, fleet, ship, buff, st)
      /\ gone.fits = calc.fits /\ gone.tgts \subseteq calc.tgts
      /\ gone.affectees \subseteq calc.affectees
      /\ old \notin gone.affectees
  <2>1. CASE loads /\ old # None
    BY <1>2, <2>1, UnloadItemSettled
  <2>2. CASE ~loads /\ old # None
    <3>1. old \notin calc.affectees
      BY <1>2, <2>2, Outside DEF FleetInv
    <3> QED BY <1>2, <2>2, <3>1
  <2>3. CASE old = None
    <3>1. old \notin calc.affectees
      BY <1>2, <1>4, <2>3 DEF Settled, Sound, Kinds
    <3> QED BY <1>2, <2>3, <3>1
  <2> QED BY <2>1, <2>2, <2>3
<1> HIDE DEF gone
<1> DEFINE more == IF loads /\ s # None THEN {s} ELSE {}
           late == loads /\ s # None /\ Owed(gone, f) # {}
<1>7. DOMAIN gone = Register
  BY <1>6 DEF Settled, Sound, Kinds
<1>8. /\ DOMAIN new = Register /\ new.affectees = gone.affectees \cup more
      /\ new.fits = gone.fits /\ new.projectors = gone.projectors
      /\ new.buffs = gone.buffs /\ new.tgts = gone.tgts /\ new.active = gone.active
      /\ new.domain = gone.domain /\ new.cache = gone.cache
      /\ new.missed = (gone.missed \/ late)
  <2>1. gone.missed \in BOOLEAN
    BY <1>6 DEF Settled, Sound, Kinds
  <2> QED BY <1>7, <2>1 DEF Register
<1> HIDE DEF new
<1>9. /\ more \subseteq Ships /\ (more # {} => f \in gone.fits /\ sh[f] \in more /\ source)
      /\ \A i \in more : i = s /\ s # None
  BY <1>4, <1>6
<1>10. s \notin gone.affectees
  BY <1>4, <1>6, FleetAssumption DEF Settled, Sound, Kinds, Aboard, Items
<1>11. \A i \in gone.affectees, g \in Fits : ship[g] = i <=> sh[g] = i
  BY <1>4, <1>6, <1>10
<1>12. Settled(new, fleet, sh, buff, st)
  <2> USE <1>6, <1>8 DEF Settled, Sound
  <2>1. Kinds(new)
    <3>1. late \in BOOLEAN
      OBVIOUS
    <3> HIDE DEF more, late
    <3> QED BY <1>9, <3>1 DEF Kinds, Items
  <2> HIDE DEF more, late
  <2>2. Aboard(new, sh)
    <3>1. gone.fits \subseteq Fits
      BY DEF Kinds
    <3>2. \A i \in gone.affectees \cap Ships : \E g \in gone.fits : sh[g] = i
      BY <1>11, <3>1 DEF Aboard
    <3>3. \A i \in more : \E g \in gone.fits : sh[g] = i
      BY <1>4, <1>9, <3>1
    <3> QED BY <1>9, <3>2, <3>3 DEF Aboard
  <2>3. BuffsSound(new, buff) /\ BuffsThere(new, buff, new.projectors)
    BY DEF BuffsSound, BuffsThere
  <2>4. ActiveSound(new, fleet, sh)
    BY <1>11 DEF ActiveSound
  <2>5. ASSUME ~st
        PROVE  DomainSound(new, fleet, sh)
    <3> SUFFICES ASSUME NEW p \in gone.domain
                 PROVE  p[1] # f
      BY <1>4, <2>5 DEF DomainSound
    <3> DEFINE u == <<p[2].item, ship[p[1]]>>
    <3>1. u \in calc.tgts /\ ship[p[1]] # None /\ u[2] = ship[p[1]]
      BY <2>5 DEF DomainSound
    <3> HIDE DEF u
    <3> QED BY <1>3, <2>5, <3>1
  <2>6. ASSUME ~st, NEW j \in DOMAIN gone.cache
        PROVE  ActingOn(new, j) = ActingOn(gone, j)
    <3>1. \A p \in gone.active : p[2].item \in gone.affectees
      BY DEF ActiveSound, BuffsSound, Kinds
    <3>2. \A p \in gone.domain : p[2].item \in gone.affectees
      BY <2>6 DEF DomainSound, BuffsSound, Kinds
    <3> QED BY <3>1, <3>2, SameActing
  <2>7. ~st => CacheSound(new)
    BY <2>6 DEF CacheSound
  <2>8. ASSUME ~st, ~new.missed
        PROVE  Reaches(new, fleet, sh, buff, new.projectors)
    <3>1. Reaches(gone, fleet, ship, buff, gone.projectors)
      BY <2>8
    <3> SUFFICES ASSUME NEW b \in gone.projectors, NEW g \in gone.fits,
                        sh[g] \in gone.affectees \cup more, Rights(fleet, b, g)
                 PROVE  ship[g] \in gone.affectees /\ sh[g] = ship[g]
      BY <3>1 DEF Reaches
    <3>2. g \in Fits
      BY DEF Kinds
    <3>3. CASE sh[g] \in gone.affectees
      BY <1>11, <3>2, <3>3
    <3>4. CASE sh[g] \in more
      <4>1. g = f
        BY <1>4, <1>9, <3>2, <3>4
      <4>2. b \in Owed(gone, f)
        BY <4>1 DEF Owed, Rights
      <4> QED BY <1>9, <2>8, <3>4, <4>2 DEF late, more
    <3> QED BY <3>3, <3>4
  <2> QED BY <2>1, <2>2, <2>3, <2>4, <2>5, <2>7, <2>8
<1>13. Settled(calc, fleet, ship, buff, strayed)'
  BY <1>1, <1>12, NextSettled DEF st, sh
<1>14. calc'.affectees # {} => source'
  BY <1>1, <1>2, <1>6, <1>8, <1>9
<1> QED BY <1>5, <1>13, <1>14 DEF FleetInv

LEMMA AddFitKeeps ==
  ASSUME FleetInv, NEW f \in Fits, AddFit(f)
  PROVE  FleetInv'
<1> DEFINE more == [calc EXCEPT !.fits = @ \cup {f}]
<1>1. /\ f \notin calc.fits /\ calc' = IF source THEN LoadFit(more, f) ELSE more
      /\ UNCHANGED <<source, ship, fleet, ready, buff, strength, strayed>>
  BY DEF AddFit, fitVars
<1>2. Typed /\ Settled(calc, fleet, ship, buff, strayed) /\ (calc.affectees # {} => source)
  BY DEF FleetInv
<1>3. DOMAIN calc = Register
  BY <1>2 DEF Settled, Sound, Kinds
<1>4. /\ DOMAIN more = Register /\ more.fits = calc.fits \cup {f}
      /\ more.affectees = calc.affectees /\ more.projectors = calc.projectors
      /\ more.buffs = calc.buffs /\ more.tgts = calc.tgts /\ more.active = calc.active
      /\ more.domain = calc.domain /\ more.cache = calc.cache /\ more.missed = calc.missed
  BY <1>3 DEF Register
<1> HIDE DEF more
<1>5. Settled(more, fleet, ship, buff, strayed)
  <2> USE <1>2, <1>4 DEF Settled, Sound
  <2>1. Kinds(more)
    BY DEF Kinds
  <2>2. Aboard(more, ship)
    BY DEF Aboard
  <2>3. BuffsSound(more, buff) /\ BuffsThere(more, buff, more.projectors)
    BY DEF BuffsSound, BuffsThere
  <2>4. ActiveSound(more, fleet, ship)
    BY DEF ActiveSound
  <2>5. ~strayed => DomainSound(more, fleet, ship)
    BY DEF DomainSound
  <2>6. \A i \in DOMAIN calc.cache : ActingOn(more, i) = ActingOn(calc, i)
    BY DEF ActingOn
  <2>7. ~strayed => CacheSound(more)
    BY <2>6 DEF CacheSound
  <2>8. ~strayed /\ ~more.missed => Reaches(more, fleet, ship, buff, more.projectors)
    <3>1. ship[f] \notin calc.affectees
      BY <1>1, Outside
    <3> QED BY <3>1 DEF Reaches
  <2> QED BY <2>1, <2>2, <2>3, <2>4, <2>5, <2>7, <2>8
<1>6. Settled(calc', fleet', ship', buff', strayed')
  <2>1. f \in more.fits
    BY <1>4
  <2>2. Settled(LoadFit(more, f), fleet, ship, buff, strayed)
    BY <1>2, <1>5, <2>1, LoadFitSettled
  <2>3. CASE source
    BY <1>1, <2>2, <2>3
  <2>4. CASE ~source
    BY <1>1, <1>5, <2>4
  <2> QED BY <2>3, <2>4
<1>7. calc'.affectees # {} => source'
  BY <1>1, <1>2, <1>4
<1>8. Typed'
  BY <1>1, <1>2 DEF Typed, Apart
<1> QED BY <1>1, <1>6, <1>7, <1>8, NextSettled DEF FleetInv

LEMMA RemoveFitKeeps ==
  ASSUME FleetInv, NEW f \in Fits, RemoveFit(f)
  PROVE  FleetInv'
<1> DEFINE less == IF source THEN UnloadFit(calc, f) ELSE calc
           d == [less EXCEPT !.fits = @ \ {f}]
<1>1. /\ f \in calc.fits /\ calc' = d
      /\ UNCHANGED <<source, ship, fleet, ready, buff, strength, strayed>>
  BY DEF RemoveFit, fitVars
<1>2. Typed /\ Settled(calc, fleet, ship, buff, strayed) /\ (calc.affectees # {} => source)
  BY DEF FleetInv
<1>3. /\ Settled(less, fleet, ship, buff, strayed) /\ (less.affectees # {} => source)
      /\ \A i \in less.affectees : FitOf(i) # f
  <2>1. CASE source
    BY <1>2, <2>1, UnloadFitSettled
  <2>2. CASE ~source
    BY <1>2, <2>2
  <2> QED BY <2>1, <2>2
<1> HIDE DEF less
<1>4. DOMAIN less = Register
  BY <1>3 DEF Settled, Sound, Kinds
<1>5. /\ DOMAIN d = Register /\ d.fits = less.fits \ {f}
      /\ d.affectees = less.affectees /\ d.projectors = less.projectors
      /\ d.buffs = less.buffs /\ d.tgts = less.tgts /\ d.active = less.active
      /\ d.domain = less.domain /\ d.cache = less.cache /\ d.missed = less.missed
  BY <1>4 DEF Register
<1> HIDE DEF d
<1>6. Settled(d, fleet, ship, buff, strayed)
  <2> USE <1>3, <1>5 DEF Settled, Sound
  <2>1. Kinds(d)
    BY DEF Kinds
  <2>2. Aboard(d, ship)
    <3>1. \A i \in less.affectees \ Ships : Home[i] # f
      BY <1>2, FitOfItem DEF Kinds, Items
    <3>2. \A i \in less.affectees \cap Ships : ship[f] # i
      BY <1>1, <1>2, FitOfItem
    <3> QED BY <3>1, <3>2 DEF Aboard
  <2>3. BuffsSound(d, buff) /\ BuffsThere(d, buff, d.projectors)
    BY DEF BuffsSound, BuffsThere
  <2>4. ActiveSound(d, fleet, ship)
    BY DEF ActiveSound
  <2>5. ~strayed => DomainSound(d, fleet, ship)
    BY DEF DomainSound
  <2>6. \A i \in DOMAIN less.cache : ActingOn(d, i) = ActingOn(less, i)
    BY DEF ActingOn
  <2>7. ~strayed => CacheSound(d)
    BY <2>6 DEF CacheSound
  <2>8. ~strayed /\ ~d.missed => Reaches(d, fleet, ship, buff, d.projectors)
    BY DEF Reaches
  <2> QED BY <2>1, <2>2, <2>3, <2>4, <2>5, <2>7, <2>8
<1>7. Settled(calc', fleet', ship', buff', strayed')
  BY <1>1, <1>6
<1>8. Typed' /\ (calc'.affectees # {} => source')
  BY <1>1, <1>2, <1>3, <1>5 DEF Typed, Apart
<1> QED BY <1>1, <1>7, <1>8, NextSettled DEF FleetInv

LEMMA SetSourceKeeps ==
  ASSUME FleetInv, NEW order \in Orders(calc.fits), SetSource(order)
  PROVE  FleetInv'
<1>1. /\ {order[k] : k \in DOMAIN order} = calc.fits /\ source' = ~source
      /\ calc' = IF source THEN UnloadFits!All(calc, order) ELSE LoadFits!All(calc, order)
      /\ UNCHANGED <<ship, fleet, ready, buff, strength, strayed>>
  BY DEF SetSource
<1>2. Typed /\ Settled(calc, fleet, ship, buff, strayed) /\ (calc.affectees # {} => source)
  BY DEF FleetInv
<1>3. calc.fits \subseteq Fits /\ IsFiniteSet(calc.fits)
  BY <1>2, FS_Subset, FleetAssumption DEF Settled, Sound, Kinds
<1>4. /\ Len(order) \in Nat /\ DOMAIN order = 1..Len(order)
      /\ \A k \in 1..Len(order) : order[k] \in calc.fits
  BY <1>3, OrdersAre
<1>5. CASE source
  <2> DEFINE d == UnloadFits!All(calc, order)
  <2>1. /\ Settled(d, fleet, ship, buff, strayed)
        /\ \A i \in d.affectees : \A k \in 1..Len(order) : FitOf(i) # order[k]
        /\ d.fits = calc.fits
    BY <1>2, <1>3, <1>4, UnloadFitsSettled
  <2> HIDE DEF d
  <2>2. \A i \in d.affectees : FitOf(i) \in calc.fits
    <3> SUFFICES ASSUME NEW i \in d.affectees
                 PROVE  FitOf(i) \in calc.fits
      OBVIOUS
    <3>1. CASE i \in Ships
      <4>1. PICK g \in calc.fits : ship[g] = i
        BY <2>1, <3>1 DEF Settled, Sound, Aboard
      <4> QED BY <1>2, <1>3, <3>1, <4>1, FitOfItem
    <3>2. CASE i \notin Ships
      <4>1. i \in Boosters \cup Gadgets /\ Home[i] \in calc.fits
        BY <2>1, <3>2 DEF Settled, Sound, Aboard, Kinds, Items
      <4> QED BY <1>2, <4>1, FitOfItem
    <3> QED BY <3>1, <3>2
  <2>3. d.affectees = {}
    <3> SUFFICES ASSUME NEW i \in d.affectees
                 PROVE  FALSE
      OBVIOUS
    <3>1. PICK k \in DOMAIN order : order[k] = FitOf(i)
      BY <1>1, <2>2
    <3> QED BY <1>4, <2>1, <3>1
  <2>4. calc' = d
    BY <1>1, <1>5 DEF d
  <2>5. Settled(calc', fleet', ship', buff', strayed')
    BY <1>1, <2>1, <2>4
  <2>6. Typed' /\ (calc'.affectees # {} => source')
    BY <1>1, <1>2, <2>3, <2>4 DEF Typed, Apart
  <2> QED BY <1>1, <2>5, <2>6, NextSettled DEF FleetInv
<1>6. CASE ~source
  <2> DEFINE d == LoadFits!All(calc, order)
  <2>1. Settled(d, fleet, ship, buff, strayed)
    BY <1>2, <1>4, LoadFitsSettled
  <2>2. calc' = d
    BY <1>1, <1>6
  <2> HIDE DEF d
  <2>3. Settled(calc', fleet', ship', buff', strayed')
    BY <1>1, <2>1, <2>2
  <2>4. source' /\ Typed'
    BY <1>1, <1>2, <1>6 DEF Typed, Apart
  <2> QED BY <1>1, <2>3, <2>4, NextSettled DEF FleetInv
<1> QED BY <1>5, <1>6

LEMMA SetStateKeeps ==
  ASSUME FleetInv, NEW b \in Boosters, SetState(b)
  PROVE  FleetInv'
<1>1. /\ ready' = IF b \in ready THEN ready \ {b} ELSE ready \cup {b}
      /\ calc' = IF b \notin calc.affectees THEN calc
                 ELSE IF b \in ready THEN Stopped(calc, b) ELSE Started(calc, b)
      /\ UNCHANGED <<source, ship, fleet, buff, strength, strayed>>
  BY DEF SetState
<1>2. Typed /\ Settled(calc, fleet, ship, buff, strayed) /\ (calc.affectees # {} => source)
  BY DEF FleetInv
<1>3. Settled(calc', fleet, ship, buff, strayed) /\ calc'.affectees = calc.affectees
  <2>1. CASE b \notin calc.affectees
    BY <1>1, <1>2, <2>1
  <2>2. CASE b \in calc.affectees /\ b \in ready
    <3>1. calc' = Stopped(calc, b)
      BY <1>1, <2>2
    <3> QED BY <1>2, <3>1, StoppedSettled
  <2>3. CASE b \in calc.affectees /\ b \notin ready
    <3>1. calc' = Started(calc, b)
      BY <1>1, <2>3
    <3> QED BY <1>2, <2>3, <3>1, StartedSettled
  <2> QED BY <2>1, <2>2, <2>3
<1>4. Settled(calc', fleet', ship', buff', strayed')
  BY <1>1, <1>3
<1>5. Typed' /\ (calc'.affectees # {} => source')
  BY <1>1, <1>2, <1>3 DEF Typed, Apart
<1> QED BY <1>1, <1>4, <1>5, NextSettled DEF FleetInv

LEMMA SetBuffKeeps ==
  ASSUME FleetInv, NEW b \in Boosters, NEW id \in DOMAIN Templates, SetBuff(b, id)
  PROVE  FleetInv'
<1> DEFINE bf == buff'
<1>1. /\ bf = [buff EXCEPT ![b] = id] /\ calc' = Revised(calc, b, id)
      /\ UNCHANGED <<source, ship, fleet, ready, strength, strayed>>
  BY DEF SetBuff
<1>2. Typed /\ Settled(calc, fleet, ship, buff, strayed) /\ (calc.affectees # {} => source)
  BY DEF FleetInv
<1>3. bf \in [Boosters -> DOMAIN Templates] /\ bf[b] = id
      /\ \A x \in Boosters : x # b => bf[x] = buff[x]
  BY <1>1, <1>2 DEF Typed
<1>4. Typed'
  BY <1>1, <1>2, <1>3 DEF Typed, Apart
<1> HIDE DEF bf
<1>5. Settled(calc', fleet, ship, bf, strayed) /\ calc'.affectees = calc.affectees
  <2>1. CASE b \notin calc.projectors
    <3>1. calc' = calc
      BY <1>1, <2>1 DEF Revised
    <3>2. \A x \in calc.projectors : bf[x] = buff[x]
      BY <1>2, <1>3, <2>1 DEF Settled, Sound, Kinds
    <3>3. BuffsSound(calc, bf) /\ BuffsThere(calc, bf, calc.projectors)
      BY <1>2, <3>2 DEF Settled, Sound, BuffsSound, BuffsThere
    <3>4. ~strayed /\ ~calc.missed => Reaches(calc, fleet, ship, bf, calc.projectors)
      BY <1>2, <3>2 DEF Settled, Reaches
    <3> QED BY <1>2, <3>1, <3>3, <3>4 DEF Settled, Sound
  <2>2. CASE b \in calc.projectors
    <3> DEFINE e == Unregistered(calc, b)
    <3>1. calc' = Registered(e, b, bf[b])
      BY <1>1, <1>3, <2>2 DEF Revised
    <3>2. /\ Sound(e, fleet, ship, buff, strayed)
          /\ BuffsThere(e, buff, calc.projectors \ {b})
          /\ ~strayed /\ ~calc.missed => Reaches(e, fleet, ship, buff, calc.projectors \ {b})
          /\ \A s \in e.buffs : s.item # b
          /\ Steady(calc, e)
      <4> DEFINE c == calc
      <4>1. Typed /\ Settled(c, fleet, ship, buff, strayed)
        BY <1>2
      <4> HIDE DEF c
      <4>2. LET d == Unregistered(c, b)
            IN /\ Sound(d, fleet, ship, buff, strayed)
               /\ BuffsThere(d, buff, c.projectors \ {b})
               /\ ~strayed /\ ~c.missed => Reaches(d, fleet, ship, buff, c.projectors \ {b})
               /\ \A s \in d.buffs : s.item # b
               /\ Steady(c, d) /\ d.tgts \subseteq c.tgts
        BY <4>1, UnregisteredSound
      <4> QED BY <4>2 DEF c
    <3> HIDE DEF e
    <3>3. \A x \in calc.projectors \ {b} : bf[x] = buff[x]
      BY <1>2, <1>3 DEF Settled, Sound, Kinds
    <3>4. Sound(e, fleet, ship, bf, strayed)
      BY <3>2, <3>3 DEF Sound, BuffsSound, Steady
    <3>5. BuffsThere(e, bf, e.projectors \ {b})
      BY <3>2, <3>3 DEF BuffsThere, Steady
    <3>6. ~strayed /\ ~e.missed => Reaches(e, fleet, ship, bf, e.projectors \ {b})
      BY <3>2, <3>3 DEF Reaches, Steady
    <3>7. b \in e.projectors
      BY <2>2, <3>2 DEF Steady
    <3>8. /\ Settled(Registered(e, b, bf[b]), fleet, ship, bf, strayed)
          /\ Steady(e, Registered(e, b, bf[b]))
      BY <1>2, <1>3, <3>4, <3>5, <3>6, <3>7, RegisteredSettled
    <3> QED BY <3>1, <3>2, <3>8 DEF Steady
  <2> QED BY <2>1, <2>2
<1>6. Settled(calc', fleet', ship', buff', strayed')
  BY <1>1, <1>5 DEF bf
<1>7. calc'.affectees # {} => source'
  BY <1>1, <1>2, <1>5
<1> QED BY <1>1, <1>4, <1>6, <1>7, NextSettled DEF FleetInv

\* What acts on an item whose value is kept: none of b when the values on the
\* targets of b are dropped.
LEMMA NoneOf ==
  ASSUME FleetInv, ~strayed, NEW b \in Boosters, NEW i \in DOMAIN calc.cache,
         b \in calc.projectors => i \notin Hit(calc, Uses(calc, b))
  PROVE  \A s \in ActingOn(calc, i) : s.item # b
<1> DEFINE uses == Uses(calc, b)
<1>1. Typed /\ Settled(calc, fleet, ship, buff, strayed)
  BY DEF FleetInv
<1>2. i \in calc.affectees \cap (Ships \cup Gadgets)
  BY <1>1 DEF Settled, Sound, Kinds
<1>3. \A x : <<b, x>> \in calc.tgts => <<b, x>> \in uses
  BY DEF Uses
<1>a. \A x : <<b, x>>[1] = b /\ <<b, x>>[2] = x
  OBVIOUS
<1> HIDE DEF uses
<1>4. ASSUME NEW p \in calc.active, p[1] = i
      PROVE  p[2].item # b
  <2> SUFFICES ASSUME p[2].item = b
               PROVE  FALSE
    OBVIOUS
  <2>1. /\ p[2] \in calc.buffs /\ p[2].filter = "ship" /\ <<b, i>> \in uses
        /\ b \in calc.projectors
    BY <1>1, <1>3, <1>4 DEF Settled, Sound, ActiveSound, BuffsSound
  <2> DEFINE u == <<b, i>>
  <2>2. u \in uses /\ u[1] = b /\ u[2] = i
    BY <2>1
  <2> HIDE DEF u
  <2>3. <<i, p[2]>> \in Direct(calc, uses)
    BY <1>2, <2>1, <2>2, DirectHas
  <2>4. <<i, p[2]>>[1] \in Hit(calc, uses)
    BY <2>3, DirectHas
  <2> QED BY <2>1, <2>4 DEF uses
<1>5. ASSUME i \notin Ships, NEW p \in calc.domain, p[1] = Home[i]
      PROVE  p[2].item # b
  <2> SUFFICES ASSUME p[2].item = b
               PROVE  FALSE
    OBVIOUS
  <2>1. /\ p[1] \in Fits /\ ship[p[1]] # None
        /\ p[2] \in calc.buffs /\ p[2].filter = "domain" /\ <<b, ship[p[1]]>> \in uses
        /\ b \in calc.projectors
    BY <1>1, <1>3, <1>5 DEF Settled, Sound, DomainSound, BuffsSound
  <2> DEFINE u == <<b, ship[p[1]]>>
  <2>2. u \in uses /\ u[1] = b /\ u[2] = ship[p[1]]
    BY <2>1
  <2> HIDE DEF u
  <2>3. u[2] \in Ships /\ FitOf(u[2]) = p[1]
    BY <1>1, <2>1, <2>2, FitOfItem DEF Typed
  <2> DEFINE w == <<p[1], p[2]>>
  <2>4. w \in Wide(calc, uses) /\ w[1] = Home[i]
    BY <1>5, <2>1, <2>2, <2>3, WideHas
  <2> HIDE DEF w
  <2>5. i \in Hit(calc, uses)
    BY <1>2, <1>5, <2>4, WideHas
  <2> QED BY <2>1, <2>5 DEF uses
<1>6. SUFFICES ASSUME NEW s \in ActingOn(calc, i)
               PROVE  s.item # b
  OBVIOUS
<1>7. CASE i \in Ships
  <2>1. PICK p \in calc.active : p[1] = i /\ s = p[2]
    BY <1>6, <1>7 DEF ActingOn
  <2> QED BY <1>4, <2>1
<1>8. CASE i \notin Ships
  <2>1. PICK p \in calc.domain : p[1] = Home[i] /\ s = p[2]
    BY <1>6, <1>8 DEF ActingOn
  <2> QED BY <1>5, <1>8, <2>1
<1> QED BY <1>7, <1>8

LEMMA SetStrengthKeeps ==
  ASSUME FleetInv, NEW b \in Boosters, NEW v, SetStrength(b, v)
  PROVE  FleetInv'
<1> DEFINE H == Hit(calc, Uses(calc, b))
           d == IF b \in calc.projectors THEN [calc EXCEPT !.cache = Recalc(@, H)] ELSE calc
<1>1. /\ strength' = [strength EXCEPT ![b] = v] /\ calc' = d
      /\ UNCHANGED <<source, ship, fleet, ready, buff, strayed>>
  BY DEF SetStrength
<1>2. Typed /\ Settled(calc, fleet, ship, buff, strayed) /\ (calc.affectees # {} => source)
  BY DEF FleetInv
<1>3. DOMAIN calc = Register
  BY <1>2 DEF Settled, Sound, Kinds
<1>4. /\ DOMAIN d = Register /\ d.fits = calc.fits
      /\ d.affectees = calc.affectees /\ d.projectors = calc.projectors
      /\ d.buffs = calc.buffs /\ d.tgts = calc.tgts /\ d.active = calc.active
      /\ d.domain = calc.domain /\ d.missed = calc.missed
      /\ d.cache = IF b \in calc.projectors THEN Recalc(calc.cache, H) ELSE calc.cache
  BY <1>3 DEF Register
<1> HIDE DEF d, H
<1>5. /\ DOMAIN d.cache \subseteq DOMAIN calc.cache
      /\ \A i \in DOMAIN d.cache : /\ d.cache[i] = calc.cache[i]
                                   /\ b \in calc.projectors => i \notin H
  BY <1>4 DEF Recalc
<1>6. ASSUME ~strayed, NEW i \in DOMAIN d.cache
      PROVE  d.cache[i] = Value(ActingOn(calc, i))'
  <2> DEFINE specs == ActingOn(calc, i)
             now(id) == {strength[s.item] : s \in {t \in specs : t.buff = id}}
             next(id) == {strength'[s.item] : s \in {t \in specs : t.buff = id}}
  <2>1. \A s \in specs : s.item # b
    BY <1>5, <1>6, NoneOf DEF H
  <2>2. ActingOn(calc, i)' = specs
    BY <1>1, <1>4 DEF ActingOn
  <2> HIDE DEF specs
  <2>3. \A s \in specs : strength'[s.item] = strength[s.item]
    BY <1>1, <2>1
  <2>4. \A id : next(id) = now(id)
    BY <2>3
  <2>5. /\ Value(specs) = [id \in {s.buff : s \in specs} |-> Max(now(id))]
        /\ Value(ActingOn(calc, i))' = [id \in {s.buff : s \in specs} |-> Max(next(id))]
    BY <2>2 DEF Value
  <2> HIDE DEF now, next
  <2>6. Value(ActingOn(calc, i))' = Value(specs)
    BY <2>4, <2>5
  <2>7. calc.cache[i] = Value(specs)
    BY <1>2, <1>5, <1>6 DEF Settled, Sound, CacheSound, specs
  <2> QED BY <1>5, <2>6, <2>7
<1>7. ~strayed' => CacheSound(calc)'
  BY <1>1, <1>6 DEF CacheSound
<1>8. Kinds(calc)' /\ Aboard(calc, ship)' /\ BuffsSound(calc, buff)'
      /\ ActiveSound(calc, fleet, ship)'
  BY <1>1, <1>2, <1>4, <1>5 DEF Settled, Sound, Kinds, Aboard, BuffsSound, ActiveSound,
     Rights, Mates, Register, Specs, Items
<1>9. ~strayed' => DomainSound(calc, fleet, ship)'
  BY <1>1, <1>2, <1>4 DEF Settled, Sound, DomainSound, Rights, Mates
<1>10. /\ BuffsThere(calc, buff, calc.projectors)'
       /\ ~strayed' /\ ~calc'.missed => Reaches(calc, fleet, ship, buff, calc.projectors)'
  BY <1>1, <1>2, <1>4 DEF Settled, BuffsThere, Reaches, Rights, Mates, Spec
<1>11. Typed' /\ (calc'.affectees # {} => source')
  BY <1>1, <1>2, <1>4 DEF Typed, Apart
<1> QED BY <1>7, <1>8, <1>9, <1>10, <1>11 DEF FleetInv, Settled, Sound

LEMMA ReadKeeps ==
  ASSUME FleetInv, NEW i \in Ships \cup Gadgets, Read(i)
  PROVE  FleetInv'
<1> DEFINE kept == [j \in DOMAIN calc.cache \cup {i} |->
                      IF j = i THEN Value(ActingOn(calc, i)) ELSE calc.cache[j]]
           d == [calc EXCEPT !.cache = kept]
<1>1. /\ ~strayed /\ i \in calc.affectees \ (Boosters \cup DOMAIN calc.cache)
      /\ calc' = d
      /\ UNCHANGED <<source, ship, fleet, ready, buff, strength, strayed>>
  BY DEF Read, fitVars
<1>2. Typed /\ Settled(calc, fleet, ship, buff, strayed) /\ (calc.affectees # {} => source)
  BY DEF FleetInv
<1>3. DOMAIN calc = Register
  BY <1>2 DEF Settled, Sound, Kinds
<1>4. /\ DOMAIN kept = DOMAIN calc.cache \cup {i}
      /\ \A j \in DOMAIN kept : kept[j] = IF j = i THEN Value(ActingOn(calc, i))
                                          ELSE calc.cache[j]
  OBVIOUS
<1> HIDE DEF kept
<1>5. /\ DOMAIN d = Register /\ d.fits = calc.fits
      /\ d.affectees = calc.affectees /\ d.projectors = calc.projectors
      /\ d.buffs = calc.buffs /\ d.tgts = calc.tgts /\ d.active = calc.active
      /\ d.domain = calc.domain /\ d.missed = calc.missed /\ d.cache = kept
  BY <1>3 DEF Register
<1> HIDE DEF d
<1>6. Settled(d, fleet, ship, buff, strayed)
  <2> USE <1>2, <1>5 DEF Settled, Sound
  <2>1. Kinds(d)
    BY <1>1, <1>4 DEF Kinds
  <2>2. Aboard(d, ship)
    BY DEF Aboard
  <2>3. BuffsSound(d, buff) /\ BuffsThere(d, buff, d.projectors)
    BY DEF BuffsSound, BuffsThere
  <2>4. ActiveSound(d, fleet, ship)
    BY DEF ActiveSound
  <2>5. DomainSound(d, fleet, ship)
    BY <1>1 DEF DomainSound
  <2>6. \A j : ActingOn(d, j) = ActingOn(calc, j)
    BY DEF ActingOn
  <2>7. CacheSound(d)
    BY <1>1, <1>4, <2>6 DEF CacheSound
  <2>8. ~strayed /\ ~d.missed => Reaches(d, fleet, ship, buff, d.projectors)
    BY DEF Reaches
  <2> QED BY <2>1, <2>2, <2>3, <2>4, <2>5, <2>7, <2>8
<1>7. Settled(calc', fleet', ship', buff', strayed')
  BY <1>1, <1>6
<1>8. Typed' /\ (calc'.affectees # {} => source')
  BY <1>1, <1>2, <1>5 DEF Typed, Apart
<1> QED BY <1>1, <1>7, <1>8, NextSettled DEF FleetInv

LEMMA InitKeeps == Init => FleetInv
<1> SUFFICES ASSUME Init
             PROVE  FleetInv
  OBVIOUS
<1>1. /\ DOMAIN calc = Register
      /\ calc.fits = {} /\ calc.affectees = {} /\ calc.projectors = {} /\ calc.buffs = {}
      /\ calc.tgts = {} /\ calc.active = {} /\ calc.domain = {} /\ calc.cache = <<>>
      /\ calc.missed = FALSE
  BY DEF Init, Register
<1>2. Typed
  <2>1. /\ ship = [f \in Fits |-> None] /\ fleet = [f \in Fits |-> None]
        /\ ready = {} /\ source = FALSE /\ strayed = FALSE
        /\ buff = [b \in Boosters |-> CHOOSE id \in DOMAIN Templates : Templates[id] # {}]
    BY DEF Init
  <2>2. (CHOOSE id \in DOMAIN Templates : Templates[id] # {}) \in DOMAIN Templates
    BY FleetAssumption
  <2>3. Apart(ship)
    BY <2>1 DEF Apart
  <2> QED BY <2>1, <2>2, <2>3 DEF Typed
<1>3. DOMAIN calc.cache = {}
  BY <1>1
<1>4. Kinds(calc) /\ Aboard(calc, ship) /\ BuffsSound(calc, buff) /\ ActiveSound(calc, fleet, ship)
  BY <1>1, <1>3 DEF Kinds, Aboard, BuffsSound, ActiveSound
<1>5. DomainSound(calc, fleet, ship) /\ CacheSound(calc)
  BY <1>1, <1>3 DEF DomainSound, CacheSound
<1>6. /\ BuffsThere(calc, buff, calc.projectors)
      /\ Reaches(calc, fleet, ship, buff, calc.projectors)
  BY <1>1 DEF BuffsThere, Reaches
<1> QED BY <1>1, <1>2, <1>4, <1>5, <1>6 DEF FleetInv, Settled, Sound

LEMMA StutterKeeps ==
  ASSUME FleetInv, UNCHANGED vars
  PROVE  FleetInv'
<1>1. /\ UNCHANGED <<source, ship, fleet, ready, buff, strength, calc, strayed>>
  BY DEF vars, fitVars
<1>2. Settled(calc', fleet', ship', buff', strayed')
  BY <1>1 DEF FleetInv
<1>3. Typed' /\ (calc'.affectees # {} => source')
  BY <1>1 DEF FleetInv, Typed, Apart
<1> QED BY <1>1, <1>2, <1>3, NextSettled DEF FleetInv

\* No call breaks the inductive invariant.
THEOREM FleetInductive == FleetInv /\ [Next]_vars => FleetInv'
<1> SUFFICES ASSUME FleetInv, [Next]_vars
             PROVE  FleetInv'
  OBVIOUS
<1>1. ASSUME NEW f \in Fits, NEW fl \in Fleets, Join(f, fl)
      PROVE  FleetInv'
  BY <1>1, JoinKeeps
<1>2. ASSUME NEW f \in Fits, Leave(f)
      PROVE  FleetInv'
  BY <1>2, LeaveKeeps
<1>3. ASSUME NEW f \in Fits, AddFit(f)
      PROVE  FleetInv'
  BY <1>3, AddFitKeeps
<1>4. ASSUME NEW f \in Fits, RemoveFit(f)
      PROVE  FleetInv'
  BY <1>4, RemoveFitKeeps
<1>5. ASSUME NEW fl \in Fleets, NEW order \in Orders({f \in Fits : fleet[f] = fl}),
             Disband(fl, order)
      PROVE  FleetInv'
  BY <1>5, DisbandKeeps
<1>6. ASSUME NEW f \in Fits, NEW s \in Ships \cup {None}, SetShip(f, s)
      PROVE  FleetInv'
  BY <1>6, SetShipKeeps
<1>7. ASSUME NEW order \in Orders(calc.fits), SetSource(order)
      PROVE  FleetInv'
  BY <1>7, SetSourceKeeps
<1>8. ASSUME NEW b \in Boosters, SetState(b)
      PROVE  FleetInv'
  BY <1>8, SetStateKeeps
<1>9. ASSUME NEW b \in Tuned, NEW id \in DOMAIN Templates, SetBuff(b, id)
      PROVE  FleetInv'
  BY <1>9, SetBuffKeeps, FleetAssumption
<1>10. ASSUME NEW b \in Tuned, NEW v \in Levels, SetStrength(b, v)
       PROVE  FleetInv'
  BY <1>10, SetStrengthKeeps, FleetAssumption
<1>11. ASSUME NEW i \in Ships \cup Gadgets, Read(i)
       PROVE  FleetInv'
  BY <1>11, ReadKeeps
<1>12. CASE UNCHANGED vars
  BY <1>12, StutterKeeps
<1> QED
  BY <1>1, <1>2, <1>3, <1>4, <1>5, <1>6, <1>7, <1>8, <1>9, <1>10, <1>11, <1>12 DEF Next

LEMMA FleetInvariance == FleetSpec => []FleetInv
<1>1. Init => FleetInv
  BY InitKeeps
<1>2. FleetInv /\ [Next]_vars => FleetInv'
  BY FleetInductive
<1> QED BY <1>1, <1>2, PTL DEF FleetSpec

\* Every variable keeps its type: specs are stored for loaded ships only, and
\* only running boosters have a buff registered.
THEOREM TypesHold == FleetSpec => []TypeOK
<1>1. FleetInv => TypeOK
  <2> SUFFICES ASSUME FleetInv
               PROVE  TypeOK
    OBVIOUS
  <2>1. Typed /\ Kinds(calc) /\ BuffsSound(calc, buff) /\ ActiveSound(calc, fleet, ship)
    BY DEF FleetInv, Settled, Sound
  <2>2. calc.active \subseteq Ships \X Specs
    BY <2>1 DEF Kinds
  <2>3. calc.active \subseteq (Ships \cap calc.affectees) \X Specs
    <3> SUFFICES ASSUME NEW p \in calc.active
                 PROVE  p \in (Ships \cap calc.affectees) \X Specs
      OBVIOUS
    <3>1. p[1] \in calc.affectees
      BY <2>1 DEF ActiveSound
    <3> QED BY <2>2, <3>1
  <2>4. {s.item : s \in calc.buffs} \subseteq calc.projectors
    BY <2>1 DEF BuffsSound
  <2> QED BY <2>1, <2>3, <2>4 DEF Typed, Kinds, TypeOK
<1> QED BY <1>1, FleetInvariance, PTL

\* However boosters start and stop, buffs change, and fits join, leave, come and
\* go, what acts on a ship is a buff its booster has now, while it runs, and
\* the ship is on the fit of the booster or in its fleet.
THEOREM EntitledHolds == FleetSpec => []BuffsEntitled
<1>1. FleetInv => BuffsEntitled
  <2> SUFFICES ASSUME FleetInv, NEW p \in calc.active
               PROVE  /\ p[2] \in calc.buffs /\ p[2].buff = buff[p[2].item]
                      /\ <<p[2].item, p[1]>> \in calc.tgts
                      /\ Entitled(p[2].item, FitOf(p[1]))
    BY DEF BuffsEntitled
  <2>1. /\ Typed /\ Kinds(calc) /\ BuffsSound(calc, buff)
        /\ Aboard(calc, ship) /\ ActiveSound(calc, fleet, ship)
    BY DEF FleetInv, Settled, Sound
  <2>2. p[1] \in Ships \cap calc.affectees
    BY <2>1 DEF Kinds, ActiveSound
  <2>3. PICK f \in calc.fits : ship[f] = p[1]
    BY <2>1, <2>2 DEF Aboard
  <2>4. f \in Fits /\ FitOf(p[1]) = f
    BY <2>1, <2>2, <2>3, FitOfItem DEF Kinds
  <2>5. Rights(fleet, p[2].item, f)
    BY <2>1, <2>3, <2>4 DEF ActiveSound
  <2> QED BY <2>1, <2>4, <2>5 DEF ActiveSound, BuffsSound, Rights, Entitled
<1> QED BY <1>1, FleetInvariance, PTL

\* The same of what acts on the items around ships, and values kept are those
\* of the buffs that act, unless a ship strayed while a buff had it as target.
THEOREM FreshHolds == FleetSpec => []BuffsFresh
<1>1. FleetInv => BuffsFresh
  <2> SUFFICES ASSUME FleetInv, ~strayed
               PROVE  /\ \A p \in calc.domain :
                           /\ p[2] \in calc.buffs /\ p[2].buff = buff[p[2].item]
                           /\ p[1] # None /\ Entitled(p[2].item, p[1])
                      /\ \A i \in DOMAIN calc.cache : calc.cache[i] = Value(ActingOn(calc, i))
    BY DEF BuffsFresh
  <2>1. BuffsSound(calc, buff) /\ DomainSound(calc, fleet, ship) /\ CacheSound(calc)
    BY DEF FleetInv, Settled, Sound
  <2>2. None \notin Fits
    BY FleetAssumption
  <2> QED BY <2>1, <2>2 DEF BuffsSound, DomainSound, CacheSound, Rights, Entitled
<1> QED BY <1>1, FleetInvariance, PTL

\* No ship that is loaded and meant for a running buff is left out, as long as
\* no ship came late or strayed and no booster's fit left its fleet.
THEOREM ReachHolds == FleetSpec => []BuffsReach
<1>1. FleetInv => BuffsReach
  BY DEF FleetInv, Settled, Reaches, BuffsReach, Rights, Entitled
<1> QED BY <1>1, FleetInvariance, PTL
=============================================================================
