-------------------------- MODULE MCAttrCalculator --------------------------
(* One fit: two ships to swap, a module with a charge of repair paste.  The  *)
(* values depend on each other as far as EVE's do: the charge acts on the    *)
(* module, the module on the ship (also as a propulsion module), the ship on *)
(* everything in its domain, one attribute caps another.                     *)
EXTENDS AttrCalculator, TLC, FiniteSetsExt

CONSTANTS f, s1, s2, m, c, hull, rack, hold, chair

MCFitOf == [i \in Items |-> f]
MCSeatOf == s1 :> hull @@ s2 :> hull @@ m :> rack @@ c :> hold
MCOwner == [p \in Seats |-> IF p = hold THEN m ELSE None]
MCShipSeat == f :> hull
MCCharacterSeat == f :> chair
MCAttrs == {"mass", "speed", "force", "rep", "top"}
MCMaxAttr == [a \in MCAttrs |-> IF a = "rep" THEN "top" ELSE None]
MCCells == ({s1, s2} \X {"mass", "speed"}) \cup
           ({m} \X {"force", "rep", "top"}) \cup {<<c, "force">>}
MCKeysOf == [i \in Items |-> IF i \in {m, c} THEN {"inShip"} ELSE {}]

Mod(filter, key, attr, from, kind) ==
  [filter |-> filter, key |-> key, attr |-> attr, from |-> from, kind |-> kind]
MCModifiers ==
  "ammo"   :> {Mod("other", None, "force", "force", "dogma")} @@
  "plate"  :> {Mod("ship", None, "mass", "force", "dogma"),
               Mod("self", None, "top", "force", "dogma")} @@
  "prop"   :> {Mod("ship", None, "speed", "force", "propulsion"),
               Mod("self", None, "rep", "force", "ancillary")} @@
  "role"   :> {Mod("mass", "inShip", "top", "mass", "dogma")}
MCEffects == DOMAIN MCModifiers
MCEffectsOf == s1 :> {"role"} @@ s2 :> {} @@ m :> {"plate", "prop"} @@ c :> {"ammo"}

\* A value: a base that tells cells apart, plus what modifies it, capped.
Base(d) == CASE d[2] = "mass" -> 1 [] d[2] = "speed" -> 2 [] d[2] = "force" -> 3
             [] d[2] = "rep" -> 9 [] d[2] = "top" -> 5
Weight(mod) == IF mod.kind = "dogma" THEN 1 ELSE 2
MCCompute(d, mods, caps) ==
  LET modified == Base(d) +
        MapThenSumSet(LAMBDA p : MapThenSumSet(LAMBDA r : Weight(p[1].mod) * r[2], p[2]), mods)
  IN IF \E v \in caps : v < modified THEN Min(caps) ELSE modified

\* The charge is read by the module, the module by the ship, the mass of the
\* ship by its speed and by what caps the repairs.
MCDepth == [d \in MCCells |->
  IF d[1] = c THEN 0 ELSE
  CASE d[2] = "force" -> 1 [] d[2] = "mass" -> 2 [] d[2] = "speed" -> 3
    [] d[2] = "top" -> 3 [] d[2] = "rep" -> 4]

MCKnown == "a" :> Items @@ "b" :> Items \ {s1}
MCLoadOrder == <<s1, s2, m, c>>
MCOverridden == {<<m, "force">>}

\* One fit is what the theorems about values suppose.
ASSUME OneFit == OneListens
=============================================================================
