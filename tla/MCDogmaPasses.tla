--------------------------- MODULE MCDogmaPasses ---------------------------
(* A hull with a drain on its capacitor, a gun, a web, their ammunition, a   *)
(* drone and two skills.  The values hang together as EVE's do: levels on    *)
(* bonuses of skills, bonuses on what requires the skill, ammunition on the  *)
(* module it is in, modules on the hull, the hull on a group, some of them   *)
(* with penalties; several modifiers read attributes that nothing has.       *)
(* Two attributes of a coil depend on each other, but only when it is        *)
(* overloaded, and a hull of type `nothing' has no attributes at all.        *)
EXTENDS DogmaPasses, TLC

hull == 1   gun == 2   ammo == 3   gunnery == 4   control == 5
drone == 6  web == 7   person == 8 nothing == 9   coil == 10
MCTypes == 1..10
MCUnit == 64
MCExempt == {hull, ammo, gunnery, control}
MCGroupOf == [t \in MCTypes |-> IF t \in {gun, drone} THEN "guns" ELSE "rest"]
MCSkillAttrs == {"req1", "req2"}
MCStackable == {"power", "peak", "bonus", "role", "level"}
MCHighIsGood == {"power", "peak", "bonus", "level"}
MCDefault == [a \in {"mass", "speed", "peak", "role", "power", "need", "cycle", "heat",
                     "capacity", "recharge", "req1", "req2", "bonus", "level", "depletes"} |->
                IF a = "role" THEN 200 * MCUnit ELSE 0]
MCPenalty == <<64, 56, 37>>

MCDogmaAttrs ==
  hull :> ("mass" :> 64 @@ "speed" :> 4096 @@ "peak" :> 64 @@ "role" :> 6400 @@
           "capacity" :> 6 * MCUnit @@ "recharge" :> 100000 * MCUnit) @@
  gun :> ("req1" :> 256 @@ "req2" :> 320 @@ "power" :> 1024 @@ "need" :> 128 @@
          "cycle" :> 2000 * MCUnit @@ "heat" :> 128) @@
  ammo :> ("req1" :> 256 @@ "power" :> 32) @@
  gunnery :> ("bonus" :> 1600) @@
  control :> ("bonus" :> 64) @@
  drone :> ("req2" :> 320 @@ "power" :> 512) @@
  web :> ("power" :> 32 @@ "need" :> 64 @@ "cycle" :> 3000 * MCUnit) @@
  coil :> ("power" :> 64 @@ "speed" :> 128 @@ "heat" :> 64) @@
  person :> << >> @@ nothing :> << >>
MCInfoAttrs == hull :> ("mass" :> 128) @@ [t \in MCTypes |-> << >>]

Mod(func, arg, domain, op, from, to) ==
  [func |-> func, arg |-> arg, domain |-> domain, op |-> op, from |-> from, to |-> to]
Effect(category, mods) == [category |-> category, modifiers |-> mods]
MCEffectsOf ==
  hull :> <<Effect(Passive, <<Mod("group", "guns", "ship", "postPercent", "role", "power"),
                              Mod("item", None, "item", "postDiv", "mass", "speed")>>)>> @@
  gun :> <<Effect(Active, <<Mod("item", None, "ship", "modSub", "need", "peak")>>),
           Effect(Overload, <<Mod("item", None, "item", "postMul", "heat", "power")>>)>> @@
  ammo :> <<Effect(Active, <<Mod("item", None, "other", "preMul", "power", "power")>>)>> @@
  gunnery :> <<Effect(Passive, <<Mod("item", None, "item", "preMul", "level", "bonus"),
                 Mod("locationSkill", -1, "ship", "postPercent", "bonus", "power")>>)>> @@
  control :> <<Effect(Passive, <<Mod("ownerSkill", control, "char", "modAdd", "bonus", "power")>>)>> @@
  drone :> <<Effect(2 + Active, <<Mod("item", None, "target", "preMul", "power", "speed")>>)>> @@
  web :> <<Effect(Online, <<Mod("location", None, "ship", "postMul", "power", "speed"),
                            Mod("item", None, "other", "modAdd", "cycle", "bonus")>>)>> @@
  person :> <<Effect(Passive, <<Mod("item", None, "ship", "preAssign", "role", "role"),
                Mod("stopper", None, "ship", None, None, None)>>)>> @@
  coil :> <<Effect(Passive, <<Mod("item", None, "item", "modAdd", "power", "speed"),
                              Mod("item", None, "item", "modAdd", "speed", "heat")>>),
            Effect(Overload, <<Mod("item", None, "item", "modAdd", "speed", "power")>>)>> @@
  nothing :> << >>

Fitted(t, state, charge) == [type |-> t, state |-> state, charge |-> charge, slot |-> "high"]
Singles == {<<Fitted(t, s, c)>> : t \in {gun, web}, s \in Passive..Overload, c \in {None, ammo}}
Pairs == {<<Fitted(t, s, None), Fitted(web, r, ammo)>> :
            t \in {gun, web}, s \in {Passive, Active}, r \in {Passive, Active}}
MCFits ==
  [ship : {hull}, modules : Singles, drones : {<<>>},
   skills : {gunnery :> 2 @@ control :> 1}] \cup
  [ship : {hull}, modules : Pairs, drones : {<<>>}, skills : {<< >>}] \cup
  [ship : {hull}, modules : {<<>>},
   drones : {<<[type |-> drone, state |-> s]>> : s \in {Passive, Overload}},
   skills : {control :> 2}] \cup
  [ship : {hull}, modules : {<<Fitted(coil, s, None)>> : s \in {Active, Overload}},
   drones : {<<>>}, skills : {<< >>}] \cup
  [ship : {nothing}, modules : {<<Fitted(gun, Active, None)>>}, drones : {<<>>},
   skills : {<< >>}] \cup
  [ship : {hull}, modules : {<<[Fitted(gun, Active, None) EXCEPT !.slot = "service"]>>},
   drones : {<<>>}, skills : {<< >>}]
=============================================================================
