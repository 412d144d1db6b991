--------------------------- MODULE MCItemLifecycle ---------------------------
(* Two guns, one charge that either may hold, two fits and two sources.       *)
(* Source b knows no type for the autocharge, gives guns no 'online' effect   *)
(* and ammunition no default effect.                                          *)
EXTENDS ItemLifecycle, TLC

CONSTANTS m1, m2, c1, f1, f2

MCTypeIds == {"gun", "ammo", "autoammo"}
MCEffects == {"onl", "passive", "chance", "passiveOnl", "shoot", "heat"}
MCEffectState == [e \in MCEffects |->
  CASE e \in {"passive", "chance"} -> offline
    [] e \in {"onl", "passiveOnl"} -> online
    [] e = "shoot" -> active
    [] e = "heat" -> overload]
MCUsageChance == {"chance"}

Gun(onl) == [effects |-> onl \cup {"passive", "passiveOnl", "shoot", "heat"},
             default |-> "shoot", autocharge |-> "autoammo"]
Ammo(default) == [effects |-> {"chance", "passiveOnl", "shoot"},
                  default |-> default, autocharge |-> None]
MCCatalogue ==
  "a" :> [t \in MCTypeIds |-> IF t = "gun" THEN Gun({"onl"}) ELSE Ammo("shoot")] @@
  "b" :> ("gun" :> Gun({}) @@ "ammo" :> Ammo(None) @@ "autoammo" :> None)

MCModuleType == [m \in Modules |-> "gun"]
MCChargeType == [c \in Charges |-> "ammo"]
=============================================================================
