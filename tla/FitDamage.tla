----------------------------- MODULE FitDamage -----------------------------
(***************************************************************************)
(* What the effects of an item deal and repair, and how often: the damage  *)
(* dealing and local repair effects of eos/eve_obj/effect, their cycle     *)
(* parameters, and the damage containers of eos/stats_container.           *)
(***************************************************************************)
EXTENDS FitContents

CONSTANT TgtResists     \* [DmgTypes -> tenths of the damage the target resists]

DmgTypes == {"em", "thermal", "kinetic", "explosive"}
DmgAttr == [em |-> "em_dmg", thermal |-> "therm_dmg", kinetic |-> "kin_dmg",
            explosive |-> "expl_dmg"]
Wear == {"hp", "crystal_volatility_chance", "crystal_volatility_dmg"}
Dealers == {"projectile_fired", "target_attack", "use_missiles"}
ArmorRepairs == {"armor_repair", "fueled_armor_repair"}
ShieldRepairs == {"shield_boosting", "fueled_shield_boosting"}

\* Attributes that are amounts; a volume or a duration is not zero.
Amounts == {DmgAttr[d] : d \in DmgTypes} \cup Wear \cup
           {"capacity", "charge_rate", "dmg_mult", "module_reactivation_delay", "reload_time"}
Sizes == {"volume", "duration"}

ASSUME DamageAssumption ==
    /\ TgtResists \in [DmgTypes -> 0..10]
    /\ \A s \in Sources : \A t \in DOMAIN Catalogue[s] :
         LET type == Catalogue[s][t] IN
         /\ \A a \in DOMAIN type.attrs \cap Amounts : Worths(type, a) \subseteq Nat
         /\ \A a \in DOMAIN type.attrs \cap Sizes : Worths(type, a) \subseteq Nat \ {0}
         /\ type.effects \cap Dealers # {} => "duration" \in DOMAIN type.attrs

NoDamage == [d \in DmgTypes |-> 0]
Endless == -1       \* math.inf cycles; 0 stands for no cycle and for None
Unit == 1000        \* rates are whole thousandths

-----------------------------------------------------------------------------
(* Charges and the cycles that they last.                                  *)

\* Effect.get_charge: only modules have a charge.
get_charge(i) == IF i \in Carriers THEN charge[i] ELSE NoItem

charge_quantity(i) ==
    LET c == get_charge(i) IN
    IF Has(i, "capacity") /\ Has(c, "volume") THEN Attr(i, "capacity") \div Attr(c, "volume")
                                              ELSE 0

CyclesGeneric(i) ==
    IF Attr(i, "charge_rate") = 0 THEN 0 ELSE charge_quantity(i) \div Attr(i, "charge_rate")

\* The chance that a crystal wears is in percent.
CyclesCrystal(i) ==
    LET c == get_charge(i)
        wear == Attr(c, "crystal_volatility_chance") * Attr(c, "crystal_volatility_dmg")
        worn == Attr(c, "crystals_get_damaged") # 0
    IN  IF charge_quantity(i) = 0 \/ (worn /\ ((\E a \in Wear : ~Has(c, a)) \/ Attr(c, "hp") <= 0))
        THEN 0
        ELSE IF ~worn \/ wear <= 0 THEN Endless
        ELSE ((100 * Attr(c, "hp")) \div wear) * charge_quantity(i)

Deals(i) == \E d \in DmgTypes : Has(i, DmgAttr[d])
\* TargetAttack._get_base_dmg_item: the crystal before the item itself.
AttackItem(i) ==
    IF Deals(get_charge(i)) THEN get_charge(i) ELSE IF Deals(i) THEN i ELSE NoItem
DmgItem(i, e) == IF e = "target_attack" THEN AttackItem(i) ELSE get_charge(i)

AttackCycles(i) ==
    IF AttackItem(i) = NoItem THEN 0
    ELSE IF AttackItem(i) = get_charge(i) THEN CyclesCrystal(i) ELSE Endless

get_cycles_until_reload(i, e) ==
    CASE e \in {"projectile_fired", "use_missiles"} -> CyclesGeneric(i)
      [] e = "target_attack" -> AttackCycles(i)
      [] e \in {"fueled_armor_repair", "fueled_shield_boosting"} ->
            IF CyclesGeneric(i) = 0 THEN Endless ELSE CyclesGeneric(i)
      [] OTHER -> Endless

-----------------------------------------------------------------------------
(* Cycle parameters: a sequence of cycles alike, empty when there is none.  *)

Reloads(i) == i \in Carriers /\ Has(i, "reload_time")
CycleInfo(active_time, inactive, quantity) ==
    [active |-> active_time, inactive |-> inactive, quantity |-> quantity]

get_cycle_parameters(i, e, reload) ==
    LET n == get_cycles_until_reload(i, e)
        active_time == Attr(i, "duration")
        forced == Attr(i, "module_reactivation_delay")
        reload_time == Attr(i, "reload_time")
    IN
    IF n = 0 THEN <<>>
    ELSE IF ~Reloads(i) /\ n # Endless
    THEN IF n = 1 \/ forced = 0 THEN <<CycleInfo(active_time, 0, n)>>
         ELSE <<CycleInfo(active_time, forced, n - 1), CycleInfo(active_time, 0, 1)>>
    ELSE IF ~reload \/ n = Endless \/ forced >= reload_time
    THEN <<CycleInfo(active_time, forced, Endless)>>
    ELSE IF n = 1 THEN <<CycleInfo(active_time, reload_time, Endless)>>
    ELSE <<CycleInfo(active_time, forced, n - 1), CycleInfo(active_time, reload_time, 1)>>

\* average_time, as the time that a number of cycles takes.
CycleTime(info) == info.active + info.inactive
AverageTime(seq) ==
    IF Len(seq) = 1 THEN [time |-> CycleTime(seq[1]), cycles |-> 1]
    ELSE [time |-> SumFunction([k \in DOMAIN seq |-> CycleTime(seq[k]) * seq[k].quantity]),
          cycles |-> SumFunction([k \in DOMAIN seq |-> seq[k].quantity])]
PerTime(amount, average) == (amount * average.cycles * Unit) \div average.time

-----------------------------------------------------------------------------
(* Damage and repairs of effects and items.                                *)

Damage(i, mult) == [d \in DmgTypes |-> Attr(i, DmgAttr[d]) * mult]
Mult(i) == IF Has(i, "dmg_mult") THEN Attr(i, "dmg_mult") ELSE 1

\* A missile counts while the effect that launches it runs.
Launched(i, e) == e # "use_missiles" \/ "missile_launching" \in Running(get_charge(i))
get_volley(i, e) ==
    IF get_cycles_until_reload(i, e) = 0 \/ ~Launched(i, e) THEN NoDamage
    ELSE Damage(DmgItem(i, e), IF e = "use_missiles" THEN 1 ELSE Mult(i))

get_dps(i, e, reload) ==
    LET cycles == get_cycle_parameters(i, e, reload) IN
    IF cycles = <<>> THEN NoDamage
    ELSE [d \in DmgTypes |-> PerTime(get_volley(i, e)[d], AverageTime(cycles))]

\* BaseRepairEffect.get_rps, when reload is not counted.
get_rps(i, e, amount) ==
    LET cycles == get_cycle_parameters(i, e, FALSE) IN
    IF cycles = <<>> THEN 0 ELSE PerTime(Attr(i, amount), AverageTime(cycles))

\* DmgStats._combine; what is left of damage that is resisted is in tenths.
Combine(S, Dmg(_)) == [d \in DmgTypes |-> SumFunction([x \in S |-> Dmg(x)[d]])]
Resisted(damage) == [d \in DmgTypes |-> damage[d] * (10 - TgtResists[d])]

\* DmgDealerMixin: the running effects of the item.
ItemVolley(i) ==
    Resisted(Combine(Running(i) \cap Dealers, LAMBDA e : get_volley(i, e)))
ItemDps(i, reload) ==
    Resisted(Combine(Running(i) \cap Dealers, LAMBDA e : get_dps(i, e, reload)))
ItemRps(i, effects, amount) ==
    SumFunction([e \in Running(i) \cap effects |-> get_rps(i, e, amount)])
=============================================================================
