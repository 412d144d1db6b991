--------------------------- MODULE FitValidation ---------------------------
(***************************************************************************)
(* The rules that a fit is validated by (eos/restriction) and the sums     *)
(* that eos/stats makes.  Both read registers: R[r] is the set of items    *)
(* in the register named r.                                                *)
(***************************************************************************)
EXTENDS FitDamage

CONSTANT SkillLevel     \* [skill items -> level]

-----------------------------------------------------------------------------
(* Names: what the subclasses of the registers and restrictions fill in.   *)

ResourceUse == [cpu |-> "cpu", powergrid |-> "power", calibration |-> "upgrade_cost",
                dronebay_volume |-> "volume", drone_bandwidth |-> "drone_bandwidth_used"]
ShipResources == {"cpu", "powergrid", "calibration"}
ResourceOutput == [cpu |-> "cpu_output", powergrid |-> "power_output",
                   calibration |-> "upgrade_capacity"]
MaxGroupAttr == [max_group_fitted |-> "max_group_fitted", max_group_online |-> "max_group_online",
                 max_group_active |-> "max_group_active"]
FighterAttr == [fighter_squad_support |-> "fighter_squadron_is_support",
                fighter_squad_light |-> "fighter_squadron_is_light",
                fighter_squad_heavy |-> "fighter_squadron_is_heavy"]
SquadSlots == [fighter_squad_support |-> "fighter_support_slots",
               fighter_squad_light |-> "fighter_light_slots",
               fighter_squad_heavy |-> "fighter_heavy_slots"]
FighterRoles == DOMAIN FighterAttr
Hardpoints == [turret_slot |-> "turret_slots_left", launcher_slot |-> "launcher_slots_left"]
RackOf == [high_slot |-> "ModuleHigh", mid_slot |-> "ModuleMid", low_slot |-> "ModuleLow"]
SetOf == [rig_slot |-> "Rig", subsystem_slot |-> "Subsystem", fighter_squad |-> "FighterSquad"]
SlotAttr == [high_slot |-> "hi_slots", mid_slot |-> "med_slots", low_slot |-> "low_slots",
             rig_slot |-> "rig_slots", subsystem_slot |-> "max_subsystems",
             fighter_squad |-> "fighter_tubes"]
GroupOf == [Character |-> "character", EffectBeacon |-> "effect_beacon",
            Stance |-> "ship_modifier"]
CategoryOf == [Charge |-> "charge", Drone |-> "drone", Ship |-> "ship", Skill |-> "skill"]

-----------------------------------------------------------------------------
(* Registers: what each listens to, and the items it takes.                *)

ByLoading == {"capital_item", "charge_group", "charge_size", "charge_volume", "drone_group",
              "ship_type_group", "skill_requirement", "max_group_fitted", "dronebay_volume",
              "subsystem_index", "implant_index", "booster_index",
              "fighter_squad_support", "fighter_squad_light", "fighter_squad_heavy"}
ByState == [max_group_online |-> online, max_group_active |-> active, state |-> online,
            drone_bandwidth |-> online]
\* An item of a type has at most one effect of each of these.
ByEffect == [cpu |-> {"online"}, powergrid |-> {"online"}, calibration |-> {"rig_slot"},
             rig_size |-> {"rig_slot"}, turret_slot |-> {"turret_fitted"},
             launcher_slot |-> {"launcher_fitted"}, dmg_dealer |-> Dealers,
             armor_rps |-> ArmorRepairs, shield_rps |-> ShieldRepairs]
Registers == ByLoading \cup DOMAIN ByState \cup DOMAIN ByEffect \cup {"launched_drone"}

ASSUME CatalogueAssumption ==
    \A s \in Sources : \A t \in DOMAIN Catalogue[s] :
      LET type == Catalogue[s][t] IN
      /\ \A r \in DOMAIN ByEffect : \A e, f \in ByEffect[r] \cap type.effects : e = f
      /\ \A r \in DOMAIN RackOf :
           SlotAttr[r] \in DOMAIN type.attrs => Worths(type, SlotAttr[r]) \subseteq Nat

\* The register of launched drones alone listens to items that are not loaded.
Heard(r, i) ==
    CASE r \in ByLoading -> IsLoaded(i)
      [] r \in DOMAIN ByState -> IsLoaded(i) /\ StateOf(i) >= ByState[r]
      [] r \in DOMAIN ByEffect -> ByEffect[r] \cap Running(i) # {}
      [] OTHER -> OnFit(i) /\ StateOf(i) >= online

MAX_SUBCAP_VOLUME == 35     \* in hundreds
ChargeGroups == {"charge_group_1", "charge_group_2"}
DroneGroups == {"allowed_drone_group_1", "allowed_drone_group_2"}
ShipTypes == {"can_fit_ship_type_1", "fits_to_shiptype"}
ShipGroups == {"can_fit_ship_group_1"}
Values(i, attrs) == {TypeAttr(i, a) : a \in {b \in attrs : Has(i, b)}}

IsModule(i) == Class[i] \in Modules
TakesCapitalItem(i) == IsModule(i) /\ TypeAttr(i, "volume") > MAX_SUBCAP_VOLUME
TakesChargeGroup(i) == i \in Carriers /\ Values(i, ChargeGroups) # {}
TakesChargeSize(i) == i \in Carriers /\ Has(i, "charge_size")
TakesChargeVolume(i) == i \in Carriers
TakesDroneGroup(i) == Class[i] = "Drone"
TakesShipTypeGroup(i) == IsModule(i) /\ Values(i, ShipTypes \cup ShipGroups) # {}
TakesSkillRequirement(i) == Class[i] # "Rig" /\ DOMAIN Type(i).skills # {}
TakesMaxGroup(i) == IsModule(i) /\ Type(i).group # NoItem
TakesSlotIndex(i, class, attr) == Class[i] = class /\ Has(i, attr)
TakesState(i) == Class[i] # "Charge"
TakesRigSize(i) == Has(i, "rig_size")
TakesLaunchedDrone(i) == Class[i] = "Drone"
TakesDroneVolume(i) == Class[i] = "Drone" /\ Has(i, "volume")
TakesDroneBandwidth(i) == Class[i] = "Drone" /\ Has(i, "drone_bandwidth_used")
TakesFighterSquad(i, attr) == Class[i] = "FighterSquad" /\ TypeAttr(i, attr) # 0
TakesResourceUser(i, attr) == Has(i, attr)

\* The test a register makes of an item that a message to it names.
Takes(r, i) ==
    CASE r = "capital_item" -> TakesCapitalItem(i)
      [] r = "charge_group" -> TakesChargeGroup(i)
      [] r = "charge_size" -> TakesChargeSize(i)
      [] r = "charge_volume" -> TakesChargeVolume(i)
      [] r = "drone_group" -> TakesDroneGroup(i)
      [] r = "ship_type_group" -> TakesShipTypeGroup(i)
      [] r = "skill_requirement" -> TakesSkillRequirement(i)
      [] r \in DOMAIN MaxGroupAttr -> TakesMaxGroup(i)
      [] r = "subsystem_index" -> TakesSlotIndex(i, "Subsystem", "subsystem_slot")
      [] r = "implant_index" -> TakesSlotIndex(i, "Implant", "implantness")
      [] r = "booster_index" -> TakesSlotIndex(i, "Booster", "boosterness")
      [] r = "state" -> TakesState(i)
      [] r = "rig_size" -> TakesRigSize(i)
      [] r = "launched_drone" -> TakesLaunchedDrone(i)
      [] r = "dronebay_volume" -> TakesDroneVolume(i)
      [] r = "drone_bandwidth" -> TakesDroneBandwidth(i)
      [] r \in FighterRoles -> TakesFighterSquad(i, FighterAttr[r])
      [] r \in ShipResources -> TakesResourceUser(i, ResourceUse[r])
      [] OTHER -> TRUE

-----------------------------------------------------------------------------
(* Statistics.                                                             *)

ShipAttr(a) == IF Ship = NoItem THEN 0 ELSE Attr(Ship, a)
Sum(S, a) == SumFunction([i \in S |-> Attr(i, a)])

ShipResourceOutput(r) == ShipAttr(ResourceOutput[r])
DronebayOutput == ShipAttr("drone_capacity")
BandwidthOutput == ShipAttr("drone_bandwidth")
Output(r) == CASE r = "dronebay_volume" -> DronebayOutput
               [] r = "drone_bandwidth" -> BandwidthOutput
               [] OTHER -> ShipResourceOutput(r)

LaunchedDroneSlots == LET c == Single("Character") IN
                      IF c = NoItem THEN 0 ELSE Attr(c, "max_active_drones")
FighterSlots(r) == ShipAttr(SquadSlots[r])
HardpointSlots(r) == ShipAttr(Hardpoints[r])
AssistedSlots(r) == CASE r = "launched_drone" -> LaunchedDroneSlots
                      [] r \in FighterRoles -> FighterSlots(r)
                      [] OTHER -> HardpointSlots(r)

\* Sums over the items that deal damage, each of which takes the resistances off its own.
Volley(R) == Combine(R["dmg_dealer"], ItemVolley)
Dps(R, reload) == Combine(R["dmg_dealer"], LAMBDA i : ItemDps(i, reload))
\* Repairs per second of the ship, no damage profile given: a repairer counts when the item
\* that carries it is the one asked about, and None carries it when there is no ship.
ArmorRps(R) ==
    SumFunction([i \in R["armor_rps"] |-> ItemRps(i, ArmorRepairs, "armor_dmg_amount")])
ShieldRps(R) ==
    SumFunction([i \in R["shield_rps"] |-> ItemRps(i, ShieldRepairs, "shield_bonus")])

-----------------------------------------------------------------------------
(* Restrictions: the items that each of them taints.                       *)

CapitalItem(R) ==
    IF Ship # NoItem /\ TypeAttr(Ship, "is_capital_size") # 0 THEN {} ELSE R["capital_item"]

\* The loaded charges of the modules in a register.
Charged(S) == {m \in S : charge[m] # NoItem}
ChargeGroup(R) ==
    {charge[m] : m \in {n \in Charged(R["charge_group"]) :
        IsLoaded(charge[n]) /\ Type(charge[n]).group \notin Values(n, ChargeGroups)}}
ChargeSize(R) ==
    {charge[m] : m \in {n \in Charged(R["charge_size"]) :
        /\ IsLoaded(charge[n])
        /\ \/ ~Has(charge[n], "charge_size")
           \/ TypeAttr(charge[n], "charge_size") # TypeAttr(n, "charge_size")}}
ChargeVolume(R) ==
    {charge[m] : m \in {n \in Charged(R["charge_volume"]) :
        TypeAttr(charge[n], "volume") > TypeAttr(n, "capacity")}}

DroneGroup(R) ==
    LET allowed == Values(Ship, DroneGroups) IN
    IF allowed = {} THEN {} ELSE {d \in R["drone_group"] : Type(d).group \notin allowed}

ShipTypeGroup(R) ==
    LET known == Ship # NoItem /\ IsLoaded(Ship) IN
    {i \in R["ship_type_group"] :
        ~(known /\ (\/ TypeId[Ship] \in Values(i, ShipTypes)
                    \/ Type(Ship).group \in Values(i, ShipGroups)))}

\* The requirement is met by a skill of the fit that is loaded and trained enough.
SkillRequirement(R) ==
    {i \in R["skill_requirement"] : \E need \in DOMAIN Type(i).skills :
        ~\E s \in Fit("Skill") :
            TypeId[s] = need /\ IsLoaded(s) /\ SkillLevel[s] >= Type(i).skills[need]}

MaxGroup(R, r) ==
    {i \in R[r] : /\ Has(i, MaxGroupAttr[r])
                  /\ Cardinality({j \in R[r] : Type(j).group = Type(i).group})
                        > Attr(i, MaxGroupAttr[r])}

SlotIndex(R, r, attr) ==
    {i \in R[r] : \E j \in R[r] \ {i} : TypeAttr(i, attr) = TypeAttr(j, attr)}

StateTooHigh(R) == {i \in R["state"] : StateOf(i) > Type(i).max_state}

RigSize(R) ==
    IF ~Has(Ship, "rig_size") THEN {}
    ELSE {i \in R["rig_size"] : TypeAttr(i, "rig_size") # TypeAttr(Ship, "rig_size")}

LoadedItem == {i \in Fitted : ~IsLoaded(i)}

FighterRole(t) == \E r \in FighterRoles : FighterAttr[r] \in DOMAIN t.attrs
\* CLASS_VALIDATORS
Fits(class, t) ==
    CASE class = "Booster" -> t.category = "implant" /\ "boosterness" \in DOMAIN t.attrs
      [] class = "Implant" -> t.category = "implant" /\ "implantness" \in DOMAIN t.attrs
      [] class = "FighterSquad" -> t.category = "fighter" /\ FighterRole(t)
      [] class = "ModuleHigh" -> t.category = "module" /\ "hi_power" \in t.effects
      [] class = "ModuleMid" -> t.category = "module" /\ "med_power" \in t.effects
      [] class = "ModuleLow" -> t.category = "module" /\ "lo_power" \in t.effects
      [] class = "Rig" -> t.category = "module" /\ "rig_slot" \in t.effects
      [] class = "Subsystem" -> t.category = "subsystem" /\ "subsystem" \in t.effects
      [] class \in DOMAIN GroupOf -> t.group = GroupOf[class]
      [] OTHER -> t.category = CategoryOf[class]
ItemClass == {i \in Fitted : IsLoaded(i) /\ ~Fits(Class[i], Type(i))}

\* A resource that is used beyond what the ship has taints all who use some of it.
Resource(R, r) ==
    IF Sum(R[r], ResourceUse[r]) <= Output(r) THEN {}
    ELSE {i \in R[r] : Attr(i, ResourceUse[r]) > 0}

Assisted(R, r) == IF Cardinality(R[r]) > AssistedSlots(r) THEN R[r] ELSE {}

\* SlotStats of the racks and of the sets; holes of a rack count.
SlotsUsed(r) == IF r \in DOMAIN RackOf THEN Len(racks[RackOf[r]])
                ELSE Cardinality(Fit(SetOf[r]))
SlotsTotal(r) == ShipAttr(SlotAttr[r])
\* _container[total:], of which the holes are left out here.
Ordered(r) ==
    IF SlotsUsed(r) <= SlotsTotal(r) THEN {}
    ELSE {racks[RackOf[r]][p] : p \in {q \in DOMAIN racks[RackOf[r]] : q > SlotsTotal(r)}}
         \ {NoItem}
Unordered(r) == IF SlotsUsed(r) > SlotsTotal(r) THEN Fit(SetOf[r]) ELSE {}

-----------------------------------------------------------------------------
(* RestrictionService.validate: each item with the restrictions it breaks.  *)

Tainted(R, r) ==
    CASE r = "capital_item" -> CapitalItem(R)
      [] r = "charge_group" -> ChargeGroup(R)
      [] r = "charge_size" -> ChargeSize(R)
      [] r = "charge_volume" -> ChargeVolume(R)
      [] r = "drone_group" -> DroneGroup(R)
      [] r = "ship_type_group" -> ShipTypeGroup(R)
      [] r = "skill_requirement" -> SkillRequirement(R)
      [] r \in DOMAIN MaxGroupAttr -> MaxGroup(R, r)
      [] r = "subsystem_index" -> SlotIndex(R, r, "subsystem_slot")
      [] r = "implant_index" -> SlotIndex(R, r, "implantness")
      [] r = "booster_index" -> SlotIndex(R, r, "boosterness")
      [] r = "state" -> StateTooHigh(R)
      [] r = "rig_size" -> RigSize(R)
      [] r = "loaded_item" -> LoadedItem
      [] r = "item_class" -> ItemClass
      [] r \in DOMAIN ResourceUse -> Resource(R, r)
      [] r \in DOMAIN RackOf -> Ordered(r)
      [] r \in DOMAIN SetOf -> Unordered(r)
      [] OTHER -> Assisted(R, r)

Restrictions == (Registers \ {"dmg_dealer", "armor_rps", "shield_rps"})
                \cup {"loaded_item", "item_class"} \cup DOMAIN RackOf \cup DOMAIN SetOf

validate(R) == UNION {Tainted(R, r) \X {r} : r \in Restrictions}
Answers(R) == [invalid |-> validate(R), volley |-> Volley(R),
               armor_rps |-> ArmorRps(R), shield_rps |-> ShieldRps(R)]
=============================================================================
