------------------------- MODULE MCFitRestrictions -------------------------
(* Two ships and thirteen groups of items, each fitted on its own.         *)
EXTENDS FitRestrictions

MCClass ==
    [frigate |-> "Ship", carrier |-> "Ship", pilot |-> "Character",
     gun |-> "ModuleHigh", launcher |-> "ModuleHigh", laser |-> "ModuleHigh",
     ammo |-> "Charge", missile |-> "Charge", crystal |-> "Charge", paste |-> "Charge",
     field1 |-> "ModuleLow", field2 |-> "ModuleLow", repairer |-> "ModuleLow",
     rig1 |-> "Rig", rig2 |-> "Rig", core |-> "Subsystem", hull |-> "Subsystem",
     drone1 |-> "Drone", drone2 |-> "Drone",
     light1 |-> "FighterSquad", light2 |-> "FighterSquad", heavy |-> "FighterSquad",
     skill |-> "Skill", skill_again |-> "Skill", scope |-> "ModuleMid",
     implant1 |-> "Implant", implant2 |-> "Implant", booster |-> "Booster",
     booster_again |-> "Booster"]
MCTgtResists == [em |-> 1, thermal |-> 2, kinetic |-> 5, explosive |-> 0]
MCItems == DOMAIN MCClass
Typed == [i \in MCItems |-> i]
MCTypeId ==
    [field2 |-> "field1", skill_again |-> "skill", light2 |-> "light1",
     booster_again |-> "booster"] @@ Typed
MCSkillLevel == [skill |-> 2, skill_again |-> 4]

T(category, group, attrs, effects) ==
    [category |-> category, group |-> group, attrs |-> attrs, effects |-> effects,
     skills |-> <<>>, max_state |-> online]

ShipAttrs == [cpu_output |-> 5, power_output |-> 4, hi_slots |-> 2, low_slots |-> 1,
              turret_slots_left |-> 1, rig_slots |-> 1, rig_size |-> 1, upgrade_capacity |-> 3,
              drone_capacity |-> 5, drone_bandwidth |-> 5, allowed_drone_group_1 |-> "scouts",
              max_subsystems |-> 1, fighter_tubes |-> 1, fighter_light_slots |-> 1]
CarrierAttrs == ("is_capital_size" :> 1) @@ ("launcher_slots_left" :> 1) @@ ShipAttrs

One == [
    frigate |-> T("ship", "frigates", ShipAttrs, {}),
    carrier |-> T("ship", "carriers", CarrierAttrs, {}),
    pilot |-> T("none", "character", [max_active_drones |-> 1], {}),
    gun |-> [T("module", "guns",
                [cpu |-> 3, power |-> 3, charge_group_1 |-> "shells", charge_size |-> 1,
                 capacity |-> 4, volume |-> 40, dmg_mult |-> 2, charge_rate |-> 1, duration |-> 3,
                 module_reactivation_delay |-> 2, reload_time |-> 5],
                {"hi_power", "online", "turret_fitted", "projectile_fired"}) EXCEPT !.max_state = active],
    launcher |-> T("module", "launchers",
                   [cpu |-> 3, capacity |-> 8, charge_rate |-> 1, duration |-> 2,
                    module_reactivation_delay |-> 1],
                   {"hi_power", "online", "launcher_fitted", "use_missiles"}),
    laser |-> T("module", "guns", [capacity |-> 2, duration |-> 2, reload_time |-> 1,
                                    module_reactivation_delay |-> 3],
                {"hi_power", "target_attack"}),
    ammo |-> T("charge", "shells",
               [charge_size |-> 1, volume |-> 2, em_dmg |-> 3, kin_dmg |-> 1], {}),
    missile |-> T("charge", "rockets", [charge_size |-> 2, volume |-> 5, expl_dmg |-> 4],
                  {"missile_launching"}),
    crystal |-> T("charge", "crystals",
                  [volume |-> 2, therm_dmg |-> 2, crystals_get_damaged |-> 1, hp |-> 1,
                   crystal_volatility_chance |-> 10, crystal_volatility_dmg |-> 4], {}),
    field1 |-> [T("module", "fields",
                  [max_group_fitted |-> 1, max_group_online |-> 1, max_group_active |-> 1,
                   can_fit_ship_group_1 |-> "frigates"], {"lo_power", "online"})
                EXCEPT !.max_state = active],
    repairer |-> T("module", "repairers",
                   [cpu |-> 1, armor_dmg_amount |-> 2, duration |-> 4, capacity |-> 2,
                    charge_rate |-> 1, module_reactivation_delay |-> 1,
                    fits_to_shiptype |-> "carrier"],
                   {"lo_power", "fueled_armor_repair"}),
    paste |-> T("charge", "pastes", [volume |-> 2], {}),
    rig1 |-> T("module", "rigs", [rig_size |-> 1, upgrade_cost |-> 2], {"rig_slot"}),
    rig2 |-> T("module", "rigs", [rig_size |-> 2, upgrade_cost |-> 2], {"rig_slot"}),
    core |-> T("subsystem", "cores", [subsystem_slot |-> 1], {"subsystem"}),
    hull |-> T("subsystem", "cores", [subsystem_slot |-> 1], {"subsystem"}),
    drone1 |-> T("drone", "scouts", [volume |-> 3, drone_bandwidth_used |-> 3, em_dmg |-> 1,
                                    duration |-> 1], {"target_attack"}),
    drone2 |-> T("drone", "sentries", [volume |-> 3, drone_bandwidth_used |-> 3], {}),
    light1 |-> T("fighter", "fighters", [fighter_squadron_is_light |-> 1], {}),
    heavy |-> T("fighter", "fighters", [fighter_squadron_is_heavy |-> 1], {}),
    skill |-> T("skill", "skills", <<>>, {}),
    scope |-> [T("module", "scopes", [shield_bonus |-> 1, duration |-> 3],
                 {"med_power", "shield_boosting"})
               EXCEPT !.skills = [skill |-> 3]],
    implant1 |-> T("implant", "implants", [implantness |-> 1], {}),
    implant2 |-> T("implant", "implants", [implantness |-> 1], {}),
    booster |-> T("implant", "boosters", [boosterness |-> 1], {})]

\* The next source changes what items are, and knows no missiles, second rigs or skills.
Two == [
    gun |-> T("module", "launchers", [cpu |-> 6, volume |-> 3], {"hi_power", "online"}),
    field1 |-> T("module", NoItem, [max_group_fitted |-> 0], {"lo_power"}),
    drone1 |-> T("drone", "sentries", [volume |-> 6], {}),
    light1 |-> T("fighter", "fighters", [fighter_squadron_is_heavy |-> 1], {}),
    rig1 |-> T("module", "rigs", [upgrade_cost |-> 4], {"rig_slot"}),
    heavy |-> T("fighter", "fighters", [fighter_squadron_is_support |-> 1], {}),
    hull |-> T("subsystem", "hulls", [subsystem_slot |-> 2], {"subsystem"}),
    implant2 |-> T("implant", "boosters", [boosterness |-> 1], {})]
    @@ [t \in {"frigate", "pilot", "ammo", "launcher", "laser", "crystal", "repairer", "paste", "core", "drone2",
               "scope", "implant1", "booster"} |-> One[t]]

MCCatalogue == [one |-> One, two |-> Two]
MCEffectState == [hi_power |-> offline, lo_power |-> offline, med_power |-> offline,
                  subsystem |-> offline, rig_slot |-> offline, turret_fitted |-> offline,
                  launcher_fitted |-> offline, online |-> online, projectile_fired |-> active,
                  use_missiles |-> active, missile_launching |-> active,
                  target_attack |-> active, fueled_armor_repair |-> active,
                  shield_boosting |-> active]
MCBoost == [max_group_online |-> 1, cpu_output |-> 2, fighter_light_slots |-> 1, volume |-> -1]
MCCasts == {{"frigate", "gun", "ammo", "missile"},
            {"carrier", "gun", "launcher"},
            {"launcher", "missile"},
            {"frigate", "repairer", "paste"},
            {"laser", "crystal"},
            {"frigate", "field1", "field2"},
            {"frigate", "carrier", "field1", "repairer"},
            {"frigate", "rig1", "rig2", "core", "hull"},
            {"frigate", "pilot", "drone1", "drone2"},
            {"carrier", "light1", "light2"},
            {"carrier", "light1", "heavy"},
            {"skill", "skill_again", "scope", "implant1", "implant2"},
            {"skill", "booster", "booster_again"}}
=============================================================================
