------------------------------ MODULE MCSources ------------------------------
(***************************************************************************)
(* Instances of Sources.  The tables hold a module with all that rows can  *)
(* hang on to: attributes and their maxima, effects and what they modify,  *)
(* a charge, a skill, a warfare buff, abilities; a number stands for the   *)
(* choice of the rows that make them awkward.                              *)
(***************************************************************************)
EXTENDS Sources

MCStrongCategories == {7}
MCStrongGroups == {1}
MCAmmoLoaded == {127}
MCWarfareBuffs == {128}
MCRacks == {12, 13}
MCAbilityEffect == [a \in {51, 52, 53} |-> IF a = 53 THEN 16 ELSE 15]
MCRadius == 162

If(b, rows) == IF b THEN rows ELSE <<>>

Mod(func, domain, skill, group) ==
  [func |-> func, domain |-> domain, operation |-> 6, skillTypeID |-> skill,
   groupID |-> group, modifyingAttributeID |-> 123, modifiedAttributeID |-> 124]
Effect(id, duration, mods) ==
  [effectID |-> id, durationAttributeID |-> duration, resistanceID |-> None,
   resistanceAttributeID |-> None, modifierInfo |-> mods]
Attr(id, max) == [attributeID |-> id, maxAttributeID |-> max]
TypeAttr(t, a, v) == [typeID |-> t, attributeID |-> a, value |-> v]
TypeEffect(t, e, default) == [typeID |-> t, effectID |-> e, isDefault |-> default]
Type(t, g, radius) == [typeID |-> t, groupID |-> g, radius |-> radius]

\* 201 is the module, 202 its charge, 203 and 204 skills, 205 of no use; 301 is
\* a group of modules, the others are not kept for themselves.
\* Some the builder can use, one of an unknown function or without a domain,
\* and one whose owner's items are not those of a character.
Mods ==
  {Mod("ItemModifier", "otherID", None, None), Mod("LocationModifier", "charID", Text, None),
   Mod("OwnerRequiredSkillModifier", "shipID", 203, None),
   Mod("EffectStopper", "shipID", None, None), Mod("ItemModifier", Text, None, None),
   Mod("LocationGroupModifier", "shipID", None, Text)}

Rows(duplicate, ammo, buff, skills, mods) ==
  [evetypes |->
     If(duplicate, <<Type(201, 302, 9)>>) \o
     <<Type(201, 301, 5), Type(202, 302, None), Type(203, 303, 6),
       Type(204, 303, None), Type(205, 302, None)>>,
   evegroups |->
     <<[groupID |-> 301, categoryID |-> 7],
       [groupID |-> 302, categoryID |-> 9], [groupID |-> None, categoryID |-> 7],
       [groupID |-> 303, categoryID |-> 9]>>,
   dgmattribs |->
     <<Attr(121, 122), Attr(122, None), Attr(123, None), Attr(124, None),
       Attr(125, None), Attr(126, None), Attr(127, None), Attr(128, None)>>,
   dgmtypeattribs |->
     <<TypeAttr(201, 121, 1)>> \o
     (CASE ammo = "charge" -> <<TypeAttr(201, 127, 202), TypeAttr(201, 127, 205)>>
        [] ammo = "text" -> <<TypeAttr(203, 127, Text)>>
        [] ammo = "none" -> <<TypeAttr(201, 127, None), TypeAttr(201, 162, Text)>>)
     \o If(buff, <<TypeAttr(201, 128, 401)>>),
   dgmeffects |->
     <<Effect(12, 125, mods), Effect(13, None, {}),
       Effect(15, None, {Mod("LocationGroupModifier", "otherID", None, 301)}),
       Effect(16, None, {Mod("LocationRequiredSkillModifier", "shipID", 203, None)}),
       Effect(16, 126, {Mod("LocationGroupModifier", None, None, 303)})>>,
   dgmtypeeffects |->
     <<TypeEffect(201, 12, FALSE), TypeEffect(201, 13, TRUE),
       TypeEffect(201, 16, TRUE), TypeEffect(201, 15, FALSE),
       TypeEffect(202, 12, TRUE), TypeEffect(205, 16, TRUE)>>,
   dbuffcollections |->
     <<[buffID |-> 401, operationName |-> "PostPercent", modifiers |->
          {[dogmaAttributeID |-> 126, groupID |-> None, skillID |-> 204]}]>>,
   skillreqs |->
     <<[typeID |-> 201, skillTypeID |-> 203, level |-> 1],
       [typeID |-> 203, skillTypeID |-> 204,
        level |-> IF skills THEN 3 ELSE None]>>,
   typefighterabils |->
     <<[typeID |-> 201, abilityID |-> 53], [typeID |-> 201, abilityID |-> 54],
       [typeID |-> 202, abilityID |-> 51], [typeID |-> 201, abilityID |-> 51],
       [typeID |-> 201, abilityID |-> 52]>>]

Usual == [duplicate |-> TRUE, ammo |-> "charge", buff |-> TRUE, skills |-> TRUE,
          mods |-> Mods]
Bare == [Usual EXCEPT !.duplicate = FALSE, !.ammo = "none", !.buff = FALSE, !.mods = {}]
MCFirstDatas ==
  {Usual, Bare, [Bare EXCEPT !.ammo = "text"],
   [Bare EXCEPT !.skills = FALSE], [Bare EXCEPT !.mods = Text]}
MCPatchedDatas == {Usual, Bare}
MCDatas ==
  [c \in MCFirstDatas |-> Rows(c.duplicate, c.ammo, c.buff, c.skills, c.mods)]
=============================================================================
