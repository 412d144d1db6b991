--------------------------- MODULE EveObjBuilder ---------------------------
(***************************************************************************)
(* eos.eve_obj_builder: makes the objects Eos works with out of the tables *)
(* of the game's data.  EveObjBuilder.run reads the nine tables, one after *)
(* the other, and takes them through a validator, the normalizer, the      *)
(* cleaner, a second validator and the converter.                          *)
(*                                                                         *)
(* A table is a set of rows and a row a record with all the fields of its  *)
(* table, None where the data has no such field.  table_pos is added when  *)
(* the row is read.  One column stands for those of dgmeffects that are    *)
(* treated alike, and radius for the attributes evetypes defines.          *)
(***************************************************************************)
EXTENDS Integers, Sequences, FiniteSets
LOCAL INSTANCE TLC

CONSTANTS
  None,
  Text,               \* a value that is not a number
  StrongCategories,   \* ids the cleaner and the validators know
  StrongGroups,
  Radius,
  AmmoLoaded,         \* ammo_loaded, fighter_ability_launch_bomb_type
  WarfareBuffs,       \* warfare_buff_1_id to warfare_buff_4_id
  Racks,              \* hi_power, med_power, lo_power
  AbilityEffect       \* fighter_ability_map

VARIABLES
  stage,     \* how far run() has come
  data,      \* the tables
  trash,     \* Cleaner.trashed_data
  changed    \* Cleaner._changed

builderVars == <<stage, data, trash, changed>>

\* The primary key of each table, as ValidatorPreClean knows them.
PrimaryKey ==
  [evetypes |-> {"typeID"}, evegroups |-> {"groupID"},
   dgmattribs |-> {"attributeID"}, dgmeffects |-> {"effectID"},
   dgmtypeattribs |-> {"typeID", "attributeID"},
   dgmtypeeffects |-> {"typeID", "effectID"},
   dbuffcollections |-> {"buffID"},
   skillreqs |-> {"typeID", "skillTypeID"},
   typefighterabils |-> {"typeID", "abilityID"}]

\* The order in which run() reads the tables.
ReadOrder ==
  <<"evetypes", "evegroups", "dgmattribs", "dgmtypeattribs", "dgmeffects",
    "dgmtypeeffects", "dbuffcollections", "skillreqs", "typefighterabils">>
Tables == DOMAIN PrimaryKey
NoRows == [t \in Tables |-> {}]
Auxiliary == {"dgmtypeattribs", "dgmtypeeffects", "skillreqs",
              "typefighterabils"}

\* Column, table the column refers to.
ForeignKeys ==
  [dgmattribs |-> {<<"maxAttributeID", "dgmattribs">>},
   dgmeffects |-> {<<"durationAttributeID", "dgmattribs">>,
                   <<"resistanceID", "dgmattribs">>},
   dgmtypeattribs |-> {<<"typeID", "evetypes">>,
                       <<"attributeID", "dgmattribs">>},
   dgmtypeeffects |-> {<<"typeID", "evetypes">>, <<"effectID", "dgmeffects">>},
   evetypes |-> {<<"groupID", "evegroups">>},
   skillreqs |-> {<<"typeID", "evetypes">>, <<"skillTypeID", "evetypes">>},
   typefighterabils |-> {<<"typeID", "evetypes">>}]

Merge(d, e) == [t \in Tables |-> d[t] \cup e[t]]

\* Mutant: rows are not taken from the table they are moved from.
Copied(d, e) == d

Without(d, e) == [t \in Tables |-> d[t] \ e[t]]

----------------------------------------------------------------------------
(* Reading and the first validator.                                        *)

Numbered(rows) ==
  {rows[i] @@ [table_pos |-> i] : i \in DOMAIN rows}

HasKey(t, row) == \A f \in PrimaryKey[t] : row[f] \notin {None, Text}

SameKey(t, row, other) == \A f \in PrimaryKey[t] : row[f] = other[f]

\* ValidatorPreClean._table_pk: the first row of a key stays.
Keyed(t, rows) ==
  {row \in rows :
     /\ HasKey(t, row)
     /\ ~ \E other \in rows : /\ HasKey(t, other)
                              /\ SameKey(t, row, other)
                              /\ other.table_pos < row.table_pos}

----------------------------------------------------------------------------
(* The normalizer.                                                         *)

\* Attributes evetypes defines become rows of dgmtypeattribs, unless that
\* has a row for the attribute already.
Moved(d) ==
  {[typeID |-> row.typeID, attributeID |-> Radius, value |-> row.radius] :
     row \in {r \in d.evetypes :
                /\ r.radius # None
                /\ ~ \E defined \in d.dgmtypeattribs :
                       /\ defined.typeID = r.typeID
                       /\ defined.attributeID = Radius}}

----------------------------------------------------------------------------
(* The cleaner.                                                            *)

Strong(d) ==
  LET groups == StrongGroups \cup
                {g.groupID : g \in {g \in d.evegroups :
                                      g.categoryID \in StrongCategories}}
  IN [NoRows EXCEPT !.evetypes = {row \in d.evetypes : row.groupID \in groups}]

\* _reanimate_auxiliary_friends
Friends(kept, rest) ==
  LET types == {row.typeID : row \in kept.evetypes}
  IN [t \in Tables |-> IF t \in Auxiliary
                       THEN {row \in rest[t] : row.typeID \in types}
                       ELSE {}]

\* What the rows kept refer to, as pairs of a table and an id.
Relational(kept) ==
  UNION {{<<fk[2], row[fk[1]]>> : row \in kept[t], fk \in ForeignKeys[t]} :
         t \in DOMAIN ForeignKeys}

\* Text stands for a modifierInfo that cannot be iterated over.
ModInfos(row) == IF row.modifierInfo = Text THEN {} ELSE row.modifierInfo

Modinfo(kept) ==
  UNION {UNION {{<<"evetypes", m.skillTypeID>>, <<"evegroups", m.groupID>>,
                 <<"dgmattribs", m.modifyingAttributeID>>,
                 <<"dgmattribs", m.modifiedAttributeID>>} :
                m \in ModInfos(row)} : row \in kept.dgmeffects}

ValuesOf(kept, attrs) ==
  {row.value : row \in {r \in kept.dgmtypeattribs : r.attributeID \in attrs}}

Autocharges(kept) == {<<"evetypes", v>> : v \in ValuesOf(kept, AmmoLoaded)}

AttrBuffs(kept) ==
  {<<"dbuffcollections", v>> : v \in ValuesOf(kept, WarfareBuffs)}

Buffs(kept) ==
  UNION {UNION {{<<"dgmattribs", m.dogmaAttributeID>>,
                 <<"evegroups", m.groupID>>, <<"evetypes", m.skillID>>} :
                m \in row.modifiers} : row \in kept.dbuffcollections}

Targets(kept) ==
  {tgt \in Relational(kept) \cup Modinfo(kept) \cup Autocharges(kept)
             \cup AttrBuffs(kept) \cup Buffs(kept) : tgt[2] # None}

\* Mutant: rows that were not removed count as restored.
ReferencedAtAll(kept, rest) ==
  LET tgts == Targets(kept)
  IN [t \in Tables |->
        {row \in rest[t] \cup kept[t] :
           \E f \in PrimaryKey[t] :
             PrimaryKey[t] = {f} /\ <<t, row[f]>> \in tgts}]

\* _reestablish_broken_relationships
Referenced(kept, rest) ==
  LET tgts == Targets(kept)
  IN [t \in Tables |->
        {row \in rest[t] : \E f \in PrimaryKey[t] :
                             PrimaryKey[t] = {f} /\ <<t, row[f]>> \in tgts}]

\* int() is applied to the value of these attributes, and raises on a text.
Readable(kept) == Text \notin ValuesOf(kept, AmmoLoaded \cup WarfareBuffs)

----------------------------------------------------------------------------
(* The second validator.                                                   *)

Numeric(rows) == {row \in rows : row.value \notin {None, Text}}

Earlier(rows, row) ==
  {other \in rows : /\ other.typeID = row.typeID
                    /\ other.table_pos < row.table_pos}

\* All default effects of a type but the first are made its other effects.
OneDefault(rows) ==
  {IF row.isDefault /\ \E other \in Earlier(rows, row) : other.isDefault
   THEN [row EXCEPT !.isDefault = FALSE] ELSE row : row \in rows}

\* Of the racks of a type the first stays.
OneRack(rows) ==
  {row \in rows :
     row.effectID \in Racks =>
       ~ \E other \in Earlier(rows, row) : other.effectID \in Racks}

\* Mutant: two abilities of a type may have the same effect.
KnownAbilities(rows, typeEffects) ==
  {row \in rows :
     /\ row.abilityID \in DOMAIN AbilityEffect
     /\ \E te \in typeEffects : /\ te.typeID = row.typeID
                                /\ te.effectID = AbilityEffect[row.abilityID]}

\* An ability stays if Eos knows it, no earlier one of the type has the same
\* effect, and the type has that effect.
SoundAbilities(rows, typeEffects) ==
  LET known == {row \in rows : row.abilityID \in DOMAIN AbilityEffect}
      EffectOf(row) == AbilityEffect[row.abilityID]
  IN {row \in known :
        /\ ~ \E other \in Earlier(known, row) : EffectOf(other) = EffectOf(row)
        /\ \E te \in typeEffects : /\ te.typeID = row.typeID
                                   /\ te.effectID = EffectOf(row)}

Checked(d) ==
  LET typeEffects == OneRack(OneDefault(d.dgmtypeeffects))
  IN [d EXCEPT !.dgmtypeattribs = Numeric(@),
               !.dgmtypeeffects = typeEffects,
               !.typefighterabils = SoundAbilities(@, typeEffects)]

----------------------------------------------------------------------------
(* The modifier builder: ModInfoconverter makes modifiers of what it can   *)
(* read, of which ModBuilder keeps those that are valid.                   *)

FilterOf ==
  [ItemModifier |-> "item", LocationModifier |-> "domain",
   LocationGroupModifier |-> "domain_group",
   LocationRequiredSkillModifier |-> "domain_skillrq",
   OwnerRequiredSkillModifier |-> "owner_skillrq"]
DomainOf ==
  None :> "self" @@ "itemID" :> "self" @@ "charID" :> "character" @@
  "shipID" :> "ship" @@ "targetID" :> "target" @@ "otherID" :> "other"
Operators == (-1)..7

ExtraOf(info) ==
  CASE FilterOf[info.func] = "domain_group" -> info.groupID
    [] FilterOf[info.func] \in {"domain_skillrq", "owner_skillrq"} -> info.skillTypeID
    [] OTHER -> None

\* What the handlers take; int() raises on None and on a text.
Legible(info) ==
  /\ info.func \in DOMAIN FilterOf
  /\ info.domain \in DOMAIN DomainOf /\ info.operation \in Operators
  /\ {info.modifiedAttributeID, info.modifyingAttributeID} \cap {None, Text} = {}
  /\ FilterOf[info.func] \notin {"item", "domain"} => ExtraOf(info) \notin {None, Text}

Modifier(info) ==
  [filter |-> FilterOf[info.func], extra |-> ExtraOf(info),
   domain |-> DomainOf[info.domain], attr |-> info.modifiedAttributeID,
   operator |-> info.operation, affector |-> info.modifyingAttributeID]

\* DogmaModifier._valid, as far as a converted modifier may fail it.
ValidMod(mod) ==
  mod.domain \in
    CASE mod.filter = "item" -> {"self", "character", "ship", "target", "other"}
      [] mod.filter = "owner_skillrq" -> {"character"}
      [] OTHER -> {"self", "character", "ship", "target"}

BuildMods(infos) ==
  LET made == {Modifier(info) : info \in {i \in infos : Legible(i)}}
      mods == {mod \in made : ValidMod(mod)}
  IN [modifiers |-> mods,
      status |-> IF \A i \in infos : Legible(i) /\ ValidMod(Modifier(i)) THEN "success"
                 ELSE IF mods # {} THEN "success_partial" ELSE "error"]

----------------------------------------------------------------------------
(* The converter.                                                          *)

EffectObject(row) ==
  BuildMods(ModInfos(row)) @@
  [id |-> row.effectID, duration |-> row.durationAttributeID,
   resist |-> row.resistanceAttributeID]

EffectIDs(d) == {row.effectID : row \in d.dgmeffects}

TypeObject(d, row) ==
  LET Own(t) == {r \in d[t] : r.typeID = row.typeID}
  IN [id |-> row.typeID,
      group |-> row.groupID,
      category |-> {g.categoryID : g \in {g \in d.evegroups :
                                            g.groupID = row.groupID}},
      attrs |-> {<<r.attributeID, r.value>> : r \in Own("dgmtypeattribs")},
      effects |-> {r.effectID : r \in Own("dgmtypeeffects")} \cap EffectIDs(d),
      defaultEffect |-> {r.effectID : r \in {r \in Own("dgmtypeeffects") :
                                               r.isDefault}} \cap EffectIDs(d),
      abilities |-> {r.abilityID : r \in Own("typefighterabils")},
      skills |-> {<<r.skillTypeID, r.level>> : r \in Own("skillreqs")}]

Templates(d) ==
  UNION {{[buff |-> row.buffID, operator |-> row.operationName, modifier |-> m] :
          m \in row.modifiers} : row \in d.dbuffcollections}

Converted(d) ==
  [types |-> {TypeObject(d, row) : row \in d.evetypes},
   attrs |-> {[id |-> row.attributeID, max |-> row.maxAttributeID] :
              row \in d.dgmattribs},
   effects |-> {EffectObject(row) : row \in d.dgmeffects},
   templates |-> Templates(d)]

\* A skill requirement needs its level, a buff its operation and attributes;
\* modifier infos the cleaner passes over when it cannot iterate over them.
Convertible(d) ==
  /\ \A row \in d.dgmeffects : row.modifierInfo # Text
  /\ \A row \in d.skillreqs : row.level # None
  /\ \A row \in d.dbuffcollections : \A m \in row.modifiers :
       row.operationName # None /\ m.dogmaAttributeID # None

----------------------------------------------------------------------------
(* The steps of run().                                                     *)

idle == 0
reading == 1..Len(ReadOrder)      \* the table to read next
read == Len(ReadOrder) + 1
keyed == read + 1
normal == read + 2
cleaning == read + 3
checked == read + 4
converted == read + 5

BuilderInit ==
  /\ stage = idle
  /\ data = NoRows
  /\ trash = NoRows
  /\ changed = FALSE

BuilderReset ==
  /\ stage' = idle
  /\ data' = NoRows
  /\ trash' = NoRows
  /\ changed' = FALSE

Start ==
  /\ stage = idle
  /\ stage' = 1
  /\ UNCHANGED <<data, trash, changed>>

\* Reads the next table of the data there is now.
Fetch(raw) ==
  /\ stage \in reading
  /\ LET t == ReadOrder[stage] IN data' = [data EXCEPT ![t] = Numbered(raw[t])]
  /\ stage' = stage + 1
  /\ UNCHANGED <<trash, changed>>

PreClean ==
  /\ stage = read
  /\ data' = [t \in Tables |-> Keyed(t, data[t])]
  /\ stage' = keyed
  /\ UNCHANGED <<trash, changed>>

Normalize ==
  /\ stage = keyed
  /\ data' = [data EXCEPT !.dgmtypeattribs = @ \cup Moved(data)]
  /\ stage' = normal
  /\ UNCHANGED <<trash, changed>>

KillWeak ==
  /\ stage = normal
  /\ data' = Strong(data)
  /\ trash' = Without(data, Strong(data))
  /\ changed' = TRUE
  /\ stage' = cleaning

CleanupRound ==
  /\ stage = cleaning
  /\ changed
  /\ LET friends == Friends(data, trash)
         kept == Merge(data, friends)
         rest == Without(trash, friends)
         back == Referenced(kept, rest)
     IN /\ Readable(kept)
        /\ data' = Merge(kept, back)
        /\ trash' = Without(rest, back)
        /\ changed' = (friends # NoRows \/ back # NoRows)
  /\ UNCHANGED stage

PreConvert ==
  /\ stage = cleaning
  /\ ~ changed
  /\ data' = Checked(data)
  /\ trash' = NoRows
  /\ stage' = checked
  /\ UNCHANGED changed

Convert ==
  /\ stage = checked
  /\ Convertible(data)
  /\ stage' = converted
  /\ UNCHANGED <<data, trash, changed>>

\* An exception leaves run(): from the cleaner, or from the converter.
Raises ==
  \/ /\ stage = cleaning
     /\ changed
     /\ ~ Readable(Merge(data, Friends(data, trash)))
  \/ stage = checked /\ ~ Convertible(data)

BuilderStep ==
  PreClean \/ Normalize \/ KillWeak \/ CleanupRound \/ PreConvert \/ Convert
=============================================================================
