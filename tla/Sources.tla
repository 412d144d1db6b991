------------------------------ MODULE Sources ------------------------------
(***************************************************************************)
(* SourceManager and JsonCacheHandler of Eos, with the builder of its      *)
(* objects.  A program makes a handler of the cache file and adds a source *)
(* of it; where the file is of other data, or of another version of Eos,   *)
(* add() builds the objects anew and has the handler store them.           *)
(*                                                                         *)
(* All handlers are of one file and one folder of game data, as those of   *)
(* the README are.  While add() runs, the folder may be replaced by that   *)
(* of another version of the game, the write of the file may fail, and the *)
(* program may stop, to be started again with this or another Eos.         *)
(***************************************************************************)
EXTENDS EveObjBuilder
LOCAL INSTANCE TLC

CONSTANTS
  Aliases,
  Eos,           \* versions of Eos
  FirstEos,      \* the one that is started first
  Datas,         \* contents the folder of game data may have, by number
  FirstDatas,    \* those it may have at first
  PatchedDatas,  \* those it may be replaced with
  MaxPatches,    \* how often it is replaced
  MaxRestarts    \* how often the program is started again

VARIABLES
  eos,        \* eos_version of the program that runs
  raw,        \* number of the contents of the folder
  version,    \* what DataHandler.get_version returns
  patches,
  restarts,
  file,       \* the cache file
  memory,     \* what the handler of an alias has in memory
  sources,    \* SourceManager._sources
  adding,     \* the alias add() is called for
  wanted      \* current_fp of that call

worldVars == <<eos, raw, version, patches, restarts>>
vars == <<builderVars, worldVars, file, memory, sources, adding, wanted>>

ASSUME SourcesAssumption ==
  /\ FirstDatas \cup PatchedDatas \subseteq DOMAIN Datas
  /\ None \notin Aliases
  /\ FirstEos \in Eos
  /\ MaxPatches \in Nat
  /\ MaxRestarts \in Nat

NoFingerprint == <<>>
Fingerprint(v, e) == <<v, e>>
NoObjects ==
  [types |-> {}, attrs |-> {}, effects |-> {}, templates |-> {}, by |-> None]
NoMemory == [fp |-> NoFingerprint, objects |-> NoObjects]
NoHandler == [fp |-> None, objects |-> NoObjects]
NoFile == [state |-> "absent", cache |-> NoMemory]
BrokenFile == [state |-> "broken", cache |-> NoMemory]
Complete(fp, objects) ==
  [state |-> "complete", cache |-> [fp |-> fp, objects |-> objects]]

\* __update_memory_cache: the storages are cleared, but that of the buff
\* templates, and filled.  Two equal templates count once here.
UpdatedMemory(old, cache) ==
  [fp |-> cache.fp,
   objects |-> [cache.objects EXCEPT
                  !.templates = old.objects.templates \cup @]]

\* __load_persistent_cache, of a handler that has nothing in memory yet.
Loaded ==
  IF file.state = "complete" THEN UpdatedMemory(NoMemory, file.cache)
                             ELSE NoMemory

\* What the builder hands to update_cache.  "by" stands for what differs from
\* the objects another version of Eos builds.
Built == Converted(data) @@ [by |-> eos]

HandlerOf(alias) == memory[alias].fp # None

Init ==
  /\ BuilderInit
  /\ eos = FirstEos
  /\ raw \in FirstDatas
  /\ version \in {1, None}
  /\ patches = 0
  /\ restarts = 0
  /\ file = NoFile
  /\ memory = [a \in Aliases |-> NoHandler]
  /\ sources = {}
  /\ adding = None
  /\ wanted = NoFingerprint

----------------------------------------------------------------------------
(* What the program does.                                                  *)

\* JsonCacheHandler(path), made for a source that is to be added.
NewHandler(alias) ==
  /\ adding = None
  /\ alias \notin sources
  /\ memory' = [memory EXCEPT ![alias] = Loaded]
  /\ UNCHANGED <<builderVars, worldVars, file, sources, adding, wanted>>

\* add() where the fingerprints agree: there is nothing to build.
AddCached(alias) ==
  /\ adding = None
  /\ alias \notin sources
  /\ HandlerOf(alias)
  /\ version # None
  /\ memory[alias].fp = Fingerprint(version, eos)
  /\ sources' = sources \cup {alias}
  /\ UNCHANGED <<builderVars, worldVars, file, memory, adding, wanted>>

\* add() up to the call of the builder; the version has been read by then.
BeginAdd(alias) ==
  /\ adding = None
  /\ alias \notin sources
  /\ HandlerOf(alias)
  /\ version = None \/ memory[alias].fp # Fingerprint(version, eos)
  /\ adding' = alias
  /\ wanted' = Fingerprint(version, eos)
  /\ Start
  /\ UNCHANGED <<worldVars, file, memory, sources>>

FetchTable ==
  /\ Fetch(Datas[raw])
  /\ UNCHANGED <<worldVars, file, memory, sources, adding, wanted>>

Build ==
  /\ BuilderStep
  /\ UNCHANGED <<worldVars, file, memory, sources, adding, wanted>>

AddEnds ==
  /\ adding' = None
  /\ wanted' = NoFingerprint
  /\ BuilderReset

BuildRaises ==
  /\ Raises
  /\ AddEnds
  /\ UNCHANGED <<worldVars, file, memory, sources>>

\* __update_persistent_cache opens the file and so empties it, ...
OpenFile ==
  /\ stage = converted
  /\ file # BrokenFile
  /\ file' = BrokenFile
  /\ UNCHANGED <<builderVars, worldVars, memory, sources, adding, wanted>>

\* Mutant: the fingerprint is that of the data there is in the end.
WriteFileLate ==
  /\ stage = converted
  /\ file = BrokenFile
  /\ file' = Complete(Fingerprint(version, eos), Built)
  /\ memory' = [memory EXCEPT ![adding] = UpdatedMemory(@, file'.cache)]
  /\ sources' = sources \cup {adding}
  /\ AddEnds
  /\ UNCHANGED worldVars

\* ... writes it; then the memory is updated and the source recorded.
WriteFile ==
  /\ stage = converted
  /\ file = BrokenFile
  /\ file' = Complete(wanted, Built)
  /\ memory' = [memory EXCEPT ![adding] = UpdatedMemory(@, file'.cache)]
  /\ sources' = sources \cup {adding}
  /\ AddEnds
  /\ UNCHANGED worldVars

\* The write fails: the exception leaves add(), and the file is what it is.
WriteFails ==
  /\ stage = converted
  /\ file = BrokenFile
  /\ AddEnds
  /\ UNCHANGED <<worldVars, file, memory, sources>>

Remove(alias) ==
  /\ adding = None
  /\ alias \in sources
  /\ sources' = sources \ {alias}
  /\ UNCHANGED <<builderVars, worldVars, file, memory, adding, wanted>>

----------------------------------------------------------------------------
(* What happens to it.                                                     *)

\* Another version of the game: its data, which has a version of its own or
\* none that get_version finds.
Patch ==
  /\ patches < MaxPatches
  /\ raw' \in PatchedDatas
  /\ version' \in {patches + 2, None}
  /\ patches' = patches + 1
  /\ UNCHANGED <<builderVars, eos, restarts, file, memory, sources, adding,
                 wanted>>

\* The program stops, wherever it is, and is started again.
Restart ==
  /\ restarts < MaxRestarts
  /\ eos' \in Eos
  /\ restarts' = restarts + 1
  /\ memory' = [a \in Aliases |-> NoHandler]
  /\ sources' = {}
  /\ AddEnds
  /\ UNCHANGED <<raw, version, patches, file>>

AddStep ==
  FetchTable \/ Build \/ BuildRaises \/ OpenFile \/ WriteFile \/ WriteFails

Next ==
  \/ \E alias \in Aliases : \/ NewHandler(alias)
                            \/ AddCached(alias)
                            \/ BeginAdd(alias)
                            \/ Remove(alias)
  \/ AddStep
  \/ Patch
  \/ Restart

\* A call of add() that has begun goes on.
Spec == Init /\ [][Next]_vars /\ WF_vars(AddStep)

----------------------------------------------------------------------------
(* What the tables of a number hold for Eos, defined apart from the code:  *)
(* what a row of the kept types leads to, along every column that names    *)
(* a row of another table.                                                 *)

FirstOfKey(t, rows) ==
  {row \in rows : \A other \in rows :
     SameKey(t, row, other) => row.table_pos <= other.table_pos}

Mentions(t, row) ==
  CASE t = "evetypes" -> {<<"evegroups", row.groupID>>}
    [] t = "evegroups" -> {}
    [] t = "dgmattribs" -> {<<"dgmattribs", row.maxAttributeID>>}
    [] t = "dgmeffects" ->
         {<<"dgmattribs", a>> : a \in
            {row.durationAttributeID, row.resistanceID}
            \cup {m.modifyingAttributeID : m \in ModInfos(row)}
            \cup {m.modifiedAttributeID : m \in ModInfos(row)}}
         \cup {<<"evegroups", m.groupID>> : m \in ModInfos(row)}
         \cup {<<"evetypes", m.skillTypeID>> : m \in ModInfos(row)}
    [] t = "dgmtypeattribs" ->
         {<<"dgmattribs", row.attributeID>>}
         \cup (IF row.attributeID \in AmmoLoaded
               THEN {<<"evetypes", row.value>>} ELSE {})
         \cup (IF row.attributeID \in WarfareBuffs
               THEN {<<"dbuffcollections", row.value>>} ELSE {})
    [] t = "dgmtypeeffects" -> {<<"dgmeffects", row.effectID>>}
    [] t = "dbuffcollections" ->
         UNION {{<<"dgmattribs", m.dogmaAttributeID>>, <<"evegroups", m.groupID>>,
                 <<"evetypes", m.skillID>>} : m \in row.modifiers}
    [] t = "skillreqs" -> {<<"evetypes", row.skillTypeID>>}
    [] t = "typefighterabils" -> {}

LeadsTo(x, y) ==
  \/ \E f \in PrimaryKey[y[1]] : /\ PrimaryKey[y[1]] = {f}
                                /\ <<y[1], y[2][f]>> \in Mentions(x[1], x[2])
  \/ /\ x[1] = "evetypes"
     /\ y[1] \in Auxiliary
     /\ y[2].typeID = x[2].typeID

Held(i) ==
  LET rows == [t \in Tables |->
                 FirstOfKey(t, {row \in Numbered(Datas[i][t]) : HasKey(t, row)})]
      all == [rows EXCEPT !.dgmtypeattribs = @ \cup Moved(rows)]
      nodes == UNION {{<<t, row>> : row \in all[t]} : t \in Tables}
      within[n \in 0..Cardinality(nodes)] ==
        IF n = 0
        THEN {<<"evetypes", row>> : row \in Strong(all).evetypes}
        ELSE LET near == within[n - 1]
             IN near \cup {y \in nodes : \E x \in near : LeadsTo(x, y)}
      kept == within[Cardinality(nodes)]
  IN Converted(Checked([t \in Tables |-> {row \in all[t] : <<t, row>> \in kept}]))

References == {[data |-> i, objects |-> Held(i)] : i \in DOMAIN Datas}
Reference(i) == (CHOOSE r \in References : r.data = i).objects

----------------------------------------------------------------------------
(* Properties.                                                             *)

Caches ==
  {memory[a] : a \in Aliases} \cup
  (IF file.state = "complete" THEN {file.cache} ELSE {})

TypeOK ==
  /\ eos \in Eos
  /\ raw \in DOMAIN Datas
  /\ version \in 1..(MaxPatches + 1) \cup {None}
  /\ patches \in 0..MaxPatches
  /\ restarts \in 0..MaxRestarts
  /\ file.state \in {"absent", "broken", "complete"}
  /\ DOMAIN memory = Aliases
  /\ sources \subseteq Aliases
  /\ adding \in Aliases \cup {None}
  /\ stage \in 0..converted
  /\ stage = idle <=> adding = None
  /\ \A t \in Tables : data[t] \cap trash[t] = {}

\* A cache, in the file or in memory, with the fingerprint of the data and of
\* the Eos there are now, which add() would take as it is, has the types,
\* attributes and effects that this data holds for this Eos, and its buff
\* templates; whatever was replaced, failed or stopped while it was made.
CacheFresh ==
  \A c \in Caches :
    (version # None /\ c.fp = Fingerprint(version, eos)) =>
      /\ c.objects.by = eos
      /\ c.objects.types = Reference(raw).types
      /\ c.objects.attrs = Reference(raw).attrs
      /\ c.objects.effects = Reference(raw).effects
      /\ Reference(raw).templates \subseteq c.objects.templates

\* What the affection register of the calculator has a storage for: getters
\* of affection.py for the filter, and for the domain of the affected items.
Registrable(mod) ==
  \/ mod.filter = "item" /\ mod.domain \in {"self", "character", "ship", "other", "target"}
  \/ /\ mod.filter \in {"domain", "domain_group", "domain_skillrq"}
     /\ mod.domain \in {"self", "character", "ship", "target"}
     /\ mod.filter = "domain" \/ mod.extra \notin {None, Text}
  \/ mod.filter = "owner_skillrq" /\ mod.domain = "character" /\ mod.extra \notin {None, Text}

\* Objects can be put together from every cache, and are as the rest of Eos
\* assumes: the effects of a type are there, with at most one default effect
\* and one rack among them and an effect of its own for each ability, and
\* attributes are numbers; the calculator can register every modifier; also
\* when a patch came while tables were read.
ObjectsSound ==
  \A c \in Caches : (\A e \in c.objects.effects : \A mod \in e.modifiers : Registrable(mod))
   /\ \A t \in c.objects.types :
    /\ t.effects \subseteq {e.id : e \in c.objects.effects}
    /\ t.defaultEffect \subseteq t.effects
    /\ Cardinality(t.defaultEffect) <= 1
    /\ Cardinality(t.effects \cap Racks) <= 1
    /\ {AbilityEffect[a] : a \in t.abilities} \subseteq t.effects
    /\ \A a, b \in t.abilities : AbilityEffect[a] = AbilityEffect[b] => a = b
    /\ \A x \in t.attrs : x[2] \notin {None, Text}
    /\ \A x, y \in t.attrs : x[1] = y[1] => x = y

\* A call of add() comes to an end: the cleaner does, in particular.
Ends == adding # None ~> adding = None
=============================================================================
