---------------------------- MODULE EffectStatus ----------------------------
(***************************************************************************)
(* The data an item takes from its source, and the resolver that decides   *)
(* which effects of an item run (eos/effect_status.py, eos/eve_obj,        *)
(* eos/const/eos.py).  Everything here is a pure function of the item's    *)
(* type, state and effect modes; the modules that hold state extend it.    *)
(***************************************************************************)
EXTENDS Integers

CONSTANTS
  Sources,        \* data sources a solar system can be switched between
  TypeIds,        \* item type identifiers
  Effects,        \* effect identifiers
  Catalogue,      \* what each source's cache handler returns for a type id
  EffectState,    \* the item state from which an effect may run
  UsageChance,    \* effects that specify a fitting usage chance attribute
  OnlineEffect,   \* EffectId.online
  None            \* Python's None

offline == 1
online == 2
active == 3
overload == 4
State == offline .. overload

Mode == {"full_compliance", "state_compliance", "force_run", "force_stop"}

\* An item type as an item sees it: its effects, its default effect, and the
\* type of the charge one of its effects loads automatically.
ItemType == [effects : SUBSET Effects,
             default : Effects \cup {None},
             autocharge : TypeIds \cup {None}]

ASSUME DataAssumption ==
  /\ Catalogue \in [Sources -> [TypeIds -> ItemType \cup {None}]]
  /\ EffectState \in [Effects -> State]
  /\ UsageChance \subseteq Effects
  /\ None \notin Sources \cup TypeIds \cup Effects \cup ItemType

\* cache_handler.get_type finds the type; otherwise it raises TypeFetchError.
Fetchable(s, tid) == s # None /\ tid # None /\ Catalogue[s][tid] # None

UpTo(st) == {s \in State : s <= st}

Compliant(t, e, st, onlineRuns) ==
  /\ st >= EffectState[e]
  /\ \/ EffectState[e] = offline /\ e \notin UsageChance
     \/ EffectState[e] = online /\ (e = OnlineEffect \/ onlineRuns)
     \/ EffectState[e] = active /\ t.default = e
     \/ EffectState[e] = overload

EffectRuns(t, e, st, mode, onlineRuns) ==
  \/ mode[e] = "full_compliance" /\ Compliant(t, e, st, onlineRuns)
  \/ mode[e] = "state_compliance" /\ st >= EffectState[e]
  \/ mode[e] = "force_run"

OnlineRuns(t, st, mode) ==
  OnlineEffect \in t.effects /\ EffectRuns(t, OnlineEffect, st, mode, FALSE)

\* The effects that should run, given the type, state and modes of an item.
Resolved(t, st, mode) ==
  {e \in t.effects : EffectRuns(t, e, st, mode, OnlineRuns(t, st, mode))}
=============================================================================
