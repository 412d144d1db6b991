-------------------------- MODULE FitRestrictions --------------------------
(***************************************************************************)
(* The registers of restrictions and statistics as the code keeps them:    *)
(* each is changed only by the messages that the calls of the user publish *)
(* (pubsub/message/helper.py), item by item.                               *)
(***************************************************************************)
EXTENDS FitValidation

VARIABLE reg            \* for each item, the registers it is in

vars == <<contents, reg>>

R == [r \in Registers |-> {i \in cast : r \in reg[i]}]

-----------------------------------------------------------------------------
(* Messages and the handlers of the registers.  Messages of what is loaded *)
(* are published for loaded items only.                                    *)

\* Messages on which a register takes an item that passes its test.
Gains(r, kind, what) ==
    \/ r \in ByLoading /\ kind = "ItemLoaded"
    \/ r \in DOMAIN ByState /\ kind = "StatesActivatedLoaded" /\ ByState[r] \in what
    \/ r \in DOMAIN ByEffect /\ kind = "EffectsStarted" /\ ByEffect[r] \cap what # {}
    \/ r = "launched_drone" /\ kind = "StatesActivated" /\ online \in what

\* Mutant of Loses: launched drones wait for their type to go.
Loses_loaded(r, msg) ==
    \/ r \in ByLoading /\ msg.kind = "ItemUnloaded"
    \/ r \in DOMAIN ByState /\ msg.kind = "StatesDeactivatedLoaded" /\ ByState[r] \in msg.what
    \/ r \in DOMAIN ByEffect /\ msg.kind = "EffectsStopped" /\ ByEffect[r] \cap msg.what # {}
    \/ r = "launched_drone" /\ msg.kind = "ItemUnloaded"
\* Messages on which it drops the item.
Loses(r, msg) ==
    \/ r \in ByLoading /\ msg.kind = "ItemUnloaded"
    \/ r \in DOMAIN ByState /\ msg.kind = "StatesDeactivatedLoaded" /\ ByState[r] \in msg.what
    \/ r \in DOMAIN ByEffect /\ msg.kind = "EffectsStopped" /\ ByEffect[r] \cap msg.what # {}
    \/ r = "launched_drone" /\ msg.kind = "StatesDeactivated" /\ online \in msg.what

\* Handlers run when the message is published: takers are the registers that take the item.
Msg(kind, i, what) ==
    [kind |-> kind, what |-> what,
     takers |-> {r \in Registers : Gains(r, kind, what) /\ Takes(r, i)}]
Handle(place, msg) == {r \in place : ~Loses(r, msg)} \cup msg.takers
Delivery == INSTANCE Iteration WITH Step <- Handle
After(place, msgs) == Delivery!All(place, msgs)

UpTo(st) == {s \in State : s <= st}

AddedMsgs(i) == <<Msg("StatesActivated", i, UpTo(StateOf(i)))>>
RemovedMsgs(i) == <<Msg("StatesDeactivated", i, UpTo(StateOf(i)))>>

LoadedMsgs(i) ==
    IF ~IsLoaded(i) THEN <<>>
    ELSE <<Msg("ItemLoaded", i, {}),
           Msg("StatesActivatedLoaded", i, UpTo(StateOf(i))),
           Msg("EffectsStarted", i, Running(i))>>
UnloadedMsgs(i) ==
    IF ~IsLoaded(i) THEN <<>>
    ELSE <<Msg("EffectsStopped", i, Running(i)),
           Msg("StatesDeactivatedLoaded", i, UpTo(StateOf(i))),
           Msg("ItemUnloaded", i, {})>>

\* get_effects_status_update_msgs of an item that stays loaded.
EffectMsgs(i) ==
    IF ~IsLoaded(i) THEN <<>>
    ELSE <<Msg("EffectsStarted", i, Running(i)' \ Running(i)),
           Msg("EffectsStopped", i, Running(i) \ Running(i)')>>

StateMsgs(i, old, new) ==
    LET IfLoaded(kind, states) == IF IsLoaded(i) THEN <<Msg(kind, i, states)>> ELSE <<>> IN
    IF new > old
    THEN LET up == UpTo(new) \ UpTo(old) IN
         <<Msg("StatesActivated", i, up)>> \o IfLoaded("StatesActivatedLoaded", up)
         \o EffectMsgs(i)
    ELSE LET down == UpTo(old) \ UpTo(new) IN
         IfLoaded("StatesDeactivatedLoaded", down) \o <<Msg("StatesDeactivated", i, down)>>
         \o EffectMsgs(i)

\* A message moves its own item only, so the messages of each item of S are taken by themselves.
Publish(S, Msgs(_)) ==
    reg' = [i \in Items |-> IF i \in S THEN After(reg[i], Msgs(i)) ELSE reg[i]]

\* An item with the charge in it.
With(i) == {i} \cup (IF i \in Carriers /\ charge[i] # NoItem THEN {charge[i]} ELSE {})
EnterMsgs(i) == AddedMsgs(i) \o LoadedMsgs(i)
LeaveMsgs(i) == UnloadedMsgs(i) \o RemovedMsgs(i)

-----------------------------------------------------------------------------
(* The calls, with what they publish.                                      *)

Init == InitContents /\ reg = [i \in Items |-> {}]

\* The item replaced leaves before the new one enters.
AddToFit(i) ==
    /\ Add(i)
    /\ LET gone == IF Class[i] \in Singles THEN Fit(Class[i]) ELSE {}
       IN  Publish({i} \cup gone, LAMBDA j : IF j = i THEN EnterMsgs(j)' ELSE LeaveMsgs(j))

PlaceInRack(i) ==
    \E p \in 1..MaxRack :
        (Place(i, p) \/ Insert(i, p)) /\ Publish(With(i), LAMBDA j : EnterMsgs(j)')

TakeFromFit(i) == (RemoveItem(i) \/ Free(i)) /\ Publish(With(i), LeaveMsgs)

\* Only a module that is on a fit makes its charges known.
ChangeCharge(m, c) ==
    /\ SetCharge(m, c)
    /\ IF m \notin on THEN UNCHANGED reg
       ELSE Publish({charge[m], c} \ {NoItem},
                    LAMBDA j : IF j = c THEN EnterMsgs(j)' ELSE LeaveMsgs(j))

\* MutableStateMixin.state: messages of the item and of its charge.
ChangeState(i, st) ==
    SetState(i, st) /\ Publish(With(i), LAMBDA j : StateMsgs(j, state[i], st))

\* All items are unloaded, the source is set, all are loaded.
ChangeSource(s) ==
    SetSource(s) /\ Publish(Fitted, LAMBDA j : UnloadedMsgs(j) \o LoadedMsgs(j)')

\* An item that is on no fit, or not loaded, only notes the mode.
ToggleEffects(i) ==
    Toggle(i) /\ Publish({i}, EffectMsgs)

Next ==
    \/ \E i \in Items : AddToFit(i) \/ PlaceInRack(i) \/ TakeFromFit(i) \/ ToggleEffects(i)
    \/ \E m \in Carriers, c \in Charges \cup {NoItem} : ChangeCharge(m, c)
    \/ \E i \in Items, st \in States : ChangeState(i, st)
    \/ \E s \in Sources \cup {NoSource} : ChangeSource(s)
    \/ Modify /\ UNCHANGED reg

Spec == Init /\ [][Next]_vars

-----------------------------------------------------------------------------
(* Properties.                                                             *)

\* Registers followed through messages give, after any calls in any order, the answers that
\* the contents of the fit call for: nothing lingers from an item that left, lost its charge,
\* fell in state or was of another type under the source before, and nothing is missed.
Rules == INSTANCE FitRules WITH answers <- <<Answers(R), Dps(R, FALSE), Dps(R, TRUE)>>
AnswersTrue == Rules!Spec

\* A rack too long for the ship is always blamed on some item: the items beyond the slots of
\* the ship are never holes only, though holes count as used slots (slot_quantity/ordered.py).
RackBlamed ==
    \A r \in DOMAIN RackOf : SlotsUsed(r) > SlotsTotal(r) => Ordered(r) # {}
=============================================================================
