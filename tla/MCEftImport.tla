---------------------------- MODULE MCEftImport -----------------------------
(* Guns and webs with ammunition, a rig, two types with one name, drones;     *)
(* every text of up to five lines of the forms that matter to each other,     *)
(* and of up to three lines of any form.  Two letters to a rack.                *)
EXTENDS EftImport, TLC

gun == 1  web == 2  plate == 3  oldPlate == 4  ammo == 5  drone == 6  rig == 7
MCTypes == 1..7
MCNameOf == <<"gun", "web", "plate", "plate", "ammo", "drone", "rig">>
MCEffectSlots == <<<<"high">>, <<"medium", "low">>, <<"low">>, <<"low">>, <<>>, <<>>, <<"rig">>>>
\* A web can be active for its capacitor only, a gun can be overloaded.
MCEffectStates == <<{"active", "overload"}, {"online"}, {}, {}, {"active"}, {}, {"passive"}>>
MCNeedsCapacitor == {web}
MCGroupOf == <<"guns", "webs", "plates", "plates", "charges", "drones", "none">>
MCOwnCategory == [t \in MCTypes |-> 0]
MCGroupCategory == "guns" :> 7 @@ "webs" :> 7 @@ "plates" :> 7 @@
                   "charges" :> 8 @@ "drones" :> 18

Empty == [kind |-> "empty"]
Blanks == [kind |-> "blanks"]
Hole(slot) == [kind |-> "hole", slot |-> slot]
Fitted(name, charge, offline) ==
  [kind |-> "module", name |-> name, charge |-> charge, offline |-> offline]
Stacked(name, n) == [kind |-> "stack", name |-> name, quantity |-> n]

Common == {Empty, Hole("high"), Fitted("gun", "ammo", FALSE), Fitted("web", NoCharge, TRUE),
           Stacked("drone", 2), Stacked("ammo", 1)}
Rare == Common \cup
  {Blanks, Hole("service"), Hole("rig"), Fitted("plate", NoCharge, FALSE),
   Fitted("rig", "nothing", FALSE), Fitted("nothing", NoCharge, FALSE), Stacked("nothing", 3)}

MCTexts ==
  [header : {"ship"}, lines : UNION {[1..n -> Common] : n \in 0..5}] \cup
  [header : {"ship"}, lines : UNION {[1..n -> Rare] : n \in 0..3}] \cup
  [header : {"empty", "none"}, lines : {<<>>}]

MCLetters == {NoState, <<"V", "O", "V", "P", "O", "P">>, <<"P">>}
=============================================================================
