--------------------------- MODULE MCAttrTwoFits ---------------------------
(* Two fits of one solar system, each with an ancillary repairer that may   *)
(* hold repair paste: the service hears on the first fit only.              *)
EXTENDS AttrCalculator, TLC, FiniteSetsExt

CONSTANTS f1, f2, m1, m2, c1, c2, rack1, rack2, hold1, hold2, none

MCFitOf == m1 :> f1 @@ c1 :> f1 @@ m2 :> f2 @@ c2 :> f2
MCSeatOf == m1 :> rack1 @@ m2 :> rack2 @@ c1 :> hold1 @@ c2 :> hold2
MCOwner == rack1 :> None @@ rack2 :> None @@ none :> None @@
           hold1 :> m1 @@ hold2 :> m2
MCNoSeat == [f \in Fits |-> none]
MCAttrs == {"amount", "mult"}
MCMaxAttr == [a \in MCAttrs |-> None]
MCCells == {m1, m2} \X MCAttrs
MCKeysOf == [i \in Items |-> {}]
MCEffects == {"rep"}
MCEffectsOf == [i \in Items |-> IF i \in {m1, m2} THEN {"rep"} ELSE {}]
MCModifiers == [e \in MCEffects |->
  {[filter |-> "self", key |-> None, attr |-> "amount", from |-> "mult",
    kind |-> "ancillary"]}]
MCCompute(d, mods, caps) ==
  1 + MapThenSumSet(LAMBDA p : MapThenSumSet(LAMBDA r : r[2], p[2]), mods)
MCDepth == [d \in MCCells |-> IF d[2] = "mult" THEN 0 ELSE 1]
MCKnown == "a" :> Items
MCLoadOrder == <<m1, c1, m2, c2>>
=============================================================================
