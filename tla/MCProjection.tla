---------------------------- MODULE MCProjection ----------------------------
(* A gun on one fit, two ships that sit on either fit, a gadget on the other. *)
EXTENDS Projection, TLC

CONSTANTS f1, f2, s1, s2, g1, d2

MCHome == g1 :> f1 @@ d2 :> f2
MCKnown == "a" :> Items
MCShifted == {<<g1, "strength">>, <<s2, "resist">>}
=============================================================================
