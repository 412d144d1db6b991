------------------------------ MODULE MCFleet -------------------------------
(* Two fits with a booster each and a gadget on the second, in one fleet or  *)
(* none.  The first booster may change to a buff that acts more widely.      *)
EXTENDS Fleet, TLC

CONSTANTS f1, f2, s1, s2, b1, b2, d2, wing

MCHome == (b1 :> f1) @@ (b2 :> f2) @@ (d2 :> f2)
MCTemplates == 1 :> {"ship"} @@ 2 :> {"ship", "domain"}
=============================================================================
