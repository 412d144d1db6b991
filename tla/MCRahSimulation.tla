-------------------------- MODULE MCRahSimulation --------------------------
EXTENDS RahSimulation, TLC
CONSTANTS r1, r2, r3, s1, s2

\* Twentieths of a resistance, each with room for a halving per tick.
MCUnit == 20 * 64
Parts(em, expl, kin, therm) ==
    [a \in Attrs |-> CASE a = "em" -> em [] a = "expl" -> expl [] a = "kin" -> kin
                       [] a = "therm" -> therm]
Resos(em, expl, kin, therm) ==
    [a \in Attrs |-> 64 * Parts(em, expl, kin, therm)[a]]

MCRahs == {r1, r2, r3}
MCShips == {s1, s2}
MCShipReso == s1 :> Resos(10, 18, 15, 13) @@ s2 :> Resos(0, 12, 18, 18)
MCRahReso == r1 :> Resos(17, 17, 17, 17) @@ r2 :> Resos(16, 18, 18, 16) @@ r3 :> Resos(17, 17, 17, 17)
MCShift == r1 :> 3 * 64 @@ r2 :> 2 * 64 @@ r3 :> NoAttr
MCDuration == r1 :> 2 @@ r2 :> 3 @@ r3 :> 4
MCChange == <<"ship", "expl">> :> -6 * 64 @@ <<r1, "shift">> :> -3 * 64
            @@ <<r1, "em">> :> -17 * 64 @@ <<r2, "duration">> :> -2
MCProfiles == {Parts(1, 1, 1, 1), Parts(1, 0, 0, 0)}
MCPenalty == <<64, 56, 37>>
=============================================================================
