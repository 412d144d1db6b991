-------------------------- MODULE MCItemContainers --------------------------
(* Two fits, each with a container of every kind, and items to move between *)
(* them: modules, implants, two skills of one type, ships.                  *)
EXTENDS ItemContainers, TLC

CONSTANTS rack1, rack2, implants1, implants2, skills1, skills2, ship1, ship2,
          module1, module2, implant1, skill1, skill2, skill3, hull1, hull2

MCAccepts ==
  [c \in {rack1, rack2} |-> {module1, module2}] @@
  [c \in {implants1, implants2} |-> {implant1}] @@
  [c \in {skills1, skills2} |-> {skill1, skill2, skill3}] @@
  [c \in {ship1, ship2} |-> {hull1, hull2}]
MCTypeId == [i \in Items |-> IF i = skill2 THEN skill1 ELSE i]
MCFitOf == [c \in {rack1, implants1, skills1, ship1} |-> "fit1"] @@
           [c \in {rack2, implants2, skills2, ship2} |-> "fit2"]
=============================================================================
