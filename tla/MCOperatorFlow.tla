--------------------------- MODULE MCOperatorFlow ---------------------------
(***************************************************************************)
(* OperatorFlow with the wirings of three algorithms. Eight sets are what  *)
(* a population of three needs at most (the population, three ranks, the   *)
(* selection, the children); ten solutions leave room for the old and the  *)
(* new children.                                                           *)
(***************************************************************************)
EXTENDS OperatorFlow, AlgorithmWiring

Algorithms  == {NsgaII, SmsEmoa, Moga}
EightSets   == 1 .. 8
TenMappings == 1 .. 10

\* the theorems about the wiring apply to the three algorithms
ASSUME WiringAssumption == \A c \in Chains : WellWired(c)
=============================================================================
