--------------------------- MODULE MCOrchestrator ---------------------------
(* Instances of Orchestrator for TLC: two units, independent or one after  *)
(* the other.                                                              *)
EXTENDS Orchestrator

CONSTANTS a, b

Pair == {a, b}
PairOrder == <<a, b>>
PairShapes == {[u \in Pair |-> {}], [u \in Pair |-> IF u = b THEN {a} ELSE {}]}
=============================================================================
