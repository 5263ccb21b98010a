---------------------------- MODULE MCUnitMerge ----------------------------
(* Instances of UnitMerge for TLC: c depends on a, b is independent.       *)
EXTENDS UnitMerge

CONSTANTS a, b, c, x

MCDeps == [u \in Units |-> IF u = c THEN {a} ELSE {}]
=============================================================================
