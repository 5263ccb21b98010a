---------------------------- MODULE MCScheduler ----------------------------
(* Scheduler on four units under every dependency relation on them: SchedInit *)
(* keeps the 543 acyclic ones.  The order is fixed, since renaming the units  *)
(* only permutes the relations.                                              *)
EXTENDS Scheduler

CONSTANTS a, b, c, d

MCUnits == {a, b, c, d}
MCOrder == <<a, b, c, d>>
MCGraphs == [MCUnits -> SUBSET MCUnits]
=============================================================================
