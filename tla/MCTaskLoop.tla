----------------------------- MODULE MCTaskLoop -----------------------------
(* Instances of TaskLoop for TLC.                                          *)
EXTENDS TaskLoop

OneTask == {1}
ThreeTasks == {1, 2, 3}
Alone == [t \in {1} |-> {}]
Fork == [t \in {1, 2, 3} |-> IF t = 3 THEN {1} ELSE {}]
=============================================================================
