------------------------------- MODULE MCJobs -------------------------------
(* Instances of Jobs for TLC.                                              *)
EXTENDS Jobs, TLC

CONSTANTS j1, j2, c1, c2, s1, b1, b2

Alike == Permutations(Jobs) \union Permutations(Callers)
=============================================================================
