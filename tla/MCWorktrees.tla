---------------------------- MODULE MCWorktrees ----------------------------
(* Two units for TLC; a renaming of them changes nothing.                  *)
EXTENDS Worktrees, TLC

CONSTANTS u1, u2

Alike == Permutations(Units)
=============================================================================
