------------------------------ MODULE MCTools ------------------------------
(***************************************************************************)
(* What works on the repository below a run, side by side: GitOps, and the *)
(* worktrees with the merges of their branches.  They share no variable; a *)
(* behaviour is one of the component in `part`, and the other rests in its *)
(* initial state.                                                          *)
(***************************************************************************)
EXTENDS GitOps, TLC

CONSTANTS
  Units, MaxConflictAttempts, MaxTarget  \* of Worktrees

VARIABLES
  part,  \* the component that moves
  trees_listed, trees_dir, trees_branch, trees_pc, trees_cleanup,
  trees_rebase, trees_base, trees_target, trees_fetched, trees_attempt,
  trees_remote, trees_pending, trees_flush, trees_undone

Trees == INSTANCE Worktrees WITH
  listed <- trees_listed, dir <- trees_dir, branch <- trees_branch,
  pc <- trees_pc, cleanup <- trees_cleanup, rebase <- trees_rebase, base <- trees_base,
  target <- trees_target, fetched <- trees_fetched,
  attempt <- trees_attempt, remote <- trees_remote,
  pending <- trees_pending, flush <- trees_flush, undone <- trees_undone

treesVars == <<trees_listed, trees_dir, trees_branch, trees_pc,
               trees_cleanup, trees_rebase, trees_base, trees_target,
               trees_fetched, trees_attempt, trees_remote, trees_pending, trees_flush, trees_undone>>
all == <<part, vars, treesVars>>

ASSUME Parameters == Trees!WorktreesAssumption

AllInit ==
  /\ part \in {"git", "trees"}
  /\ part # "git" => opts = NewWorktreeGitOps /\ head = "main"
  /\ Init /\ Trees!Init

(* A step of one component.                                                *)
InGit(A)   == part = "git" /\ A /\ UNCHANGED <<part, treesVars>>
InTrees(A) == part = "trees" /\ A /\ UNCHANGED <<part, vars>>

AllNext == InGit(Next) \/ InTrees(Trees!Next)

AllSpec == AllInit /\ [][AllNext]_all

Alike == Permutations(Callers) \union Permutations(Units)

(* What a merge pushes stands on the target it fetched, unless its agent   *)
(* undid the rebase and then failed; Worktrees states it in full.          *)
PushedIsRebased == Trees!PushedIsRebased
=============================================================================
