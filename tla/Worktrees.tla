------------------------------ MODULE Worktrees ------------------------------
(***************************************************************************)
(* The worktrees of the units, choo cleanup, and the MergeManager that     *)
(* rebases a unit's branch, pushes it and deletes it after the batch.      *)
(*                                                                         *)
(* The worker takes its worktree from here.  It merges with UnitMerge and  *)
(* not with MergeManager, which nothing constructs: the pull requests it   *)
(* prepares are merged on GitHub.                                          *)
(***************************************************************************)
EXTENDS Naturals, FiniteSets

CONSTANTS
  Units,
  MaxConflictAttempts,
  MaxTarget   \* bound: how far the target moves

WorktreesAssumption ==
  MaxConflictAttempts \in Nat \ {0} /\ MaxTarget \in Nat

VARIABLES
  listed,    \* units whose worktree git lists
  dir,       \* units whose worktree directory exists
  branch,    \* units whose local branch ralph/<unit> exists
  pc,        \* unit -> where its worker stands
  cleanup,   \* units whose directory choo cleanup has still to remove
  rebase,    \* unit -> "none", "conflict" or "staged": the rebase in its worktree
  base,      \* unit -> the version of the target its branch stands on
  target,    \* the version of the target on the remote
  fetched,   \* the version of the target fetched last
  attempt,   \* of the conflict resolution that is under way
  remote,    \* unit -> the base of its branch on the remote, or -1
  pending,   \* PendingDeletes
  flush,     \* the branches FlushDeletes has still to delete
  undone     \* history: units whose agent aborted the rebase and then failed,
             \* in the merge that is under way

trees == <<listed, dir, branch>>
merging == <<rebase, base, fetched, attempt, remote, undone>>
deletes == <<pending, flush>>
vars == <<trees, pc, cleanup, merging, deletes, target>>

None == 0 - 1
Merging == {"rebase", "resolve", "continue", "push"}

Init ==
  /\ listed = {} /\ dir = {} /\ branch = {} /\ cleanup = {}
  /\ pc = [u \in Units |-> "idle"]
  /\ rebase = [u \in Units |-> "none"]
  /\ base = [u \in Units |-> 0] /\ remote = [u \in Units |-> None]
  /\ target = 0 /\ fetched = 0 /\ attempt = 0
  /\ pending = {} /\ flush = {} /\ undone = {}

Goto(u, from, to) == pc[u] = from /\ pc' = [pc EXCEPT ![u] = to]

-----------------------------------------------------------------------------
(* CreateWorktree.                                                         *)

(* git lists a worktree until it is pruned, also one whose directory is    *)
(* gone.                                                                   *)
GetWorktree(u) == u \in listed

Resume(u) ==
  /\ GetWorktree(u) /\ Goto(u, "idle", "has")
  /\ UNCHANGED <<trees, cleanup, merging, deletes, target>>

(* git worktree add -b: refuses a branch that exists and a directory that  *)
(* is not empty; then the setup command runs.                              *)
Add(u) ==
  /\ ~GetWorktree(u)
  /\ u \notin branch \union dir
  /\ Goto(u, "idle", "setup")
  /\ listed' = listed \union {u} /\ dir' = dir \union {u} /\ branch' = branch \union {u}
  /\ \E local \in 0..fetched : base' = [base EXCEPT ![u] = local]
  /\ UNCHANGED <<cleanup, rebase, fetched, attempt, remote, undone, deletes, target>>

RunSetupCommands(u) ==
  /\ Goto(u, "setup", "has")
  /\ UNCHANGED <<trees, cleanup, merging, deletes, target>>

(* The branch stays, so that the next Add is refused.                      *)
RemoveWorktree(u) ==
  listed' = listed \ {u} /\ dir' = dir \ {u} /\ UNCHANGED branch

SetupFails(u) ==
  /\ Goto(u, "setup", "idle")
  /\ RemoveWorktree(u)
  /\ UNCHANGED <<cleanup, merging, deletes, target>>

(* The run ends; the worktree stays for the next one.                      *)
RunEnds(u) ==
  /\ Goto(u, "has", "idle")
  /\ UNCHANGED <<trees, cleanup, merging, deletes, target>>

(* CleanupOrphans prunes when it meets a directory that is gone.           *)
CleanupOrphans ==
  /\ listed \ dir # {}
  /\ listed' = listed \intersect dir
  /\ UNCHANGED <<dir, branch, pc, cleanup, merging, deletes, target>>

-----------------------------------------------------------------------------
(* choo cleanup removes directories only; git is not asked.                *)

Cleanup ==
  /\ cleanup = {} /\ dir # {}
  /\ cleanup' = dir
  /\ UNCHANGED <<trees, pc, merging, deletes, target>>

(* RemoveAll, or its error, and on to the next; the rebase that was in the *)
(* worktree is kept under .git.                                            *)
CleanupOne(u) ==
  /\ u \in cleanup
  /\ cleanup' = cleanup \ {u}
  /\ dir' \in {dir, dir \ {u}}
  /\ UNCHANGED <<listed, branch, pc, merging, deletes, target>>

-----------------------------------------------------------------------------
(* MergeManager.Merge, under its mutex.                                    *)

Locked == \E u \in Units : pc[u] \in Merging

(* Lock and fetch; an error of the fetch ends it.                          *)
Fetch(u) ==
  /\ ~Locked
  /\ Goto(u, "has", "rebase")
  /\ fetched' = target
  /\ UNCHANGED <<trees, cleanup, rebase, base, attempt, remote, undone, deletes, target>>

Rebased(u) == rebase' = [rebase EXCEPT ![u] = "none"] /\ base' = [base EXCEPT ![u] = fetched]
Aborted(u) == rebase' = [rebase EXCEPT ![u] = "none"] /\ UNCHANGED base
LeftOpen(u) ==
  \E left \in {"conflict", "staged"} : rebase' = [rebase EXCEPT ![u] = left] /\ UNCHANGED base

(* git refuses while another rebase is in progress, or without a directory;*)
(* killed with its context, it may leave its own open.                     *)
Rebase(u) ==
  /\ pc[u] = "rebase"
  /\ \/ /\ u \in dir /\ rebase[u] = "none"
        /\ \/ Rebased(u) /\ Goto(u, "rebase", "push") /\ UNCHANGED attempt
           \/ /\ base[u] < fetched
              /\ rebase' = [rebase EXCEPT ![u] = "conflict"] /\ UNCHANGED base
              /\ Goto(u, "rebase", "resolve") /\ attempt' = 1
           \/ LeftOpen(u) /\ Goto(u, "rebase", "has") /\ UNCHANGED attempt
     \/ /\ u \notin dir \/ rebase[u] # "none"
        /\ Goto(u, "rebase", "has") /\ UNCHANGED <<rebase, base, attempt>>
  /\ UNCHANGED <<trees, cleanup, fetched, remote, undone, deletes, target>>

\* Mutant of GiveUp: Merge aborts the rebase and goes on to the push.
GiveUpAndPush(u) == Aborted(u) /\ Goto(u, pc[u], "push")

(* The error of ResolveConflicts: AbortRebase, whose own error (an ended   *)
(* context, no directory) is ignored, and Merge returns the first.         *)
GiveUp(u) ==
  /\ Goto(u, pc[u], "has")
  /\ (u \in dir /\ Aborted(u)) \/ UNCHANGED <<rebase, base>>

(* The agent finishes the rebase, undoes it, or resolves all or some of    *)
(* the conflicts.                                                          *)
AgentWorks(u) ==
  \/ Rebased(u) \/ Aborted(u) \/ UNCHANGED <<rebase, base>>
  \/ rebase' = [rebase EXCEPT ![u] = "staged"] /\ UNCHANGED base

(* One turn of resolveConflictsWithClaude.  An agent may end in an error   *)
(* whatever it did: the next turn asks for conflicts only, and takes their *)
(* absence for "All resolved" also where the rebase is open or was undone. *)
(* The turn itself fails with the git command that asks, with the last     *)
(* attempt, or without a client.                                           *)
Resolve(u) ==
  /\ pc[u] = "resolve"
  /\ \/ GiveUp(u) /\ attempt' = 0 /\ undone' = undone \ {u}
     \/ /\ u \in dir /\ attempt <= MaxConflictAttempts /\ rebase[u] # "conflict"
        /\ Goto(u, "resolve", "push") /\ attempt' = 0 /\ UNCHANGED <<rebase, base, undone>>
     \/ /\ u \in dir /\ attempt <= MaxConflictAttempts /\ rebase[u] = "conflict"
        /\ AgentWorks(u)
        /\ \/ /\ rebase'[u] # "conflict" /\ Goto(u, "resolve", "continue")
              /\ attempt' = 0 /\ UNCHANGED undone
           \/ /\ attempt' = attempt + 1 /\ UNCHANGED pc
              /\ undone' = IF rebase'[u] = "none" /\ base'[u] = base[u]
                           THEN undone \union {u} ELSE undone
  /\ UNCHANGED <<trees, cleanup, fetched, remote, deletes, target>>

(* rebase --continue fails where nothing is to be continued; the next      *)
(* commit may conflict, which is an error too.                             *)
ContinueRebase(u) ==
  /\ pc[u] = "continue"
  /\ \/ rebase[u] = "staged" /\ u \in dir /\ Rebased(u) /\ Goto(u, "continue", "push")
     \/ GiveUp(u)
  /\ UNCHANGED <<trees, cleanup, fetched, attempt, remote, undone, deletes, target>>

(* With a rebase open HEAD is detached and git push refuses; Merge returns *)
(* the error and leaves the rebase open.                                   *)
Push(u) ==
  /\ pc[u] = "push" /\ pc' = [pc EXCEPT ![u] = "has"]
  /\ \/ /\ u \in dir /\ rebase[u] = "none"
        /\ remote' = [remote EXCEPT ![u] = base[u]]
        /\ pending' = pending \union {u}
     \/ UNCHANGED <<remote, pending>>
  /\ undone' = undone \ {u}
  /\ UNCHANGED <<trees, cleanup, rebase, base, fetched, attempt, flush, target>>

-----------------------------------------------------------------------------
(* FlushDeletes runs beside the merges: it does not take the mutex.        *)

(* The loop is over the list as it is now.                                 *)
StartFlush ==
  /\ flush = {} /\ pending # {} /\ flush' = pending
  /\ UNCHANGED <<trees, pc, cleanup, merging, pending, target>>

(* One branch: the remote one first; errors are logged.  git keeps a local *)
(* branch that a listed worktree has checked out.  After the last the list *)
(* is set to nil, with what was scheduled meanwhile; an append that read   *)
(* it before may write it back.                                            *)
FlushDelete(u) ==
  /\ u \in flush /\ flush' = flush \ {u}
  /\ remote' \in {remote, [remote EXCEPT ![u] = None]}
  /\ branch' = IF u \in listed THEN branch ELSE branch \ {u}
  /\ \/ flush' # {} /\ UNCHANGED pending
     \/ flush' = {} /\ pending' = {}
     \/ flush' = {} /\ (\E v \in Units : pc[v] = "push") /\ UNCHANGED pending
  /\ UNCHANGED <<listed, dir, pc, cleanup, rebase, base, fetched, attempt, undone, target>>

(* External: others move the target.                                       *)
TargetMoves ==
  /\ target < MaxTarget /\ target' = target + 1
  /\ UNCHANGED <<trees, pc, cleanup, merging, deletes>>

Create(u) == Resume(u) \/ Add(u) \/ RunSetupCommands(u) \/ SetupFails(u)

Merge(u) == Fetch(u) \/ Rebase(u) \/ Resolve(u) \/ ContinueRebase(u) \/ Push(u)

Next ==
  \/ \E u \in Units : Create(u) \/ Merge(u) \/ RunEnds(u) \/ CleanupOne(u)
                        \/ FlushDelete(u)
  \/ Cleanup \/ CleanupOrphans \/ StartFlush \/ TargetMoves

Spec == Init /\ [][Next]_vars

-----------------------------------------------------------------------------
(* Properties.                                                             *)

(* What Merge pushes is no open rebase, and stands on the target it        *)
(* fetched: a rebase that was given up or left open never reaches the      *)
(* remote.  The one branch that is pushed by force as it was before is one *)
(* whose agent aborted the rebase and then failed.                         *)
PushedIsRebased ==
  [][\A u \in Units : remote'[u] # remote[u] /\ remote'[u] # None
       => rebase[u] = "none" /\ (remote'[u] = fetched \/ u \in undone)]_vars

(* "CreateWorktree creates a new worktree for a unit, or returns the       *)
(* existing one if it already exists": the one it returns is there.        *)
HandedOutExists ==
  [][\A u \in Units : pc[u] = "idle" /\ pc'[u] = "has" => u \in dir]_vars
=============================================================================
