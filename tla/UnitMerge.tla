----------------------------- MODULE UnitMerge -----------------------------
(***************************************************************************)
(* What Orchestrator.tla abstracts to MergeLands and MergeFails: the       *)
(* worktree each unit works in, and Worker.mergeToFeatureBranch, which     *)
(* rebases the unit's branch and merges it into the target branch checked  *)
(* out in RepoRoot, one worker at a time under Pool.mergeMu, with Claude   *)
(* resolving conflicts and the pool's context cancelled at any moment.     *)
(*                                                                         *)
(* A git history is the set of its commits.  Rewriting a commit makes a    *)
(* new one: `copy' tells by whose rebase.  A merge commit has copy "merge".*)
(* Content is abstracted to whose work a history holds.                    *)
(***************************************************************************)
EXTENDS Naturals, FiniteSets

CONSTANTS
  Units,
  Deps,         \* unit -> the units it depends on
  Outsiders,    \* commits others push to the remote
  ClaudeMay,    \* what Claude may do to a conflicted rebase or merge
  MaxAttempts,  \* DefaultRetryConfig.MaxAttempts
  None

ASSUME MergeAssumption ==
  /\ Deps \in [Units -> SUBSET Units]
  /\ Units \cap Outsiders = {} /\ {None, "orig", "merge"} \cap Units = {}
  /\ ClaudeMay \subseteq {"complete", "abandon", "leave"}
  /\ MaxAttempts \in Nat \ {0}

VARIABLES
  remote,      \* origin/<target> exists: getTargetRef answers it
  server,      \* the target branch in the remote repository
  origin,      \* refs/remotes/origin/<target>
  target,      \* the target branch in RepoRoot
  branch,      \* unit -> the history of its worker branch
  rebasing,    \* units whose worktree has a rebase in progress
  repoMerge,   \* unit whose merge is in progress in RepoRoot, or None
  mergeOwner,  \* holder of Pool.mergeMu, or None
  attempts,    \* failed attempts of the current RetryWithBackoff
  cancelled,   \* Pool.cancelCtx is cancelled
  pc           \* unit -> where its worker stands

gitVars == <<remote, server, origin, target, branch, rebasing, repoMerge>>
vars == <<gitVars, mergeOwner, attempts, cancelled, pc>>

Commit == [unit : Units \union Outsiders, copy : Units \union {"orig", "merge"}]
Original(u) == [unit |-> u, copy |-> "orig"]
MergeOf(u) == [unit |-> u, copy |-> "merge"]

HasMerges(h) == \E c \in h : c.copy = "merge"
Work(h) == {c.unit : c \in {x \in h : x.copy # "merge"}}

Init ==
  /\ remote \in BOOLEAN
  /\ server = {} /\ origin = {} /\ target = {}
  /\ branch = [u \in Units |-> {}]
  /\ rebasing = {} /\ repoMerge = None
  /\ mergeOwner = None /\ attempts = 0
  /\ cancelled = FALSE
  /\ pc = [u \in Units |-> "idle"]

-----------------------------------------------------------------------------
(* The surroundings.                                                       *)

Push(x) ==
  /\ remote /\ x \notin Work(server)
  /\ server' = server \union {Original(x)}
  /\ UNCHANGED <<remote, origin, target, branch, rebasing, repoMerge, mergeOwner,
                 attempts, cancelled, pc>>

(* Pool.Shutdown or Pool.Stop.  From here on a git or Claude command that  *)
(* has not ended is killed, and a new one does not start.                  *)
Cancel ==
  /\ ~cancelled
  /\ cancelled' = TRUE
  /\ UNCHANGED <<gitVars, mergeOwner, attempts, pc>>

-----------------------------------------------------------------------------
(* The worktree and the work.                                              *)

Goto(u, from, to) ==
  /\ pc[u] = from
  /\ pc' = [pc EXCEPT ![u] = to]

\* Mutant of SetupWorktree: the worktree is cut from origin's branch.
SetupFromOrigin(u) ==
  /\ ~cancelled
  /\ \A d \in Deps[u] : pc[d] = "merged"
  /\ Goto(u, "idle", "working")
  /\ branch' = [branch EXCEPT ![u] = origin]
  /\ UNCHANGED <<remote, server, origin, target, rebasing, repoMerge, mergeOwner, attempts,
                 cancelled>>

(* The orchestrator starts u once its dependencies are merged; the         *)
(* worktree is cut from the local target branch.                           *)
SetupWorktree(u) ==
  /\ ~cancelled
  /\ \A d \in Deps[u] : pc[d] = "merged"
  /\ Goto(u, "idle", "working")
  /\ branch' = [branch EXCEPT ![u] = target]
  /\ UNCHANGED <<remote, server, origin, target, rebasing, repoMerge, mergeOwner, attempts,
                 cancelled>>

CommitWork(u) ==
  /\ Goto(u, "working", "locking")
  /\ branch' = [branch EXCEPT ![u] = @ \union {Original(u)}]
  /\ UNCHANGED <<remote, server, origin, target, rebasing, repoMerge, mergeOwner, attempts,
                 cancelled>>

-----------------------------------------------------------------------------
(* mergeToFeatureBranch.                                                   *)

Lock(u) ==
  /\ mergeOwner = None
  /\ mergeOwner' = u
  /\ Goto(u, "locking", IF remote THEN "fetch" ELSE "rebase")
  /\ UNCHANGED <<gitVars, attempts, cancelled>>

Fetch(u) ==
  /\ ~cancelled
  /\ Goto(u, "fetch", "rebase")
  /\ origin' = server
  /\ UNCHANGED <<remote, server, target, branch, rebasing, repoMerge, mergeOwner, attempts,
                 cancelled>>

FetchFails(u) ==
  /\ Goto(u, "fetch", "failing")
  /\ UNCHANGED <<gitVars, mergeOwner, attempts, cancelled>>

Onto == IF remote THEN origin ELSE target

(* git rebase leaves a linear branch on top of Onto alone; otherwise it    *)
(* replays what Onto lacks, without merge commits, as new commits.         *)
UpToDate(u) == Onto \subseteq branch[u] /\ ~HasMerges(branch[u] \ Onto)
Rebased(u) ==
  IF UpToDate(u) THEN branch[u]
  ELSE Onto \union {[unit |-> w, copy |-> u] : w \in Work(branch[u]) \ Work(Onto)}

RebaseCleanly(u) ==
  /\ ~cancelled
  /\ Goto(u, "rebase", "fast_forward")
  /\ branch' = [branch EXCEPT ![u] = Rebased(u)]
  /\ UNCHANGED <<remote, server, origin, target, rebasing, repoMerge, mergeOwner, attempts,
                 cancelled>>

(* A replay may stop on a conflict, and then Claude is asked; or be killed *)
(* on the way, which Rebase does not take for a conflict.                  *)
RebaseStops(u) ==
  /\ ~UpToDate(u)
  /\ Goto(u, "rebase", IF cancelled THEN "failing" ELSE "resolve_rebase")
  /\ rebasing' = rebasing \union {u}
  /\ attempts' = 0
  /\ UNCHANGED <<remote, server, origin, target, branch, repoMerge, mergeOwner, cancelled>>

(* Any other error: a dirty worktree, a lock file, a cancelled context.    *)
RebaseFails(u) ==
  /\ Goto(u, "rebase", "failing")
  /\ UNCHANGED <<gitVars, mergeOwner, attempts, cancelled>>

(* RetryWithBackoff after an attempt: on success go to `good'; try again   *)
(* unless the attempts are used up or the context is done.                 *)
AfterAttempt(u, success, here, good, bad) ==
  IF success THEN Goto(u, here, good) /\ UNCHANGED attempts
  ELSE /\ attempts' = attempts + 1
       /\ Goto(u, here, IF attempts' = MaxAttempts \/ cancelled THEN bad ELSE here)

(* Claude in the worktree: it may end the rebase, give it up or leave it,  *)
(* and exit with an error in each case (always, when it is killed).  The   *)
(* attempt succeeds if it exits well and no rebase is in progress.         *)
ResolveRebase(u) ==
  /\ pc[u] = "resolve_rebase"
  /\ \E did \in ClaudeMay, exitsWell \in BOOLEAN :
       /\ cancelled => ~exitsWell
       /\ IF u \in rebasing /\ did = "complete"
          THEN branch' = [branch EXCEPT ![u] = Rebased(u)]
          ELSE UNCHANGED branch
       /\ rebasing' = IF did = "leave" THEN rebasing ELSE rebasing \ {u}
       /\ AfterAttempt(u, exitsWell /\ u \notin rebasing', "resolve_rebase",
                       "fast_forward", "abort_rebase")
  /\ UNCHANGED <<remote, server, origin, target, repoMerge, mergeOwner, cancelled>>

(* git rebase --abort, under the same context.                             *)
AbortRebase(u) ==
  /\ Goto(u, "abort_rebase", "failing")
  /\ rebasing' = IF cancelled THEN rebasing ELSE rebasing \ {u}
  /\ UNCHANGED <<remote, server, origin, target, branch, repoMerge, mergeOwner, attempts,
                 cancelled>>

-----------------------------------------------------------------------------
(* mergeWithCleanup, in RepoRoot.                                          *)

MayFastForward(u) == target \subseteq branch[u] /\ repoMerge = None

(* The commit a plain `git merge' of the branch makes of the target.       *)
MergedWith(u) ==
  IF target \subseteq branch[u] THEN branch[u]
  ELSE target \union branch[u] \union {MergeOf(u)}

\* Mutant of FastForward: the branch replaces the target.
FastForwardForced(u) ==
  /\ ~cancelled /\ repoMerge = None
  /\ Goto(u, "fast_forward", "landed")
  /\ target' = branch[u]
  /\ UNCHANGED <<remote, server, origin, branch, rebasing, repoMerge, mergeOwner, attempts,
                 cancelled>>

FastForward(u) ==
  /\ ~cancelled /\ MayFastForward(u)
  /\ Goto(u, "fast_forward", "landed")
  /\ target' = branch[u]
  /\ UNCHANGED <<remote, server, origin, branch, rebasing, repoMerge, mergeOwner, attempts,
                 cancelled>>

\* Mutant of FastForwardFails: the error is not looked at.
FastForwardUnchecked(u) ==
  /\ Goto(u, "fast_forward", "landed")
  /\ UNCHANGED <<gitVars, mergeOwner, attempts, cancelled>>

(* Diverged, or any other error; killed, it may have moved the branch.     *)
FastForwardFails(u) ==
  /\ Goto(u, "fast_forward", "merge")
  /\ \/ UNCHANGED target
     \/ cancelled /\ MayFastForward(u) /\ target' = branch[u]
  /\ UNCHANGED <<remote, server, origin, branch, rebasing, repoMerge, mergeOwner, attempts,
                 cancelled>>

Merge(u) ==
  /\ ~cancelled /\ repoMerge = None
  /\ Goto(u, "merge", "landed")
  /\ target' = MergedWith(u)
  /\ UNCHANGED <<remote, server, origin, branch, rebasing, repoMerge, mergeOwner, attempts,
                 cancelled>>

(* A conflict, or a merge killed on the way, leaves MERGE_HEAD; killed at  *)
(* the end it has merged; any other error leaves RepoRoot as it was.       *)
MergeStops(u) ==
  /\ Goto(u, "merge", "inspect")
  /\ \/ UNCHANGED <<target, repoMerge>>
     \/ /\ repoMerge = None /\ ~(target \subseteq branch[u])
        /\ repoMerge' = u
        /\ UNCHANGED target
     \/ /\ cancelled /\ repoMerge = None
        /\ target' = MergedWith(u)
        /\ UNCHANGED repoMerge
  /\ attempts' = 0
  /\ UNCHANGED <<remote, server, origin, branch, rebasing, mergeOwner, cancelled>>

(* GetConflictedFiles decides whether Claude is asked.                     *)
InspectMerge(u) ==
  /\ Goto(u, "inspect",
          IF repoMerge # None /\ ~cancelled THEN "resolve_merge" ELSE "abort_merge")
  /\ UNCHANGED <<gitVars, mergeOwner, attempts, cancelled>>

(* Claude in RepoRoot; the attempt succeeds if it exits well and no merge  *)
(* is in progress.                                                         *)
ResolveMerge(u) ==
  /\ pc[u] = "resolve_merge"
  /\ \E did \in ClaudeMay, exitsWell \in BOOLEAN :
       /\ cancelled => ~exitsWell
       /\ IF repoMerge # None /\ did = "complete"
          THEN target' = MergedWith(repoMerge)
          ELSE UNCHANGED target
       /\ repoMerge' = IF did = "leave" THEN repoMerge ELSE None
       /\ AfterAttempt(u, exitsWell /\ repoMerge' = None, "resolve_merge",
                       "landed", "abort_merge")
  /\ UNCHANGED <<remote, server, origin, branch, rebasing, mergeOwner, cancelled>>

(* git merge --abort, under the same context.                              *)
AbortMerge(u) ==
  /\ Goto(u, "abort_merge", "failing")
  /\ repoMerge' = IF cancelled THEN repoMerge ELSE None
  /\ UNCHANGED <<remote, server, origin, target, branch, rebasing, mergeOwner, attempts,
                 cancelled>>

\* Mutant of Unlock: only a success gives the lock back.
UnlockIfMerged(u) ==
  /\ Goto(u, "landed", "merged") \/ Goto(u, "failing", "failed")
  /\ mergeOwner' = IF pc[u] = "landed" THEN None ELSE mergeOwner
  /\ UNCHANGED <<gitVars, attempts, cancelled>>

Unlock(u) ==
  /\ Goto(u, "landed", "merged") \/ Goto(u, "failing", "failed")
  /\ mergeOwner' = None
  /\ UNCHANGED <<gitVars, attempts, cancelled>>

MergeToFeatureBranch(u) ==
  \/ Fetch(u) \/ FetchFails(u)
  \/ RebaseCleanly(u) \/ RebaseStops(u) \/ RebaseFails(u)
  \/ ResolveRebase(u) \/ AbortRebase(u)
  \/ FastForward(u) \/ FastForwardFails(u) \/ Merge(u) \/ MergeStops(u)
  \/ InspectMerge(u) \/ ResolveMerge(u) \/ AbortMerge(u)
  \/ Unlock(u)

Next ==
  \/ Cancel
  \/ \E x \in Outsiders : Push(x)
  \/ \E u \in Units : SetupWorktree(u) \/ CommitWork(u) \/ Lock(u) \/ MergeToFeatureBranch(u)

Spec == Init /\ [][Next]_vars

(* A merge under way goes on, and Go's mutex lets no waiter starve.        *)
FairSpec ==
  Spec /\ \A u \in Units : SF_vars(Lock(u)) /\ WF_vars(MergeToFeatureBranch(u))

-----------------------------------------------------------------------------
(* Properties.                                                             *)

(* A unit reported merged is in the target branch: fetch, rebase, retries, *)
(* Claude's verified resolutions and cancellation together never report    *)
(* success for work that is not there.                                     *)
MergedMeansLanded == \A u \in Units : pc[u] = "merged" => u \in Work(target)

(* The comment on mergeToFeatureBranch: dependent units have access to     *)
(* their predecessors' code, in the worktree they start from and in        *)
(* everything later rewritings make of their branch.                       *)
PredecessorsInBranch ==
  \A u \in Units : pc[u] # "idle" => Deps[u] \subseteq Work(branch[u])

(* Between merges RepoRoot has no merge in progress and no worktree of a   *)
(* unit past its merge a rebase, until the pool is cancelled.              *)
CleanBetweenMerges ==
  ~cancelled =>
    /\ mergeOwner = None => repoMerge = None
    /\ \A u \in rebasing : mergeOwner = u

(* Without a remote the rebase under the lock makes every merge a          *)
(* fast-forward: the target stays linear, and no merge can conflict.       *)
LocalTargetLinear == ~remote => ~HasMerges(target) /\ repoMerge = None

(* What the workers share is in order whenever one of them looks at it.    *)
RepositoryInOrder == PredecessorsInBranch /\ CleanBetweenMerges /\ LocalTargetLinear

(* The target never loses a commit: a unit merges on top of what others    *)
(* merged while it worked, it does not replace it.                         *)
NothingLost == [][target \subseteq target']_vars

(* Every worker that asks for the merge lock gets an outcome.              *)
MergesEnd == \A u \in Units : pc[u] = "locking" ~> pc[u] \in {"merged", "failed"}
=============================================================================
