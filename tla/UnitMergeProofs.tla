--------------------------- MODULE UnitMergeProofs ---------------------------
(***************************************************************************)
(* Proofs about the merges of a run, for every set of units, every         *)
(* dependency relation, every number of attempts, with and without a       *)
(* remote, and with a cancellation at any moment.                          *)
(***************************************************************************)
EXTENDS UnitMerge, TLAPS

Critical ==
  {"fetch", "rebase", "resolve_rebase", "abort_rebase", "fast_forward", "merge",
   "inspect", "resolve_merge", "abort_merge", "landed", "failing"}
Step == {"idle", "working", "locking", "merged", "failed"} \union Critical

Types ==
  /\ remote \in BOOLEAN /\ cancelled \in BOOLEAN
  /\ target \in SUBSET Commit /\ origin \in SUBSET Commit /\ server \in SUBSET Commit
  /\ branch \in [Units -> SUBSET Commit]
  /\ rebasing \in SUBSET Units
  /\ repoMerge \in Units \union {None} /\ mergeOwner \in Units \union {None}
  /\ pc \in [Units -> Step]

(* Pool.mergeMu: who is in mergeToFeatureBranch holds it.                  *)
OneMerger == \A u \in Units : pc[u] \in Critical <=> mergeOwner = u

(* A merge in progress is the lock holder's, unless a cancelled context    *)
(* kept its abort from running.                                            *)
MergeIsOwners ==
  /\ repoMerge # None /\ ~cancelled =>
       /\ mergeOwner = repoMerge
       /\ pc[repoMerge] \in {"inspect", "resolve_merge", "abort_merge"}
  /\ \A u \in Units : pc[u] = "resolve_merge" => repoMerge \in {None, u}

(* So is a rebase.                                                         *)
RebaseIsOwners ==
  ~cancelled => \A u \in rebasing : pc[u] \in {"resolve_rebase", "abort_rebase"}

(* The inductive invariant of the lock, whatever Claude does.              *)
LockInv == Types /\ OneMerger /\ MergeIsOwners /\ RebaseIsOwners

-----------------------------------------------------------------------------
LEMMA LockInit == Init => LockInv
  BY MergeAssumption
  DEF Init, LockInv, Types, OneMerger, MergeIsOwners, RebaseIsOwners, Step, Critical

(* What a rebase makes of a branch, and a merge of the target, are         *)
(* histories.                                                              *)
LEMMA HistoryTypes ==
  ASSUME Types, NEW u \in Units
  PROVE  /\ Rebased(u) \in SUBSET Commit
         /\ MergedWith(u) \in SUBSET Commit
         /\ Original(u) \in Commit
<1>1. \A w \in Work(branch[u]) : w \in Units \union Outsiders
  BY DEF Types, Work, Commit
<1>2. Onto \in SUBSET Commit
  BY DEF Onto, Types
<1>3. Rebased(u) \in SUBSET Commit
  BY <1>1, <1>2 DEF Rebased, Types, Commit
<1>4. MergedWith(u) \in SUBSET Commit
  BY DEF MergedWith, MergeOf, Types, Commit
<1>5. Original(u) \in Commit
  BY DEF Original, Commit
<1> QED BY <1>3, <1>4, <1>5

LEMMA LockStep == LockInv /\ [Next]_vars => LockInv'
<1> SUFFICES ASSUME LockInv, [Next]_vars PROVE LockInv'
  OBVIOUS
<1> USE MergeAssumption DEF LockInv, Types, OneMerger, MergeIsOwners, RebaseIsOwners,
        Step, Critical, Goto, gitVars
<1>1. CASE UNCHANGED vars
  BY <1>1 DEF vars
<1>2. CASE Cancel
  BY <1>2 DEF Cancel
<1>3. ASSUME NEW x \in Outsiders, Push(x) PROVE LockInv'
  BY <1>3 DEF Push, Original, Commit
<1>4. ASSUME NEW u \in Units, SetupWorktree(u) \/ CommitWork(u) \/ Lock(u) PROVE LockInv'
  BY <1>4, HistoryTypes DEF SetupWorktree, CommitWork, Lock
<1>5. ASSUME NEW u \in Units, MergeToFeatureBranch(u) PROVE LockInv'
  <2>0. Rebased(u) \in SUBSET Commit /\ MergedWith(u) \in SUBSET Commit
    BY HistoryTypes
  <2>1. CASE Fetch(u) \/ FetchFails(u) \/ RebaseFails(u)
    BY <2>1 DEF Fetch, FetchFails, RebaseFails
  <2>2. CASE RebaseCleanly(u)
    BY <2>0, <2>2 DEF RebaseCleanly
  <2>3. CASE RebaseStops(u)
    BY <2>3 DEF RebaseStops
  <2>4. CASE ResolveRebase(u)
    BY <2>0, <2>4 DEF ResolveRebase, AfterAttempt
  <2>5. CASE AbortRebase(u)
    BY <2>5 DEF AbortRebase
  <2>6. CASE FastForward(u) \/ FastForwardFails(u)
    BY <2>6 DEF FastForward, FastForwardFails
  <2>7. CASE Merge(u)
    BY <2>0, <2>7 DEF Merge
  <2>8. CASE MergeStops(u)
    BY <2>0, <2>8 DEF MergeStops
  <2>9. CASE InspectMerge(u)
    BY <2>9 DEF InspectMerge
  <2>10. CASE ResolveMerge(u)
    <3>1. repoMerge # None => MergedWith(repoMerge) \in SUBSET Commit
      BY HistoryTypes
    <3> QED BY <3>1, <2>10 DEF ResolveMerge, AfterAttempt
  <2>11. CASE AbortMerge(u)
    BY <2>11 DEF AbortMerge
  <2>12. CASE Unlock(u)
    BY <2>12 DEF Unlock
  <2> QED BY <1>5, <2>1, <2>2, <2>3, <2>4, <2>5, <2>6, <2>7, <2>8, <2>9, <2>10,
             <2>11, <2>12 DEF MergeToFeatureBranch
<1> QED BY <1>1, <1>2, <1>3, <1>4, <1>5 DEF Next

(* Between merges RepoRoot and the worktrees of the units past their merge *)
(* are clean, until the pool is cancelled: whatever Claude did, an error   *)
(* path of mergeToFeatureBranch aborts what it leaves behind.              *)
THEOREM CleanBetweenMergesHolds == Spec => []CleanBetweenMerges
<1>1. Init => LockInv
  BY LockInit
<1>2. LockInv /\ [Next]_vars => LockInv'
  BY LockStep
<1>3. LockInv => CleanBetweenMerges
  BY MergeAssumption
  DEF LockInv, Types, OneMerger, MergeIsOwners, RebaseIsOwners, Critical, CleanBetweenMerges
<1> QED BY <1>1, <1>2, <1>3, PTL DEF Spec

(* No two units are in mergeToFeatureBranch at once: Pool.mergeMu is held  *)
(* on every path from its lock to its unlock.                              *)
THEOREM OneMergerHolds ==
  Spec => [](\A u, v \in Units : pc[u] \in Critical /\ pc[v] \in Critical => u = v)
<1>1. Init => LockInv
  BY LockInit
<1>2. LockInv /\ [Next]_vars => LockInv'
  BY LockStep
<1>3. LockInv => \A u, v \in Units : pc[u] \in Critical /\ pc[v] \in Critical => u = v
  BY DEF LockInv, OneMerger
<1> QED BY <1>1, <1>2, <1>3, PTL DEF Spec

-----------------------------------------------------------------------------
(* A fast-forward asks for the target's history in the branch, and a merge *)
(* commit has both.                                                        *)
LEMMA TargetGrows == [Next]_vars => target \subseteq target'
<1> SUFFICES ASSUME Next PROVE target \subseteq target'
  BY DEF vars, gitVars
<1>1. \A u \in Units \union {repoMerge} : target \subseteq MergedWith(u)
  BY DEF MergedWith
<1>2. ASSUME NEW u \in Units, FastForward(u) \/ FastForwardFails(u)
      PROVE  target \subseteq target'
  BY <1>2 DEF FastForward, FastForwardFails, MayFastForward
<1>3. ASSUME NEW u \in Units, Merge(u) \/ MergeStops(u)
      PROVE  target \subseteq target'
  BY <1>1, <1>3 DEF Merge, MergeStops
<1>4. ASSUME NEW u \in Units, ResolveMerge(u)
      PROVE  target \subseteq target'
  BY <1>1, <1>4 DEF ResolveMerge
<1>5. Next => \/ target' = target
              \/ \E u \in Units : \/ FastForward(u) \/ FastForwardFails(u)
                                  \/ Merge(u) \/ MergeStops(u) \/ ResolveMerge(u)
  BY DEF Next, Cancel, Push, SetupWorktree, CommitWork, Lock, MergeToFeatureBranch,
         Fetch, FetchFails, RebaseCleanly, RebaseStops, RebaseFails, ResolveRebase,
         AbortRebase, InspectMerge, AbortMerge, Unlock, gitVars
<1> QED BY <1>2, <1>3, <1>4, <1>5

(* The target never loses a commit: a unit merges on top of what others    *)
(* merged while it worked, it does not replace it.                         *)
THEOREM NothingLostHolds == Spec => NothingLost
<1>1. [Next]_vars => [target \subseteq target']_vars
  BY TargetGrows
<1> QED BY <1>1, PTL DEF Spec, NothingLost

-----------------------------------------------------------------------------
(* What the histories hold, when Claude may complete or leave a conflicted *)
(* rebase or merge but does not give it up and report success.             *)
ClaudeFinishes == "abandon" \notin ClaudeMay

(* Who is past the rebase of a local target stands on it.                  *)
OnTarget(u) ==
  \/ pc[u] \in {"fast_forward", "merge"}
  \/ pc[u] = "resolve_rebase" /\ u \notin rebasing

WorkIsThere ==
  \A u \in Units :
    /\ pc[u] \notin {"idle", "working"} => u \in Work(branch[u])
    /\ \/ pc[u] \in {"landed", "merged"}
       \/ pc[u] = "resolve_merge" /\ repoMerge = None
       => u \in Work(target)

LocalIsLinear ==
  ~remote =>
    /\ repoMerge = None
    /\ ~HasMerges(target)
    /\ \A u \in Units : ~HasMerges(branch[u]) /\ (OnTarget(u) => target \subseteq branch[u])

(* The inductive invariant of the histories, on top of that of the lock: a *)
(* dependent starts from a target that holds its predecessors' work, which *)
(* no rebase takes away.                                                   *)
HistoryInv == LockInv /\ WorkIsThere /\ PredecessorsInBranch /\ LocalIsLinear

(* A rebase keeps all work of the branch, and makes no merge commit.       *)
LEMMA RebaseKeepsWork ==
  ASSUME Types, NEW u \in Units
  PROVE  /\ Work(branch[u]) \subseteq Work(Rebased(u))
         /\ Onto \subseteq Rebased(u)
         /\ ~HasMerges(branch[u]) /\ ~HasMerges(Onto) => ~HasMerges(Rebased(u))
<1>1. u # "merge"
  BY MergeAssumption
<1>2. CASE UpToDate(u)
  BY <1>2 DEF Rebased, UpToDate
<1>3. CASE ~UpToDate(u)
  <2> DEFINE replayed == {[unit |-> w, copy |-> u] : w \in Work(branch[u]) \ Work(Onto)}
  <2>1. Rebased(u) = Onto \union replayed
    BY <1>3 DEF Rebased
  <2>2. \A c \in replayed : c.copy = u
    OBVIOUS
  <2>3. Work(branch[u]) \ Work(Onto) \subseteq Work(replayed)
    <3> SUFFICES ASSUME NEW w \in Work(branch[u]) \ Work(Onto) PROVE w \in Work(replayed)
      OBVIOUS
    <3>1. [unit |-> w, copy |-> u] \in replayed
      OBVIOUS
    <3> QED BY <1>1, <3>1 DEF Work
  <2>4. Work(Onto \union replayed) = Work(Onto) \union Work(replayed)
    BY DEF Work
  <2> QED BY <1>1, <2>1, <2>2, <2>3, <2>4 DEF HasMerges
<1> QED BY <1>2, <1>3

(* A larger history holds more work.                                       *)
LEMMA WorkGrows ==
  ASSUME NEW h, NEW k, h \subseteq k
  PROVE  Work(h) \subseteq Work(k)
  BY DEF Work

-----------------------------------------------------------------------------
LEMMA HistoryInit == Init => HistoryInv
  BY LockInit, MergeAssumption
  DEF Init, HistoryInv, WorkIsThere, PredecessorsInBranch, LocalIsLinear, HasMerges, OnTarget

(* Steps that rewrite neither a branch nor the target.                     *)
LEMMA QuietMergeStep ==
  ASSUME HistoryInv, LockInv', NEW u \in Units,
         \/ Lock(u) \/ Fetch(u) \/ FetchFails(u) \/ RebaseStops(u) \/ RebaseFails(u)
         \/ AbortRebase(u) \/ InspectMerge(u) \/ AbortMerge(u) \/ Unlock(u)
  PROVE  HistoryInv'
<1> USE DEF HistoryInv, LockInv, Types, Goto, gitVars, Lock, Fetch, FetchFails, RebaseStops,
        RebaseFails, AbortRebase, InspectMerge, AbortMerge, Unlock
<1>1. UNCHANGED <<branch, target, remote>>
  OBVIOUS
<1>2. WorkIsThere'
  BY <1>1 DEF WorkIsThere, OneMerger, Critical
<1>3. PredecessorsInBranch'
  BY <1>1 DEF PredecessorsInBranch
<1>4. LocalIsLinear'
  BY <1>1 DEF LocalIsLinear, OnTarget
<1> QED BY <1>2, <1>3, <1>4

(* Steps that rewrite u's branch, keeping the work it has.                 *)
LEMMA BranchStep ==
  ASSUME ClaudeFinishes, HistoryInv, LockInv', NEW u \in Units,
         SetupWorktree(u) \/ CommitWork(u) \/ RebaseCleanly(u) \/ ResolveRebase(u)
  PROVE  HistoryInv'
<1> USE DEF HistoryInv, LockInv, Types
<1>1. UNCHANGED <<target, remote, repoMerge>>
  BY DEF SetupWorktree, CommitWork, RebaseCleanly, ResolveRebase
<1>2. \A v \in Units \ {u} : branch'[v] = branch[v] /\ pc'[v] = pc[v]
                             /\ (v \in rebasing <=> v \in rebasing')
  BY DEF SetupWorktree, CommitWork, RebaseCleanly, ResolveRebase, AfterAttempt, Goto
<1>3. /\ Work(branch[u]) \subseteq Work(Rebased(u))
      /\ Onto \subseteq Rebased(u)
      /\ ~HasMerges(branch[u]) /\ ~HasMerges(Onto) => ~HasMerges(Rebased(u))
  BY RebaseKeepsWork
<1>4. CASE SetupWorktree(u)
  <2>1. branch'[u] = target /\ pc'[u] = "working"
    BY <1>4 DEF SetupWorktree, Goto
  <2>2. Deps[u] \subseteq Work(target)
    BY <1>4, MergeAssumption DEF SetupWorktree, WorkIsThere
  <2> QED BY <1>1, <1>2, <2>1, <2>2
          DEF WorkIsThere, PredecessorsInBranch, LocalIsLinear, OnTarget
<1>5. CASE CommitWork(u)
  <2>1. /\ branch'[u] = branch[u] \union {Original(u)}
        /\ pc[u] = "working" /\ pc'[u] = "locking"
    BY <1>5 DEF CommitWork, Goto
  <2>2. Work(branch'[u]) = Work(branch[u]) \union {u}
    <3>1. Work({Original(u)}) = {u}
      <4>1. Original(u).unit = u /\ Original(u).copy # "merge"
        BY DEF Original
      <4>2. {c \in {Original(u)} : c.copy # "merge"} = {Original(u)}
        BY <4>1
      <4> QED BY <4>1, <4>2 DEF Work
    <3>2. Work(branch[u] \union {Original(u)}) = Work(branch[u]) \union Work({Original(u)})
      BY DEF Work
    <3> QED BY <2>1, <3>1, <3>2
  <2>3. ~HasMerges(branch[u]) => ~HasMerges(branch'[u])
    BY <2>1 DEF HasMerges, Original
  <2> QED BY <1>1, <1>2, <2>1, <2>2, <2>3
          DEF WorkIsThere, PredecessorsInBranch, LocalIsLinear, OnTarget
<1>6. CASE RebaseCleanly(u)
  <2>1. branch'[u] = Rebased(u) /\ pc[u] = "rebase" /\ pc'[u] = "fast_forward"
    BY <1>6 DEF RebaseCleanly, Goto
  <2> QED BY <1>1, <1>2, <1>3, <2>1
          DEF WorkIsThere, PredecessorsInBranch, LocalIsLinear, OnTarget, Onto
<1>7. CASE ResolveRebase(u)
  <2>1. /\ pc[u] = "resolve_rebase"
        /\ pc'[u] \in {"resolve_rebase", "fast_forward", "abort_rebase"}
    BY <1>7 DEF ResolveRebase, AfterAttempt, Goto
  <2>2. branch'[u] \in {branch[u], Rebased(u)}
    BY <1>7 DEF ResolveRebase
  <2>3. Work(branch[u]) \subseteq Work(branch'[u])
    BY <1>3, <2>2
  <2>4. ~remote /\ OnTarget(u)' => target \subseteq branch'[u]
    <3> SUFFICES ASSUME ~remote, OnTarget(u)' PROVE target \subseteq branch'[u]
      OBVIOUS
    <3>1. u \notin rebasing'
      BY <1>7, <2>1 DEF OnTarget, ResolveRebase, AfterAttempt, Goto
    <3>2. u \notin rebasing \/ branch'[u] = Rebased(u)
      BY <1>7, <3>1, MergeAssumption, ClaudeFinishes DEF ResolveRebase, ClaudeFinishes
    <3> QED BY <1>3, <1>7, <2>1, <3>2 DEF ResolveRebase, LocalIsLinear, OnTarget, Onto
  <2>5. WorkIsThere' /\ PredecessorsInBranch'
    BY <1>1, <1>2, <2>1, <2>3 DEF WorkIsThere, PredecessorsInBranch
  <2>6. ~remote => ~HasMerges(branch'[u])
    BY <1>3, <2>2 DEF LocalIsLinear, Onto
  <2>7. LocalIsLinear'
    <3> SUFFICES ASSUME ~remote PROVE LocalIsLinear'
      BY <1>1 DEF LocalIsLinear
    <3>1. \A v \in Units \ {u} : OnTarget(v)' <=> OnTarget(v)
      BY <1>2 DEF OnTarget
    <3> QED BY <1>1, <1>2, <2>4, <2>6, <3>1 DEF LocalIsLinear
  <2> QED BY <2>5, <2>7
<1> QED BY <1>4, <1>5, <1>6, <1>7

(* Steps that move the target, to a history that holds u's branch.         *)
LEMMA TargetStep ==
  ASSUME ClaudeFinishes, HistoryInv, LockInv', target \subseteq target', NEW u \in Units,
         \/ FastForward(u) \/ FastForwardFails(u) \/ Merge(u) \/ MergeStops(u)
         \/ ResolveMerge(u)
  PROVE  HistoryInv'
<1> USE DEF HistoryInv, LockInv, Types
<1>1. UNCHANGED <<branch, remote, rebasing>>
  BY DEF FastForward, FastForwardFails, Merge, MergeStops, ResolveMerge
<1>2. \A v \in Units \ {u} : pc'[v] = pc[v] /\ pc[v] \notin Critical
  BY DEF FastForward, FastForwardFails, Merge, MergeStops, ResolveMerge, AfterAttempt, Goto,
         OneMerger, Critical
<1>3. pc[u] \in Critical /\ pc'[u] \in Critical /\ u \in Work(branch[u])
  BY DEF FastForward, FastForwardFails, Merge, MergeStops, ResolveMerge, AfterAttempt, Goto,
         WorkIsThere, Critical
<1>4. Work(target) \subseteq Work(target')
  BY WorkGrows
<1>5. Work(branch[u]) \subseteq Work(MergedWith(u))
  <2>1. branch[u] \subseteq MergedWith(u)
    BY DEF MergedWith
  <2> QED BY <2>1, WorkGrows
<1>6. pc'[u] = "landed" \/ (pc'[u] = "resolve_merge" /\ repoMerge' = None)
      => u \in Work(target')
  <2>1. CASE FastForward(u)
    BY <1>3, <2>1 DEF FastForward
  <2>2. CASE FastForwardFails(u)
    BY <2>2 DEF FastForwardFails, Goto
  <2>3. CASE Merge(u)
    BY <1>3, <1>5, <2>3 DEF Merge
  <2>4. CASE MergeStops(u)
    BY <2>4 DEF MergeStops, Goto
  <2>5. CASE ResolveMerge(u)
    <3>1. repoMerge \in {None, u} /\ pc[u] = "resolve_merge"
      BY <2>5 DEF MergeIsOwners, ResolveMerge
    <3>2. CASE repoMerge = None
      BY <1>4, <3>1, <3>2 DEF WorkIsThere
    <3>3. CASE repoMerge = u /\ repoMerge' # None
      BY <2>5, <3>3, MergeAssumption DEF ResolveMerge, AfterAttempt, Goto
    <3>4. CASE repoMerge = u /\ repoMerge' = None
      <4>1. target' = MergedWith(u)
        BY <2>5, <3>4, MergeAssumption DEF ResolveMerge, ClaudeFinishes
      <4> QED BY <1>3, <1>5, <4>1
    <3> QED BY <3>1, <3>2, <3>3, <3>4
  <2> QED BY <2>1, <2>2, <2>3, <2>4, <2>5
<1>7. WorkIsThere'
  <2>1. ASSUME NEW v \in Units \ {u} PROVE pc'[v] \notin {"landed", "resolve_merge"}
    BY <1>2 DEF Critical
  <2>2. ASSUME NEW v \in Units, pc'[v] \notin {"idle", "working"}
        PROVE  v \in Work(branch[v])
    BY <1>2, <1>3, <2>2 DEF WorkIsThere
  <2>3. ASSUME NEW v \in Units, pc'[v] = "merged" PROVE v \in Work(target')
    BY <1>2, <1>3, <1>4, <2>3 DEF WorkIsThere, Critical
  <2> QED BY <1>1, <1>6, <2>1, <2>2, <2>3 DEF WorkIsThere
<1>8. PredecessorsInBranch'
  BY <1>1, <1>2, <1>3 DEF PredecessorsInBranch, Critical
<1>9. ASSUME ~remote
      PROVE  /\ repoMerge' = None /\ target' \in {target, branch[u]}
             /\ pc'[u] \notin {"fast_forward", "resolve_rebase"}
             /\ pc'[u] = "merge" => pc[u] = "fast_forward"
  <2>1. repoMerge = None
    BY <1>9 DEF LocalIsLinear
  <2>2. CASE FastForward(u) \/ FastForwardFails(u)
    BY <2>1, <2>2 DEF FastForward, FastForwardFails, Goto
  <2>3. CASE Merge(u) \/ MergeStops(u)
    <3>1. target \subseteq branch[u]
      BY <1>9, <2>3 DEF LocalIsLinear, OnTarget, Merge, MergeStops, Goto
    <3>2. MergedWith(u) = branch[u]
      BY <3>1 DEF MergedWith
    <3> QED BY <2>1, <2>3, <3>1, <3>2 DEF Merge, MergeStops, Goto
  <2>4. CASE ResolveMerge(u)
    BY <2>1, <2>4 DEF ResolveMerge, AfterAttempt, Goto
  <2> QED BY <2>2, <2>3, <2>4
<1>10. LocalIsLinear'
  <2> SUFFICES ASSUME ~remote PROVE LocalIsLinear'
    BY <1>1 DEF LocalIsLinear
  <2>1. ~HasMerges(target')
    BY <1>9 DEF LocalIsLinear
  <2>2. \A v \in Units : OnTarget(v)' => v = u
    BY <1>2 DEF OnTarget, Critical
  <2>3. OnTarget(u)' => target' \subseteq branch[u]
    BY <1>9 DEF LocalIsLinear, OnTarget
  <2> QED BY <1>1, <1>9, <2>1, <2>2, <2>3 DEF LocalIsLinear
<1> QED BY <1>7, <1>8, <1>10

LEMMA HistoryStep ==
  ASSUME ClaudeFinishes, HistoryInv, [Next]_vars
  PROVE  HistoryInv'
<1>1. LockInv'
  BY LockStep DEF HistoryInv
<1>2. target \subseteq target'
  BY TargetGrows
<1>3. CASE UNCHANGED vars \/ Cancel
  <2>1. UNCHANGED <<branch, target, remote, repoMerge, rebasing, pc>>
    BY <1>3 DEF vars, gitVars, Cancel
  <2> QED BY <1>1, <2>1 DEF HistoryInv, WorkIsThere, PredecessorsInBranch, LocalIsLinear,
                            OnTarget
<1>4. ASSUME NEW x \in Outsiders, Push(x) PROVE HistoryInv'
  <2>1. UNCHANGED <<branch, target, remote, repoMerge, rebasing, pc>>
    BY <1>4 DEF Push
  <2> QED BY <1>1, <2>1 DEF HistoryInv, WorkIsThere, PredecessorsInBranch, LocalIsLinear,
                            OnTarget
<1>5. ASSUME NEW u \in Units, SetupWorktree(u) \/ CommitWork(u) \/ Lock(u)
                              \/ MergeToFeatureBranch(u)
      PROVE  HistoryInv'
  BY <1>1, <1>2, <1>5, QuietMergeStep, BranchStep, TargetStep DEF MergeToFeatureBranch
<1> QED BY <1>3, <1>4, <1>5 DEF Next

-----------------------------------------------------------------------------
LEMMA HistoryInvariant == ASSUME ClaudeFinishes PROVE Spec => []HistoryInv
<1>1. Init => HistoryInv
  BY HistoryInit
<1>2. HistoryInv /\ [Next]_vars => HistoryInv'
  BY HistoryStep
<1> QED BY <1>1, <1>2, PTL DEF Spec

(* A unit reported merged is in the target branch, unless Claude gives a   *)
(* conflicted merge up and says it is resolved.                            *)
THEOREM MergedMeansLandedHolds ==
  ASSUME ClaudeFinishes
  PROVE  Spec => []MergedMeansLanded
<1>1. HistoryInv => MergedMeansLanded
  BY DEF HistoryInv, WorkIsThere, MergedMeansLanded
<1> QED BY <1>1, HistoryInvariant, PTL

(* What the workers share is in order whenever one of them looks at it:    *)
(* dependents have their predecessors' work, nothing is left in progress   *)
(* between merges, and a local target stays linear.                        *)
THEOREM RepositoryInOrderHolds ==
  ASSUME ClaudeFinishes
  PROVE  Spec => []RepositoryInOrder
<1>1. HistoryInv => PredecessorsInBranch /\ LocalTargetLinear
  BY DEF HistoryInv, LocalIsLinear, LocalTargetLinear
<1> QED BY <1>1, HistoryInvariant, CleanBetweenMergesHolds, PTL DEF RepositoryInOrder
=============================================================================
