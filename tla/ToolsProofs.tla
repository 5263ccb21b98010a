----------------------------- MODULE ToolsProofs -----------------------------
(***************************************************************************)
(* Proofs about what works on the repository below a run: GitOps for every *)
(* set of callers and branches, Worktrees for every set of units and any   *)
(* number of attempts.                                                     *)
(***************************************************************************)
EXTENDS MCTools, TLAPS

(* A behaviour of the two side by side is one of each.                     *)
LEMMA SideBySide == AllSpec => Spec /\ Trees!Spec
<1>1. AllInit => Init /\ Trees!Init
  BY DEF AllInit
<1>2. [AllNext]_all => [Next]_vars /\ [Trees!Next]_(Trees!vars)
  <2> USE DEF Trees!vars, Trees!trees, Trees!merging, Trees!deletes, treesVars
  <2>1. CASE UNCHANGED all
    BY <2>1 DEF all
  <2>2. CASE InGit(Next)
    BY <2>2 DEF InGit
  <2>3. CASE InTrees(Trees!Next)
    BY <2>3 DEF InTrees
  <2> QED BY <2>1, <2>2, <2>3 DEF AllNext
<1> QED BY <1>1, <1>2, PTL DEF AllSpec, Spec, Trees!Spec

-----------------------------------------------------------------------------
(* The guarded operations.                                                 *)

GitTypes ==
  /\ head \in Branches
  /\ pc \in [Callers -> {"idle", "checked", "locked", "read"}]
  /\ op \in [Callers -> Operations \union {"none"}]
  /\ seen \in [Callers -> Branches \union {NoOne}]
  /\ tip \in [Branches -> SUBSET Nat] /\ remote \in [Branches -> SUBSET Nat]
  /\ work \in SUBSET Nat /\ untracked \in SUBSET Nat /\ staged \in SUBSET Nat
  /\ edits \in Nat

(* A call that needs the path's lock has it from the lock to the end.      *)
LockIsHeld == \A c \in Callers : pc[c] \in {"locked", "read"} => lock = c

(* What the options forbid is refused before it does anything.             *)
RecklessIsAllowed == \A c \in Callers : op[c] \in Reckless => opts.destructive

(* The inductive invariant.                                                *)
GitInv == GitTypes /\ LockIsHeld /\ RecklessIsAllowed /\ AuditTellsTheBranch

LEMMA GitInit == Init => GitInv
  BY DEF Init, GitInv, GitTypes, LockIsHeld, RecklessIsAllowed, Reckless, AuditTellsTheBranch

(* However a call returns, it is idle, has the lock no more, and the other *)
(* calls are where they were.                                              *)
LEMMA ReturnsToIdle ==
  ASSUME GitInv, NEW c \in Callers, NEW o, Runs(c, o),
         head' = head \/ lock = c, head' \in Branches
  PROVE  /\ pc' \in [Callers -> {"idle", "checked", "locked", "read"}]
         /\ op' \in [Callers -> Operations \union {"none"}]
         /\ seen' \in [Callers -> Branches \union {NoOne}]
         /\ LockIsHeld' /\ RecklessIsAllowed' /\ AuditTellsTheBranch'
<1> USE DEF GitInv, GitTypes
<1>1. /\ pc' = [pc EXCEPT ![c] = "idle"] /\ op' = [op EXCEPT ![c] = "none"]
      /\ seen' = [seen EXCEPT ![c] = NoOne] /\ opts' = opts
      /\ lock' = IF lock = c THEN NoOne ELSE lock
  BY DEF Runs
<1>2. LockIsHeld'
  BY <1>1 DEF LockIsHeld
<1>3. RecklessIsAllowed'
  BY <1>1 DEF RecklessIsAllowed, Reckless
<1>4. AuditTellsTheBranch'
  BY <1>1 DEF AuditTellsTheBranch, LockIsHeld
<1> QED BY <1>1, <1>2, <1>3, <1>4

LEMMA GitStep == GitInv /\ [Next]_vars => GitInv'
<1> SUFFICES ASSUME GitInv, [Next]_vars PROVE GitInv'
  OBVIOUS
<1> USE DEF GitInv, GitTypes, treeVars, repoVars, callVars
<1>1. CASE UNCHANGED vars
  BY <1>1 DEF vars, LockIsHeld, RecklessIsAllowed, AuditTellsTheBranch
<1>2. CASE Edit
  <2>1. edits' \in Nat
    BY <1>2 DEF Edit
  <2>2. work' \in SUBSET Nat /\ untracked' \in SUBSET Nat
    BY <1>2, <2>1 DEF Edit
  <2> QED BY <1>2, <2>1, <2>2 DEF Edit, LockIsHeld, RecklessIsAllowed, AuditTellsTheBranch
<1>3. ASSUME NEW c \in Callers, NEW o \in Operations, Call(c, o) PROVE GitInv'
  BY <1>3 DEF Call, LockIsHeld, RecklessIsAllowed, AuditTellsTheBranch
<1>4. ASSUME NEW c \in Callers, Lock(c) PROVE GitInv'
  BY <1>4, GitAssumption DEF Lock, LockIsHeld, RecklessIsAllowed, AuditTellsTheBranch
<1>5. ASSUME NEW c \in Callers, ReadBranch(c) PROVE GitInv'
  BY <1>5 DEF ReadBranch, LockIsHeld, RecklessIsAllowed, AuditTellsTheBranch
<1>6. ASSUME NEW c \in Callers, Fails(c) PROVE GitInv'
  BY <1>6, ReturnsToIdle DEF Fails
<1>7. ASSUME NEW c \in Callers, Command(c) PROVE GitInv'
  <2> DEFINE Typed == /\ tip' \in [Branches -> SUBSET Nat] /\ remote' \in [Branches -> SUBSET Nat]
                      /\ work' \in SUBSET Nat /\ untracked' \in SUBSET Nat
                      /\ staged' \in SUBSET Nat /\ edits' \in Nat
  <2>1. CASE CheckoutBranch(c)
    <3>1. lock = c
      BY <2>1 DEF CheckoutBranch, Runs, Unlocked, ReadsBranch, LockIsHeld
    <3> QED BY <2>1, <3>1, ReturnsToIdle DEF CheckoutBranch
  <2>2. ASSUME NEW o, Runs(c, o), UNCHANGED head, Typed PROVE GitInv'
    BY <2>2, ReturnsToIdle
  <2>3. CASE Add(c) \/ AddAll(c) \/ Reset(c) \/ CheckoutFiles(c) \/ Clean(c) \/ MergeAbort(c) \/ Fetch(c)
    <3>1. UNCHANGED head /\ Typed
      BY <2>3 DEF Add, AddAll, Reset, CheckoutFiles, Clean, MergeAbort, Fetch
    <3>2. \E o : Runs(c, o)
      BY <2>3 DEF Add, AddAll, Reset, CheckoutFiles, Clean, MergeAbort, Fetch
    <3> QED BY <2>2, <3>1, <3>2
  <2>4. CASE Commit(c) \/ ResetHard(c) \/ Push(c) \/ ForcePush(c) \/ Merge(c)
    <3>1. UNCHANGED head /\ Typed
      BY <2>4 DEF Commit, ResetHard, Push, ForcePush, Merge
    <3>2. \E o : Runs(c, o)
      BY <2>4 DEF Commit, ResetHard, Push, ForcePush, Merge
    <3> QED BY <2>2, <3>1, <3>2
  <2> QED BY <1>7, <2>1, <2>3, <2>4 DEF Command
<1> QED BY <1>1, <1>2, <1>3, <1>4, <1>5, <1>6, <1>7 DEF Next

(* Every reachable state satisfies the invariant.                          *)
LEMMA GitSafe == Spec => []GitInv
  BY GitInit, GitStep, PTL DEF Spec

(* The branch an audit entry names is the branch the command changes, for  *)
(* any number of callers: all of them take the lock of one path.           *)
THEOREM AuditTellsTheBranchHolds == AllSpec => []AuditTellsTheBranch
<1>1. GitInv => AuditTellsTheBranch
  BY DEF GitInv
<1> QED BY <1>1, SideBySide, GitSafe, PTL

(* Without AllowDestructive no step of any caller loses an edit or takes a *)
(* commit from a branch.                                                   *)
LEMMA DestroysNothing ==
  GitInv /\ [Next]_vars /\ ~opts.destructive =>
    /\ Kept \ (IF merging /\ ~merging' THEN staged ELSE {}) \subseteq Kept'
    /\ \A b \in Branches : tip[b] \subseteq tip'[b] /\ remote[b] \subseteq remote'[b]
<1> DEFINE Lost == IF merging /\ ~merging' THEN staged ELSE {}
           Grows == /\ Kept \ Lost \subseteq Kept'
                    /\ \A b \in Branches : tip[b] \subseteq tip'[b] /\ remote[b] \subseteq remote'[b]
<1> SUFFICES ASSUME GitInv, [Next]_vars, ~opts.destructive PROVE Grows
  OBVIOUS
<1> USE DEF GitInv, GitTypes
<1>1. ASSUME \A b \in Branches : tip[b] \subseteq tip'[b],
             \A e \in (work \union untracked) \ Lost :
               e \in work' \union untracked' \/ \E b \in Branches : e \in tip'[b]
      PROVE  Kept \ Lost \subseteq Kept'
  <2> SUFFICES ASSUME NEW e \in Kept, e \notin Lost PROVE e \in Kept'
    OBVIOUS
  <2>1. e \in work \union untracked \/ \E b \in Branches : e \in tip[b]
    BY DEF Kept
  <2>2. e \in work' \union untracked' \/ \E b \in Branches : e \in tip'[b]
    BY <1>1, <2>1
  <2>3. Kept' = work' \union untracked' \union UNION {tip'[b] : b \in Branches}
    BY DEF Kept
  <2> HIDE DEF Lost
  <2> QED BY <2>2, <2>3
<1>2. ASSUME NEW c \in Callers, NEW o \in Reckless, Runs(c, o) PROVE FALSE
  BY <1>2 DEF Runs, RecklessIsAllowed
<1>3. CASE UNCHANGED vars
  BY <1>3 DEF vars, repoVars, treeVars, Kept
<1>4. CASE Edit
  BY <1>4, <1>1 DEF Edit
<1>5. ASSUME NEW c \in Callers, UNCHANGED repoVars PROVE Grows
  BY <1>5, <1>1 DEF repoVars, treeVars
<1>6. ASSUME NEW c \in Callers, Command(c) PROVE Grows
  <2>1. CASE Add(c) \/ AddAll(c) \/ Reset(c) \/ CheckoutBranch(c) \/ Fetch(c)
    BY <2>1, <1>1 DEF Add, AddAll, Reset, CheckoutBranch, Fetch, repoVars, treeVars
  <2>2. CASE Commit(c)
    <3>1. \A b \in Branches : tip[b] \subseteq tip'[b]
      BY <2>2 DEF Commit
    <3>2. staged \subseteq tip'[head]
      BY <2>2 DEF Commit
    <3> QED BY <2>2, <1>1, <3>1, <3>2 DEF Commit
  <2>3. CASE Push(c)
    BY <2>3, <1>1 DEF Push, treeVars
  <2>4. CASE Merge(c)
    <3>1. \A b \in Branches : tip[b] \subseteq tip'[b]
      BY <2>4 DEF Merge
    <3> QED BY <2>4, <1>1, <3>1 DEF Merge
  <2>5. CASE MergeAbort(c)
    BY <2>5, <1>1 DEF MergeAbort
  <2>6. CASE CheckoutFiles(c) \/ Clean(c) \/ ResetHard(c) \/ ForcePush(c)
    BY <2>6, <1>2 DEF CheckoutFiles, Clean, ResetHard, ForcePush, Reckless
  <2> QED BY <1>6, <2>1, <2>2, <2>3, <2>4, <2>5, <2>6 DEF Command
<1> QED BY <1>3, <1>4, <1>5, <1>6 DEF Next, Call, Lock, ReadBranch, Fails

(* No sequence of calls of any number of callers destroys anything unless  *)
(* the options allow it: each of the four that can is refused before it    *)
(* takes the lock, and the others only add or carry along.                 *)
THEOREM NothingDestroyedHolds == AllSpec => NothingDestroyed
<1>1. GitInv /\ [Next]_vars =>
        [~opts.destructive =>
           /\ Kept \ (IF merging /\ ~merging' THEN staged ELSE {}) \subseteq Kept'
           /\ \A b \in Branches : tip[b] \subseteq tip'[b] /\ remote[b] \subseteq remote'[b]]_vars
  BY DestroysNothing
<1> QED BY <1>1, SideBySide, GitSafe, PTL DEF Spec, NothingDestroyed

-----------------------------------------------------------------------------
(* The worktrees.                                                          *)

TreeTypes ==
  /\ trees_pc \in [Units -> {"idle", "setup", "has", "rebase", "resolve", "continue", "push"}]
  /\ trees_rebase \in [Units -> {"none", "conflict", "staged"}]
  /\ trees_base \in [Units -> Nat]
  /\ trees_remote \in [Units -> Nat \union {Trees!None}]
  /\ trees_fetched \in Nat /\ trees_target \in Nat

(* From the first conflict to the push, the rebase is open (and git will   *)
(* refuse to push), or the branch stands on what was fetched, or the agent *)
(* undid the rebase and failed.                                            *)
MergeInOrder ==
  \A u \in Units : trees_pc[u] \in {"resolve", "push"} =>
    \/ trees_rebase[u] # "none"
    \/ trees_base[u] = trees_fetched
    \/ u \in trees_undone

TreeInv == TreeTypes /\ MergeInOrder

LEMMA TreeInit == Trees!Init => TreeInv
  BY DEF Trees!Init, Trees!None, TreeInv, TreeTypes, MergeInOrder

LEMMA TreeStep == TreeInv /\ [Trees!Next]_(Trees!vars) => TreeInv'
<1> SUFFICES ASSUME TreeInv, [Trees!Next]_(Trees!vars) PROVE TreeInv'
  OBVIOUS
<1> USE DEF TreeInv, TreeTypes, MergeInOrder, Trees!trees, Trees!merging, Trees!deletes, Trees!Goto
<1>1. CASE UNCHANGED Trees!vars
  BY <1>1 DEF Trees!vars
<1>2. CASE Trees!Cleanup \/ Trees!CleanupOrphans \/ Trees!StartFlush \/ Trees!TargetMoves
  BY <1>2 DEF Trees!Cleanup, Trees!CleanupOrphans, Trees!StartFlush, Trees!TargetMoves
<1>3. ASSUME NEW u \in Units, Trees!Create(u) PROVE TreeInv'
  <2>1. CASE Trees!Add(u)
    BY <2>1 DEF Trees!Add
  <2> QED BY <1>3, <2>1 DEF Trees!Create, Trees!Resume, Trees!RunSetupCommands, Trees!SetupFails
<1>4. ASSUME NEW u \in Units, Trees!Merge(u) PROVE TreeInv'
  <2> USE DEF Trees!GiveUp, Trees!Aborted, Trees!Rebased, Trees!LeftOpen, Trees!AgentWorks
  \* The mutex: no other merge is under way when the target is fetched.
  <2>1. CASE Trees!Fetch(u)
    BY <2>1 DEF Trees!Fetch, Trees!Locked, Trees!Merging
  <2>2. CASE Trees!Rebase(u)
    BY <2>2 DEF Trees!Rebase
  <2>3. CASE Trees!Resolve(u)
    BY <2>3 DEF Trees!Resolve
  <2>4. CASE Trees!ContinueRebase(u)
    BY <2>4 DEF Trees!ContinueRebase
  <2>5. CASE Trees!Push(u)
    BY <2>5 DEF Trees!Push
  <2> QED BY <1>4, <2>1, <2>2, <2>3, <2>4, <2>5 DEF Trees!Merge
<1>5. ASSUME NEW u \in Units, Trees!RunEnds(u) \/ Trees!CleanupOne(u) \/ Trees!FlushDelete(u)
      PROVE  TreeInv'
  BY <1>5 DEF Trees!RunEnds, Trees!CleanupOne, Trees!FlushDelete, Trees!None
<1> QED BY <1>1, <1>2, <1>3, <1>4, <1>5 DEF Trees!Next

LEMMA TreeSafe == Trees!Spec => []TreeInv
  BY TreeInit, TreeStep, PTL DEF Trees!Spec

LEMMA PushesRebased ==
  TreeInv /\ [Trees!Next]_(Trees!vars) =>
    \A u \in Units : trees_remote'[u] # trees_remote[u] /\ trees_remote'[u] # Trees!None
      => /\ trees_rebase[u] = "none"
         /\ trees_remote'[u] = trees_fetched \/ u \in trees_undone
<1> SUFFICES ASSUME TreeInv, [Trees!Next]_(Trees!vars), NEW u \in Units,
                    trees_remote'[u] # trees_remote[u], trees_remote'[u] # Trees!None
             PROVE  /\ trees_rebase[u] = "none"
                    /\ trees_remote'[u] = trees_fetched \/ u \in trees_undone
  OBVIOUS
<1> USE DEF TreeInv, TreeTypes, MergeInOrder, Trees!trees, Trees!merging, Trees!deletes
<1>1. ASSUME NEW v \in Units, Trees!Push(v)
      PROVE  /\ trees_rebase[u] = "none"
             /\ trees_remote'[u] = trees_fetched \/ u \in trees_undone
  BY <1>1 DEF Trees!Push
<1>2. ASSUME NEW v \in Units, Trees!FlushDelete(v) PROVE FALSE
  BY <1>2 DEF Trees!FlushDelete
<1>3. ASSUME UNCHANGED trees_remote PROVE FALSE
  BY <1>3
<1> QED BY <1>1, <1>2, <1>3 DEF Trees!vars, Trees!Next, Trees!Cleanup, Trees!CleanupOrphans,
           Trees!StartFlush, Trees!TargetMoves, Trees!Create, Trees!Resume, Trees!Add,
           Trees!RunSetupCommands, Trees!SetupFails, Trees!Merge, Trees!Fetch, Trees!Rebase, Trees!Resolve,
           Trees!ContinueRebase, Trees!RunEnds, Trees!CleanupOne

(* A rebase that was given up or left open never reaches the remote, for   *)
(* any number of units, turns and moves of the target: what is pushed was  *)
(* rebased, or the agent aborted the rebase and then failed.               *)
THEOREM PushedIsRebasedHolds == AllSpec => PushedIsRebased
<1>1. TreeInv /\ [Trees!Next]_(Trees!vars) =>
        [\A u \in Units : trees_remote'[u] # trees_remote[u] /\ trees_remote'[u] # Trees!None
           => trees_rebase[u] = "none" /\ (trees_remote'[u] = trees_fetched \/ u \in trees_undone)]_(Trees!vars)
  BY PushesRebased
<1> QED BY <1>1, SideBySide, TreeSafe, PTL DEF Trees!Spec, PushedIsRebased, Trees!PushedIsRebased
=============================================================================
