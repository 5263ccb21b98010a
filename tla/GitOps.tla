------------------------------- MODULE GitOps -------------------------------
(***************************************************************************)
(* The guarded git operations on one working tree, called by several       *)
(* goroutines: what is checked before the lock of the path is taken, and   *)
(* what the command then does to the repository.                           *)
(*                                                                         *)
(* An edit of a file is its number; a branch holds the edits of its        *)
(* commits.  The operations that only read are left out: they take no      *)
(* lock and change nothing.                                                *)
(***************************************************************************)
EXTENDS Naturals, FiniteSets

CONSTANTS
  Callers,    \* goroutines
  Branches,
  Protected,  \* branches the guard refuses
  MaxEdits    \* bound: edits made

NoOne == "nobody"

ASSUME GitAssumption ==
  Protected \subseteq Branches /\ MaxEdits \in Nat /\ NoOne \notin Callers

VARIABLES
  opts,      \* GitOpsOpts: whether destructive calls are allowed, and a guard given
  head,      \* the branch of HEAD
  tip,       \* branch -> edits committed on it
  remote,    \* branch -> edits on the remote
  work,      \* edits of tracked files that are in no commit of HEAD
  untracked, \* edits that are new files
  staged,    \* edits in the index
  merging,   \* whether a merge is in progress
  edits,     \* edits made so far
  lock,      \* the holder of the path's lock, or NoOne
  pc,        \* caller -> "idle", "checked", "locked", "read"
  op,        \* caller -> the operation
  seen       \* caller -> the branch it will write to the audit log

treeVars == <<work, untracked, staged, merging>>
repoVars == <<head, tip, remote, treeVars, edits>>
callVars == <<lock, pc, op, seen>>
vars == <<opts, repoVars, callVars>>

Reckless == {"CheckoutFiles", "Clean", "ResetHard", "ForcePush"}
Guarded == {"Commit", "ResetHard", "Push", "ForcePush", "Merge"}
Unlocked == {"Add", "AddAll", "Fetch"}
ReadsBranch == {"Commit", "ResetHard", "Merge"}
Operations == Reckless \union Guarded \union Unlocked
                \union {"Reset", "CheckoutBranch", "MergeAbort"}

(* Worktrees: destructive calls, no guard.  (The repository's root has a   *)
(* guard and nothing destructive.)                                         *)
NewWorktreeGitOps == [destructive |-> TRUE, guard |-> FALSE]

Init ==
  /\ opts \in [destructive : BOOLEAN, guard : BOOLEAN]
  /\ head \in Branches
  /\ tip = [b \in Branches |-> {}] /\ remote = [b \in Branches |-> {}]
  /\ work = {} /\ untracked = {} /\ staged = {} /\ merging = FALSE /\ edits = 0
  /\ lock = NoOne
  /\ pc = [c \in Callers |-> "idle"] /\ op = [c \in Callers |-> "none"]
  /\ seen = [c \in Callers |-> NoOne]

-----------------------------------------------------------------------------
(* The steps every call takes.                                             *)

(* validateBranchGuard.                                                    *)
GuardAllows == opts.guard => head \notin Protected

\* Mutant of Call: the option is not looked at.
CallAnyway(c, o) ==
  /\ pc[c] = "idle"
  /\ o \in Guarded => GuardAllows
  /\ pc' = [pc EXCEPT ![c] = "checked"] /\ op' = [op EXCEPT ![c] = o]
  /\ UNCHANGED <<opts, repoVars, lock, seen>>

(* The options, validateRuntime and the guard.  A refused call changes     *)
(* nothing.                                                                *)
Call(c, o) ==
  /\ pc[c] = "idle"
  /\ o \in Reckless => opts.destructive
  /\ o \in Guarded => GuardAllows
  /\ pc' = [pc EXCEPT ![c] = "checked"] /\ op' = [op EXCEPT ![c] = o]
  /\ UNCHANGED <<opts, repoVars, lock, seen>>

(* getRepoLock, by path: one lock for all the callers of a working tree.   *)
Lock(c) ==
  /\ pc[c] = "checked" /\ op[c] \notin Unlocked
  /\ lock = NoOne /\ lock' = c
  /\ pc' = [pc EXCEPT ![c] = "locked"]
  /\ UNCHANGED <<opts, repoVars, op, seen>>

(* currentBranchInternal, for the audit entry.                             *)
ReadBranch(c) ==
  /\ pc[c] = "locked" /\ op[c] \in ReadsBranch
  /\ seen' = [seen EXCEPT ![c] = head]
  /\ pc' = [pc EXCEPT ![c] = "read"]
  /\ UNCHANGED <<opts, repoVars, lock, op>>

(* The command runs, and the call returns.                                 *)
Runs(c, o) ==
  /\ op[c] = o
  /\ pc[c] = IF o \in Unlocked THEN "checked" ELSE IF o \in ReadsBranch THEN "read" ELSE "locked"
  /\ pc' = [pc EXCEPT ![c] = "idle"] /\ op' = [op EXCEPT ![c] = "none"]
  /\ seen' = [seen EXCEPT ![c] = NoOne]
  /\ lock' = IF lock = c THEN NoOne ELSE lock
  /\ UNCHANGED opts

(* The working tree is gone, git refuses, or the context has ended.        *)
Fails(c) ==
  /\ pc[c] # "idle" /\ (op[c] \notin Unlocked => lock = c)
  /\ Runs(c, op[c])
  /\ UNCHANGED repoVars

-----------------------------------------------------------------------------
(* The commands.                                                           *)

Add(c) ==
  /\ Runs(c, "Add")
  /\ \E e \in work \union untracked : staged' = staged \union {e}
  /\ UNCHANGED <<head, tip, remote, work, untracked, merging, edits>>

AddAll(c) ==
  /\ Runs(c, "AddAll")
  /\ staged' = work \union untracked
  /\ UNCHANGED <<head, tip, remote, work, untracked, merging, edits>>

(* git reset HEAD, which also forgets a merge.                             *)
Reset(c) ==
  /\ Runs(c, "Reset")
  /\ staged' = {} /\ merging' = FALSE
  /\ UNCHANGED <<head, tip, remote, work, untracked, edits>>

Commit(c) ==
  /\ Runs(c, "Commit") /\ (staged # {} \/ merging)
  /\ tip' = [tip EXCEPT ![head] = @ \union staged]
  /\ work' = work \ staged /\ untracked' = untracked \ staged
  /\ staged' = {} /\ merging' = FALSE
  /\ UNCHANGED <<head, remote, edits>>

\* Mutant of CheckoutBranch: it takes no lock.
CheckoutUnlocked(c) ==
  /\ op[c] = "CheckoutBranch" /\ pc[c] = "checked" /\ ~merging
  /\ pc' = [pc EXCEPT ![c] = "idle"] /\ op' = [op EXCEPT ![c] = "none"]
  /\ head' \in Branches
  /\ UNCHANGED <<opts, lock, seen, tip, remote, treeVars, edits>>

(* The guard does not speak of the branch that is checked out; git carries *)
(* the edits along or refuses.                                             *)
CheckoutBranch(c) ==
  /\ Runs(c, "CheckoutBranch") /\ ~merging
  /\ head' \in Branches
  /\ UNCHANGED <<tip, remote, treeVars, edits>>

CheckoutFiles(c) ==
  /\ Runs(c, "CheckoutFiles")
  /\ \E es \in SUBSET (work \ staged) : work' = work \ es
  /\ UNCHANGED <<head, tip, remote, untracked, staged, merging, edits>>

Clean(c) ==
  /\ Runs(c, "Clean")
  /\ untracked' = untracked \intersect staged
  /\ UNCHANGED <<head, tip, remote, work, staged, merging, edits>>

ResetHard(c) ==
  /\ Runs(c, "ResetHard")
  /\ \E b \in Branches, r \in {tip, remote} : tip' = [tip EXCEPT ![head] = r[b]]
  /\ work' = {} /\ untracked' = untracked \ staged /\ staged' = {} /\ merging' = FALSE
  /\ UNCHANGED <<head, remote, edits>>

(* The branch that is pushed need not be the one of HEAD.                  *)
Push(c) ==
  /\ Runs(c, "Push")
  /\ \E b \in Branches : remote[b] \subseteq tip[b] /\ remote' = [remote EXCEPT ![b] = tip[b]]
  /\ UNCHANGED <<head, tip, treeVars, edits>>

ForcePush(c) ==
  /\ Runs(c, "ForcePush")
  /\ \E b \in Branches : remote' = [remote EXCEPT ![b] = tip[b]]
  /\ UNCHANGED <<head, tip, treeVars, edits>>

(* git refuses to merge over a staged edit; a merge that conflicts, or one *)
(* with --no-commit, stays in progress.                                    *)
Merge(c) ==
  /\ Runs(c, "Merge") /\ staged = {} /\ ~merging
  /\ \/ \E b \in Branches : tip' = [tip EXCEPT ![head] = @ \union tip[b]]
        /\ UNCHANGED merging
     \/ merging' = TRUE /\ UNCHANGED tip
  /\ UNCHANGED <<head, remote, work, untracked, staged, edits>>

(* reset --merge: what is staged goes, what is not stays.                  *)
MergeAbort(c) ==
  /\ Runs(c, "MergeAbort") /\ merging
  /\ merging' = FALSE /\ staged' = {}
  /\ work' = work \ staged /\ untracked' = untracked \ staged
  /\ UNCHANGED <<head, tip, remote, edits>>

(* Fetch moves no branch of the working tree.                              *)
Fetch(c) == Runs(c, "Fetch") /\ UNCHANGED repoVars

(* External: the agent or the user edits a file, or writes a new one.      *)
Edit ==
  /\ edits < MaxEdits /\ edits' = edits + 1
  /\ \/ work' = work \union {edits'} /\ UNCHANGED untracked
     \/ untracked' = untracked \union {edits'} /\ UNCHANGED work
  /\ UNCHANGED <<opts, head, tip, remote, staged, merging, callVars>>

Command(c) ==
  \/ Add(c) \/ AddAll(c) \/ Reset(c) \/ Commit(c) \/ CheckoutBranch(c) \/ CheckoutFiles(c)
  \/ Clean(c) \/ ResetHard(c) \/ Push(c) \/ ForcePush(c) \/ Merge(c) \/ MergeAbort(c) \/ Fetch(c)

Next ==
  \/ Edit
  \/ \E c \in Callers :
       \/ \E o \in Operations : Call(c, o)
       \/ Lock(c) \/ ReadBranch(c) \/ Command(c) \/ Fails(c)

Spec == Init /\ [][Next]_vars

-----------------------------------------------------------------------------
(* Properties.                                                             *)

(* The branch an audit entry names is the branch the command changes,      *)
(* whatever other callers check out meanwhile.                             *)
AuditTellsTheBranch ==
  \A c \in Callers : pc[c] = "read" => seen[c] = head

Kept == work \union untracked \union UNION {tip[b] : b \in Branches}

(* Without AllowDestructive no sequence of calls of any callers loses an   *)
(* edit or takes a commit from a branch, here or on the remote; only what  *)
(* was staged in a merge goes with it.                                     *)
NothingDestroyed ==
  [][~opts.destructive =>
       /\ Kept \ (IF merging /\ ~merging' THEN staged ELSE {}) \subseteq Kept'
       /\ \A b \in Branches : tip[b] \subseteq tip'[b] /\ remote[b] \subseteq remote'[b]]_vars
=============================================================================
