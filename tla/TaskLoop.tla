------------------------------ MODULE TaskLoop ------------------------------
(***************************************************************************)
(* What a worker does in its worktree before the merge: setup or reuse of  *)
(* the worktree, the loop that lets the provider complete one task after   *)
(* the other, the baseline checks and the advisory code review.            *)
(*                                                                         *)
(* A task's status is in three places: the task in memory, the task file   *)
(* in the worktree (which only the provider writes) and the last commit.   *)
(* The provider is free: any of the listed tasks marked, anything edited,  *)
(* a commit of its own, an error at the end.  Other files are one flag.    *)
(***************************************************************************)
EXTENDS Naturals, FiniteSets

CONSTANTS
  Tasks,        \* task numbers; the order of the task files
  DependsOn,    \* task -> the numbers its frontmatter names
  Marks,        \* the statuses the provider writes
  MaxClaude,    \* MaxClaudeRetries
  MaxBaseline,  \* MaxBaselineRetries
  MaxFix,       \* MaxFixIterations of the review
  MaxRuns       \* bound: runs of the worker on this worktree

TaskStatus == {"pending", "in_progress", "complete", "failed"}
FileStatus == TaskStatus \union {"unreadable"}

ASSUME TaskAssumption ==
  /\ Tasks \subseteq Nat /\ IsFiniteSet(Tasks)
  /\ DependsOn \in [Tasks -> SUBSET Nat]
  /\ Marks \subseteq FileStatus
  /\ {MaxClaude, MaxBaseline, MaxFix, MaxRuns} \subseteq Nat \ {0}

VARIABLES
  target,    \* task -> its status on the target branch
  memory,    \* task -> its status in w.unit.Tasks
  file,      \* task -> its status in the worktree
  head,      \* task -> its status in the worktree's last commit
  edited,    \* whether other files differ from that commit
  passed,    \* tasks whose backpressure has passed
  trusted,   \* tasks found complete when a run began
  pc,        \* the phase of the worker
  ready,     \* the tasks in the current prompt
  chosen,    \* the task under backpressure or commit, 0 if none
  attempt,   \* attempts used up in this phase
  review,    \* how the review ended
  cancelled, \* whether the worker's context is cancelled
  runs       \* runs begun

tree == <<file, head, edited>>
vars ==
  <<target, memory, tree, passed, trusted, pc, ready, chosen, attempt, review, cancelled, runs>>

Ended == {"merging", "failed"}

Init ==
  /\ target \in [Tasks -> {"pending", "complete"}]
  /\ memory = target /\ file = target /\ head = target /\ edited = FALSE
  /\ passed = {} /\ trusted = {t \in Tasks : target[t] = "complete"}
  /\ pc = "select" /\ ready = {} /\ chosen = 0 /\ attempt = 0
  /\ review = "none" /\ cancelled = FALSE /\ runs = 1

-----------------------------------------------------------------------------
(* The tree.                                                               *)

Clean == file = head /\ ~edited

CommitAll == head' = file /\ edited' = FALSE /\ UNCHANGED file

(* The provider's turn: it marks the tasks of S, edits, maybe commits.     *)
ProviderActs(S) ==
  \E marked \in SUBSET S, s \in Marks :
    /\ file' = [t \in Tasks |-> IF t \in marked THEN s ELSE file[t]]
    /\ \/ head' = head /\ edited' \in {edited, TRUE}
       \/ head' = file' /\ edited' = FALSE

\* Mutant of Cleanup: without the checkout.
CleanupUntracked == edited' = FALSE /\ UNCHANGED <<file, head>>

(* cleanupWorktree: reset, clean, checkout; nothing runs when cancelled.   *)
Cleanup ==
  IF cancelled THEN UNCHANGED tree
  ELSE file' = head /\ edited' = FALSE /\ UNCHANGED head

-----------------------------------------------------------------------------
(* The task loop.                                                          *)

Complete(t) == memory[t] = "complete"

IsReady(t) == memory[t] = "pending" /\ \A d \in DependsOn[t] : d \in Tasks /\ Complete(d)

(* findReadyTasks, and what is left to do if there are none: the unit's    *)
(* work is done, or some task has failed or can never become ready.        *)
Select ==
  /\ pc = "select"
  /\ ready' = {t \in Tasks : IsReady(t)}
  /\ pc' = IF ready' # {} THEN "invoke"
           ELSE IF \A t \in Tasks : Complete(t) THEN "baseline" ELSE "failed"
  /\ attempt' = 0 /\ chosen' = 0
  /\ UNCHANGED <<target, memory, tree, passed, trusted, review, cancelled, runs>>

Invoke ==
  /\ pc = "invoke"
  /\ IF attempt < MaxClaude
     THEN ProviderActs(ready) /\ pc' = "verify"
     ELSE pc' = "failed" /\ UNCHANGED tree
  /\ UNCHANGED <<target, memory, passed, trusted, ready, chosen, attempt, review, cancelled, runs>>

(* verifyTaskComplete on each listed task: the first that its file calls   *)
(* complete, whatever the provider's exit was.                             *)
Verify ==
  /\ pc = "verify"
  /\ LET done == {t \in ready : file[t] = "complete"}
     IN  IF done = {}
         THEN /\ pc' = "invoke" /\ attempt' = attempt + 1
              /\ UNCHANGED chosen
         ELSE /\ pc' = "backpressure"
              /\ chosen' = CHOOSE t \in done : \A u \in done : t <= u
              /\ UNCHANGED attempt
  /\ UNCHANGED <<target, memory, tree, passed, trusted, ready, review, cancelled, runs>>

\* Mutant of BackpressureFails: the attempt counts as done.
BackpressureWaived ==
  /\ pc = "backpressure"
  /\ pc' = "commit"
  /\ memory' = [memory EXCEPT ![chosen] = "complete"]
  /\ UNCHANGED <<target, tree, passed, trusted, ready, chosen, attempt, review, cancelled, runs>>

(* The file keeps its status.                                              *)
BackpressureFails ==
  /\ pc = "backpressure"
  /\ pc' = "invoke" /\ attempt' = attempt + 1
  /\ UNCHANGED <<target, memory, tree, passed, trusted, ready, chosen, review, cancelled, runs>>

BackpressurePasses ==
  /\ pc = "backpressure" /\ ~cancelled
  /\ pc' = "commit"
  /\ passed' = passed \union {chosen}
  /\ memory' = [memory EXCEPT ![chosen] = "complete"]
  /\ UNCHANGED <<target, tree, trusted, ready, chosen, attempt, review, cancelled, runs>>

\* Mutant of CommitTask: the error is ignored.
CommitTaskMaybe ==
  /\ pc = "commit"
  /\ pc' = "select"
  /\ CommitAll \/ UNCHANGED tree
  /\ UNCHANGED <<target, memory, passed, trusted, ready, chosen, attempt, review, cancelled, runs>>

(* git add -A and git commit, which fails with nothing to commit.          *)
CommitTask ==
  /\ pc = "commit"
  /\ \/ ~Clean /\ CommitAll /\ pc' = "select"
     \/ UNCHANGED tree /\ pc' = "failed"
  /\ UNCHANGED <<target, memory, passed, trusted, ready, chosen, attempt, review, cancelled, runs>>

-----------------------------------------------------------------------------
(* runBaselinePhase.                                                       *)

BaselinePasses ==
  /\ pc = "baseline" /\ ~cancelled
  /\ pc' = "review" /\ attempt' = 0
  /\ UNCHANGED <<target, memory, tree, passed, trusted, ready, chosen, review, cancelled, runs>>

BaselineFails ==
  /\ pc = "baseline"
  /\ pc' = IF attempt < MaxBaseline THEN "fix" ELSE "failed"
  /\ UNCHANGED <<target, memory, tree, passed, trusted, ready, chosen, attempt, review, cancelled,
                 runs>>

(* The provider fails: the next attempt follows, without a new check.      *)
FixBaseline ==
  /\ pc = "fix"
  /\ ProviderActs({})
  /\ attempt' = attempt + 1
  /\ pc' = IF attempt' < MaxBaseline THEN "fix" ELSE "failed"
  /\ UNCHANGED <<target, memory, passed, trusted, ready, chosen, review, cancelled, runs>>

(* It succeeds: add (an error of which ends the unit), commit (an error of *)
(* which is ignored), check again.                                         *)
FixedBaseline ==
  /\ pc = "fix" /\ ~cancelled
  /\ \/ CommitAll /\ pc' = "baseline"
     \/ file' = file /\ head' = head /\ edited' \in {edited, TRUE}
        /\ pc' \in {"baseline", "failed"}
  /\ attempt' = attempt + 1
  /\ UNCHANGED <<target, memory, passed, trusted, ready, chosen, review, cancelled, runs>>

-----------------------------------------------------------------------------
(* runCodeReview; the merge follows whatever comes of it.                  *)

(* No reviewer, a failed review, no issues, or no fix loop configured.     *)
ReviewEnds ==
  /\ pc = "review"
  /\ pc' = "merging" /\ review' = "passed"
  /\ UNCHANGED <<target, memory, tree, passed, trusted, ready, chosen, attempt, cancelled, runs>>

ReviewFindsIssues ==
  /\ pc = "review" /\ ~cancelled
  /\ pc' = "review_fix" /\ attempt' = 0
  /\ UNCHANGED <<target, memory, tree, passed, trusted, ready, chosen, review, cancelled, runs>>

(* The provider acts and succeeds or not.                                  *)
FixReview ==
  /\ pc = "review_fix" /\ attempt < MaxFix
  /\ ProviderActs({})
  /\ pc' \in {"review_commit", "review_cleanup"}
  /\ UNCHANGED <<target, memory, passed, trusted, ready, chosen, attempt, review, cancelled, runs>>

(* commitReviewFixes: nothing changed, committed, or failed.               *)
CommitReviewFix ==
  /\ pc = "review_commit"
  /\ \/ Clean /\ UNCHANGED tree /\ pc' = "review_fix" /\ UNCHANGED review
     \/ ~Clean /\ ~cancelled /\ CommitAll /\ pc' = "merging" /\ review' = "fixed"
     \/ ~Clean /\ UNCHANGED tree /\ pc' = "review_cleanup" /\ UNCHANGED review
  /\ attempt' = IF pc' = "review_fix" THEN attempt + 1 ELSE attempt
  /\ UNCHANGED <<target, memory, passed, trusted, ready, chosen, cancelled, runs>>

CleanupReviewFix ==
  /\ pc = "review_cleanup"
  /\ Cleanup
  /\ pc' = "review_fix" /\ attempt' = attempt + 1
  /\ UNCHANGED <<target, memory, passed, trusted, ready, chosen, review, cancelled, runs>>

ReviewUnfixed ==
  /\ pc = "review_fix" /\ attempt = MaxFix
  /\ Cleanup
  /\ pc' = "merging" /\ review' = "unfixed"
  /\ UNCHANGED <<target, memory, passed, trusted, ready, chosen, attempt, cancelled, runs>>

-----------------------------------------------------------------------------
Cancel ==
  /\ pc \notin Ended /\ ~cancelled
  /\ cancelled' = TRUE
  /\ UNCHANGED <<target, memory, tree, passed, trusted, pc, ready, chosen, attempt, review, runs>>

(* Killed at any point or failed, the unit is run again: discovery reads   *)
(* the target branch, setupWorktree finds the worktree and takes the       *)
(* statuses of its files as they are, those it cannot read excepted.       *)
RunAgain ==
  /\ pc # "merging" /\ runs < MaxRuns
  /\ runs' = runs + 1
  /\ memory' = [t \in Tasks |-> IF file[t] = "unreadable" THEN target[t] ELSE file[t]]
  /\ pc' = "select" /\ ready' = {} /\ chosen' = 0 /\ attempt' = 0
  /\ trusted' = trusted \union {t \in Tasks : memory'[t] = "complete"}
  /\ review' = "none" /\ cancelled' = FALSE
  /\ UNCHANGED <<target, tree, passed>>

WorkerStep ==
  \/ Select \/ Invoke \/ Verify \/ BackpressureFails \/ BackpressurePasses \/ CommitTask
  \/ BaselinePasses \/ BaselineFails \/ FixBaseline \/ FixedBaseline
  \/ ReviewEnds \/ ReviewFindsIssues \/ FixReview \/ CommitReviewFix \/ CleanupReviewFix
  \/ ReviewUnfixed

Next == WorkerStep \/ Cancel \/ RunAgain

Spec == Init /\ [][Next]_vars

-----------------------------------------------------------------------------
(* Properties.                                                             *)

(* A unit goes on to the merge only with every task validated by its own   *)
(* backpressure command, however many the provider marked at once, except  *)
(* for those a run found complete in the files it began with ...           *)
MergedIsValidated == pc = "merging" => Tasks \subseteq passed \union trusted

(* ... and with all those tasks complete in what is merged, the last       *)
(* commit, whatever the fixes of baseline and review did to the worktree.  *)
MergedIsCommitted ==
  pc = "merging" => \A t \in Tasks \ trusted : head[t] = "complete"

(* No task is accepted before the tasks it depends on, even if the         *)
(* provider works ahead.                                                   *)
AcceptedInOrder == \A t \in passed : DependsOn[t] \subseteq passed \union trusted

(* What the merge takes, and in which order it was accepted.               *)
ValidatedInOrder == MergedIsValidated /\ AcceptedInOrder

(* What the specification of the worker says: each task has a command that *)
(* must pass before the task is considered complete.  A task that is not   *)
(* complete on the target needs it, in this run or an earlier one.  One    *)
(* run keeps to it; the next one trusts the files it finds.  (With a dirty *)
(* worktree the rebase of the merge refuses to start.)                     *)
EveryTaskValidated ==
  pc = "merging" /\ Clean => \A t \in Tasks : target[t] = "complete" \/ t \in passed

(* Review issues that could not be fixed leave no half-made fix behind.    *)
FailedFixLeavesNoTrace == review = "unfixed" /\ ~cancelled => Clean
=============================================================================
