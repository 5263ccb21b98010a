------------------------------ MODULE Completion ------------------------------
(***************************************************************************)
(* The end of a feature: archiving the finished specifications and units,  *)
(* committing the moves, pushing the branch and opening the pull request.  *)
(*                                                                         *)
(* Orchestrator.Run only pushes and opens the pull request; Complete, the  *)
(* flow with the archive, has no caller, and choo archive moves the        *)
(* specification files alone.                                              *)
(***************************************************************************)
CONSTANTS
  Specs,   \* specification files
  Units    \* unit directories

VARIABLES
  mode,      \* "none", "feature" or "nopr"
  complete,  \* files that say complete, units all of whose tasks say so
  taken,     \* items of an earlier feature in completed/ with the same name
  tree,      \* items archived in the working tree
  head,      \* in HEAD
  remote,    \* on the remote branch
  mine,      \* whether files of the user are uncommitted
  flow,      \* "complete" or "run": what was called
  pc,        \* "idle", "archive", "commit", "push", "pr", "ok" or "error"
  todo,      \* items the archive has still to look at
  misread,   \* history: finished items this Complete could not read
  waived,    \* whether a commit that ended with exit code 1 was waived
  pr         \* whether the pull request is open

Items == Specs \union Units

repo == <<tree, head, remote, mine>>
call == <<flow, pc, todo, misread, waived>>
vars == <<mode, complete, taken, repo, call, pr>>

Init ==
  /\ mode \in {"none", "feature", "nopr"}
  /\ complete = {} /\ taken \in SUBSET Items
  /\ tree = {} /\ head = {} /\ remote = {} /\ mine \in BOOLEAN
  /\ flow = "run" /\ pc = "idle" /\ todo = {} /\ misread = {} /\ waived = FALSE
  /\ pr = FALSE

Resting == pc \in {"idle", "ok", "error"}
Goto(from, to) == pc = from /\ pc' = to

(* The run merges a unit whose task files say complete.                    *)
ItemCompletes(i) ==
  /\ Resting /\ i \notin complete
  /\ complete' = complete \union {i} /\ pc' = "idle"
  /\ UNCHANGED <<mode, taken, repo, flow, todo, misread, waived, pr>>

-----------------------------------------------------------------------------
(* The two entries.                                                        *)

Complete ==
  /\ Resting /\ pc' = "archive" /\ flow' = "complete"
  /\ todo' = Items \ tree /\ misread' = {} /\ waived' = FALSE
  /\ UNCHANGED <<mode, complete, taken, repo, pr>>

(* Run, at its end, of what completed; it commits nothing.                 *)
CreateFeaturePR ==
  /\ Resting /\ flow' = "run" /\ waived' = FALSE
  /\ pc' = IF mode = "feature" THEN "push" ELSE "ok"
  /\ UNCHANGED <<mode, complete, taken, repo, todo, misread, pr>>

-----------------------------------------------------------------------------
(* runArchive.                                                             *)

(* The answer of ShouldArchive or IsUnitComplete; it is no for what cannot *)
(* be read.                                                                *)
ShouldArchive(i, answer) ==
  /\ answer => i \in complete
  /\ misread' = IF i \in complete /\ ~answer THEN misread \union {i} ELSE misread

(* Files first.  A file replaces one of the same name; a directory is not  *)
(* moved over another one.  An error leaves those moved before where they  *)
(* are.                                                                    *)
Archive(i) ==
  /\ pc = "archive" /\ i \in todo
  /\ i \in Units => todo \intersect Specs = {}
  /\ \E answer \in BOOLEAN :
       /\ ShouldArchive(i, answer)
       /\ \/ /\ answer /\ (i \in Specs \/ i \notin taken)
             /\ tree' = tree \union {i} /\ taken' = taken \ {i}
             /\ todo' = todo \ {i} /\ UNCHANGED pc
          \/ ~answer /\ todo' = todo \ {i} /\ UNCHANGED <<tree, taken, pc>>
          \/ pc' = "error" /\ UNCHANGED <<tree, taken, todo>>
  /\ UNCHANGED <<mode, complete, head, remote, mine, flow, waived, pr>>

Archived ==
  /\ todo = {} /\ Goto("archive", "commit")
  /\ UNCHANGED <<mode, complete, taken, repo, flow, todo, misread, waived, pr>>

-----------------------------------------------------------------------------
(* commitArchive and the rest.                                             *)

Clean == tree = head /\ ~mine
AfterCommit == IF mode = "none" THEN "ok" ELSE "push"

(* git add -A takes the user's files too.                                  *)
Commit ==
  /\ Goto("commit", AfterCommit)
  /\ IF Clean THEN UNCHANGED repo
     ELSE head' = tree /\ mine' = FALSE /\ UNCHANGED <<tree, remote>>
  /\ UNCHANGED <<mode, complete, taken, flow, todo, misread, waived, pr>>

(* Exit code 1 counts as "no changes", also when a hook refused.           *)
CommitWaived ==
  /\ ~Clean /\ Goto("commit", AfterCommit) /\ waived' = TRUE
  /\ UNCHANGED <<mode, complete, taken, repo, flow, todo, misread, pr>>

\* Mutant of CommitFails: every error of the commit counts as "no changes".
CommitFailsUnseen ==
  /\ Goto("commit", AfterCommit)
  /\ UNCHANGED <<mode, complete, taken, repo, flow, todo, misread, waived, pr>>

(* git status, git add or git commit ends in another error.                *)
CommitFails ==
  /\ Goto("commit", "error")
  /\ UNCHANGED <<mode, complete, taken, repo, flow, todo, misread, waived, pr>>

PushFeatureBranch ==
  /\ pc = "push"
  /\ \/ remote' = head /\ pc' = IF mode = "nopr" THEN "ok" ELSE "pr"
     \/ UNCHANGED remote /\ pc' = "error"
  /\ UNCHANGED <<mode, complete, taken, tree, head, mine, flow, todo, misread, waived, pr>>

(* gh pr create refuses when there is one already; an answer that is lost  *)
(* is an error too.                                                        *)
CreatePR ==
  /\ pc = "pr"
  /\ \/ ~pr /\ pr' = TRUE /\ pc' \in {"ok", "error"}
     \/ UNCHANGED pr /\ pc' = "error"
  /\ UNCHANGED <<mode, complete, taken, repo, flow, todo, misread, waived>>

Crash ==
  /\ ~Resting /\ pc' = "idle"
  /\ UNCHANGED <<mode, complete, taken, repo, flow, todo, misread, waived, pr>>

(* External: the user clears an old archive, or changes a file.            *)
User ==
  /\ Resting /\ pc' = "idle"
  /\ \/ taken # {} /\ taken' = {} /\ UNCHANGED mine
     \/ mine' = TRUE /\ UNCHANGED taken
  /\ UNCHANGED <<mode, complete, tree, head, remote, flow, todo, misread, waived, pr>>

Next ==
  \/ \E i \in Items : ItemCompletes(i) \/ Archive(i)
  \/ Complete \/ CreateFeaturePR \/ Archived \/ Commit \/ CommitWaived \/ CommitFails
  \/ PushFeatureBranch \/ CreatePR \/ Crash \/ User

Spec == Init /\ [][Next]_vars

-----------------------------------------------------------------------------
(* Properties.                                                             *)

(* A Complete that returned without an error, after any failures, crashes  *)
(* and repetitions before it, has archived every finished item that it     *)
(* could read and put the archive where the pull request shows it:         *)
(* committed, unless the commit was waived, and pushed, unless there is    *)
(* nothing to push to.                                                     *)
ArchiveIsPublished ==
  pc = "ok" /\ flow = "complete" =>
    /\ complete \ tree \subseteq misread
    /\ ~waived => head = tree
    /\ mode # "none" => remote = head
=============================================================================
