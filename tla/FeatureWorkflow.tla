--------------------------- MODULE FeatureWorkflow ---------------------------
(***************************************************************************)
(* The life cycle of a feature (package feature): generating, reviewing    *)
(* and committing its specifications, the check that all of its units are  *)
(* done, and the drift detector.  One caller at a time; the status is kept *)
(* in memory only.  No command constructs a Workflow yet.                  *)
(***************************************************************************)
EXTENDS Naturals, FiniteSets

CONSTANTS
  MaxIterations,   \* of a review cycle
  PushRetries,
  Specs,           \* unit files under specs/tasks/<prd>
  Units,           \* the units the PRD knows
  MaxTriggers      \* bound on PRCreated events

FeatureAssumption ==
  /\ MaxIterations \in Nat \ {0} /\ PushRetries \in Nat /\ MaxTriggers \in Nat
  /\ IsFiniteSet(Specs \union Units)

VARIABLES
  status,     \* of the Workflow
  call,       \* "none", "resume", "run", "commit" or "push"
  count,      \* iterations of the review cycle, or pushes, of this call
  reviews,    \* reviews of this call
  waived,     \* whether the last review was skipped by Resume
  verdict,    \* of the last review: "none", "pass", "revise" or "bad"
  specs,      \* the files: "none", "written" or "committed"
  remote,     \* whether the commit is on the remote
  done,       \* units with status complete
  created,    \* PRCreated events
  body, known, baseline  \* the PRD's text, the detector's copy, its baseline

life == <<status, call, count, reviews, waived, verdict>>
files == <<specs, remote>>
drift == <<body, known, baseline>>
vars == <<life, files, done, created, drift>>

Init ==
  /\ status = "pending" /\ call = "none" /\ count = 0 /\ reviews = 0
  /\ waived = FALSE /\ verdict = "none"
  /\ specs = "none" /\ remote = FALSE
  /\ done = {} /\ created = 0
  /\ body = 0 /\ known = 0 /\ baseline = 0

-----------------------------------------------------------------------------
(* state.go.                                                               *)

ValidTransitions(s) ==
  CASE s = "pending"          -> {"generating_specs", "failed"}
    [] s = "generating_specs" -> {"reviewing_specs", "review_blocked", "failed"}
    [] s = "reviewing_specs"  -> {"updating_specs", "validating_specs", "review_blocked", "failed"}
    [] s = "review_blocked"   -> {"reviewing_specs", "validating_specs", "generating_tasks", "failed"}
    [] s = "updating_specs"   -> {"reviewing_specs", "failed"}
    [] s = "validating_specs" -> {"generating_tasks", "failed"}
    [] s = "generating_tasks" -> {"specs_committed", "failed"}
    [] s = "specs_committed"  -> {"in_progress", "failed"}
    [] OTHER                  -> {}

(* transitionTo refuses what the table does not have, and changes nothing. *)
TransitionTo(s) == status' = IF s \in ValidTransitions(status) THEN s ELSE status

(* One of the steps that only check the status and go on.                  *)
Stage(from, to) ==
  /\ call = "none" /\ status = from
  /\ TransitionTo(to)
  /\ UNCHANGED <<call, count, reviews, waived, verdict, remote, done, created, drift>>

Start == Stage("pending", "generating_specs") /\ UNCHANGED specs

(* The specifications are written by others, before this call.             *)
GenerateSpecs ==
  /\ Stage("generating_specs", "reviewing_specs")
  /\ specs' = IF specs = "none" THEN "written" ELSE specs

ValidateSpecs == Stage("validating_specs", "generating_tasks") /\ UNCHANGED specs

(* So are the tasks: files of the same directory, which a restart finds    *)
(* committed already.                                                      *)
GenerateTasks ==
  /\ Stage("generating_tasks", "specs_committed")
  /\ specs' \in {specs, "written"}

-----------------------------------------------------------------------------
(* ReviewCycle.                                                            *)

Begin(kind) ==
  /\ call = "none" /\ call' = kind
  /\ count' = 0 /\ reviews' = 0

ReviewSpecs ==
  /\ status = "reviewing_specs" /\ Begin("run")
  /\ UNCHANGED <<status, waived, verdict, files, done, created, drift>>

Resume(skip) ==
  /\ status = "review_blocked"
  /\ IF skip
     THEN /\ call = "none" /\ TransitionTo("validating_specs") /\ waived' = TRUE
          /\ UNCHANGED <<call, count, reviews>>
     ELSE /\ Begin("resume") /\ TransitionTo("reviewing_specs") /\ UNCHANGED waived
  /\ UNCHANGED <<verdict, files, done, created, drift>>

(* One review.  A revision passes through updating_specs and back within   *)
(* the step; Resume then goes on with a whole Run.  Malformed output       *)
(* blocks, any other error and an unknown verdict return where they are.   *)
Review ==
  /\ call \in {"resume", "run"} /\ (call = "run" => count < MaxIterations)
  /\ \/ /\ verdict' = "pass" /\ TransitionTo("validating_specs") /\ call' = "none"
     \/ /\ verdict' = "revise" /\ UNCHANGED status /\ call' = "run"
     \/ /\ verdict' = "bad" /\ status' \in {status, "review_blocked"} /\ call' = "none"
  /\ waived' = FALSE /\ reviews' = reviews + 1
  /\ count' = IF call = "run" THEN count + 1 ELSE 0
  /\ UNCHANGED <<files, done, created, drift>>

Exhausted ==
  /\ call = "run" /\ count = MaxIterations
  /\ TransitionTo("review_blocked") /\ call' = "none"
  /\ UNCHANGED <<count, reviews, waived, verdict, files, done, created, drift>>

-----------------------------------------------------------------------------
(* CommitSpecsWithOptions.                                                 *)

(* git commit refuses when nothing is staged.                              *)
CommitSpecs ==
  /\ status = "specs_committed" /\ call = "none"
  /\ IF specs = "written"
     THEN /\ specs' = "committed" /\ remote' = FALSE
          /\ call' = "push" /\ count' = 0
     ELSE UNCHANGED <<files, call, count>>
  /\ UNCHANGED <<status, reviews, waived, verdict, done, created, drift>>

\* Mutant of PushFails: after the retries the commit counts as pushed.
PushFailsWaived ==
  /\ call = "push" /\ count' = count + 1
  /\ IF count < PushRetries THEN UNCHANGED <<call, status>>
     ELSE call' = "none" /\ TransitionTo("in_progress")
  /\ UNCHANGED <<reviews, waived, verdict, files, done, created, drift>>

PushFails ==
  /\ call = "push" /\ count' = count + 1
  /\ call' = IF count < PushRetries THEN "push" ELSE "none"
  /\ UNCHANGED <<status, reviews, waived, verdict, files, done, created, drift>>

Push ==
  /\ call = "push" /\ call' = "none"
  /\ remote' = TRUE /\ TransitionTo("in_progress")
  /\ UNCHANGED <<count, reviews, waived, verdict, specs, done, created, drift>>

(* The process ends and another one takes the feature up.                  *)
Restart ==
  /\ status' = "pending" /\ call' = "none" /\ count' = 0 /\ reviews' = 0
  /\ waived' = FALSE /\ verdict' = "none"
  /\ known' = body /\ baseline' = body
  /\ UNCHANGED <<files, done, created, body>>

-----------------------------------------------------------------------------
(* CompletionChecker.                                                      *)

(* A specification without a unit of its name is passed over.              *)
AllUnitsComplete ==
  specs # "none" /\ \A u \in Specs \intersect Units : u \in done

BranchIsClean == specs # "written"

(* findExistingPR finds none, ever; CreatePR always returns an error, and  *)
(* the event is emitted all the same.                                      *)
TriggerCompletion ==
  /\ AllUnitsComplete /\ BranchIsClean
  /\ created < MaxTriggers /\ created' = created + 1
  /\ UNCHANGED <<life, files, done, drift>>

UnitCompletes(u) ==
  /\ done' = done \union {u}
  /\ UNCHANGED <<life, files, created, drift>>

-----------------------------------------------------------------------------
(* DriftDetector, made of a copy of the PRD: an edit of the PRD is no      *)
(* change of the copy, so that CheckDrift finds none.                      *)

Edit ==
  /\ body = 0 /\ body' = 1
  /\ UNCHANGED <<life, files, done, created, known, baseline>>

UpdateBaseline ==
  /\ baseline' = known
  /\ UNCHANGED <<life, files, done, created, body, known>>

Next ==
  \/ Start \/ GenerateSpecs \/ ReviewSpecs \/ Review \/ Exhausted \/ ValidateSpecs
  \/ GenerateTasks \/ CommitSpecs \/ PushFails \/ Push \/ Restart
  \/ TriggerCompletion \/ Edit \/ UpdateBaseline
  \/ \E skip \in BOOLEAN : Resume(skip)
  \/ \E u \in Units : UnitCompletes(u)

Spec == Init /\ [][Next]_vars

-----------------------------------------------------------------------------
(* Properties.                                                             *)

(* Work on the units starts only from specifications whose last review     *)
(* passed, or was skipped by the user, and which are committed, unchanged  *)
(* since, and on the remote, whatever failed or restarted before.          *)
WorkFromRemote ==
  status = "in_progress" =>
    /\ verdict = "pass" \/ waived
    /\ specs = "committed" /\ remote
=============================================================================
