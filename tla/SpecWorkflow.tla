---------------------------- MODULE SpecWorkflow ----------------------------
(***************************************************************************)
(* choo feature spec: the three phases that turn a PRD into tasks, and the *)
(* state file that lets a later command go on where an earlier one ended.  *)
(*                                                                         *)
(* One command runs at a time.  It may be interrupted by a signal, or the  *)
(* process may be killed at any point; writing the file truncates it       *)
(* first, so a write that does not end leaves a part of it.                *)
(***************************************************************************)

VARIABLES
  file,      \* the state file: None, Broken or a state
  pc,        \* where the command stands, "idle" without one
  mem,       \* Workflow.state
  phase,     \* the phase runFromPhase is at
  mode,      \* "all", "single", or "skip" (no validation)
  dry,       \* --dry-run
  cancelled, \* whether the command's context is cancelled
  asked,     \* whether the user named a phase to run again
  done,      \* history: the phases whose provider succeeded
  waived     \* history: the user left phases out or only looked at prompts

commandVars == <<mem, phase, mode, dry, cancelled, asked>>
historyVars == <<done, waived>>
vars == <<file, pc, commandVars, historyVars>>

Work == {"spec_generation", "validation", "ralph_prep"}
New == [phase |-> "not_started", ok |-> FALSE]

(* No file; a file that is not YAML.                                       *)
None == [phase |-> "none", ok |-> FALSE]
Broken == [phase |-> "broken", ok |-> FALSE]

NextPhase(p) ==
  CASE p = "not_started"     -> "spec_generation"
    [] p = "spec_generation" -> "validation"
    [] p = "validation"      -> "ralph_prep"
    [] p = "ralph_prep"      -> "complete"
    [] p \notin Work \union {"not_started"} -> p

Resumable(p) == p \in Work \union {"not_started"}

(* The phases before p, and those a state at p says have been done.        *)
Before(p) == {q \in Work : q # p /\ (q = "spec_generation" \/ p = "ralph_prep")}
UpTo(p) == IF p \in Work THEN Before(p) \union {p} ELSE IF p = "complete" THEN Work ELSE {}

Init ==
  /\ file = None /\ pc = "idle"
  /\ mem = New /\ phase = "not_started" /\ mode = "all"
  /\ dry = FALSE /\ cancelled = FALSE /\ asked = FALSE
  /\ done = {} /\ waived = FALSE

-----------------------------------------------------------------------------
(* RunFeatureSpec.  A command that is refused changes nothing and is left  *)
(* out; a file that cannot be read refuses them all.                       *)

Launch(m, p, how, d) ==
  /\ pc = "idle" /\ file # Broken
  /\ pc' = "loop"
  /\ mem' = m /\ phase' = p /\ mode' = how /\ dry' = d
  /\ UNCHANGED cancelled

(* Without a state, or with --force: clear it, then run everything, all    *)
(* but validation, or the named phase, whichever it is.                    *)
StartAll(skip, d) ==
  /\ Launch(New, "spec_generation", IF skip THEN "skip" ELSE "all", d)
  /\ file' = None /\ done' = {} /\ waived' = (skip \/ d)
  /\ UNCHANGED asked

StartPhase(p, d) ==
  /\ Launch(New, p, "single", d)
  /\ file' = None /\ done' = {} /\ waived' = (d \/ Before(p) # {})
  /\ UNCHANGED asked

(* --force when the PRD does not exist, or with validation both named and  *)
(* skipped: the state is cleared and nothing runs.                         *)
ClearOnly ==
  /\ pc = "idle" /\ file \notin {None, Broken}
  /\ file' = None /\ done' = {}
  /\ UNCHANGED <<pc, commandVars, waived>>

(* --resume.                                                               *)
Resume(d) ==
  /\ file # None /\ Resumable(file.phase)
  /\ Launch(file, NextPhase(file.phase), "all", d)
  /\ waived' = (waived \/ d)
  /\ UNCHANGED <<file, done, asked>>

(* --resume --phase p, with a new state.                                   *)
ResumeAt(p, d) ==
  /\ file # None
  /\ Launch(New, p, "single", d)
  /\ asked' = TRUE
  /\ waived' = (waived \/ d \/ ~(Before(p) \subseteq done))
  /\ UNCHANGED <<file, done>>

(* --phase p where p is the next one, with a new state.                    *)
Continue(p, d) ==
  /\ file # None /\ p = NextPhase(file.phase)
  /\ Launch(New, p, "single", d)
  /\ waived' = (waived \/ d)
  /\ UNCHANGED <<file, done, asked>>

Command ==
  \E d \in BOOLEAN :
    \/ \E skip \in BOOLEAN : StartAll(skip, d)
    \/ Resume(d)
    \/ \E p \in Work : StartPhase(p, d) \/ ResumeAt(p, d) \/ Continue(p, d)

-----------------------------------------------------------------------------
(* runFromPhase.                                                           *)

(* The command ends, and with it what it had in memory.                    *)
Quit ==
  /\ pc' = "idle"
  /\ mem' = New /\ phase' = "not_started" /\ mode' = "all"
  /\ dry' = FALSE /\ cancelled' = FALSE /\ asked' = FALSE
  /\ UNCHANGED historyVars

(* What a write of m that does not end may leave.                          *)
Partly(m) == {Broken, [phase |-> "unknown", ok |-> FALSE], [m EXCEPT !.ok = FALSE]}

Goto(to) == pc' = to /\ UNCHANGED <<phase, mode, dry, cancelled, asked>>

Cancelled == pc = "loop" /\ cancelled /\ Quit /\ UNCHANGED file

Enter ==
  /\ pc = "loop" /\ ~cancelled
  /\ mem' = [mem EXCEPT !.phase = phase]
  /\ Goto(IF phase = "complete" THEN "save_last" ELSE IF dry THEN "dry" ELSE "provider")
  /\ UNCHANGED <<file, historyVars>>

(* Only validation has a verdict.                                          *)
Passed == [mem EXCEPT !.ok = @ \/ phase = "validation"]

(* A dry run prints the prompt, and counts as the phase.                   *)
DryRun ==
  /\ pc = "dry"
  /\ mem' = Passed
  /\ Goto("save")
  /\ UNCHANGED <<file, historyVars>>

ProviderSucceeds ==
  /\ pc = "provider"
  /\ mem' = Passed
  /\ done' = done \union {phase}
  /\ Goto("save")
  /\ UNCHANGED <<file, waived>>

\* Mutant of PhaseFails: the state keeps the phase.
PhaseFailsUnmarked ==
  /\ pc \in {"provider", "dry"}
  /\ Goto("save_last")
  /\ UNCHANGED <<file, mem, historyVars>>

(* The provider fails or is killed by the interrupt, or the PRD cannot be  *)
(* read.                                                                   *)
PhaseFails ==
  /\ pc = "provider" \/ (pc = "dry" /\ phase = "spec_generation")
  /\ mem' = [mem EXCEPT !.phase = "failed"]
  /\ Goto("save_last")
  /\ UNCHANGED <<file, historyVars>>

(* After a phase: the command is done, or goes on with the next.           *)
FollowedBy(p) ==
  /\ pc' = "loop" /\ phase' = p
  /\ UNCHANGED <<mem, mode, dry, cancelled, asked, historyVars>>

Proceed ==
  \/ mode = "single" /\ Quit
  \/ mode = "skip" /\ phase = "ralph_prep" /\ Quit
  \/ mode = "skip" /\ phase = "spec_generation" /\ FollowedBy("ralph_prep")
  \/ mode = "all" /\ FollowedBy(NextPhase(phase))

Save == pc = "save" /\ file' = mem /\ Proceed

SaveFails == pc = "save" /\ file' \in {file} \union Partly(mem) /\ Quit

(* A failure or the end of the workflow is saved without looking whether   *)
(* that worked.                                                            *)
SaveLast ==
  /\ pc = "save_last"
  /\ file' \in {file, mem} \union Partly(mem)
  /\ Quit

Interrupt ==
  /\ pc # "idle" /\ ~cancelled
  /\ cancelled' = TRUE
  /\ UNCHANGED <<file, pc, mem, phase, mode, dry, asked, historyVars>>

Crash ==
  /\ pc # "idle"
  /\ file' \in {file} \union (IF pc \in {"save", "save_last"} THEN Partly(mem) ELSE {})
  /\ Quit

Run ==
  \/ Cancelled \/ Enter \/ DryRun \/ ProviderSucceeds \/ PhaseFails
  \/ Save \/ SaveFails \/ SaveLast

Next == Command \/ ClearOnly \/ Run \/ Interrupt \/ Crash

Spec == Init /\ [][Next]_vars

-----------------------------------------------------------------------------
(* Properties.                                                             *)

(* The file does not claim more than was done, whatever part of it was     *)
(* written.                                                                *)
SavedIsTrue ==
  ~waived => UpTo(file.phase) \subseteq done /\ (file.ok => "validation" \in done)

(* No phase is given to the provider before the earlier ones have          *)
(* succeeded, in this command or an earlier one, through any sequence of   *)
(* interrupts, crashes, failed writes and resumes, unless the user left    *)
(* them out.                                                               *)
PhasesInOrder == pc = "provider" /\ ~waived => Before(phase) \subseteq done

(* While a phase runs, the file stands exactly before it, so a crash costs *)
(* that phase and no other, and resuming repeats no other.                 *)
CrashCostsOnePhase ==
  pc = "provider" /\ ~waived /\ ~asked =>
    IF file = None THEN phase = "spec_generation" ELSE phase = NextPhase(file.phase)

(* What a command finds in the file is what the earlier ones did.          *)
StateIsTrue == SavedIsTrue /\ PhasesInOrder /\ CrashCostsOnePhase
=============================================================================
