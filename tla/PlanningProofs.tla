--------------------------- MODULE PlanningProofs ---------------------------
(***************************************************************************)
(* Proofs about what plans the units, writes the specifications and closes *)
(* the feature, for any units and references, and any number of commands,  *)
(* crashes, writers and retries: the algorithms of GraphSort, the checks   *)
(* of Discovery, the state file of SpecWorkflow, the life cycle of         *)
(* FeatureWorkflow, the updates of Documents and the archive of            *)
(* Completion.                                                             *)
(***************************************************************************)
EXTENDS MCPlanning, FiniteSetTheorems, TLAPS

(* A behaviour of the components side by side is one of each.              *)
LEMMA SideBySide == AllSpec => Spec /\ Workflow!Spec /\ Feature!Spec /\ Disc!Spec /\ Doc!Spec /\ End!Spec
<1>1. AllInit => Init /\ Workflow!Init /\ Feature!Init /\ Disc!Init /\ Doc!Init /\ End!Init
  BY DEF AllInit
<1>2. [AllNext]_all => /\ [Next]_vars
                       /\ [Workflow!Next]_(Workflow!vars) /\ [Feature!Next]_(Feature!vars)
                       /\ [Disc!Next]_(Disc!vars) /\ [Doc!Next]_(Doc!vars) /\ [End!Next]_(End!vars)
  <2> USE DEF Workflow!vars, Workflow!commandVars, Workflow!historyVars, specVars,
              Feature!vars, Feature!life, Feature!files, Feature!drift, featureVars, Disc!vars, discVars,
              Doc!vars, Doc!names, docVars, End!vars, End!repo, End!call, endVars
  <2>1. CASE UNCHANGED all
    BY <2>1 DEF all
  <2>2. CASE InGraph(Next)
    BY <2>2 DEF InGraph
  <2>3. CASE InSpec(Workflow!Next)
    BY <2>3 DEF InSpec
  <2>4. CASE InFeature(Feature!Next)
    BY <2>4 DEF InFeature
  <2>5. CASE InDisc(Disc!Next)
    BY <2>5 DEF InDisc
  <2>6. CASE InDoc(Doc!Next)
    BY <2>6 DEF InDoc
  <2>7. CASE InEnd(End!Next)
    BY <2>7 DEF InEnd
  <2> QED BY <2>1, <2>2, <2>3, <2>4, <2>5, <2>6, <2>7 DEF AllNext
<1> QED BY <1>1, <1>2, PTL DEF AllSpec, Spec, Workflow!Spec, Feature!Spec, Disc!Spec, Doc!Spec, End!Spec

-----------------------------------------------------------------------------
(* The end of a feature.                                                   *)

(* A Complete under way: how far the archive has come at each step.  An    *)
(* item can complete only while nothing is under way, which ends the claim.*)
ArchiveKept ==
  end_flow = "complete" =>
    /\ end_pc = "archive" => end_complete \subseteq end_tree \union end_todo \union end_misread
    /\ end_pc \in {"commit", "push", "pr", "ok"} => end_complete \subseteq end_tree \union end_misread
    /\ end_pc \in {"push", "pr", "ok"} /\ ~end_waived => end_head = end_tree
    /\ end_pc \in {"pr", "ok"} /\ end_mode # "none" => end_remote = end_head

(* Only Complete archives and commits.                                     *)
RunArchivesNothing == end_pc \in {"archive", "commit"} => end_flow = "complete"

CompletedAreItems == end_complete \subseteq End!Items

ArchiveInv == ArchiveKept /\ RunArchivesNothing /\ CompletedAreItems

LEMMA ArchiveStep == ArchiveInv /\ [End!Next]_(End!vars) => ArchiveInv'
<1> SUFFICES ASSUME ArchiveInv, [End!Next]_(End!vars) PROVE ArchiveInv'
  OBVIOUS
<1> USE DEF ArchiveInv, ArchiveKept, RunArchivesNothing, CompletedAreItems,
            End!Goto, End!Resting, End!repo, End!call
<1>1. ASSUME NEW i \in End!Items, End!ItemCompletes(i) PROVE ArchiveInv'
  BY <1>1 DEF End!ItemCompletes, End!Items
<1>2. ASSUME NEW i \in End!Items, End!Archive(i) PROVE ArchiveInv'
  BY <1>2 DEF End!Archive, End!ShouldArchive, End!Items
<1>3. CASE End!Complete
  BY <1>3 DEF End!Complete, End!Items
<1>4. CASE End!CreateFeaturePR
  BY <1>4 DEF End!CreateFeaturePR, End!Items
<1>5. CASE End!Archived
  BY <1>5 DEF End!Archived, End!Items
<1>6. CASE End!Commit
  BY <1>6 DEF End!Commit, End!AfterCommit, End!Clean, End!Items
<1>7. CASE End!CommitWaived
  BY <1>7 DEF End!CommitWaived, End!AfterCommit, End!Items
<1>8. CASE End!CommitFails
  BY <1>8 DEF End!CommitFails, End!Items
<1>9. CASE End!PushFeatureBranch
  BY <1>9 DEF End!PushFeatureBranch, End!Items
<1>10. CASE End!CreatePR
  BY <1>10 DEF End!CreatePR, End!Items
<1>11. CASE End!Crash
  BY <1>11 DEF End!Crash, End!Items
<1>12. CASE End!User
  BY <1>12 DEF End!User, End!Items
<1>13. CASE UNCHANGED End!vars
  BY <1>13 DEF End!vars, End!Items
<1> QED
  BY <1>1, <1>2, <1>3, <1>4, <1>5, <1>6, <1>7, <1>8, <1>9, <1>10, <1>11, <1>12, <1>13
     DEF End!Next

(* Whatever failed, crashed or was repeated before, a Complete that says   *)
(* it succeeded has archived, committed and pushed.                        *)
THEOREM ArchiveIsPublishedHolds == AllSpec => []ArchiveIsPublished
<1>1. End!Init => ArchiveInv
  BY DEF End!Init, ArchiveInv, ArchiveKept, RunArchivesNothing, CompletedAreItems
<1>2. ArchiveInv => ArchiveIsPublished
  BY DEF ArchiveInv, ArchiveKept, ArchiveIsPublished, End!ArchiveIsPublished
<1> QED BY <1>1, <1>2, ArchiveStep, SideBySide, PTL DEF End!Spec

-----------------------------------------------------------------------------
(* The life cycle of a feature.                                            *)

(* The statuses behind the review, and what a call presupposes.            *)
Reviewed == {"validating_specs", "generating_tasks", "specs_committed", "in_progress"}

FeatureInv ==
  /\ feature_status \in Reviewed => feature_verdict = "pass" \/ feature_waived
  /\ feature_call \in {"resume", "run"} => feature_status = "reviewing_specs"
  /\ feature_call = "push" => feature_status = "specs_committed" /\ feature_specs = "committed"
  /\ WorkFromRemote

(* A transition goes where it was meant to or nowhere.                     *)
LEMMA TransitionIsValid ==
  ASSUME NEW s, Feature!TransitionTo(s)
  PROVE  \/ feature_status' = s /\ s \in Feature!ValidTransitions(feature_status)
         \/ feature_status' = feature_status
  BY DEF Feature!TransitionTo

LEMMA FeatureStep == FeatureInv /\ [Feature!Next]_(Feature!vars) => FeatureInv'
<1> SUFFICES ASSUME FeatureInv, [Feature!Next]_(Feature!vars) PROVE FeatureInv'
  OBVIOUS
<1> USE DEF FeatureInv, Reviewed, WorkFromRemote, Feature!WorkFromRemote, Feature!drift, Feature!files
<1>1. ASSUME NEW from, NEW to, Feature!Stage(from, to), to \notin {"validating_specs", "in_progress"},
             to \in Reviewed => from \in Reviewed, from # "in_progress"
      PROVE  FeatureInv'
  BY <1>1, TransitionIsValid DEF Feature!Stage
<1>2. CASE Feature!Start
  BY <1>1, <1>2 DEF Feature!Start
<1>3. CASE Feature!GenerateSpecs
  BY <1>1, <1>3 DEF Feature!GenerateSpecs
<1>4. CASE Feature!ValidateSpecs
  BY <1>1, <1>4 DEF Feature!ValidateSpecs
<1>5. CASE Feature!GenerateTasks
  BY <1>1, <1>5 DEF Feature!GenerateTasks
<1>6. CASE Feature!ReviewSpecs
  BY <1>6 DEF Feature!ReviewSpecs, Feature!Begin
<1>7. ASSUME NEW skip \in BOOLEAN, Feature!Resume(skip) PROVE FeatureInv'
  BY <1>7, TransitionIsValid
     DEF Feature!Resume, Feature!Begin, Feature!TransitionTo, Feature!ValidTransitions
<1>8. CASE Feature!Review
  BY <1>8 DEF Feature!Review, Feature!TransitionTo, Feature!ValidTransitions
<1>9. CASE Feature!Exhausted
  BY <1>9 DEF Feature!Exhausted, Feature!TransitionTo, Feature!ValidTransitions
<1>10. CASE Feature!CommitSpecs
  BY <1>10 DEF Feature!CommitSpecs
<1>11. CASE Feature!PushFails
  BY <1>11 DEF Feature!PushFails
<1>12. CASE Feature!Push
  BY <1>12 DEF Feature!Push, Feature!TransitionTo, Feature!ValidTransitions
<1>13. CASE Feature!Restart
  BY <1>13 DEF Feature!Restart
<1>14. CASE Feature!TriggerCompletion
  BY <1>14 DEF Feature!TriggerCompletion, Feature!life
<1>15. ASSUME NEW u \in FeatureUnits, Feature!UnitCompletes(u) PROVE FeatureInv'
  BY <1>15 DEF Feature!UnitCompletes, Feature!life
<1>16. CASE Feature!Edit
  BY <1>16 DEF Feature!Edit, Feature!life
<1>17. CASE Feature!UpdateBaseline
  BY <1>17 DEF Feature!UpdateBaseline, Feature!life
<1>18. CASE UNCHANGED Feature!vars
  BY <1>18 DEF Feature!vars, Feature!life
<1> QED
  BY <1>2, <1>3, <1>4, <1>5, <1>6, <1>7, <1>8, <1>9, <1>10, <1>11, <1>12, <1>13, <1>14, <1>15,
     <1>16, <1>17, <1>18 DEF Feature!Next

(* No interplay of reviews, skipped reviews, failed pushes and restarts    *)
(* lets work start from anything else, for any limits and specifications.  *)
THEOREM WorkFromRemoteHolds == AllSpec => []WorkFromRemote
<1>1. Feature!Init => FeatureInv
  BY DEF Feature!Init, FeatureInv, Reviewed, WorkFromRemote, Feature!WorkFromRemote
<1>2. FeatureInv => WorkFromRemote
  BY DEF FeatureInv
<1> QED BY <1>1, <1>2, FeatureStep, SideBySide, PTL DEF Feature!Spec

-----------------------------------------------------------------------------
(* The specification workflow.                                             *)

(* What must be done before a command may stand at a phase.                *)
Needed(p) == IF p = "complete" THEN Workflow!Work ELSE Workflow!Before(p)

(* The states a file or a command may have, whole or in part.              *)
States ==
  [phase : {"not_started", "spec_generation", "validation", "ralph_prep", "complete",
            "failed", "none", "broken", "unknown"},
   ok    : BOOLEAN]

WorkflowTypes ==
  /\ spec_file \in States /\ spec_mem \in States
  /\ spec_pc \in {"idle", "loop", "dry", "provider", "save", "save_last"}
  /\ spec_pc # "idle" => spec_phase \in Workflow!Work \union {"complete"}
  /\ spec_pc \in {"dry", "provider", "save"} => spec_phase # "complete"

(* The user looked at prompts or left validation out.                      *)
ShortcutIsWaived ==
  spec_pc # "idle" => (spec_dry \/ spec_mode = "skip" => spec_waived) /\ (spec_pc = "dry" => spec_dry)

(* Where a command stands, what it has in memory, and what it may save.    *)
CommandIsTrue ==
  spec_pc # "idle" =>
    /\ Needed(spec_phase) \subseteq spec_done
    /\ spec_mem.ok => "validation" \in spec_done
    /\ spec_pc \in {"dry", "provider", "save"} => spec_mem.phase = spec_phase
    /\ spec_pc = "save" => spec_phase \in spec_done
    /\ spec_pc = "save_last" => /\ spec_mem.phase \in {"failed", "complete"}
                                /\ spec_mem.phase = "complete" => spec_phase = "complete"

(* While a command works the file stands just before its phase.            *)
FileStandsBefore ==
  spec_pc \in {"loop", "dry", "provider", "save"} /\ ~spec_asked =>
    IF spec_file = Workflow!None THEN spec_phase = "spec_generation"
    ELSE spec_phase = Workflow!NextPhase(spec_file.phase)

WorkflowInv ==
  /\ WorkflowTypes /\ ShortcutIsWaived
  /\ ~spec_waived => Workflow!SavedIsTrue /\ CommandIsTrue /\ FileStandsBefore

(* The order of the phases.                                                *)
LEMMA PhaseOrder ==
  /\ \A p \in Workflow!Work :
       /\ Workflow!UpTo(p) = Workflow!Before(p) \union {p} /\ Needed(p) = Workflow!Before(p)
       /\ Workflow!Before(p) = {} <=> p = "spec_generation"
  /\ Needed("complete") = Workflow!UpTo("complete")
  /\ Workflow!UpTo("complete") = Workflow!Work
  /\ \A p : Workflow!Resumable(p) =>
       /\ Workflow!NextPhase(p) \in Workflow!Work \union {"complete"}
       /\ Needed(Workflow!NextPhase(p)) \subseteq Workflow!UpTo(p)
  /\ \A p : Workflow!NextPhase(p) \in Workflow!Work => Workflow!Resumable(p)
  /\ \A p \in {"none", "broken", "unknown", "failed", "not_started"} : Workflow!UpTo(p) = {}
  /\ \A p \in Workflow!Work : Workflow!Resumable(p)
  /\ "ralph_prep" \in Workflow!Work /\ "spec_generation" \in Workflow!Work
  /\ "complete" \notin Workflow!Work
  BY DEF Workflow!Work, Workflow!UpTo, Workflow!Before, Needed, Workflow!Resumable, Workflow!NextPhase

(* What a command finds and is given when it starts.                       *)
LEMMA Launched ==
  ASSUME WorkflowInv, NEW m \in States,
         NEW p \in Workflow!Work \union {"complete"}, NEW how, NEW d \in BOOLEAN,
         Workflow!Launch(m, p, how, d),
         spec_file' \in States,
         d \/ how = "skip" => spec_waived',
         ~spec_waived' =>
           /\ Needed(p) \subseteq spec_done' /\ (m.ok => "validation" \in spec_done')
           /\ Workflow!SavedIsTrue'
           /\ spec_asked' \/ IF spec_file' = Workflow!None THEN p = "spec_generation"
                             ELSE p = Workflow!NextPhase(spec_file'.phase)
  PROVE  WorkflowInv'
  BY DEF Workflow!Launch, WorkflowInv, WorkflowTypes, ShortcutIsWaived, CommandIsTrue, FileStandsBefore

(* What a command leaves behind when it ends.                              *)
LEMMA Quits ==
  ASSUME WorkflowInv, Workflow!Quit, spec_file' \in States,
         ~spec_waived => Workflow!SavedIsTrue'
  PROVE  WorkflowInv'
  BY DEF Workflow!Quit, Workflow!New, States, Workflow!historyVars, WorkflowInv, WorkflowTypes, ShortcutIsWaived,
         CommandIsTrue, FileStandsBefore

(* A part of a state claims no more than the state.                        *)
LEMMA PartlyClaimsLess ==
  ASSUME NEW m \in States, NEW f \in Workflow!Partly(m)
  PROVE  /\ f \in States /\ ~f.ok
         /\ f.phase \in {"broken", "unknown", m.phase}
<1>1. CASE f = Workflow!Broken
  BY <1>1 DEF Workflow!Broken, States
<1>2. CASE f = [phase |-> "unknown", ok |-> FALSE]
  BY <1>2 DEF States
<1>3. CASE f = [m EXCEPT !.ok = FALSE]
  BY <1>3 DEF States
<1> QED BY <1>1, <1>2, <1>3 DEF Workflow!Partly

LEMMA WorkflowStep == WorkflowInv /\ [Workflow!Next]_(Workflow!vars) => WorkflowInv'
<1> SUFFICES ASSUME WorkflowInv, [Workflow!Next]_(Workflow!vars) PROVE WorkflowInv'
  OBVIOUS
<1>1. /\ Workflow!New \in States /\ ~Workflow!New.ok /\ Workflow!None \in States
      /\ ~Workflow!None.ok /\ Workflow!None.phase = "none"
  BY DEF Workflow!New, Workflow!None, States
<1>2. spec_file \in States /\ spec_mem \in States
  BY DEF WorkflowInv, WorkflowTypes
(* A fresh start: nothing is claimed and nothing was done.                 *)
<1>3. ASSUME spec_file' = Workflow!None PROVE Workflow!SavedIsTrue'
  BY <1>1, <1>3, PhaseOrder DEF Workflow!SavedIsTrue
<1>4. ASSUME NEW skip \in BOOLEAN, NEW d \in BOOLEAN, Workflow!StartAll(skip, d) PROVE WorkflowInv'
  BY <1>1, <1>3, <1>4, Launched, PhaseOrder DEF Workflow!StartAll
<1>5. ASSUME NEW p \in Workflow!Work, NEW d \in BOOLEAN, Workflow!StartPhase(p, d) PROVE WorkflowInv'
  <2>1. /\ Workflow!Launch(Workflow!New, p, "single", d) /\ spec_file' = Workflow!None
        /\ spec_waived' = (d \/ Workflow!Before(p) # {})
    BY <1>5 DEF Workflow!StartPhase
  <2>2. ~spec_waived' => p = "spec_generation" /\ Needed(p) = {} /\ ~d
    BY <2>1, PhaseOrder
  <2> QED BY <1>1, <1>3, <2>1, <2>2, Launched
(* Going on from the file, which is true and stays as it is.               *)
<1>6. ASSUME UNCHANGED <<spec_file, spec_done>>, ~spec_waived
      PROVE  Workflow!SavedIsTrue' /\ Workflow!SavedIsTrue
  BY <1>6 DEF WorkflowInv, Workflow!SavedIsTrue
<1>7. ASSUME NEW d \in BOOLEAN, Workflow!Resume(d) PROVE WorkflowInv'
  <2>1. /\ Workflow!Launch(spec_file, Workflow!NextPhase(spec_file.phase), "all", d)
        /\ Workflow!Resumable(spec_file.phase) /\ spec_file # Workflow!None
        /\ spec_waived' = (spec_waived \/ d) /\ UNCHANGED <<spec_file, spec_done>>
    BY <1>7 DEF Workflow!Resume
  <2>2. ~spec_waived' =>
          /\ Needed(Workflow!NextPhase(spec_file.phase)) \subseteq spec_done'
          /\ spec_file.ok => "validation" \in spec_done'
          /\ Workflow!SavedIsTrue'
    BY <1>6, <2>1, PhaseOrder DEF Workflow!SavedIsTrue
  <2> QED BY <1>2, <2>1, <2>2, Launched, PhaseOrder
<1>8. ASSUME NEW p \in Workflow!Work, NEW d \in BOOLEAN, Workflow!ResumeAt(p, d) PROVE WorkflowInv'
  <2>1. /\ Workflow!Launch(Workflow!New, p, "single", d) /\ spec_asked'
        /\ spec_waived' = (spec_waived \/ d \/ ~(Workflow!Before(p) \subseteq spec_done))
        /\ UNCHANGED <<spec_file, spec_done>>
    BY <1>8 DEF Workflow!ResumeAt
  <2>2. Needed(p) = Workflow!Before(p)
    BY PhaseOrder
  <2>3. ~spec_waived' => Needed(p) \subseteq spec_done' /\ ~spec_waived /\ ~d
    BY <2>1, <2>2
  <2> QED BY <1>1, <1>2, <1>6, <2>1, <2>3, Launched
<1>9. ASSUME NEW p \in Workflow!Work, NEW d \in BOOLEAN, Workflow!Continue(p, d) PROVE WorkflowInv'
  <2>1. /\ Workflow!Launch(Workflow!New, p, "single", d) /\ spec_file # Workflow!None
        /\ p = Workflow!NextPhase(spec_file.phase)
        /\ spec_waived' = (spec_waived \/ d) /\ UNCHANGED <<spec_file, spec_done>>
    BY <1>9 DEF Workflow!Continue
  <2>2. ~spec_waived' => Needed(p) \subseteq spec_done' /\ Workflow!SavedIsTrue'
    BY <1>6, <2>1, PhaseOrder DEF Workflow!SavedIsTrue
  <2> QED BY <1>1, <1>2, <2>1, <2>2, Launched, PhaseOrder
<1>10. CASE Workflow!ClearOnly
  BY <1>1, <1>3, <1>10 DEF Workflow!ClearOnly, Workflow!commandVars, WorkflowInv, WorkflowTypes,
     ShortcutIsWaived, CommandIsTrue, FileStandsBefore
<1>11. CASE Workflow!Cancelled
  BY <1>2, <1>6, <1>11, Quits DEF Workflow!Cancelled, Workflow!Quit, Workflow!historyVars
(* A step between two saves.                                               *)
<1>12. CASE Workflow!Enter
  <2>1. /\ spec_pc = "loop" /\ spec_mem' = [spec_mem EXCEPT !.phase = spec_phase]
        /\ spec_pc' = IF spec_phase = "complete" THEN "save_last"
                      ELSE IF spec_dry THEN "dry" ELSE "provider"
        /\ UNCHANGED <<spec_file, spec_phase, spec_mode, spec_dry, spec_asked, spec_done, spec_waived>>
    BY <1>12 DEF Workflow!Enter, Workflow!Goto, Workflow!historyVars
  <2>2. spec_mem' \in States /\ spec_mem'.phase = spec_phase /\ spec_mem'.ok = spec_mem.ok
    BY <1>2, <2>1 DEF WorkflowInv, WorkflowTypes, Workflow!Work, States
  <2>3. WorkflowTypes' /\ ShortcutIsWaived'
    BY <2>1, <2>2 DEF WorkflowInv, WorkflowTypes, ShortcutIsWaived
  <2>4. ~spec_waived' => CommandIsTrue' /\ FileStandsBefore'
    BY <2>1, <2>2 DEF WorkflowInv, CommandIsTrue, FileStandsBefore
  <2> QED BY <1>6, <2>1, <2>3, <2>4 DEF WorkflowInv
<1>13. CASE Workflow!DryRun
  <2>1. /\ spec_pc = "dry" /\ spec_pc' = "save" /\ spec_waived
        /\ spec_mem' = [spec_mem EXCEPT !.ok = @ \/ spec_phase = "validation"]
        /\ UNCHANGED <<spec_file, spec_phase, spec_mode, spec_dry, spec_waived>>
    BY <1>13 DEF Workflow!DryRun, Workflow!Passed, Workflow!Goto, Workflow!historyVars,
       WorkflowInv, ShortcutIsWaived
  <2>2. spec_mem' \in States
    BY <1>2, <2>1 DEF States
  <2> QED BY <2>1, <2>2 DEF WorkflowInv, WorkflowTypes, ShortcutIsWaived
<1>14. CASE Workflow!ProviderSucceeds
  <2>1. /\ spec_pc = "provider" /\ spec_pc' = "save" /\ spec_done' = spec_done \union {spec_phase}
        /\ spec_mem' = [spec_mem EXCEPT !.ok = @ \/ spec_phase = "validation"]
        /\ UNCHANGED <<spec_file, spec_phase, spec_mode, spec_dry, spec_asked, spec_waived>>
    BY <1>14 DEF Workflow!ProviderSucceeds, Workflow!Passed, Workflow!Goto
  <2>2. /\ spec_mem' \in States /\ spec_mem'.phase = spec_mem.phase
        /\ spec_mem'.ok => spec_mem.ok \/ spec_phase = "validation"
    BY <1>2, <2>1 DEF States
  <2>3. WorkflowTypes' /\ ShortcutIsWaived'
    BY <2>1, <2>2 DEF WorkflowInv, WorkflowTypes, ShortcutIsWaived
  <2>4. ~spec_waived' => Workflow!SavedIsTrue' /\ CommandIsTrue' /\ FileStandsBefore'
    BY <2>1, <2>2 DEF WorkflowInv, Workflow!SavedIsTrue, CommandIsTrue, FileStandsBefore
  <2> QED BY <2>3, <2>4 DEF WorkflowInv
<1>15. CASE Workflow!PhaseFails
  <2>1. /\ spec_pc \in {"provider", "dry"} /\ spec_pc' = "save_last"
        /\ spec_mem' = [spec_mem EXCEPT !.phase = "failed"]
        /\ UNCHANGED <<spec_file, spec_phase, spec_mode, spec_dry, spec_asked, spec_done, spec_waived>>
    BY <1>15 DEF Workflow!PhaseFails, Workflow!Goto, Workflow!historyVars
  <2>2. spec_mem' \in States /\ spec_mem'.phase = "failed" /\ spec_mem'.ok = spec_mem.ok
    BY <1>2, <2>1 DEF States
  <2> QED BY <1>6, <2>1, <2>2 DEF WorkflowInv, WorkflowTypes, ShortcutIsWaived, CommandIsTrue,
             FileStandsBefore
(* Saving: what is written is what the command did.                        *)
<1>16. ASSUME spec_pc \in {"save", "save_last"}, ~spec_waived
       PROVE  /\ Workflow!UpTo(spec_mem.phase) \subseteq spec_done
              /\ spec_mem.ok => "validation" \in spec_done
  <2>1. CASE spec_pc = "save"
    BY <1>16, <2>1, PhaseOrder DEF WorkflowInv, WorkflowTypes, CommandIsTrue
  <2>2. CASE spec_pc = "save_last"
    BY <1>16, <2>2, PhaseOrder DEF WorkflowInv, CommandIsTrue
  <2> QED BY <1>16, <2>1, <2>2
<1>17. ASSUME spec_pc \in {"save", "save_last"},
              spec_file' \in {spec_file, spec_mem} \union Workflow!Partly(spec_mem)
       PROVE  /\ spec_file' \in States
              /\ ~spec_waived /\ UNCHANGED <<spec_done, spec_waived>> => Workflow!SavedIsTrue'
  <2>1. CASE spec_file' = spec_file
    BY <1>2, <2>1 DEF WorkflowInv, Workflow!SavedIsTrue
  <2>2. CASE spec_file' = spec_mem
    BY <1>2, <1>16, <1>17, <2>2 DEF Workflow!SavedIsTrue
  <2>3. CASE spec_file' \in Workflow!Partly(spec_mem)
    BY <1>2, <1>16, <1>17, <2>3, PartlyClaimsLess, PhaseOrder DEF Workflow!SavedIsTrue
  <2> QED BY <1>17, <2>1, <2>2, <2>3
<1>18. CASE Workflow!Save
  <2>1. spec_pc = "save" /\ spec_file' = spec_mem /\ Workflow!Proceed
    BY <1>18 DEF Workflow!Save
  <2>2. CASE Workflow!Quit
    BY <1>17, <2>1, <2>2, Quits DEF Workflow!Quit, Workflow!historyVars
  <2>3. ASSUME NEW p, Workflow!FollowedBy(p),
               \/ spec_mode = "skip" /\ p = "ralph_prep"
               \/ p = Workflow!NextPhase(spec_phase)
        PROVE  WorkflowInv'
    <3>1. /\ spec_pc' = "loop" /\ spec_phase' = p
          /\ UNCHANGED <<spec_mem, spec_mode, spec_dry, spec_asked, spec_done, spec_waived>>
      BY <2>3 DEF Workflow!FollowedBy, Workflow!historyVars
    <3>2. spec_phase \in Workflow!Work
      BY <2>1 DEF WorkflowInv, WorkflowTypes
    <3>3. p \in Workflow!Work \union {"complete"}
      BY <2>3, <3>2, PhaseOrder
    <3>4. WorkflowTypes' /\ ShortcutIsWaived'
      BY <1>2, <2>1, <3>1, <3>3 DEF WorkflowInv, WorkflowTypes, ShortcutIsWaived
    <3>5. ASSUME ~spec_waived
          PROVE  p = Workflow!NextPhase(spec_phase) /\ spec_mem.phase = spec_phase
      BY <2>1, <2>3, <3>5 DEF WorkflowInv, ShortcutIsWaived, CommandIsTrue
    <3>6. ~spec_waived => Needed(p) \subseteq spec_done
      BY <1>16, <2>1, <3>2, <3>5, PhaseOrder
    <3>7. ~spec_waived => CommandIsTrue'
      BY <1>16, <2>1, <3>1, <3>6 DEF CommandIsTrue
    <3>8. ~spec_waived => FileStandsBefore'
      <4>1. ~spec_waived => spec_mem # Workflow!None
        BY <1>1, <3>2, <3>5 DEF Workflow!Work
      <4> QED BY <2>1, <3>1, <3>5, <4>1 DEF FileStandsBefore
    <3> QED BY <1>17, <2>1, <3>1, <3>4, <3>7, <3>8 DEF WorkflowInv
  <2> QED BY <2>1, <2>2, <2>3 DEF Workflow!Proceed
<1>19. CASE Workflow!SaveFails
  BY <1>17, <1>19, Quits DEF Workflow!SaveFails, Workflow!Quit, Workflow!historyVars
<1>20. CASE Workflow!SaveLast
  BY <1>17, <1>20, Quits DEF Workflow!SaveLast, Workflow!Quit, Workflow!historyVars
<1>21. CASE Workflow!Interrupt
  BY <1>21 DEF Workflow!Interrupt, Workflow!historyVars, WorkflowInv, WorkflowTypes,
     ShortcutIsWaived, Workflow!SavedIsTrue, CommandIsTrue, FileStandsBefore
<1>22. CASE Workflow!Crash
  <2>1. CASE spec_file' = spec_file
    BY <1>2, <1>6, <1>22, <2>1, Quits DEF Workflow!Crash, Workflow!Quit, Workflow!historyVars
  <2>2. CASE spec_pc \in {"save", "save_last"} /\ spec_file' \in Workflow!Partly(spec_mem)
    BY <1>17, <1>22, <2>2, Quits DEF Workflow!Crash, Workflow!Quit, Workflow!historyVars
  <2> QED BY <1>22, <2>1, <2>2 DEF Workflow!Crash
<1>23. CASE UNCHANGED Workflow!vars
  BY <1>23 DEF Workflow!vars, Workflow!commandVars, Workflow!historyVars, WorkflowInv, WorkflowTypes,
     ShortcutIsWaived, Workflow!SavedIsTrue, CommandIsTrue, FileStandsBefore
<1> QED
  BY <1>4, <1>5, <1>7, <1>8, <1>9, <1>10, <1>11, <1>12, <1>13, <1>14, <1>15, <1>18, <1>19, <1>20,
     <1>21, <1>22, <1>23 DEF Workflow!Next, Workflow!Command, Workflow!Run

(* Whatever commands are given, interrupted or killed, and whatever part   *)
(* of the state file they leave, it claims nothing that was not done.      *)
THEOREM StateIsTrueHolds == AllSpec => []StateIsTrue
<1>1. ASSUME Workflow!Init PROVE WorkflowInv
  <2>1. Workflow!SavedIsTrue
    BY <1>1, PhaseOrder DEF Workflow!Init, Workflow!None, Workflow!SavedIsTrue
  <2>2. WorkflowTypes
    BY <1>1 DEF Workflow!Init, Workflow!New, Workflow!None, WorkflowTypes, States
  <2> QED BY <1>1, <2>1, <2>2
          DEF Workflow!Init, WorkflowInv, ShortcutIsWaived, CommandIsTrue, FileStandsBefore
<1>2. ASSUME WorkflowInv PROVE StateIsTrue
  <2>1. Workflow!SavedIsTrue
    BY <1>2 DEF WorkflowInv, Workflow!SavedIsTrue
  <2>2. Workflow!PhasesInOrder
    BY <1>2, PhaseOrder DEF WorkflowInv, WorkflowTypes, CommandIsTrue, Workflow!PhasesInOrder
  <2>3. Workflow!CrashCostsOnePhase
    BY <1>2 DEF WorkflowInv, FileStandsBefore, Workflow!CrashCostsOnePhase
  <2> QED BY <2>1, <2>2, <2>3 DEF StateIsTrue, Workflow!StateIsTrue
<1> QED BY <1>1, <1>2, WorkflowStep, SideBySide, PTL DEF Workflow!Spec

-----------------------------------------------------------------------------
(* The documents.                                                          *)

Contents == [closed : BOOLEAN, updates : SUBSET Writers, body : Nat]

DocTypes ==
  /\ doc_files \in [Doc!Inodes -> Contents] /\ doc_kept \in [Writers -> Contents]
  /\ doc_path \in Doc!Inodes /\ doc_tmp \in Doc!Inodes /\ doc_opened \in [Writers -> Doc!Inodes]
  /\ doc_pc \in [Writers -> {"idle", "loaded", "opened", "written", "done", "failed", "torn"}]
  /\ doc_cache \in Contents /\ doc_edits \in Nat /\ doc_raced \in BOOLEAN

(* The temporary file never has the document's inode, nor does the file    *)
(* that a writer has yet to create.                                        *)
NamesAreApart ==
  /\ doc_tmp # Original => doc_tmp # doc_path
  /\ \A w \in Writers : doc_pc[w] \in {"idle", "loaded"} => doc_path # w /\ doc_tmp # w

(* A content with the user's last body and every update that returned.     *)
Holds(c) ==
  /\ c.closed /\ c.body = doc_edits
  /\ \A w \in Writers : doc_pc[w] = "done" => w \in c.updates

InPlace(w) == w \in Writers \ Doc!Renaming

(* One update at a time, which keeps all there is; the document holds it   *)
(* but while it is written in place.                                       *)
OneAtATime == \A v, w \in Writers : Doc!Midway(v) /\ Doc!Midway(w) => v = w
KeepsAll == \A w \in Writers : Doc!Midway(w) => Holds(doc_kept[w]) /\ w \in doc_kept[w].updates
WritesAside ==
  \A w \in Writers : doc_pc[w] \in {"opened", "written"} =>
    IF w \in Doc!Renaming
    THEN /\ doc_tmp # Original /\ doc_opened[w] = doc_tmp
         /\ doc_pc[w] = "written" => doc_files[doc_tmp] = doc_kept[w]
    ELSE doc_pc[w] = "opened" /\ doc_opened[w] = doc_path
DocumentHolds == Holds(Doc!Document) \/ \E w \in Writers : InPlace(w) /\ doc_pc[w] = "opened"

TornInPlace == \E w \in Writers : InPlace(w) /\ doc_pc[w] = "torn"

DocInv ==
  /\ DocTypes /\ NamesAreApart
  /\ doc_raced \/ TornInPlace \/ (OneAtATime /\ KeepsAll /\ WritesAside /\ DocumentHolds)

(* The types of what a step writes.                                        *)
LEMMA ContentTypes ==
  /\ Doc!Empty \in Contents /\ ~Doc!Empty.closed
  /\ \A c \in Contents : Doc!Prefixes(c) \subseteq Contents
  /\ \A c \in Contents, w \in Writers, s \in SUBSET Writers :
       /\ [c EXCEPT !.updates = s \union {w}] \in Contents
       /\ [c EXCEPT !.updates = s \union {w}].updates = s \union {w}
       /\ [c EXCEPT !.updates = s \union {w}].closed = c.closed
       /\ [c EXCEPT !.updates = s \union {w}].body = c.body
  /\ Original \in Doc!Inodes /\ Writers \subseteq Doc!Inodes /\ Original \notin Writers
<1>1. MaxEdits \in Nat /\ Original \notin Writers
  BY Parameters DEF Doc!DocumentsAssumption
<1>2. Doc!Empty \in Contents /\ ~Doc!Empty.closed
  BY DEF Doc!Empty, Contents
<1>3. ASSUME NEW c \in Contents PROVE [c EXCEPT !.body = Doc!Lost] \in Contents
  BY <1>1 DEF Contents, Doc!Lost
<1>4. ASSUME NEW c \in Contents, NEW w \in Writers, NEW s \in SUBSET Writers
      PROVE  /\ [c EXCEPT !.updates = s \union {w}] \in Contents
             /\ [c EXCEPT !.updates = s \union {w}].updates = s \union {w}
             /\ [c EXCEPT !.updates = s \union {w}].closed = c.closed
             /\ [c EXCEPT !.updates = s \union {w}].body = c.body
  BY <1>4 DEF Contents
<1> QED BY <1>1, <1>2, <1>3, <1>4 DEF Doc!Prefixes, Doc!Inodes

LEMMA DocTypesStep == DocTypes /\ NamesAreApart /\ [Doc!Next]_(Doc!vars) => DocTypes' /\ NamesAreApart'
<1> SUFFICES ASSUME DocTypes, NamesAreApart, [Doc!Next]_(Doc!vars)
             PROVE  DocTypes' /\ NamesAreApart'
  OBVIOUS
<1> USE ContentTypes DEF DocTypes, NamesAreApart, Doc!names, Doc!Goto
<1>1. ASSUME NEW w \in Writers, Doc!Load(w) PROVE DocTypes' /\ NamesAreApart'
  <2>1. Doc!Document \in Contents /\ Doc!Fields(w) \in SUBSET Writers
    BY DEF Doc!Document, Doc!Fields, Contents
  <2>2. doc_cache' \in Contents
    <3>1. [doc_cache EXCEPT !.updates = @ \union {w}] \in Contents
      BY DEF Contents
    <3> QED BY <1>1, <3>1 DEF Doc!Load
  <2>3. doc_kept' \in [Writers -> Contents]
    <3>1. [Doc!Document EXCEPT !.updates = Doc!Fields(w) \union {w}] \in Contents
      BY <2>1
    <3> QED BY <1>1, <3>1 DEF Doc!Load
  <2>4. /\ doc_pc' \in [Writers -> {"idle", "loaded", "opened", "written", "done", "failed", "torn"}]
        /\ \A v \in Writers : doc_pc'[v] \in {"idle", "loaded"} => doc_pc[v] \in {"idle", "loaded"}
        /\ doc_raced' \in BOOLEAN
        /\ UNCHANGED <<doc_files, doc_path, doc_tmp, doc_opened, doc_edits>>
    BY <1>1 DEF Doc!Load
  <2> QED BY <2>2, <2>3, <2>4
<1>2. ASSUME NEW w \in Writers, Doc!Open(w) PROVE DocTypes' /\ NamesAreApart'
  BY <1>2 DEF Doc!Open, Doc!Target
<1>3. ASSUME NEW w \in Writers, Doc!Write(w) PROVE DocTypes' /\ NamesAreApart'
  BY <1>3 DEF Doc!Write
<1>4. ASSUME NEW w \in Writers, Doc!Rename(w) PROVE DocTypes' /\ NamesAreApart'
  BY <1>4 DEF Doc!Rename
<1>5. ASSUME NEW w \in Writers, Doc!Crash(w) PROVE DocTypes' /\ NamesAreApart'
  BY <1>5 DEF Doc!Crash
<1>6. CASE Doc!Refresh
  BY <1>6 DEF Doc!Refresh, Doc!Document
<1>7. CASE Doc!Edit
  BY <1>7 DEF Doc!Edit, Contents
<1>8. CASE UNCHANGED Doc!vars
  BY <1>8 DEF Doc!vars
<1> QED BY <1>1, <1>2, <1>3, <1>4, <1>5, <1>6, <1>7, <1>8 DEF Doc!Next

(* Races and torn files stay.                                              *)
LEMMA CalmBefore ==
  ASSUME DocTypes, [Doc!Next]_(Doc!vars), ~doc_raced', ~TornInPlace'
  PROVE  ~doc_raced /\ ~TornInPlace /\ UNCHANGED doc_kind
<1>1. doc_raced => doc_raced'
  BY DEF Doc!Next, Doc!Load, Doc!Open, Doc!Write, Doc!Rename, Doc!Crash, Doc!Refresh, Doc!Edit, Doc!vars
<1>2. UNCHANGED doc_kind
  BY DEF Doc!Next, Doc!Load, Doc!Open, Doc!Write, Doc!Rename, Doc!Crash, Doc!Refresh, Doc!Edit, Doc!vars
<1>3. ASSUME NEW w \in Writers, doc_pc[w] = "torn" PROVE doc_pc'[w] = "torn"
  BY <1>3 DEF DocTypes, Doc!Goto, Doc!Next, Doc!Load, Doc!Open, Doc!Write, Doc!Rename, Doc!Crash,
     Doc!Refresh, Doc!Edit, Doc!vars
<1> QED BY <1>1, <1>2, <1>3 DEF TornInPlace, InPlace, Doc!Renaming

LEMMA DocStep == DocInv /\ [Doc!Next]_(Doc!vars) => DocInv'
<1> SUFFICES ASSUME DocInv, [Doc!Next]_(Doc!vars), ~doc_raced', ~TornInPlace'
             PROVE  OneAtATime' /\ KeepsAll' /\ WritesAside' /\ DocumentHolds'
  BY DocTypesStep DEF DocInv
<1>1. /\ DocTypes /\ NamesAreApart /\ ~doc_raced /\ UNCHANGED doc_kind
      /\ OneAtATime /\ KeepsAll /\ WritesAside /\ DocumentHolds
  BY CalmBefore DEF DocInv
<1> USE DEF Doc!names
<1>2. \A w \in Writers : InPlace(w)' <=> InPlace(w)
  BY <1>1 DEF InPlace, Doc!Renaming
(* The document is whole unless the writer at work writes it in place.     *)
<1>3. ASSUME \A w \in Writers : Doc!Midway(w) => w \in Doc!Renaming \/ doc_pc[w] # "opened"
      PROVE  Holds(Doc!Document)
  BY <1>1, <1>3 DEF DocumentHolds, Doc!Midway, InPlace
<1>4. ASSUME NEW w \in Writers, Doc!Load(w)
      PROVE  OneAtATime' /\ KeepsAll' /\ WritesAside' /\ DocumentHolds'
  <2>1. /\ doc_pc[w] = "idle" /\ doc_pc' = [doc_pc EXCEPT ![w] = doc_pc'[w]]
        /\ UNCHANGED <<doc_files, doc_path, doc_tmp, doc_opened, doc_edits>>
    BY <1>1, <1>4 DEF Doc!Load, Doc!Goto, DocTypes
  <2>2. \A v \in Writers \ {w} : doc_pc'[v] = doc_pc[v]
    BY <1>1, <2>1 DEF DocTypes
  <2>3. CASE Doc!Document.closed
    <3>1. /\ doc_pc'[w] = "loaded" /\ \A v \in Writers : ~Doc!Midway(v)
          /\ doc_kept' = [doc_kept EXCEPT ![w] =
                           [Doc!Document EXCEPT !.updates = Doc!Document.updates \union {w}]]
      BY <1>1, <1>4, <2>3 DEF Doc!Load, Doc!Goto, DocTypes
    <3>2. Holds(Doc!Document)
      BY <1>3, <3>1
    <3>3. Doc!Document \in Contents /\ Doc!Document.updates \subseteq Writers
      BY <1>1 DEF DocTypes, Doc!Document, Contents
    <3>4. /\ doc_kept'[w].closed /\ doc_kept'[w].body = doc_edits
          /\ doc_kept'[w].updates = Doc!Document.updates \union {w}
      BY <1>1, <3>1, <3>2, <3>3, ContentTypes DEF DocTypes, Holds
    <3>5. OneAtATime' /\ WritesAside'
      BY <2>2, <3>1 DEF OneAtATime, WritesAside, Doc!Midway
    <3>6. KeepsAll'
      BY <2>1, <2>2, <3>1, <3>2, <3>4 DEF KeepsAll, Doc!Midway, Holds
    <3>7. DocumentHolds'
      BY <2>1, <2>2, <3>1, <3>2 DEF DocumentHolds, Doc!Document, Holds
    <3> QED BY <3>5, <3>6, <3>7
  <2>4. CASE ~Doc!Document.closed
    <3>1. doc_pc'[w] = "failed" /\ UNCHANGED doc_kept
      BY <1>1, <1>4, <2>4 DEF Doc!Load, Doc!Goto, DocTypes
    <3> QED BY <1>1, <1>2, <2>1, <2>2, <3>1
            DEF OneAtATime, KeepsAll, WritesAside, DocumentHolds, Doc!Midway, Holds, Doc!Document,
                InPlace, Doc!Renaming
  <2> QED BY <2>3, <2>4
(* A writer at work is the only one.                                       *)
<1>5. ASSUME NEW w \in Writers, Doc!Midway(w)
      PROVE  \A v \in Writers \ {w} : ~Doc!Midway(v)
  BY <1>1, <1>5 DEF OneAtATime
<1>6. ASSUME NEW w \in Writers, Doc!Open(w)
      PROVE  OneAtATime' /\ KeepsAll' /\ WritesAside' /\ DocumentHolds'
  <2>1. /\ doc_pc[w] = "loaded" /\ doc_pc' = [doc_pc EXCEPT ![w] = "opened"]
        /\ doc_opened' = [doc_opened EXCEPT ![w] = Doc!Target(w)]
        /\ doc_files' = [doc_files EXCEPT ![Doc!Target(w)] = Doc!Empty]
        /\ doc_tmp' = IF w \in Doc!Renaming THEN Doc!Target(w) ELSE doc_tmp
        /\ UNCHANGED <<doc_path, doc_kept, doc_edits>>
    BY <1>6 DEF Doc!Open, Doc!Goto
  <2>2. /\ doc_pc'[w] = "opened" /\ \A v \in Writers \ {w} : doc_pc'[v] = doc_pc[v]
        /\ doc_opened'[w] = Doc!Target(w)
    BY <1>1, <2>1 DEF DocTypes
  <2>3. \A v \in Writers \ {w} : ~Doc!Midway(v)
    BY <1>5, <2>1 DEF Doc!Midway
  <2>4. OneAtATime' /\ KeepsAll'
    BY <1>1, <2>1, <2>2, <2>3 DEF OneAtATime, KeepsAll, Doc!Midway, Holds
  <2>5. CASE w \in Doc!Renaming
    <3>1. Doc!Target(w) # Original /\ Doc!Target(w) # doc_path
      BY <1>1, <2>1, <2>5, ContentTypes DEF Doc!Target, NamesAreApart
    <3>2. Doc!Document' = Doc!Document
      BY <1>1, <2>1, <3>1 DEF Doc!Document, DocTypes
    <3>3. Holds(Doc!Document)
      BY <1>3, <2>1, <2>3, <2>5
    <3>4. WritesAside'
      BY <1>1, <2>1, <2>2, <2>3, <2>5, <3>1 DEF WritesAside, Doc!Midway, Doc!Renaming
    <3>5. DocumentHolds'
      BY <2>1, <2>2, <3>2, <3>3 DEF DocumentHolds, Holds
    <3> QED BY <2>4, <3>4, <3>5
  <2>6. CASE w \notin Doc!Renaming
    <3>1. Doc!Target(w) = doc_path
      BY <2>6 DEF Doc!Target
    <3>2. WritesAside'
      BY <1>1, <2>1, <2>2, <2>3, <2>6, <3>1 DEF WritesAside, Doc!Midway, Doc!Renaming
    <3>3. DocumentHolds'
      BY <1>2, <2>2, <2>6 DEF DocumentHolds, InPlace
    <3> QED BY <2>4, <3>2, <3>3
  <2> QED BY <2>5, <2>6
<1>7. ASSUME NEW w \in Writers, Doc!Write(w)
      PROVE  OneAtATime' /\ KeepsAll' /\ WritesAside' /\ DocumentHolds'
  <2>1. /\ doc_pc[w] = "opened" /\ doc_pc' = [doc_pc EXCEPT ![w] = doc_pc'[w]]
        /\ UNCHANGED <<doc_path, doc_tmp, doc_kept, doc_opened, doc_edits>>
    BY <1>1, <1>7 DEF Doc!Write, Doc!Goto, DocTypes
  <2>2. \A v \in Writers \ {w} : doc_pc'[v] = doc_pc[v]
    BY <1>1, <2>1 DEF DocTypes
  <2>3. \A v \in Writers \ {w} : ~Doc!Midway(v)
    BY <1>5, <2>1 DEF Doc!Midway
  <2>4. Holds(doc_kept[w]) /\ w \in doc_kept[w].updates
    BY <1>1, <2>1 DEF KeepsAll, Doc!Midway
  <2>5. CASE /\ doc_files' = [doc_files EXCEPT ![doc_opened[w]] = doc_kept[w]]
             /\ doc_pc' = [doc_pc EXCEPT ![w] = IF w \in Doc!Renaming THEN "written" ELSE "done"]
    <3>1. doc_files'[doc_opened[w]] = doc_kept[w]
      BY <1>1, <2>5 DEF DocTypes
    <3>2. CASE w \in Doc!Renaming
      <4>1. doc_pc'[w] = "written" /\ doc_tmp # Original /\ doc_opened[w] = doc_tmp
        BY <1>1, <2>1, <2>5, <3>2 DEF WritesAside, DocTypes
      <4>2. Doc!Document' = Doc!Document
        BY <1>1, <2>1, <2>5, <4>1 DEF NamesAreApart, DocTypes, Doc!Document
      <4>3. Holds(Doc!Document)
        BY <1>3, <2>3, <3>2
      <4>4. OneAtATime' /\ WritesAside'
        BY <1>1, <2>1, <2>2, <2>3, <3>1, <3>2, <4>1
           DEF OneAtATime, WritesAside, Doc!Midway, Doc!Renaming
      <4>5. KeepsAll' /\ DocumentHolds'
        BY <2>1, <2>2, <2>3, <2>4, <4>1, <4>2, <4>3 DEF KeepsAll, DocumentHolds, Doc!Midway, Holds
      <4> QED BY <4>4, <4>5
    <3>3. CASE w \notin Doc!Renaming
      <4>1. doc_pc'[w] = "done" /\ doc_opened[w] = doc_path
        BY <1>1, <2>1, <2>5, <3>3 DEF WritesAside, DocTypes
      <4>2. Doc!Document' = doc_kept[w]
        BY <2>1, <3>1, <4>1 DEF Doc!Document
      <4>3. DocumentHolds'
        BY <2>1, <2>2, <2>4, <4>2 DEF DocumentHolds, Holds
      <4> QED BY <2>2, <2>3, <4>1, <4>3 DEF OneAtATime, KeepsAll, WritesAside, Doc!Midway
    <3> QED BY <3>2, <3>3
  <2>6. CASE /\ \E c \in Doc!Prefixes(doc_kept[w]) :
                  doc_files' = [doc_files EXCEPT ![doc_opened[w]] = c]
             /\ doc_pc' = [doc_pc EXCEPT ![w] = "torn"]
    <3>1. doc_pc'[w] = "torn" /\ w \in Doc!Renaming
      BY <1>1, <1>2, <2>6 DEF TornInPlace, InPlace, DocTypes
    <3>2. doc_opened[w] # doc_path
      BY <1>1, <2>1, <3>1 DEF WritesAside, NamesAreApart
    <3>3. Doc!Document' = Doc!Document
      BY <1>1, <2>1, <2>6, <3>2 DEF DocTypes, Doc!Document
    <3>4. Holds(Doc!Document)
      BY <1>3, <2>3, <3>1
    <3>5. DocumentHolds'
      BY <2>1, <2>2, <3>1, <3>3, <3>4 DEF DocumentHolds, Holds
    <3> QED BY <2>2, <2>3, <3>1, <3>5 DEF OneAtATime, KeepsAll, WritesAside, Doc!Midway
  <2> QED BY <1>7, <2>5, <2>6 DEF Doc!Write, Doc!Goto
<1>8. ASSUME NEW w \in Writers, Doc!Rename(w)
      PROVE  OneAtATime' /\ KeepsAll' /\ WritesAside' /\ DocumentHolds'
  <2>1. /\ doc_pc[w] = "written" /\ doc_pc'[w] \in {"done", "failed"}
        /\ \A v \in Writers \ {w} : doc_pc'[v] = doc_pc[v] /\ ~Doc!Midway(v)
        /\ UNCHANGED <<doc_files, doc_edits>>
    BY <1>1, <1>5, <1>8 DEF Doc!Rename, Doc!Goto, DocTypes, Doc!Midway
  <2>2. OneAtATime' /\ KeepsAll' /\ WritesAside'
    BY <2>1 DEF OneAtATime, KeepsAll, WritesAside, Doc!Midway
  <2>3. CASE doc_path' = doc_tmp /\ doc_pc'[w] = "done"
    <3>1. Doc!Document' = doc_kept[w]
      BY <1>1, <2>1, <2>3 DEF WritesAside, Doc!Document
    <3>2. Holds(doc_kept[w]) /\ w \in doc_kept[w].updates
      BY <1>1, <2>1 DEF KeepsAll, Doc!Midway
    <3> QED BY <2>1, <2>2, <3>1, <3>2 DEF DocumentHolds, Holds
  <2>4. CASE doc_path' = doc_path /\ doc_pc'[w] = "failed"
    <3>1. Holds(Doc!Document)
      BY <1>3, <2>1
    <3> QED BY <2>1, <2>2, <2>4, <3>1 DEF DocumentHolds, Holds, Doc!Document
  <2> QED BY <1>1, <1>8, <2>3, <2>4 DEF Doc!Rename, Doc!Goto, DocTypes
<1>9. ASSUME NEW w \in Writers, Doc!Crash(w)
      PROVE  OneAtATime' /\ KeepsAll' /\ WritesAside' /\ DocumentHolds'
  <2>1. /\ Doc!Midway(w) /\ doc_pc'[w] \in {"failed", "torn"}
        /\ doc_pc[w] = "opened" <=> doc_pc'[w] = "torn"
        /\ \A v \in Writers \ {w} : doc_pc'[v] = doc_pc[v]
        /\ UNCHANGED <<doc_path, doc_edits>>
    BY <1>1, <1>9 DEF Doc!Crash, Doc!Goto, DocTypes, Doc!Midway
  <2>2. \A v \in Writers \ {w} : ~Doc!Midway(v)
    BY <1>5, <2>1
  <2>3. doc_pc[w] = "opened" => w \in Doc!Renaming
    BY <1>2, <2>1 DEF TornInPlace, InPlace
  <2>4. Doc!Document' = Doc!Document
    <3>1. doc_pc[w] = "opened" => doc_opened[w] # doc_path
      BY <1>1, <2>3 DEF WritesAside, NamesAreApart
    <3> QED BY <1>1, <1>9, <2>1, <3>1 DEF Doc!Crash, Doc!Goto, DocTypes, Doc!Document
  <2>5. Holds(Doc!Document)
    BY <1>3, <2>2, <2>3
  <2>6. DocumentHolds'
    BY <2>1, <2>4, <2>5 DEF DocumentHolds, Holds
  <2> QED BY <2>1, <2>2, <2>6 DEF OneAtATime, KeepsAll, WritesAside, Doc!Midway
<1>10. CASE Doc!Refresh
  BY <1>1, <1>10 DEF Doc!Refresh, OneAtATime, KeepsAll, WritesAside, DocumentHolds, Doc!Midway, Holds,
     Doc!Document, InPlace, Doc!Renaming
<1>11. CASE Doc!Edit
  <2>1. /\ \A w \in Writers : ~Doc!Midway(w)
        /\ doc_edits' = doc_edits + 1
        /\ doc_files' = [doc_files EXCEPT ![doc_path].body = doc_edits + 1]
        /\ UNCHANGED <<doc_path, doc_pc>>
    BY <1>11 DEF Doc!Edit
  <2>2. Holds(Doc!Document)
    BY <1>3, <2>1
  <2>3. /\ Doc!Document'.closed = Doc!Document.closed /\ Doc!Document'.body = doc_edits + 1
        /\ Doc!Document'.updates = Doc!Document.updates
    BY <1>1, <2>1 DEF DocTypes, Doc!Document, Contents
  <2>4. DocumentHolds'
    BY <2>1, <2>2, <2>3 DEF DocumentHolds, Holds
  <2> QED BY <2>1, <2>4 DEF OneAtATime, KeepsAll, WritesAside, Doc!Midway
<1>12. CASE UNCHANGED Doc!vars
  BY <1>1, <1>12 DEF Doc!vars, OneAtATime, KeepsAll, WritesAside, DocumentHolds, Doc!Midway, Holds,
     Doc!Document, InPlace, Doc!Renaming
<1> QED BY <1>4, <1>6, <1>7, <1>8, <1>9, <1>10, <1>11, <1>12 DEF Doc!Next

(* One update after the other, an updated document has the user's last     *)
(* body and every update that returned, for any writers of the three kinds *)
(* and wherever any of them fails or is killed.                            *)
THEOREM UpdatesAreKeptHolds == AllSpec => []UpdatesAreKept
<1>1. ASSUME Doc!Init PROVE DocInv
  <2>1. DocTypes /\ NamesAreApart
    <3>1. [Doc!Empty EXCEPT !.closed = TRUE] \in Contents
          /\ [Doc!Empty EXCEPT !.closed = FALSE] \in Contents
      BY DEF Doc!Empty, Contents
    <3> QED BY <1>1, <3>1, ContentTypes DEF Doc!Init, DocTypes, NamesAreApart
  <2>2. OneAtATime /\ KeepsAll /\ WritesAside
    BY <1>1 DEF Doc!Init, OneAtATime, KeepsAll, WritesAside, Doc!Midway
  <2>3. DocumentHolds
    BY <1>1, ContentTypes DEF Doc!Init, DocumentHolds, Holds, Doc!Document, Doc!Empty
  <2> QED BY <2>1, <2>2, <2>3 DEF DocInv
<1>2. ASSUME DocInv PROVE UpdatesAreKept
  BY <1>2 DEF DocInv, TornInPlace, InPlace, DocumentHolds, Holds, UpdatesAreKept, Doc!UpdatesAreKept,
     Doc!Torn
<1> QED BY <1>1, <1>2, DocStep, SideBySide, PTL DEF Doc!Spec

-----------------------------------------------------------------------------
(* A nonempty set of numbers has a least one.                              *)
LEMMA LeastNumber ==
  ASSUME NEW S \in SUBSET Nat, S # {}
  PROVE  \E n \in S : \A m \in S : n <= m
<1> DEFINE Below(n) == 0..n
           Segments == {Below(n) : n \in S}
<1>1. \A n \in S : IsFiniteSet(Below(n)) /\ Below(n) \subseteq Nat
  BY FS_Interval
<1>2. Segments \subseteq FiniteSubsetsOf(Nat) /\ Segments # {}
  BY <1>1 DEF FiniteSubsetsOf
<1>3. \E x \in Segments : \A y \in Segments : ~ (<<y, x>> \in StrictSubsetOrdering(Nat))
  BY <1>2, FS_StrictSubsetOrderingWellFounded, WFMin
<1>4. PICK n \in S : \A m \in S : ~ (<<Below(m), Below(n)>> \in StrictSubsetOrdering(Nat))
  BY <1>3
<1>5. ASSUME NEW m \in S, m < n PROVE <<Below(m), Below(n)>> \in StrictSubsetOrdering(Nat)
  <2>1. Below(m) \subseteq Below(n) /\ n \in Below(n) /\ n \notin Below(m)
    BY <1>5
  <2> QED BY <2>1, <1>1 DEF StrictSubsetOrdering
<1>6. \A m \in S : ~ (m < n)
  <2> HIDE DEF Below, Segments
  <2> QED BY <1>4, <1>5
<1> QED BY <1>6

-----------------------------------------------------------------------------
(* The graph of the units.                                                 *)

Phases == {"filter", "sort", "levels", "dfs"} \union Outcome
Started == pc \notin {"filter", "missing"}
Searched == pc \in {"dfs", "cycle"}
Ordered == Range(order)
Black == Colored(nodes, "black")

GraphTypes ==
  /\ listed \in [Units -> Seq(Units \union Others)]
  /\ complete \in SUBSET Units /\ target \in Targets /\ nodes \in SUBSET Units
  /\ left \in [Units -> SUBSET Nat] /\ pc \in Phases
  /\ degree \in [Units -> Int] /\ queue \in SUBSET nodes /\ order \in Seq(nodes)
  /\ levels \in Seq(SUBSET nodes)
  /\ color \in [Units -> {"white", "gray", "black"}] /\ path \in Seq(nodes)
  /\ cycle \in Seq(nodes)

(* What Build leaves.                                                      *)
Built ==
  IF pc = "filter"
  THEN nodes = {}
  ELSE /\ nodes = Chosen \ complete
       /\ \A u \in Units : left[u] = IF u \in nodes THEN Remaining(u) ELSE {}
       /\ pc = "missing" <=> \E u \in nodes : ~(Deps(u) \subseteq nodes)

(* Kahn's algorithm: the degree of a unit counts the entries whose units   *)
(* are not ordered yet, and those at zero are in the queue.                *)
Waits(u) == {i \in left[u] : listed[u][i] \notin Ordered}
KahnInv ==
  Started =>
    /\ queue \intersect Ordered = {}
    /\ \A i, k \in 1..Len(order) : order[i] = order[k] => i = k
    /\ \A u \in nodes : degree[u] = Cardinality(Waits(u))
    /\ \A u \in nodes \ Ordered : u \in queue <=> degree[u] = 0
    /\ \A k \in 1..Len(order) : \A d \in Deps(order[k]) : \E i \in 1..(k - 1) : order[i] = d
    /\ pc \in {"levels", "ok"} => Ordered = nodes
    /\ Searched => Ordered # nodes /\ queue = {}

(* The levels: a unit that is left has a dependency past all but the last. *)
Below(n) == UNION {levels[m] : m \in 1..(n - 1)}
LevelInv ==
  /\ pc \notin {"levels", "ok"} => levels = <<>>
  /\ \A n \in 1..Len(levels) :
       /\ levels[n] # {}
       /\ \A u \in levels[n] :
            /\ Deps(u) \subseteq Below(n)
            /\ n > 1 => Deps(u) \intersect levels[n - 1] # {}
  /\ \A u \in nodes \ Below(Len(levels) + 1) :
       Len(levels) > 0 => ~(Deps(u) \subseteq Below(Len(levels)))
  /\ pc = "ok" => Below(Len(levels) + 1) = nodes

(* The depth-first search: the path is one of dependents, what is black    *)
(* has black dependents only, and has no cycle.                            *)
SearchInv ==
  /\ ~Searched => path = <<>> /\ cycle = <<>> /\ color = [u \in Units |-> "white"]
  /\ \A u \in Units : color[u] = "gray" <=> u \in Range(path)
  /\ \A i, k \in 1..Len(path) : path[i] = path[k] => i = k
  /\ \A i \in 1..(Len(path) - 1) : path[i] \in Deps(path[i + 1])
  /\ \A u \in Black : Dependents(u) \subseteq Black
  /\ \A S \in SUBSET Black : S = {} \/ \E u \in S : Deps(u) \intersect S = {}
  /\ pc = "cycle" => /\ Range(cycle) # {}
                     /\ \A u \in Range(cycle) : Deps(u) \intersect Range(cycle) # {}

GraphInv == GraphTypes /\ Built /\ KahnInv /\ LevelInv /\ SearchInv

LEMMA LeastIsLeast ==
  ASSUME NEW S \in SUBSET Nat, S # {}
  PROVE  Least(S) \in S /\ \A v \in S : Least(S) <= v
BY LeastNumber DEF Least

LEMMA UnitsAreNumbers == Units \subseteq Nat \ {0} /\ IsFiniteSet(Units)
BY GraphAssumption

LEMMA GraphInit == Init => GraphInv
<1> SUFFICES ASSUME Init PROVE GraphInv
  OBVIOUS
<1>1. listed \in [Units -> Seq(Units \union Others)]
  <2>1. listed \in [Units -> UNION {[1..n -> Units \union Others] : n \in 0..MaxDeps}]
    BY DEF Init
  <2>2. ASSUME NEW u \in Units PROVE listed[u] \in Seq(Units \union Others)
    <3>1. listed[u] \in UNION {[1..n -> Units \union Others] : n \in 0..MaxDeps}
      BY <2>1
    <3>2. PICK n \in 0..MaxDeps : listed[u] \in [1..n -> Units \union Others]
      BY <3>1
    <3> QED BY <3>2, GraphAssumption
  <2> QED BY <2>1, <2>2
<1>2. Range(path) = {} /\ Black = {} /\ Below(1) = {} /\ Len(levels) = 0 /\ Len(path) = 0
  BY DEF Init, Range, Black, Colored, Below
<1>3. GraphTypes
  BY <1>1 DEF Init, GraphTypes, Phases
<1>4. SearchInv
  BY <1>2 DEF Init, SearchInv, Searched
<1>5. Built /\ KahnInv /\ LevelInv
  BY <1>2 DEF Init, Built, KahnInv, LevelInv, Started
<1> QED BY <1>3, <1>4, <1>5 DEF GraphInv

(* The entries of a unit: each set of them is finite.                      *)
LEMMA EntriesAreFinite ==
  ASSUME GraphTypes, NEW u \in Units
  PROVE  IsFiniteSet(Remaining(u)) /\ Remaining(u) \subseteq 1..Len(listed[u])
<1>1. Len(listed[u]) \in Nat
  BY DEF GraphTypes
<1>2. IsFiniteSet(1..Len(listed[u]))
  BY <1>1, FS_Interval
<1> QED BY <1>2, FS_Subset DEF Remaining

LEMMA BuildKeeps == ASSUME GraphInv, Build PROVE GraphInv'
<1> USE DEF dfsVars, kahnVars
<1>1. /\ pc = "filter" /\ UNCHANGED <<listed, target, complete, order, levels, color, path, cycle>>
      /\ nodes' = Chosen \ complete
      /\ left' = [u \in Units |-> IF u \in nodes' THEN Remaining(u) ELSE {}]
      /\ degree' = [u \in Units |-> Cardinality(left'[u])]
      /\ nodes = {} /\ queue = {} /\ path = <<>> /\ cycle = <<>> /\ levels = <<>> /\ order = <<>>
      /\ color = [u \in Units |-> "white"]
  BY DEF Build, GraphInv, Built, GraphTypes, SearchInv, LevelInv, Searched
<1>2. nodes' \subseteq Units
  BY <1>1 DEF Chosen
<1>3. \A u \in Units : IsFiniteSet(left'[u]) /\ Cardinality(left'[u]) \in Nat /\ left'[u] \subseteq Nat
  BY <1>1, EntriesAreFinite, FS_EmptySet, FS_CardinalityType DEF GraphInv, Remaining
<1>4. \/ /\ \E u \in nodes' : \E i \in left'[u] : listed[u][i] \notin nodes'
         /\ pc' = "missing" /\ queue' = {}
      \/ /\ \A u \in nodes' : \A i \in left'[u] : listed[u][i] \in nodes'
         /\ pc' = "sort" /\ queue' = {u \in nodes' : degree'[u] = 0}
  BY <1>1 DEF Build
<1>5. GraphTypes'
  <2>1. degree' \in [Units -> Int] /\ left' \in [Units -> SUBSET Nat]
    BY <1>1, <1>3
  <2>2. queue' \subseteq nodes' /\ pc' \in Phases
    BY <1>4 DEF Phases, Outcome
  <2>3. order' \in Seq(nodes') /\ levels' \in Seq(SUBSET nodes') /\ path' \in Seq(nodes') /\ cycle' \in Seq(nodes')
    BY <1>1
  <2> QED BY <1>1, <1>2, <2>1, <2>2, <2>3 DEF GraphInv, GraphTypes
<1>6. Built'
  <2>1. pc' # "filter" /\ nodes' = (Chosen \ complete)' /\ \A u \in Units : left'[u] = IF u \in nodes' THEN Remaining(u)' ELSE {}
    <3>1. nodes' = (Chosen \ complete)'
      BY <1>1 DEF Chosen, Closed, Names
    <3>2. \A u \in Units : left'[u] = IF u \in nodes' THEN Remaining(u)' ELSE {}
      BY <1>1 DEF Remaining
    <3> QED BY <3>1, <3>2, <1>4
  <2>2. (pc' = "missing") <=> \E u \in nodes' : ~(Deps(u)' \subseteq nodes')
    <3>1. \A u \in nodes' : Deps(u)' = {listed[u][i] : i \in left'[u]}
      BY <1>1 DEF Deps
    <3>2. (\E u \in nodes' : ~(Deps(u)' \subseteq nodes'))
            <=> \E u \in nodes' : \E i \in left'[u] : listed[u][i] \notin nodes'
      BY <3>1
    <3>3. ASSUME pc' # "missing" PROVE \A u \in nodes' : \A i \in left'[u] : listed[u][i] \in nodes'
      BY <3>3, <1>4
    <3>4. ASSUME pc' = "missing" PROVE \E u \in nodes' : \E i \in left'[u] : listed[u][i] \notin nodes'
      BY <3>4, <1>4
    <3> QED BY <3>2, <3>3, <3>4
  <2> QED BY <2>1, <2>2 DEF Built
<1>7. KahnInv'
  <2>1. Ordered' = {} /\ Len(order') = 0
    BY <1>1 DEF Ordered, Range
  <2>2. \A u \in nodes' : degree'[u] = Cardinality(Waits(u)')
    BY <1>1, <1>2, <2>1 DEF Waits
  <2>3. pc' \in {"missing", "sort"} /\ (pc' = "sort" => queue' = {u \in nodes' : degree'[u] = 0})
    BY <1>4
  <2> QED BY <2>1, <2>2, <2>3 DEF KahnInv, Started, Searched
<1>8. LevelInv' /\ SearchInv'
  <2>1. Range(path') = {} /\ Black' = {} /\ Below(1)' = {} /\ Len(levels') = 0 /\ Len(path') = 0
    BY <1>1, <1>2 DEF Range, Black, Colored, Below
  <2>2. pc' \notin {"dfs", "cycle", "ok"}
    BY <1>4
  <2>3. LevelInv'
    BY <1>1, <2>1, <2>2 DEF LevelInv
  <2>4. SearchInv'
    BY <1>1, <2>1, <2>2 DEF SearchInv, Searched
  <2> QED BY <2>3, <2>4
<1> QED BY <1>5, <1>6, <1>7, <1>8 DEF GraphInv

(* What stays when a step leaves what it is about alone.                   *)
graph == <<listed, complete, target, nodes, left>>

LEMMA DepsStay ==
  ASSUME UNCHANGED graph
  PROVE  \A u : Deps(u)' = Deps(u) /\ Dependents(u)' = Dependents(u)
<1>1. \A u : Deps(u)' = Deps(u)
  BY DEF graph, Deps
<1> QED BY <1>1 DEF graph, Dependents

LEMMA BuiltStays ==
  ASSUME UNCHANGED graph, Built, pc # "filter", pc' # "filter",
         pc' = "missing" <=> pc = "missing"
  PROVE  Built'
<1>1. Chosen' = Chosen /\ (\A u : Remaining(u)' = Remaining(u))
  BY DEF graph, Chosen, Closed, Names, Remaining
<1>2. (\E u \in nodes : ~(Deps(u) \subseteq nodes))' <=> \E u \in nodes : ~(Deps(u) \subseteq nodes)
  BY DepsStay DEF graph
<1> QED BY <1>1, <1>2 DEF Built, graph

LEMMA LevelsStay ==
  ASSUME UNCHANGED <<graph, levels>>, LevelInv, pc' # "ok" \/ pc = "ok",
         pc \in {"levels", "ok"} => pc' \in {"levels", "ok"}
  PROVE  LevelInv'
<1>1. \A n : Below(n)' = Below(n)
  BY DEF Below
<1>2. \A u : Deps(u)' = Deps(u)
  BY DepsStay
<1>3. nodes' = nodes
  BY DEF graph
<1> QED BY <1>1, <1>2, <1>3 DEF LevelInv

LEMMA SearchStays ==
  ASSUME UNCHANGED <<graph, color, path, cycle>>, SearchInv, pc' # "cycle" \/ pc = "cycle",
         Searched => Searched'
  PROVE  SearchInv'
<1>1. \A u : Deps(u)' = Deps(u) /\ Dependents(u)' = Dependents(u)
  BY DepsStay
<1>2. nodes' = nodes /\ Black' = Black /\ Range(path)' = Range(path) /\ Range(cycle)' = Range(cycle)
  BY DEF graph, Black, Colored
<1> QED BY <1>1, <1>2 DEF SearchInv

(* The entries of v that name u are among those v waits for.               *)
LEMMA EntriesCounted ==
  ASSUME GraphInv, NEW u \in nodes \ Ordered, NEW v \in nodes, pc # "filter"
  PROVE  LET now == {i \in left[v] : listed[v][i] \notin Ordered \union {u}}
         IN  /\ IsFiniteSet(Waits(v)) /\ IsFiniteSet(now)
             /\ Cardinality(Waits(v)) \in Nat /\ Cardinality(now) \in Nat
             /\ Cardinality(now) = Cardinality(Waits(v)) - Occurs(u, v)
             /\ Occurs(u, v) \in Nat
             /\ Waits(v) = {} => Occurs(u, v) = 0
<1> DEFINE mine == {i \in left[v] : listed[v][i] = u}
           now == {i \in left[v] : listed[v][i] \notin Ordered \union {u}}
<1>1. mine \subseteq Waits(v) /\ now = Waits(v) \ mine
  BY DEF Waits
<1>2. left[v] = Remaining(v) /\ v \in Units
  BY DEF GraphInv, Built, GraphTypes
<1>3. IsFiniteSet(left[v])
  BY <1>2, EntriesAreFinite DEF GraphInv
<1>4. IsFiniteSet(Waits(v)) /\ IsFiniteSet(now)
  <2>1. Waits(v) \subseteq left[v] /\ now \subseteq left[v]
    BY DEF Waits
  <2> QED BY <2>1, <1>3, FS_Subset
<1>5. Waits(v) \intersect mine = mine /\ IsFiniteSet(mine)
  BY <1>1, <1>4, FS_Subset
<1>6. Cardinality(now) = Cardinality(Waits(v)) - Cardinality(mine)
  <2> HIDE DEF mine, now
  <2>1. Cardinality(Waits(v) \ mine) = Cardinality(Waits(v)) - Cardinality(Waits(v) \intersect mine)
    BY <1>4, FS_Difference
  <2> QED BY <1>1, <1>5, <2>1
<1>7. Waits(v) = {} => Cardinality(mine) = 0
  BY <1>1, FS_EmptySet
<1> HIDE DEF mine, now
<1>8. Occurs(u, v) = Cardinality(mine)
  BY DEF Occurs, mine
<1>9. Cardinality(Waits(v)) \in Nat /\ Cardinality(now) \in Nat /\ Cardinality(mine) \in Nat
  BY <1>4, <1>5, FS_CardinalityType
<1> QED BY <1>4, <1>6, <1>7, <1>8, <1>9 DEF now

LEMMA KahnKeeps == ASSUME GraphInv, Kahn PROVE GraphInv'
<1> USE DEF dfsVars, graph
<1>1. /\ pc = "sort" /\ queue # {}
      /\ UNCHANGED <<listed, target, complete, nodes, left, pc, levels, color, path, cycle>>
  BY DEF Kahn
<1>2. PICK u : u = Least(queue)
  OBVIOUS
<1>3. u \in queue /\ u \in nodes /\ nodes \subseteq Units
  <2>1. queue \subseteq nodes /\ nodes \subseteq Units
    BY DEF GraphInv, GraphTypes
  <2>2. queue \subseteq Nat
    BY <2>1, UnitsAreNumbers
  <2> QED BY <1>1, <1>2, <2>1, <2>2, LeastIsLeast
<1>4. /\ order' = Append(order, u)
      /\ degree' = [v \in Units |-> degree[v] - Occurs(u, v)]
      /\ queue' = (queue \ {u}) \union {v \in nodes : degree[v] > 0 /\ degree[v] = Occurs(u, v)}
  BY <1>2 DEF Kahn, Decrement
<1>5. /\ order \in Seq(nodes) /\ Len(order) \in Nat
      /\ order' \in Seq(nodes) /\ Len(order') = Len(order) + 1
      /\ \A k \in 1..Len(order) : order'[k] = order[k]
      /\ order'[Len(order) + 1] = u
      /\ Ordered = {order[k] : k \in 1..Len(order)}
  BY <1>3, <1>4 DEF GraphInv, GraphTypes, Ordered, Range
<1>6. Ordered' = Ordered \union {u}
  <2>1. Ordered' = {order'[k] : k \in 1..Len(order')}
    BY <1>5 DEF Ordered, Range
  <2>2. {order'[k] : k \in 1..Len(order')} = {order[k] : k \in 1..Len(order)} \union {u}
    BY <1>5
  <2> QED BY <1>5, <2>1, <2>2
<1>7. KahnInv
  BY DEF GraphInv
<1>8. u \notin Ordered /\ Started
  BY <1>1, <1>3, <1>7 DEF KahnInv, Started
<1>9. ASSUME NEW v \in nodes
      PROVE  /\ degree'[v] = Cardinality(Waits(v)') /\ degree[v] = Cardinality(Waits(v))
             /\ degree[v] \in Nat /\ degree'[v] \in Nat
             /\ degree'[v] = degree[v] - Occurs(u, v) /\ Occurs(u, v) \in Nat
             /\ degree[v] = 0 => Occurs(u, v) = 0 /\ Waits(v) = {}
  <2>1. Waits(v)' = {i \in left[v] : listed[v][i] \notin Ordered \union {u}}
    BY <1>1, <1>6 DEF Waits
  <2>2. degree[v] = Cardinality(Waits(v)) /\ degree'[v] = degree[v] - Occurs(u, v)
    BY <1>3, <1>4, <1>7, <1>8 DEF KahnInv
  <2>3. pc # "filter" /\ u \in nodes \ Ordered
    BY <1>1, <1>3, <1>8
  <2>4. /\ IsFiniteSet(Waits(v)) /\ Cardinality(Waits(v)) \in Nat /\ Cardinality(Waits(v)') \in Nat
        /\ Cardinality(Waits(v)') = Cardinality(Waits(v)) - Occurs(u, v)
        /\ Occurs(u, v) \in Nat
        /\ Waits(v) = {} => Occurs(u, v) = 0
    BY <2>1, <2>3, EntriesCounted
  <2>5. degree[v] = 0 => Waits(v) = {}
    BY <2>2, <2>4, FS_EmptySet
  <2> QED BY <2>2, <2>4, <2>5
<1>10. Deps(u) \subseteq Ordered
  <2>1. degree[u] = 0
    BY <1>3, <1>7, <1>8 DEF KahnInv
  <2>2. Waits(u) = {}
    BY <2>1, <1>3, <1>9
  <2> QED BY <2>2 DEF Waits, Deps
<1>11. GraphTypes'
  <2>1. degree' \in [Units -> Int]
    <3>1. \A v \in Units : degree[v] \in Int
      BY DEF GraphInv, GraphTypes
    <3>2. \A v \in Units : Occurs(u, v) \in Int
      <4> SUFFICES ASSUME NEW v \in Units PROVE Occurs(u, v) \in Int
        OBVIOUS
      <4>1. IsFiniteSet({i \in left[v] : listed[v][i] = u})
        <5>1. left[v] \subseteq Remaining(v)
          BY <1>1 DEF GraphInv, Built
        <5>2. {i \in left[v] : listed[v][i] = u} \subseteq Remaining(v)
          BY <5>1
        <5> QED BY <5>2, EntriesAreFinite, FS_Subset DEF GraphInv
      <4> QED BY <4>1, FS_CardinalityType DEF Occurs
    <3> QED BY <1>4, <3>1, <3>2
  <2>2. queue' \in SUBSET nodes
    BY <1>4 DEF GraphInv, GraphTypes
  <2> QED BY <1>1, <1>5, <2>1, <2>2 DEF GraphInv, GraphTypes
<1>12. Built'
  BY <1>1, BuiltStays DEF GraphInv
<1>13. KahnInv'
  <2>1. queue' \intersect Ordered' = {}
    <3> SUFFICES ASSUME NEW v \in queue' PROVE v \notin Ordered \union {u}
      BY <1>6
    <3>1. CASE v \in queue
      BY <3>1, <1>4, <1>3, <1>7, <1>8, <1>9 DEF KahnInv
    <3>2. CASE v \in nodes /\ degree[v] > 0 /\ degree[v] = Occurs(u, v)
      <4>1. degree[u] = 0
        BY <1>3, <1>7, <1>8 DEF KahnInv
      <4>2. v \notin Ordered
        <5> SUFFICES ASSUME v \in Ordered PROVE FALSE
          OBVIOUS
        <5>1. PICK k \in 1..Len(order) : order[k] = v
          BY <1>5 DEF Ordered, Range
        <5>2. Deps(v) \subseteq Ordered
          <6> SUFFICES ASSUME NEW d \in Deps(order[k]) PROVE d \in Ordered
            BY <5>1
          <6>1. PICK i \in 1..(k - 1) : order[i] = d
            BY <1>7, <1>8 DEF KahnInv
          <6>2. i \in 1..Len(order)
            BY <1>5
          <6> QED BY <6>1, <6>2, <1>5
        <5>3. Waits(v) = {}
          BY <5>2 DEF Waits, Deps
        <5>4. Cardinality(Waits(v)) = 0
          BY <5>3, FS_EmptySet
        <5> QED BY <5>4, <3>2, <1>9
      <4> QED BY <4>1, <4>2, <3>2
    <3> QED BY <3>1, <3>2, <1>4
  <2>2. \A i, k \in 1..Len(order') : order'[i] = order'[k] => i = k
    <3>1. \A i \in 1..Len(order) : order[i] # u
      BY <1>5, <1>8 DEF Ordered, Range
    <3>2. \A i, k \in 1..Len(order) : order[i] = order[k] => i = k
      BY <1>7, <1>8 DEF KahnInv
    <3> QED BY <3>1, <3>2, <1>5
  <2>3. \A v \in nodes' \ Ordered' : v \in queue' <=> degree'[v] = 0
    <3> SUFFICES ASSUME NEW v \in nodes, v \notin Ordered, v # u
                 PROVE  v \in queue' <=> degree'[v] = 0
      BY <1>1, <1>6
    <3>1. v \in queue <=> degree[v] = 0
      BY <1>7, <1>8 DEF KahnInv
    <3>2. v \in queue' <=> v \in queue \/ (degree[v] > 0 /\ degree[v] = Occurs(u, v))
      BY <1>4
    <3> QED BY <3>1, <3>2, <1>9
  <2>4. \A k \in 1..Len(order') : \A d \in Deps(order[k])' : \E i \in 1..(k - 1) : order'[i] = d
    <3> SUFFICES ASSUME NEW k \in 1..Len(order'), NEW d \in Deps(order[k])'
                 PROVE  \E i \in 1..(k - 1) : order'[i] = d
      OBVIOUS
    <3>1. d \in Deps(order'[k])
      BY <1>1 DEF Deps
    <3>2. CASE k \in 1..Len(order)
      <4>1. PICK i \in 1..(k - 1) : order[i] = d
        BY <3>1, <3>2, <1>5, <1>7, <1>8 DEF KahnInv
      <4> QED BY <4>1, <3>2, <1>5
    <3>3. CASE k = Len(order) + 1
      <4>1. d \in Ordered
        BY <3>1, <3>3, <1>5, <1>10
      <4>2. PICK i \in 1..Len(order) : order[i] = d
        BY <4>1, <1>5 DEF Ordered, Range
      <4> QED BY <4>2, <3>3, <1>5
    <3> QED BY <3>2, <3>3, <1>5
  <2>5. \A v \in nodes' : degree'[v] = Cardinality(Waits(v)')
    BY <1>1, <1>9
  <2> QED BY <1>1, <2>1, <2>2, <2>3, <2>4, <2>5 DEF KahnInv, Searched
<1>14. LevelInv' /\ SearchInv'
  BY <1>1, LevelsStay, SearchStays DEF GraphInv, Searched
<1> QED BY <1>11, <1>12, <1>13, <1>14 DEF GraphInv

(* As many as there are, each once, are all; fewer or more are not.        *)
LEMMA AllOrdered ==
  ASSUME GraphInv, Started
  PROVE  Len(order) = Cardinality(nodes) <=> Ordered = nodes
<1>1. IsFiniteSet(nodes) /\ Cardinality(nodes) \in Nat
  BY UnitsAreNumbers, FS_Subset, FS_CardinalityType DEF GraphInv, GraphTypes
<1>2. order \in [1..Len(order) -> nodes] /\ Len(order) \in Nat /\ Ordered = {order[k] : k \in 1..Len(order)}
  BY DEF GraphInv, GraphTypes, Ordered, Range
<1>3. order \in Injection(1..Len(order), nodes)
  <2>1. \A i, k \in 1..Len(order) : order[i] = order[k] => i = k
    BY DEF GraphInv, KahnInv
  <2>2. IsInjective(order)
    BY <1>2, <2>1 DEF IsInjective
  <2> QED BY <1>2, <2>2 DEF Injection
<1>4. IsFiniteSet(1..Len(order)) /\ Cardinality(1..Len(order)) = Len(order)
  <2>1. PICK n \in Nat : n = Len(order)
    BY <1>2
  <2>2. IsFiniteSet(1..n) /\ Cardinality(1..n) = IF 1 > n THEN 0 ELSE n - 1 + 1
    BY FS_Interval
  <2> QED BY <2>1, <2>2
<1>5. Cardinality(1..Len(order)) = Cardinality(nodes) <=> order \in Surjection(1..Len(order), nodes)
  BY <1>1, <1>3, FS_Injection
<1>6. order \in Surjection(1..Len(order), nodes) <=> Ordered = nodes
  BY <1>2 DEF Surjection
<1> QED BY <1>4, <1>5, <1>6

(* A step that leaves Kahn's part alone.                                   *)
LEMMA KahnStays ==
  ASSUME UNCHANGED <<graph, degree, queue, order>>, KahnInv, Started,
         pc' \in {"levels", "ok"} => Ordered = nodes, Searched' => Ordered # nodes /\ queue = {}
  PROVE  KahnInv'
<1>1. Ordered' = Ordered /\ (\A u : Waits(u)' = Waits(u)) /\ (\A u : Deps(u)' = Deps(u))
  BY DepsStay DEF graph, Ordered, Waits
<1>2. nodes' = nodes
  BY DEF graph
<1> QED BY <1>1, <1>2 DEF KahnInv

LEMMA SortKeeps == ASSUME GraphInv, Sort PROVE GraphInv'
<1> USE DEF dfsVars, kahnVars, graph
<1>1. /\ pc = "sort" /\ queue = {}
      /\ pc' = IF Len(order) = Cardinality(nodes) THEN "levels" ELSE "dfs"
      /\ UNCHANGED <<graph, degree, queue, order, levels, color, path, cycle>>
  BY DEF Sort
<1>2. Started /\ (Len(order) = Cardinality(nodes) <=> Ordered = nodes)
  BY <1>1, AllOrdered DEF Started
<1>3. GraphTypes'
  BY <1>1 DEF GraphInv, GraphTypes, Phases
<1>4. KahnInv'
  <2>1. (pc' \in {"levels", "ok"} => Ordered = nodes) /\ (Searched' => Ordered # nodes /\ queue = {})
    BY <1>1, <1>2 DEF Searched
  <2> QED BY <1>1, <1>2, <2>1, KahnStays DEF GraphInv
<1>5. Built'
  BY <1>1, BuiltStays DEF GraphInv
<1>6. LevelInv' /\ SearchInv'
  BY <1>1, LevelsStay, SearchStays DEF GraphInv, Searched
<1> QED BY <1>3, <1>4, <1>5, <1>6 DEF GraphInv

(* Among units that are left with all before them ordered, one depends on  *)
(* none of the others: the one that comes first in the order.              *)
LEMMA OrderedAreAcyclic ==
  ASSUME GraphInv, Started, Ordered = nodes, NEW S \in SUBSET nodes, S # {}
  PROVE  \E u \in S : Deps(u) \intersect S = {}
<1>1. Len(order) \in Nat /\ Ordered = {order[k] : k \in 1..Len(order)}
  BY DEF GraphInv, GraphTypes, Ordered, Range
<1>2. PICK at : at = {k \in 1..Len(order) : order[k] \in S}
  OBVIOUS
<1>3. at # {} /\ at \subseteq Nat
  BY <1>1, <1>2
<1>4. PICK k \in at : \A i \in at : k <= i
  BY <1>3, LeastNumber
<1>5. ASSUME NEW d \in Deps(order[k]), d \in S PROVE FALSE
  <2>1. PICK i \in 1..(k - 1) : order[i] = d
    BY <1>2 DEF GraphInv, KahnInv
  <2>2. i \in 1..Len(order) /\ i < k
    BY <1>1, <1>2
  <2> QED BY <1>2, <1>4, <1>5, <2>1, <2>2
<1> QED BY <1>2, <1>5

LEMMA LevelKeeps == ASSUME GraphInv, Level PROVE GraphInv'
<1> USE DEF dfsVars, kahnVars, graph
<1>1. PICK earlier : earlier = UNION Range(levels)
  OBVIOUS
<1>1a. PICK L : L = Len(levels)
  OBVIOUS
<1>2. PICK next : next = {u \in nodes \ earlier : FitsLevel(u, earlier)}
  OBVIOUS
<1>3. /\ pc = "levels"
      /\ UNCHANGED <<graph, degree, queue, order, color, path, cycle>>
      /\ \/ earlier = nodes /\ pc' = "ok" /\ levels' = levels
         \/ earlier # nodes /\ pc' = pc /\ levels' = Append(levels, next)
  BY <1>1, <1>2 DEF Level
<1>4. /\ levels \in Seq(SUBSET nodes) /\ Len(levels) \in Nat
      /\ earlier = Below(Len(levels) + 1) /\ earlier \subseteq nodes
      /\ L = Len(levels)
  <2>1. levels \in Seq(SUBSET nodes) /\ Len(levels) \in Nat
    BY DEF GraphInv, GraphTypes
  <2>2. Range(levels) = {levels[m] : m \in 1..Len(levels)}
    BY <2>1 DEF Range
  <2>3. Below(Len(levels) + 1) = UNION {levels[m] : m \in 1..Len(levels)}
    BY <2>1 DEF Below
  <2>4. \A m \in 1..Len(levels) : levels[m] \subseteq nodes
    BY <2>1
  <2> QED BY <1>1, <1>1a, <2>1, <2>2, <2>3, <2>4
<1>5. Started /\ ~Searched
  BY <1>3 DEF Started, Searched
<1>6. KahnInv' /\ Built' /\ SearchInv'
  <2>1. Ordered = nodes
    BY <1>3, <1>5 DEF GraphInv, KahnInv
  <2> QED BY <1>3, <1>5, <2>1, KahnStays, BuiltStays, SearchStays DEF GraphInv, Searched
<1>7. CASE earlier = nodes
  <2>1. GraphTypes'
    BY <1>3, <1>7 DEF GraphInv, GraphTypes, Phases, Outcome
  <2>2. (\A n : Below(n)' = Below(n)) /\ (\A u : Deps(u)' = Deps(u))
    BY <1>3, <1>7, DepsStay DEF Below
  <2>3. LevelInv'
    BY <1>3, <1>4, <1>7, <2>2 DEF GraphInv, LevelInv
  <2> QED BY <1>6, <2>1, <2>3 DEF GraphInv
<1>8. CASE earlier # nodes
  <2>1. /\ levels' \in Seq(SUBSET nodes) /\ Len(levels') = L + 1
        /\ \A m \in 1..L : levels'[m] = levels[m]
        /\ levels'[L + 1] = next /\ next \subseteq nodes
        /\ pc' = pc
    BY <1>2, <1>3, <1>4, <1>8
  <2>2. GraphTypes'
    BY <1>3, <2>1 DEF GraphInv, GraphTypes
  <2>3. next # {}
    <3>1. PICK u \in nodes \ earlier : Deps(u) \intersect (nodes \ earlier) = {}
      <4>1. Ordered = nodes /\ nodes \ earlier # {} /\ nodes \ earlier \in SUBSET nodes
        BY <1>3, <1>4, <1>5, <1>8 DEF GraphInv, KahnInv
      <4> QED BY <4>1, <1>5, OrderedAreAcyclic
    <3>2. Deps(u) \subseteq nodes
      BY <1>3 DEF GraphInv, Built
    <3> QED BY <1>2, <3>1, <3>2 DEF FitsLevel
  <2>4. \A n \in 1..(L + 1) : Below(n)' = Below(n)
    BY <1>4, <2>1 DEF Below
  <2>5. Below(L + 2)' = earlier \union next
    <3>1. Below(L + 2)' = UNION {levels'[m] : m \in 1..(L + 1)}
      BY <1>4 DEF Below
    <3>2. UNION {levels'[m] : m \in 1..(L + 1)}
            = (UNION {levels[m] : m \in 1..L}) \union next
      <4>1. {levels'[m] : m \in 1..(L + 1)} = {levels[m] : m \in 1..L} \union {next}
        BY <1>4, <2>1
      <4> QED BY <4>1
    <3>3. UNION {levels[m] : m \in 1..L} = earlier
      BY <1>4 DEF Below
    <3> QED BY <2>1, <3>1, <3>2, <3>3, <1>4
  <2>6. \A u : Deps(u)' = Deps(u)
    BY <1>3, DepsStay
  <2>7. \A u \in next : /\ Deps(u) \subseteq earlier
                        /\ L > 0 => Deps(u) \intersect levels[L] # {}
    <3> SUFFICES ASSUME NEW u \in next
                 PROVE  /\ Deps(u) \subseteq earlier
                        /\ L > 0 => Deps(u) \intersect levels[L] # {}
      OBVIOUS
    <3>1. Deps(u) \subseteq earlier /\ u \in nodes \ earlier
      BY <1>2 DEF FitsLevel
    <3>2. L > 0 => ~(Deps(u) \subseteq Below(L))
      BY <1>4, <3>1 DEF GraphInv, LevelInv
    <3>3. L > 0 => earlier = Below(L) \union levels[L]
      BY <1>4 DEF Below
    <3> QED BY <3>1, <3>2, <3>3
  <2>8. LevelInv'
    <3>1. \A n \in 1..Len(levels') :
            /\ levels'[n] # {}
            /\ \A u \in levels'[n] :
                 /\ Deps(u)' \subseteq Below(n)'
                 /\ n > 1 => Deps(u)' \intersect levels'[n - 1] # {}
      <4> SUFFICES ASSUME NEW n \in 1..Len(levels')
                   PROVE  /\ levels'[n] # {}
                          /\ \A u \in levels'[n] :
                               /\ Deps(u) \subseteq Below(n)
                               /\ n > 1 => Deps(u) \intersect levels'[n - 1] # {}
        BY <2>1, <2>4, <2>6, <1>4
      <4>1. CASE n \in 1..L
        <5>1. levels'[n] = levels[n] /\ (n > 1 => levels'[n - 1] = levels[n - 1])
          BY <4>1, <2>1, <1>4
        <5>2. /\ levels[n] # {}
              /\ \A u \in levels[n] :
                   Deps(u) \subseteq Below(n) /\ (n > 1 => Deps(u) \intersect levels[n - 1] # {})
          BY <4>1, <1>4 DEF GraphInv, LevelInv
        <5> QED BY <5>1, <5>2
      <4>2. CASE n = L + 1
        <5>1. levels'[n] = next /\ (n > 1 => levels'[n - 1] = levels[L]) /\ Below(n) = earlier
          BY <4>2, <2>1, <1>4
        <5> QED BY <4>2, <5>1, <2>3, <2>7, <1>4
      <4> QED BY <4>1, <4>2, <2>1, <1>4
    <3>2. \A u \in nodes \ Below(L + 2)' : ~(Deps(u) \subseteq Below(L + 1)')
      <4>1. Below(L + 1)' = earlier
        BY <2>1, <2>4, <1>4
      <4> QED BY <4>1, <2>5, <1>2 DEF FitsLevel
    <3>3. Below(Len(levels) + 1)' = Below(L + 2)' /\ Below(Len(levels))' = Below(L + 1)'
      BY <2>1, <1>4
    <3>4. pc' = "levels" /\ nodes' = nodes
      BY <1>3, <2>1
    <3> QED BY <2>6, <3>1, <3>2, <3>3, <3>4 DEF LevelInv
  <2> QED BY <1>6, <2>2, <2>8 DEF GraphInv
<1> QED BY <1>7, <1>8

(* What a step of the search leaves alone.                                 *)
LEMMA SearchLeaves ==
  ASSUME GraphInv, EnterRoot \/ Visit
  PROVE  /\ pc = "dfs" /\ pc' \in {"dfs", "cycle"} /\ UNCHANGED <<graph, degree, queue, order, levels>>
         /\ KahnInv' /\ Built' /\ LevelInv'
<1> USE DEF kahnVars, graph
<1>1. pc = "dfs" /\ UNCHANGED <<graph, degree, queue, order, levels>>
  BY DEF EnterRoot, Visit
<1>2. pc' \in {"dfs", "cycle"}
  <2>1. ASSUME EnterRoot PROVE pc' = pc
    BY <2>1 DEF EnterRoot
  <2>2. ASSUME Visit PROVE pc' \in {pc, "cycle"}
    <3>1. PICK v : v = Least({w \in Dependents(Last(path)) : color[w] # "black"})
      OBVIOUS
    <3>2. color[v] \in {"white", "gray"} \/ {w \in Dependents(Last(path)) : color[w] # "black"} = {}
      <4>1. PICK open : open = {w \in Dependents(Last(path)) : color[w] # "black"}
        OBVIOUS
      <4>2. open \subseteq Units /\ open \subseteq Nat
        BY <4>1, UnitsAreNumbers DEF Dependents, GraphInv, GraphTypes
      <4>3. open # {} => v \in open
        BY <3>1, <4>1, <4>2, LeastIsLeast
      <4> QED BY <4>1, <4>2, <4>3 DEF GraphInv, GraphTypes
    <3> QED BY <2>2, <3>1, <3>2 DEF Visit
  <2> QED BY <1>1, <2>1, <2>2
<1>3. Started /\ Searched
  BY <1>1 DEF Started, Searched
<1>4. Ordered # nodes /\ queue = {}
  BY <1>3 DEF GraphInv, KahnInv
<1> QED BY <1>1, <1>2, <1>3, <1>4, KahnStays, BuiltStays, LevelsStay DEF GraphInv

(* The search invariant, once the colours and the path are as they should. *)
LEMMA SearchMoves ==
  ASSUME GraphInv, UNCHANGED graph, Searched',
         pc' = "cycle" => /\ Range(cycle') # {}
                          /\ \A u \in Range(cycle') : Deps(u) \intersect Range(cycle') # {},
         \A u \in Units : color'[u] = "gray" <=> u \in Range(path'),
         \A i, k \in 1..Len(path') : path'[i] = path'[k] => i = k,
         \A i \in 1..(Len(path') - 1) : path'[i] \in Deps(path'[i + 1]),
         \A u \in Black' : Dependents(u) \subseteq Black',
         \A S \in SUBSET Black' : S = {} \/ \E u \in S : Deps(u) \intersect S = {}
  PROVE  SearchInv'
<1>1. \A u : Deps(u)' = Deps(u) /\ Dependents(u)' = Dependents(u)
  BY DepsStay
<1>2. (\A i \in 1..(Len(path) - 1) : path[i] \in Deps(path[i + 1]))'
  BY DEF graph, Deps
<1> QED BY <1>1, <1>2 DEF SearchInv

LEMMA EnterRootKeeps == ASSUME GraphInv, EnterRoot PROVE GraphInv'
<1> USE DEF kahnVars
<1>1. /\ pc = "dfs" /\ UNCHANGED <<graph, degree, queue, order, levels>>
      /\ KahnInv' /\ Built' /\ LevelInv' /\ UNCHANGED <<pc, cycle>> /\ path = <<>>
  BY SearchLeaves DEF EnterRoot
<1>2. PICK u \in Colored(nodes, "white") : color' = [color EXCEPT ![u] = "gray"] /\ path' = <<u>>
  <2>1. Colored(nodes, "white") \subseteq Nat /\ Colored(nodes, "white") # {}
    BY UnitsAreNumbers DEF EnterRoot, Colored, GraphInv, GraphTypes
  <2> QED BY <2>1, LeastIsLeast DEF EnterRoot
<1>3. u \in nodes /\ u \in Units /\ color[u] = "white" /\ color \in [Units -> {"white", "gray", "black"}]
  BY DEF Colored, GraphInv, GraphTypes
<1>4. GraphTypes'
  BY <1>1, <1>2, <1>3 DEF GraphInv, GraphTypes, graph
<1>5. Black' = Black
  BY <1>1, <1>2, <1>3 DEF Black, Colored, graph, GraphInv, GraphTypes
<1>6. Range(path) = {} /\ Range(path') = {u} /\ Len(path') = 1 /\ path' \in Seq(nodes) /\ path'[1] = u
  BY <1>1, <1>2, <1>3 DEF Range
<1>7. \A v \in Units : color'[v] = "gray" <=> v \in Range(path')
  BY <1>2, <1>3, <1>6 DEF GraphInv, SearchInv
<1>8. SearchInv'
  <2>1. \A i, k \in 1..Len(path') : path'[i] = path'[k] => i = k
    BY <1>6
  <2>2. \A i \in 1..(Len(path') - 1) : path'[i] \in Deps(path'[i + 1])
    BY <1>6
  <2>3. /\ \A v \in Black' : Dependents(v) \subseteq Black'
        /\ \A S \in SUBSET Black' : S = {} \/ \E v \in S : Deps(v) \intersect S = {}
    BY <1>5 DEF GraphInv, SearchInv
  <2>4. Searched' /\ pc' # "cycle" /\ color' \in [Units -> {"white", "gray", "black"}]
    BY <1>1, <1>2, <1>3 DEF Searched
  <2> QED BY <1>1, <1>6, <1>7, <2>1, <2>2, <2>3, <2>4, SearchMoves
<1> QED BY <1>1, <1>4, <1>8 DEF GraphInv

LEMMA Joined ==
  ASSUME NEW T, NEW s \in Seq(T), NEW t \in Seq(T)
  PROVE  /\ s \o t \in Seq(T) /\ Len(s \o t) = Len(s) + Len(t)
         /\ \A i \in 1..Len(s) : (s \o t)[i] = s[i]
         /\ \A i \in 1..Len(t) : (s \o t)[Len(s) + i] = t[i]
OBVIOUS

LEMMA VisitKeeps == ASSUME GraphInv, Visit PROVE GraphInv'
<1> USE DEF kahnVars
<1>1. /\ pc = "dfs" /\ pc' \in {"dfs", "cycle"} /\ UNCHANGED <<graph, degree, queue, order, levels>>
      /\ KahnInv' /\ Built' /\ LevelInv' /\ path # <<>>
  BY SearchLeaves DEF Visit
<1>2. PICK n, top : n = Len(path) /\ top = path[n]
  OBVIOUS
<1>3. PICK open : open = {v \in Dependents(top) : color[v] # "black"}
  OBVIOUS
<1>4. PICK v : v = Least(open)
  OBVIOUS
<1>5. /\ path \in Seq(nodes) /\ n \in Nat \ {0} /\ top \in nodes /\ nodes \subseteq Units
      /\ Range(path) = {path[i] : i \in 1..n} /\ color[top] = "gray"
      /\ color \in [Units -> {"white", "gray", "black"}] /\ cycle \in Seq(nodes)
      /\ \A i, k \in 1..n : path[i] = path[k] => i = k
      /\ \A i \in 1..(n - 1) : path[i] \in Deps(path[i + 1])
      /\ \A u \in Units : color[u] = "gray" <=> u \in Range(path)
  <2>1. path \in Seq(nodes) /\ nodes \subseteq Units /\ color \in [Units -> {"white", "gray", "black"}] /\ cycle \in Seq(nodes)
    BY DEF GraphInv, GraphTypes
  <2>2. n \in Nat \ {0} /\ top \in nodes
    BY <1>1, <1>2, <2>1
  <2>3. Range(path) = {path[i] : i \in 1..n} /\ top \in Range(path)
    BY <1>2, <2>1, <2>2 DEF Range
  <2>4. SearchInv
    BY DEF GraphInv
  <2> QED BY <1>2, <2>1, <2>2, <2>3, <2>4 DEF SearchInv
<1>6. open # {} => v \in open /\ v \in nodes /\ top \in Deps(v)
  <2>1. open \subseteq nodes /\ open \subseteq Nat
    BY <1>3, <1>5, UnitsAreNumbers DEF Dependents
  <2> QED BY <1>3, <1>4, <2>1, LeastIsLeast DEF Dependents
<1>7. \/ /\ open = {} /\ color' = [color EXCEPT ![top] = "black"] /\ path' = Front(path)
         /\ UNCHANGED <<pc, cycle>>
      \/ /\ open # {} /\ color[v] = "white" /\ color' = [color EXCEPT ![v] = "gray"]
         /\ path' = Append(path, v) /\ UNCHANGED <<pc, cycle>>
      \/ /\ open # {} /\ color[v] = "gray" /\ pc' = "cycle" /\ UNCHANGED <<color, path>>
         /\ \E at : /\ at = CHOOSE i \in 1..n : path[i] = v
                    /\ cycle' = SubSeq(path, at + 1, n) \o <<v, v>>
  <2>1. open # {} => color[v] \in {"white", "gray"}
    BY <1>3, <1>5, <1>6
  <2>2. Last(path) = top
    BY <1>2 DEF Last
  <2> QED BY <1>2, <1>3, <1>4, <2>1, <2>2 DEF Visit
<1>8. CASE open = {} /\ color' = [color EXCEPT ![top] = "black"] /\ path' = Front(path) /\ UNCHANGED <<pc, cycle>>
  <2>1. path' \in Seq(nodes) /\ Len(path') = n - 1 /\ \A i \in 1..(n - 1) : path'[i] = path[i]
    BY <1>2, <1>5, <1>8 DEF Front
  <2>2. Range(path') = Range(path) \ {top}
    <3>1. Range(path') = {path'[i] : i \in 1..(n - 1)}
      BY <2>1 DEF Range
    <3>2. \A i \in 1..(n - 1) : path'[i] = path[i] /\ path[i] # top /\ i \in 1..n
      BY <1>2, <1>5, <2>1
    <3>3. \A i \in 1..n : path[i] = top \/ i \in 1..(n - 1)
      BY <1>2, <1>5
    <3>4. {path'[i] : i \in 1..(n - 1)} = {path[i] : i \in 1..n} \ {top}
      BY <3>2, <3>3
    <3> QED BY <3>1, <3>4, <1>5
  <2>3. Black' = Black \union {top}
    BY <1>1, <1>5, <1>8 DEF Black, Colored, graph
  <2>4. Dependents(top) \subseteq Black /\ top \notin Black
    BY <1>3, <1>5, <1>8 DEF Black, Colored, Dependents
  <2>5. \A u \in Black : Dependents(u) \subseteq Black
    BY DEF GraphInv, SearchInv
  <2>6. \A u \in Black' : Dependents(u) \subseteq Black'
    BY <2>3, <2>4, <2>5
  <2>7. ASSUME NEW S \in SUBSET Black', S # {} PROVE \E u \in S : Deps(u) \intersect S = {}
    <3>1. CASE S \subseteq Black
      BY <3>1, <2>7 DEF GraphInv, SearchInv
    <3>2. CASE top \in S
      <4>1. ASSUME NEW d \in Deps(top), d \in S PROVE FALSE
        <5>1. d \in Black \/ d = top
          BY <4>1, <2>3
        <5>2. top \in Dependents(d)
          BY <1>5, <4>1 DEF Dependents
        <5> QED BY <5>1, <5>2, <2>4, <2>5
      <4> QED BY <3>2, <4>1
    <3> QED BY <3>1, <3>2, <2>3
  <2>8. \A u \in Units : color'[u] = "gray" <=> u \in Range(path')
    BY <1>5, <1>8, <2>2
  <2>9. /\ \A i, k \in 1..Len(path') : path'[i] = path'[k] => i = k
        /\ \A i \in 1..(Len(path') - 1) : path'[i] \in Deps(path'[i + 1])
    <3>1. \A i \in 1..(n - 1) : i \in 1..n
      BY <1>5
    <3>2. ASSUME NEW i \in 1..(Len(path') - 1) PROVE path'[i] \in Deps(path'[i + 1])
      <4>1. i \in 1..(n - 1) /\ i + 1 \in 1..(n - 1)
        BY <1>5, <2>1
      <4>2. path'[i] = path[i] /\ path'[i + 1] = path[i + 1]
        BY <2>1, <4>1
      <4>3. path[i] \in Deps(path[i + 1])
        BY <1>5, <4>1
      <4> QED BY <4>2, <4>3
    <3> QED BY <1>5, <2>1, <3>1, <3>2
  <2>10. color' \in [Units -> {"white", "gray", "black"}] /\ Searched' /\ pc' # "cycle" /\ cycle' = cycle
    BY <1>1, <1>5, <1>8 DEF Searched
  <2>11. GraphTypes'
    BY <1>1, <1>8, <2>1, <2>10 DEF GraphInv, GraphTypes, graph
  <2>12. SearchInv'
    BY <1>1, <2>1, <2>6, <2>7, <2>8, <2>9, <2>10, SearchMoves
  <2> QED BY <1>1, <2>11, <2>12 DEF GraphInv
<1>9. CASE open # {} /\ color[v] = "white" /\ color' = [color EXCEPT ![v] = "gray"] /\ path' = Append(path, v) /\ UNCHANGED <<pc, cycle>>
  <2>1. v \in nodes /\ top \in Deps(v) /\ v \notin Range(path)
    BY <1>5, <1>6, <1>9
  <2>2. /\ path' \in Seq(nodes) /\ Len(path') = n + 1 /\ path'[n + 1] = v
        /\ \A i \in 1..n : path'[i] = path[i]
    BY <1>2, <1>5, <1>9, <2>1
  <2>3. Range(path') = Range(path) \union {v}
    <3>1. Range(path') = {path'[i] : i \in 1..(n + 1)}
      BY <2>2 DEF Range
    <3>2. {path'[i] : i \in 1..(n + 1)} = {path[i] : i \in 1..n} \union {v}
      BY <1>5, <2>2
    <3> QED BY <3>1, <3>2, <1>5
  <2>4. Black' = Black
    BY <1>1, <1>5, <1>9, <2>1 DEF Black, Colored, graph
  <2>5. \A u \in Units : color'[u] = "gray" <=> u \in Range(path')
    BY <1>5, <1>9, <2>1, <2>3
  <2>6. \A i, k \in 1..Len(path') : path'[i] = path'[k] => i = k
    <3>1. \A i \in 1..n : path[i] # v
      BY <1>5, <2>1
    <3> QED BY <1>5, <2>2, <3>1
  <2>7. \A i \in 1..(Len(path') - 1) : path'[i] \in Deps(path'[i + 1])
    <3> SUFFICES ASSUME NEW i \in 1..n PROVE path'[i] \in Deps(path'[i + 1])
      BY <1>5, <2>2
    <3>1. CASE i = n
      BY <3>1, <1>2, <1>5, <2>1, <2>2
    <3>2. CASE i # n
      BY <3>2, <1>5, <2>2
    <3> QED BY <3>1, <3>2
  <2>8. color' \in [Units -> {"white", "gray", "black"}] /\ Searched' /\ pc' # "cycle" /\ cycle' = cycle
    BY <1>1, <1>5, <1>9 DEF Searched
  <2>9. /\ \A u \in Black' : Dependents(u) \subseteq Black'
        /\ \A S \in SUBSET Black' : S = {} \/ \E u \in S : Deps(u) \intersect S = {}
    BY <2>4 DEF GraphInv, SearchInv
  <2>10. GraphTypes'
    BY <1>1, <1>9, <2>2, <2>8 DEF GraphInv, GraphTypes, graph
  <2>11. SearchInv'
    BY <1>1, <2>2, <2>5, <2>6, <2>7, <2>8, <2>9, SearchMoves
  <2> QED BY <1>1, <2>10, <2>11 DEF GraphInv
<1>10. ASSUME NEW at, open # {}, color[v] = "gray", pc' = "cycle", UNCHANGED <<color, path>>,
              at = CHOOSE i \in 1..n : path[i] = v, cycle' = SubSeq(path, at + 1, n) \o <<v, v>>
       PROVE  GraphInv'
  <2>1. v \in nodes /\ top \in Deps(v) /\ v \in Range(path)
    BY <1>5, <1>6, <1>10
  <2>2. at \in 1..n /\ path[at] = v
    BY <1>5, <1>10, <2>1
  <2>3. PICK m : m = n - at
    OBVIOUS
  <2>4. /\ cycle' \in Seq(nodes) /\ m \in Nat /\ Len(cycle') = m + 2
        /\ \A i \in 1..m : cycle'[i] = path[at + i]
        /\ cycle'[m + 1] = v /\ cycle'[m + 2] = v
    <3>1. PICK tail : tail = SubSeq(path, at + 1, n)
      OBVIOUS
    <3>2. tail \in Seq(nodes) /\ m \in Nat /\ Len(tail) = m /\ \A i \in 1..m : tail[i] = path[at + i]
      BY <1>2, <1>5, <2>2, <2>3, <3>1
    <3>3. PICK twice : twice = <<v, v>>
      OBVIOUS
    <3>4. cycle' = tail \o twice /\ twice \in Seq(nodes) /\ Len(twice) = 2 /\ twice[1] = v /\ twice[2] = v
      BY <1>10, <2>1, <3>1, <3>3
    <3>5. /\ tail \o twice \in Seq(nodes) /\ Len(tail \o twice) = Len(tail) + Len(twice)
          /\ \A i \in 1..Len(tail) : (tail \o twice)[i] = tail[i]
          /\ \A i \in 1..Len(twice) : (tail \o twice)[Len(tail) + i] = twice[i]
      <4>1. tail \in Seq(nodes) /\ twice \in Seq(nodes)
        BY <3>2, <3>4
      <4> QED BY ONLY <4>1, Joined
    <3>6. \A i \in 1..m : cycle'[i] = tail[i]
      BY <3>2, <3>4, <3>5
    <3>7. cycle'[m + 1] = twice[1] /\ cycle'[m + 2] = twice[2]
      BY <3>2, <3>4, <3>5
    <3> QED BY <3>2, <3>4, <3>5, <3>6, <3>7
  <2>5. Range(cycle') = {path[i] : i \in at..n}
    <3>1. Range(cycle') = {cycle'[i] : i \in 1..(m + 2)}
      BY <2>4 DEF Range
    <3>2. ASSUME NEW i \in 1..(m + 2) PROVE \E k \in at..n : cycle'[i] = path[k]
      <4>1. CASE i \in 1..m
        BY <4>1, <1>5, <2>2, <2>3, <2>4
      <4>2. CASE i \in {m + 1, m + 2}
        BY <4>2, <1>5, <2>2, <2>4
      <4> QED BY <4>1, <4>2, <2>4
    <3>3. ASSUME NEW k \in at..n PROVE \E i \in 1..(m + 2) : cycle'[i] = path[k]
      <4>1. CASE k = at
        BY <4>1, <2>2, <2>4
      <4>2. CASE k # at
        <5>1. k - at \in 1..m /\ at + (k - at) = k
          BY <4>2, <1>5, <2>2, <2>3
        <5> QED BY <5>1, <2>4
      <4> QED BY <4>1, <4>2
    <3> QED BY <3>1, <3>2, <3>3
  <2>6. \A u \in Range(cycle') : Deps(u) \intersect Range(cycle') # {}
    <3> SUFFICES ASSUME NEW k \in at..n PROVE Deps(path[k]) \intersect {path[i] : i \in at..n} # {}
      BY <2>5
    <3>1. CASE k = at
      BY <3>1, <1>2, <1>5, <2>1, <2>2
    <3>2. CASE k # at
      <4>1. k - 1 \in 1..(n - 1) /\ k - 1 \in at..n /\ (k - 1) + 1 = k
        BY <3>2, <1>5, <2>2
      <4>2. path[k - 1] \in Deps(path[(k - 1) + 1])
        BY <4>1, <1>5
      <4> QED BY <4>1, <4>2
    <3> QED BY <3>1, <3>2
  <2>7. Range(cycle') # {}
    BY <2>2, <2>5
  <2>8. GraphTypes'
    BY <1>1, <1>10, <2>4 DEF GraphInv, GraphTypes, graph, Phases, Outcome
  <2>9. SearchInv'
    <3>1. Black' = Black /\ Searched'
      BY <1>1, <1>10 DEF graph, Black, Colored, Searched
    <3>2. /\ \A u \in Units : color'[u] = "gray" <=> u \in Range(path')
          /\ \A i, k \in 1..Len(path') : path'[i] = path'[k] => i = k
          /\ \A i \in 1..(Len(path') - 1) : path'[i] \in Deps(path'[i + 1])
      BY <1>2, <1>5, <1>10
    <3>3. /\ \A u \in Black' : Dependents(u) \subseteq Black'
          /\ \A S \in SUBSET Black' : S = {} \/ \E u \in S : Deps(u) \intersect S = {}
      BY <3>1 DEF GraphInv, SearchInv
    <3> QED BY <1>1, <2>6, <2>7, <3>1, <3>2, <3>3, SearchMoves
  <2> QED BY <1>1, <2>8, <2>9 DEF GraphInv
<1> QED BY <1>7, <1>8, <1>9, <1>10

LEMMA GraphStep == GraphInv /\ [Next]_vars => GraphInv'
<1> SUFFICES ASSUME GraphInv, [Next]_vars PROVE GraphInv'
  OBVIOUS
<1>1. CASE UNCHANGED vars
  <2> USE <1>1 DEF vars, kahnVars, dfsVars, graph
  <2>1. GraphTypes'
    BY DEF GraphInv, GraphTypes
  <2>2. CASE pc = "filter"
    <3>1. Built' /\ KahnInv'
      BY <2>2 DEF GraphInv, Built, KahnInv, Started
    <3> QED BY <2>1, <3>1, LevelsStay, SearchStays DEF GraphInv, Searched
  <2>3. CASE pc # "filter"
    <3>1. Built'
      BY <2>3, BuiltStays DEF GraphInv
    <3>2. KahnInv'
      BY KahnStays DEF GraphInv, KahnInv, Started, Searched
    <3> QED BY <2>1, <3>1, <3>2, LevelsStay, SearchStays DEF GraphInv, Searched
  <2> QED BY <2>2, <2>3
<1>2. CASE Next
  BY <1>2, BuildKeeps, KahnKeeps, SortKeeps, LevelKeeps, EnterRootKeeps, VisitKeeps DEF Next
<1> QED BY <1>1, <1>2

LEMMA GraphInvariant == Spec => []GraphInv
<1>1. Init => GraphInv
  BY GraphInit
<1>2. GraphInv /\ [Next]_vars => GraphInv'
  BY GraphStep
<1> QED BY <1>1, <1>2, PTL DEF Spec

(* The closure filterToUnit computes is what paths lead to.                *)
LEMMA PathsStayInside ==
  ASSUME NEW S \in SUBSET Units, target \in S, Closed(S), NEW u \in Units, Reached(u)
  PROVE  u \in S
<1>0. PICK n \in 1..Cardinality(Units) : \E p \in [1..n -> Units] :
        p[1] = target /\ p[n] = u /\ \A i \in 1..(n - 1) : Names(p[i], p[i + 1])
  BY DEF Reached
<1>1. PICK p \in [1..n -> Units] :
        p[1] = target /\ p[n] = u /\ \A i \in 1..(n - 1) : Names(p[i], p[i + 1])
  BY <1>0
<1>2. n \in Nat /\ n >= 1
  BY UnitsAreNumbers, FS_CardinalityType
<1>3. PICK out : out = {i \in 1..n : p[i] \notin S}
  OBVIOUS
<1>4. SUFFICES ASSUME out # {} PROVE FALSE
  BY <1>1, <1>2, <1>3
<1>5. PICK i \in out : \A k \in out : i <= k
  <2>1. out \subseteq Nat
    BY <1>3
  <2> QED BY <1>4, <2>1, LeastNumber
<1>6. i # 1 /\ i \in 1..n /\ p[i] \notin S
  BY <1>1, <1>3
<1>7. i - 1 \in 1..(n - 1) /\ i - 1 \in 1..n /\ (i - 1) + 1 = i /\ i - 1 \notin out
  BY <1>2, <1>3, <1>5, <1>6
<1>8. Names(p[i - 1], p[i]) /\ p[i - 1] \in S /\ p[i] \in Units
  BY <1>1, <1>3, <1>6, <1>7
<1> QED BY <1>6, <1>8 DEF Closed

LEMMA PathsGoOn ==
  ASSUME target \in Units
  PROVE  Reached(target) /\ Closed({u \in Units : Reached(u)})
<1>1. Cardinality(Units) \in Nat /\ IsFiniteSet(Units) /\ Cardinality(Units) # 0
  BY UnitsAreNumbers, FS_CardinalityType, FS_EmptySet
<1>2. Reached(target)
  <2>1. PICK p : p = [i \in 1..1 |-> target]
    OBVIOUS
  <2>2. 1 \in 1..Cardinality(Units) /\ p \in [1..1 -> Units] /\ p[1] = target
    BY <1>1, <2>1
  <2>3. /\ \A i, k \in 1..1 : p[i] = p[k] => i = k
        /\ \A i \in 1..(1 - 1) : Names(p[i], p[i + 1])
    OBVIOUS
  <2>4. \E q \in [1..1 -> Units] :
          /\ q[1] = target
          /\ \A i, k \in 1..1 : q[i] = q[k] => i = k
          /\ \A i \in 1..(1 - 1) : Names(q[i], q[i + 1])
    BY <2>2, <2>3
  <2> QED BY <2>2, <2>4 DEF Reached
<1>3. ASSUME NEW u \in Units, Reached(u), NEW d \in Units, Names(u, d) PROVE Reached(d)
  <2>0. PICK n \in 1..Cardinality(Units) : \E p \in [1..n -> Units] :
          /\ p[1] = target /\ p[n] = u
          /\ \A i, k \in 1..n : p[i] = p[k] => i = k
          /\ \A i \in 1..(n - 1) : Names(p[i], p[i + 1])
    BY <1>3 DEF Reached
  <2>1. PICK p \in [1..n -> Units] :
          /\ p[1] = target /\ p[n] = u
          /\ \A i, k \in 1..n : p[i] = p[k] => i = k
          /\ \A i \in 1..(n - 1) : Names(p[i], p[i + 1])
    BY <2>0
  <2>2. n \in Nat /\ n >= 1
    BY <1>1
  <2>3. CASE \E k \in 1..n : p[k] = d
    <3>1. PICK k \in 1..n : p[k] = d
      BY <2>3
    <3>2. PICK q : q = [i \in 1..k |-> p[i]]
      OBVIOUS
    <3>3. q \in [1..k -> Units] /\ k \in 1..Cardinality(Units) /\ q[1] = target /\ q[k] = d
      BY <1>1, <2>1, <2>2, <3>1, <3>2
    <3>4. /\ \A i, j \in 1..k : q[i] = q[j] => i = j
          /\ \A i \in 1..(k - 1) : Names(q[i], q[i + 1])
      BY <1>1, <2>1, <2>2, <3>1, <3>2
    <3> QED BY <3>3, <3>4 DEF Reached
  <2>4. CASE \A k \in 1..n : p[k] # d
    <3>1. PICK q : q = [i \in 1..(n + 1) |-> IF i = n + 1 THEN d ELSE p[i]]
      OBVIOUS
    <3>2. q \in [1..(n + 1) -> Units] /\ q[1] = target /\ q[n + 1] = d
      BY <2>1, <2>2, <3>1
    <3>3. \A i, j \in 1..(n + 1) : q[i] = q[j] => i = j
      BY <2>1, <2>2, <2>4, <3>1
    <3>4. \A i \in 1..n : Names(q[i], q[i + 1])
      BY <1>3, <2>1, <2>2, <3>1
    <3>5. n + 1 <= Cardinality(Units)
      <4>1. PICK m : m = n + 1
        OBVIOUS
      <4>2. IsFiniteSet(1..m) /\ Cardinality(1..m) = m
        <5>1. IsFiniteSet(1..m) /\ Cardinality(1..m) = IF 1 > m THEN 0 ELSE m - 1 + 1
          BY <2>2, <4>1, FS_Interval
        <5> QED BY <2>2, <4>1, <5>1
      <4>3. Cardinality(Units) < Cardinality(1..m) => \E i, j \in 1..m : i # j /\ q[i] = q[j]
        BY <1>1, <3>2, <4>1, <4>2, FS_PigeonHole
      <4> QED BY <1>1, <2>2, <3>3, <4>1, <4>2, <4>3
    <3>6. n + 1 \in 1..Cardinality(Units) /\ (n + 1) - 1 = n
      BY <1>1, <2>2, <3>5
    <3> QED BY <3>2, <3>3, <3>4, <3>6 DEF Reached
  <2> QED BY <2>3, <2>4
<1> QED BY <1>2, <1>3 DEF Closed

LEMMA ChosenIsTodo ==
  ASSUME target \in Targets
  PROVE  Chosen \ complete = Todo /\ Closed(Chosen)
<1>1. target = 0 \/ target \in Units
  BY GraphAssumption
<1>2. CASE target = 0
  BY <1>2 DEF Chosen, Todo, Closed
<1>3. CASE target # 0
  <2>1. \A u \in Units : u \in Chosen <=> \A S \in SUBSET Units : target \in S /\ Closed(S) => u \in S
    BY <1>3 DEF Chosen
  <2>2. Chosen \subseteq Units
    BY DEF Chosen
  <2>3. ASSUME NEW u \in Units, Reached(u) PROVE u \in Chosen
    BY <2>1, <2>3, PathsStayInside
  <2>4. ASSUME NEW u \in Chosen PROVE Reached(u)
    <3>1. PICK S : S = {w \in Units : Reached(w)}
      OBVIOUS
    <3>2. S \in SUBSET Units /\ target \in S /\ Closed(S)
      BY <1>1, <1>3, <3>1, PathsGoOn
    <3> QED BY <2>1, <2>2, <2>4, <3>1, <3>2
  <2>5. Closed(Chosen)
    <3> SUFFICES ASSUME NEW u \in Chosen, NEW d \in Units, Names(u, d),
                        NEW S \in SUBSET Units, target \in S, Closed(S)
                 PROVE  d \in S
      BY <2>1 DEF Closed
    <3> QED BY <2>1, <2>2 DEF Closed
  <2>6. Todo = {u \in Units : Reached(u)} \ complete
    BY <1>3 DEF Todo
  <2> QED BY <2>2, <2>3, <2>4, <2>5, <2>6
<1> QED BY <1>2, <1>3

(* Among the nodes, what a unit names is what it depends on.               *)
LEMMA NamesAreDeps ==
  ASSUME GraphInv, pc # "filter"
  PROVE  /\ nodes = Todo
         /\ \A u \in nodes : Deps(u) = Range(listed[u]) \ complete
         /\ \A u \in nodes : Range(listed[u]) \intersect Units \subseteq nodes \union complete
<1>1. nodes = Chosen \ complete /\ target \in Targets /\ Chosen \subseteq Units
  BY DEF GraphInv, Built, GraphTypes, Chosen
<1>2. ASSUME NEW u \in nodes PROVE Deps(u) = Range(listed[u]) \ complete
  <2>1. left[u] = {i \in 1..Len(listed[u]) : listed[u][i] \notin complete} /\ listed[u] \in Seq(Units \union Others)
    BY <1>1, <1>2 DEF GraphInv, Built, GraphTypes, Remaining
  <2>2. DOMAIN listed[u] = 1..Len(listed[u])
    BY <2>1
  <2> QED BY <2>1, <2>2 DEF Deps, Range
<1>3. Closed(Chosen) /\ nodes = Todo
  BY <1>1, ChosenIsTodo
<1>4. \A u \in nodes : Range(listed[u]) \intersect Units \subseteq nodes \union complete
  BY <1>1, <1>3 DEF Closed, Names
<1> QED BY <1>2, <1>3, <1>4

(* Schedule accepts exactly the unit sets whose references all exist and   *)
(* are acyclic, and reports a cycle when there is one.                     *)
THEOREM VerdictIsRightHolds == AllSpec => []VerdictIsRight
<1>1. GraphInv => VerdictIsRight
  <2> SUFFICES ASSUME GraphInv PROVE VerdictIsRight
    OBVIOUS
  <2>1. CASE pc = "filter"
    BY <2>1 DEF VerdictIsRight, Outcome
  <2>2. CASE pc # "filter"
    <3>1. /\ nodes = Todo /\ nodes \subseteq Units /\ complete \subseteq Units
          /\ \A u \in nodes : Deps(u) = Range(listed[u]) \ complete
          /\ \A u \in nodes : Range(listed[u]) \intersect Units \subseteq nodes \union complete
      BY <2>2, NamesAreDeps DEF GraphInv, GraphTypes
    <3>2. Dangling <=> \E u \in nodes : ~(Deps(u) \subseteq nodes)
      BY <3>1 DEF Dangling
    <3>3. pc = "missing" <=> Dangling
      BY <2>2, <3>2 DEF GraphInv, Built
    <3>4. \A S \in SUBSET nodes : Circular(S) <=> S # {} /\ \A u \in S : Deps(u) \intersect S # {}
      <4>1. nodes \intersect complete = {}
        BY <3>1 DEF Todo
      <4>2. \A u, d \in nodes : Names(u, d) <=> d \in Deps(u)
        BY <3>1, <4>1 DEF Names
      <4>3. ASSUME NEW S \in SUBSET nodes
            PROVE  Circular(S) <=> S # {} /\ \A u \in S : Deps(u) \intersect S # {}
        BY <4>2 DEF Circular
      <4> QED BY <4>3
    <3>5. ASSUME pc = "ok" PROVE ~Cyclic
      <4>1. Started /\ Ordered = nodes
        BY <3>5 DEF Started, GraphInv, KahnInv
      <4> QED BY <3>1, <3>4, <4>1, OrderedAreAcyclic DEF Cyclic
    <3>6. ASSUME pc = "dfs" PROVE Black # nodes
      <4>1. Started /\ Ordered # nodes /\ queue = {}
        BY <3>6 DEF Started, Searched, GraphInv, KahnInv
      <4>2. Ordered \subseteq nodes
        BY DEF GraphInv, GraphTypes, Ordered, Range
      <4>3. PICK S : S = nodes \ Ordered
        OBVIOUS
      <4>4. S # {} /\ S \subseteq nodes
        BY <4>1, <4>2, <4>3
      <4>5. ASSUME NEW u \in S PROVE Deps(u) \intersect S # {}
        <5>1. degree[u] # 0 /\ degree[u] = Cardinality(Waits(u))
          BY <4>1, <4>3, <4>5 DEF GraphInv, KahnInv
        <5>2. Waits(u) # {}
          BY <5>1, FS_EmptySet
        <5>3. PICK i \in left[u] : listed[u][i] \notin Ordered
          BY <5>2 DEF Waits
        <5>4. listed[u][i] \in Deps(u)
          BY <5>3 DEF Deps
        <5>5. Deps(u) \subseteq nodes
          BY <3>6, <4>3, <4>5 DEF GraphInv, Built
        <5> QED BY <4>3, <5>3, <5>4, <5>5
      <4>6. ~(S \subseteq Black)
        BY <4>4, <4>5 DEF GraphInv, SearchInv
      <4> QED BY <4>4, <4>6
    <3>7. ASSUME pc = "cycle" PROVE Range(cycle) \in SUBSET nodes /\ Circular(Range(cycle))
      <4>1. Range(cycle) \in SUBSET nodes
        BY DEF GraphInv, GraphTypes, Range
      <4> QED BY <3>4, <3>7, <4>1 DEF GraphInv, SearchInv
    <3> QED BY <3>1, <3>3, <3>5, <3>6, <3>7 DEF VerdictIsRight, Black
  <2> QED BY <2>1, <2>2
<1> QED BY <1>1, GraphInvariant, SideBySide, PTL

(* The order lists every unit to do once, after all it depends on; the     *)
(* levels share the units out, each to the first that can have it.         *)
THEOREM OrderIsTopologicalHolds == AllSpec => []OrderIsTopological
<1>1. GraphInv => OrderIsTopological
  <2> SUFFICES ASSUME GraphInv, pc = "ok" PROVE OrderIsTopological
    BY DEF OrderIsTopological
  <2>1. /\ nodes = Todo /\ nodes \subseteq Units /\ complete \subseteq Units
        /\ \A u \in nodes : Deps(u) = Range(listed[u]) \ complete
    BY NamesAreDeps DEF GraphInv, GraphTypes
  <2>2. nodes \intersect complete = {}
    BY <2>1 DEF Todo
  <2>3. \A u, d \in nodes : Names(u, d) <=> d \in Deps(u)
    BY <2>1, <2>2 DEF Names
  <2>4. Started /\ Ordered = nodes /\ Len(order) = Cardinality(nodes)
    BY AllOrdered DEF Started, GraphInv, KahnInv
  <2>5. order \in Seq(nodes) /\ Len(order) \in Nat /\ levels \in Seq(SUBSET nodes) /\ Len(levels) \in Nat
    BY DEF GraphInv, GraphTypes
  <2>6. ASSUME NEW i \in 1..Len(order), NEW k \in 1..Len(order), Names(order[i], order[k]) PROVE k < i
    <3>1. order[k] \in Deps(order[i])
      BY <2>3, <2>5, <2>6
    <3>2. PICK j \in 1..(i - 1) : order[j] = order[k]
      BY <2>4, <3>1 DEF GraphInv, KahnInv
    <3>3. j \in 1..Len(order) /\ j < i
      BY <2>5
    <3>4. j = k
      BY <2>4, <3>2, <3>3 DEF GraphInv, KahnInv
    <3> QED BY <3>3, <3>4
  <2>7. UNION Range(levels) = nodes
    <3>1. UNION Range(levels) = UNION {levels[m] : m \in 1..Len(levels)}
      BY <2>5 DEF Range
    <3>2. Below(Len(levels) + 1) = UNION {levels[m] : m \in 1..Len(levels)}
      BY <2>5 DEF Below
    <3> QED BY <3>1, <3>2 DEF GraphInv, LevelInv
  <2>8. ASSUME NEW n \in 1..Len(levels)
        PROVE  levels[n] # {} /\ \A u \in levels[n] :
                 /\ \A d \in nodes : Names(u, d) => \E m \in 1..(n - 1) : d \in levels[m]
                 /\ n > 1 => \E d \in levels[n - 1] : Names(u, d)
    <3>1. levels[n] # {} /\ levels[n] \subseteq nodes
      BY <2>5 DEF GraphInv, LevelInv
    <3>2. ASSUME NEW u \in levels[n], NEW d \in nodes, Names(u, d)
          PROVE  \E m \in 1..(n - 1) : d \in levels[m]
      <4>1. d \in Below(n)
        BY <2>3, <3>1, <3>2 DEF GraphInv, LevelInv
      <4> QED BY <4>1 DEF Below
    <3>3. ASSUME NEW u \in levels[n], n > 1 PROVE \E d \in levels[n - 1] : Names(u, d)
      <4>1. n - 1 \in 1..Len(levels)
        BY <2>5, <3>3
      <4>2. levels[n - 1] \subseteq nodes
        BY <2>5, <4>1
      <4>3. Deps(u) \intersect levels[n - 1] # {}
        BY <3>3 DEF GraphInv, LevelInv
      <4> QED BY <2>3, <3>1, <4>2, <4>3
    <3> QED BY <3>1, <3>2, <3>3
  <2> QED BY <2>1, <2>4, <2>6, <2>7, <2>8 DEF OrderIsTopological, Ordered
<1> QED BY <1>1, GraphInvariant, SideBySide, PTL

(* A relation on the units to do, of which every nonempty set has a unit   *)
(* that depends on none of the set.                                        *)
Accepted ==
  pc = "ok" => /\ \A u \in nodes : Deps(u) \subseteq nodes
               /\ \A S \in SUBSET nodes : S # {} => \E u \in S : Deps(u) \intersect S = {}

(* A graph that Schedule accepts is what the scheduler assumes of its own, *)
(* for any units and whatever their depends_on lists name, even twice.     *)
THEOREM AcceptedIsAcyclic == AllSpec => []Accepted
<1>1. GraphInv => Accepted
  <2> SUFFICES ASSUME GraphInv, pc = "ok" PROVE Accepted
    BY DEF Accepted
  <2>1. Started /\ Ordered = nodes
    BY DEF Started, GraphInv, KahnInv
  <2>2. \A u \in nodes : Deps(u) \subseteq nodes
    BY DEF GraphInv, Built
  <2> QED BY <2>1, <2>2, OrderedAreAcyclic DEF Accepted
<1> QED BY <1>1, GraphInvariant, SideBySide, PTL

-----------------------------------------------------------------------------
(* The validation of what was discovered.                                  *)

Places == DOMAIN disc_tree \union UNION {disc_tree[n].deps : n \in DOMAIN disc_tree}
Frames == [node : Places, todo : SUBSET Places]
Visited == {n \in Places : disc_state[n] = 2}
Validated == disc_phase = "search" \/ (disc_phase = "done" /\ disc_errors # {"unreadable"})

(* What Validate finds.                                                    *)
Found ==
  (UNION {Disc!UnitErrors(disc_tree[n]) : n \in Disc!UnitIDs})
    \union {"missing" : n \in {n \in Disc!UnitIDs : ~(disc_tree[n].deps \subseteq Disc!UnitIDs)}}
HasCycle == \E S \in SUBSET Disc!UnitIDs : Disc!Circular(S)

DiscTypes ==
  /\ disc_tree \in Trees /\ disc_phase \in {"read", "validate", "search", "done"}
  /\ DOMAIN disc_units \subseteq DOMAIN disc_tree
  /\ disc_stack \in Seq(Frames)
  /\ disc_phase = "read" => disc_units = <<>> /\ disc_errors = {}
  /\ disc_phase # "read" => disc_state \in [Places -> 0..2]
  /\ disc_phase # "search" => disc_stack = <<>>
  /\ disc_phase = "validate" => disc_errors = {} /\ \A n \in Places : disc_state[n] = 0

ErrorsFound ==
  Validated => /\ disc_errors \ {"cycle"} = Found
               /\ "cycle" \in disc_errors => HasCycle

(* Until a cycle is found: what is being visited is on the stack, of which *)
(* each depends on the next; a dependency that is not to do any more is    *)
(* visited or next; what is visited depends on visited nodes only and has  *)
(* no cycle.                                                               *)
StackInv ==
  /\ \A n \in Places : disc_state[n] = 1 <=> \E i \in 1..Len(disc_stack) : disc_stack[i].node = n
  /\ \A i, k \in 1..Len(disc_stack) : disc_stack[i].node = disc_stack[k].node => i = k
  /\ \A i \in 1..(Len(disc_stack) - 1) :
       disc_stack[i + 1].node \in Disc!Neighbours(disc_stack[i].node)
  /\ \A i \in 1..Len(disc_stack) : \A m \in Disc!Neighbours(disc_stack[i].node) \ disc_stack[i].todo :
       m \in Visited \/ (i < Len(disc_stack) /\ m = disc_stack[i + 1].node)
  /\ \A i \in 1..Len(disc_stack) : disc_stack[i].todo \subseteq Disc!Neighbours(disc_stack[i].node)
  /\ \A n \in Visited : Disc!Neighbours(n) \subseteq Visited
  /\ \A S \in SUBSET Visited : S = {} \/ \E n \in S : Disc!Neighbours(n) \intersect S = {}

DiscInv ==
  /\ DiscTypes /\ ErrorsFound
  /\ disc_phase # "read" /\ "cycle" \notin disc_errors => StackInv
  /\ disc_phase = "done" /\ disc_errors # {"unreadable"} => \A n \in Disc!UnitIDs : disc_state[n] # 0

(* What the search may meet are the nodes it keeps a state of.             *)
LEMMA NeighboursHave ==
  ASSUME DiscTypes
  PROVE  /\ \A n : Disc!Neighbours(n) \subseteq Places
         /\ Disc!UnitIDs \subseteq Places
         /\ \A S \in SUBSET Disc!UnitIDs :
              Disc!Circular(S) <=> S # {} /\ \A n \in S : Disc!Neighbours(n) \intersect S # {}
BY DEF DiscTypes, Places, Disc!Neighbours, Disc!UnitIDs, Disc!Circular

(* Validate itself finds no cycle: that is left to the search.             *)
LEMMA NoCycleIsFound == "cycle" \notin Found /\ "unreadable" \notin Found
BY DEF Found, Disc!UnitErrors, Disc!SequenceErrors, Disc!DependencyErrors

LEMMA DiscoverKeeps == ASSUME DiscInv, Disc!Discover PROVE DiscInv'
<1>1. /\ disc_phase = "read" /\ UNCHANGED <<disc_tree, disc_stack>> /\ disc_stack = <<>>
      /\ disc_state' = [n \in Places |-> 0] /\ disc_units = <<>> /\ disc_errors = {} /\ disc_tree \in Trees
      /\ Places' = Places
  BY DEF Disc!Discover, DiscInv, DiscTypes, Places
<1>2. \/ disc_errors' = {"unreadable"} /\ disc_phase' = "done" /\ disc_units' = <<>>
      \/ /\ disc_phase' = "validate" /\ disc_errors' = {}
         /\ DOMAIN disc_units' \subseteq DOMAIN disc_tree
  BY <1>1 DEF Disc!Discover
<1>3. DiscTypes'
  <2>1. DOMAIN disc_units' \subseteq DOMAIN disc_tree'
    BY <1>1, <1>2
  <2>2. disc_stack' \in Seq(Frames') /\ disc_state' \in [Places' -> 0..2] /\ \A n \in Places' : disc_state'[n] = 0
    BY <1>1
  <2> QED BY <1>1, <1>2, <2>1, <2>2 DEF DiscTypes
<1>4. StackInv'
  <2>1. Len(disc_stack') = 0 /\ Visited' = {}
    BY <1>1 DEF Visited
  <2> QED BY <1>1, <2>1 DEF StackInv
<1>5. ~Validated'
  BY <1>2 DEF Validated
<1> QED BY <1>2, <1>3, <1>4, <1>5 DEF DiscInv, ErrorsFound

(* What is told from the tree and the units stays while they do.           *)
LEMMA SearchFrame ==
  ASSUME UNCHANGED <<disc_tree, disc_units>>
  PROVE  /\ Places' = Places /\ Frames' = Frames /\ Found' = Found /\ (HasCycle' <=> HasCycle)
         /\ (\A n : Disc!Neighbours(n)' = Disc!Neighbours(n)) /\ Disc!UnitIDs' = Disc!UnitIDs
BY DEF Places, Frames, Found, HasCycle, Disc!Circular, Disc!Neighbours, Disc!UnitIDs

LEMMA ValidateKeeps == ASSUME DiscInv, Disc!Validate PROVE DiscInv'
<1>1. /\ disc_phase = "validate" /\ disc_phase' = "search"
      /\ UNCHANGED <<disc_tree, disc_units, disc_state, disc_stack>> /\ disc_errors' = Found
      /\ Places' = Places /\ Frames' = Frames
  BY DEF Disc!Validate, Found, Places, Frames
<1>2. DiscTypes /\ disc_errors = {} /\ disc_stack = <<>>
  BY <1>1 DEF DiscInv, DiscTypes
<1>3. DiscTypes'
  BY <1>1, <1>2 DEF DiscTypes
<1>4. Found' = Found
  BY <1>1 DEF Found, Disc!UnitIDs
<1>5. StackInv'
  <2>1. StackInv
    BY <1>1, <1>2 DEF DiscInv
  <2>2. (\A n : Disc!Neighbours(n)' = Disc!Neighbours(n)) /\ Visited' = Visited
    BY <1>1, SearchFrame DEF Visited
  <2>3. \A i : Disc!Neighbours(disc_stack[i].node)' = Disc!Neighbours(disc_stack[i].node)
    BY <1>1 DEF Disc!Neighbours, Disc!UnitIDs
  <2> QED BY <2>1, <2>2, <2>3, <1>1 DEF StackInv
<1>6. ErrorsFound'
  <2>1. disc_errors' \ {"cycle"} = Found' /\ "cycle" \notin disc_errors'
    BY <1>1, <1>4, NoCycleIsFound
  <2> QED BY <2>1 DEF ErrorsFound
<1> QED BY <1>1, <1>3, <1>5, <1>6 DEF DiscInv

(* A node more on the stack.                                               *)
LEMMA VisitTyped ==
  ASSUME DiscTypes, disc_phase = "search", UNCHANGED <<disc_tree, disc_units, disc_phase>>,
         NEW n \in Places, NEW below \in Seq(Frames), Disc!Visit(below, n)
  PROVE  DiscTypes'
<1>1. Disc!Neighbours(n) \subseteq Places
  BY NeighboursHave
<1>2. [node |-> n, todo |-> Disc!Neighbours(n)] \in Frames
  BY <1>1 DEF Frames
<1>3. disc_stack' \in Seq(Frames) /\ disc_state' = [disc_state EXCEPT ![n] = 1] /\ disc_state \in [Places -> 0..2]
  BY <1>2 DEF Disc!Visit, DiscTypes
<1>4. Places' = Places /\ Frames' = Frames
  BY SearchFrame
<1>5. disc_state' \in [Places -> 0..2]
  BY <1>3
<1> QED BY <1>3, <1>4, <1>5 DEF DiscTypes

(* One more node is visited.  The stack below is as it was, but for what   *)
(* its top has still to do.                                                *)
LEMMA VisitDeeper ==
  ASSUME DiscTypes, StackInv, disc_phase = "search", UNCHANGED <<disc_tree, disc_units, disc_phase>>,
         NEW n \in Places, disc_state[n] = 0,
         NEW below \in Seq(Frames), Len(below) = Len(disc_stack), Disc!Visit(below, n),
         \A i \in 1..Len(below) : below[i].node = disc_stack[i].node,
         \A i \in 1..Len(below) : below[i].todo \subseteq disc_stack[i].todo,
         \A i \in 1..Len(below) : \A m \in disc_stack[i].todo \ below[i].todo : i = Len(below) /\ m = n,
         Len(below) > 0 => n \in Disc!Neighbours(disc_stack[Len(below)].node)
  PROVE  StackInv'
<1>1. PICK L, frame : L = Len(disc_stack) /\ frame = [node |-> n, todo |-> Disc!Neighbours(n)]
  OBVIOUS
<1>2. L \in Nat /\ Len(below) = L
  BY <1>1
<1>3. frame \in Frames /\ frame.node = n /\ frame.todo = Disc!Neighbours(n)
  <2>1. Disc!Neighbours(n) \subseteq Places
    BY NeighboursHave
  <2> QED BY <1>1, <2>1 DEF Frames
<1>4. /\ disc_stack' \in Seq(Frames) /\ Len(disc_stack') = L + 1 /\ disc_stack'[L + 1] = frame
      /\ \A i \in 1..L : disc_stack'[i] = below[i]
  BY <1>1, <1>2, <1>3 DEF Disc!Visit
<1>5. disc_state \in [Places -> 0..2] /\ disc_state' = [disc_state EXCEPT ![n] = 1]
  BY DEF DiscTypes, Disc!Visit
<1>6. Places' = Places /\ Frames' = Frames /\ (\A m : Disc!Neighbours(m)' = Disc!Neighbours(m))
  BY SearchFrame
<1>7. Visited' = Visited /\ n \notin Visited
  BY <1>5, <1>6 DEF Visited
<1>8. \A i \in 1..L : disc_stack[i].node # n /\ disc_stack[i].node \in Places
  <2>1. \A i \in 1..L : disc_stack[i] \in Frames
    BY <1>1 DEF DiscTypes
  <2> QED BY <1>1, <2>1 DEF StackInv, Frames
<1>10. \A i \in 1..L : disc_stack'[i].node = disc_stack[i].node /\ disc_stack'[i].todo = below[i].todo
  BY <1>2, <1>4
<1>11. ASSUME NEW p \in Places
       PROVE  disc_state'[p] = 1 <=> \E i \in 1..(L + 1) : disc_stack'[i].node = p
  <2>1. CASE p = n
    BY <2>1, <1>2, <1>3, <1>4, <1>5
  <2>2. CASE p # n
    <3>1. disc_state'[p] = disc_state[p]
      BY <2>2, <1>5
    <3>2. disc_state[p] = 1 <=> \E i \in 1..L : disc_stack[i].node = p
      BY <1>1 DEF StackInv
    <3>3. (\E i \in 1..(L + 1) : disc_stack'[i].node = p) <=> \E i \in 1..L : disc_stack[i].node = p
      BY <2>2, <1>2, <1>3, <1>4, <1>10
    <3> QED BY <3>1, <3>2, <3>3
  <2> QED BY <2>1, <2>2
<1>12. \A i, k \in 1..(L + 1) : disc_stack'[i].node = disc_stack'[k].node => i = k
  <2>1. \A i, k \in 1..L : disc_stack[i].node = disc_stack[k].node => i = k
    BY <1>1 DEF StackInv
  <2>2. \A i \in 1..(L + 1) : i = L + 1 \/ i \in 1..L
    BY <1>2
  <2> QED BY <2>1, <2>2, <1>3, <1>4, <1>8, <1>10
<1>13. ASSUME NEW i \in 1..L PROVE disc_stack'[i + 1].node \in Disc!Neighbours(disc_stack'[i].node)
  <2>1. CASE i = L
    BY <2>1, <1>1, <1>2, <1>3, <1>4, <1>10
  <2>2. CASE i # L
    <3>1. i \in 1..(L - 1) /\ i + 1 \in 1..L
      BY <2>2, <1>2
    <3> QED BY <3>1, <1>1, <1>10 DEF StackInv
  <2> QED BY <2>1, <2>2
<1>14. ASSUME NEW i \in 1..(L + 1), NEW m \in Disc!Neighbours(disc_stack'[i].node) \ disc_stack'[i].todo
       PROVE  m \in Visited \/ (i < L + 1 /\ m = disc_stack'[i + 1].node)
  <2>1. i # L + 1
    BY <1>3, <1>4, <1>14
  <2>2. i \in 1..L
    BY <2>1, <1>2
  <2>3. CASE m \in disc_stack[i].todo
    <3>1. i = L /\ m = n
      BY <2>2, <2>3, <1>2, <1>10, <1>14
    <3> QED BY <3>1, <1>2, <1>3, <1>4
  <2>4. CASE m \notin disc_stack[i].todo
    <3>1. m \in Visited \/ (i < L /\ m = disc_stack[i + 1].node)
      BY <2>2, <2>4, <1>1, <1>10, <1>14 DEF StackInv
    <3>2. i < L => i + 1 \in 1..L
      BY <2>2, <1>2
    <3> QED BY <2>2, <3>1, <3>2, <1>2, <1>10
  <2> QED BY <2>3, <2>4
<1>15. \A i \in 1..(L + 1) : disc_stack'[i].todo \subseteq Disc!Neighbours(disc_stack'[i].node)
  <2>1. \A i \in 1..L : disc_stack[i].todo \subseteq Disc!Neighbours(disc_stack[i].node)
    BY <1>1 DEF StackInv
  <2>2. \A i \in 1..(L + 1) : i = L + 1 \/ i \in 1..L
    BY <1>2
  <2> QED BY <2>1, <2>2, <1>2, <1>3, <1>4, <1>10
<1>16. /\ \A p \in Visited : Disc!Neighbours(p) \subseteq Visited
       /\ \A S \in SUBSET Visited : S = {} \/ \E p \in S : Disc!Neighbours(p) \intersect S = {}
  BY DEF StackInv
<1>17. StackInv'
  <2> DEFINE s == disc_stack'
  <2>1. Len(s) = L + 1 /\ Len(s) - 1 = L
    BY <1>2, <1>4
  <2>2. \A i : Disc!Neighbours(disc_stack[i].node)' = Disc!Neighbours(s[i].node)
    BY <1>6 DEF Disc!Neighbours, Disc!UnitIDs
  <2> QED BY <2>1, <2>2, <1>6, <1>7, <1>11, <1>12, <1>13, <1>14, <1>15, <1>16 DEF StackInv
<1> QED BY <1>17

LEMMA StartKeeps == ASSUME DiscInv, Disc!StartSearch PROVE DiscInv'
<1>1. /\ disc_phase = "search" /\ disc_stack = <<>> /\ Len(disc_stack) = 0
      /\ UNCHANGED <<disc_tree, disc_units, disc_phase, disc_errors>>
  BY DEF Disc!StartSearch
<1>2. PICK n \in Disc!UnitIDs : disc_state[n] = 0 /\ Disc!Visit(disc_stack, n)
  BY DEF Disc!StartSearch
<1>3. DiscTypes /\ n \in Places /\ disc_stack \in Seq(Frames)
  BY <1>2, NeighboursHave DEF DiscInv, DiscTypes
<1>4. DiscTypes'
  BY <1>1, <1>2, <1>3, VisitTyped
<1>5. ASSUME "cycle" \notin disc_errors PROVE StackInv'
  <2>1. StackInv
    BY <1>1, <1>5 DEF DiscInv
  <2>2. PICK below : below = disc_stack
    OBVIOUS
  <2>3. /\ below \in Seq(Frames) /\ Len(below) = Len(disc_stack) /\ Disc!Visit(below, n)
        /\ \A i \in 1..Len(below) : FALSE
        /\ ~(Len(below) > 0)
    BY <1>1, <1>2, <1>3, <2>2
  <2> QED BY <1>1, <1>2, <1>3, <2>1, <2>3, VisitDeeper
<1>6. ErrorsFound'
  BY <1>1, SearchFrame DEF DiscInv, ErrorsFound, Validated
<1> QED BY <1>1, <1>4, <1>5, <1>6 DEF DiscInv

(* What replacing one element of a sequence leaves as it was.              *)
LEMMA ReplaceOne ==
  ASSUME NEW T, NEW s \in Seq(T), NEW k \in 1..Len(s), NEW e \in T
  PROVE  LET r == [s EXCEPT ![k] = e]
         IN  /\ r \in Seq(T) /\ Len(r) = Len(s) /\ r[k] = e
             /\ \A i \in 1..Len(s) : i # k => r[i] = s[i]
OBVIOUS

LEMMA NextKeeps == ASSUME DiscInv, Disc!NextNeighbour PROVE DiscInv'
<1>1. UNCHANGED <<disc_tree, disc_units, disc_phase>> /\ disc_stack # <<>> /\ disc_phase = "search"
  BY DEF Disc!NextNeighbour, DiscInv, DiscTypes
<1>2. DiscTypes /\ disc_stack \in Seq(Frames) /\ disc_state \in [Places -> 0..2]
  BY <1>1 DEF DiscInv, DiscTypes
<1>3. PICK L : L = Len(disc_stack)
  OBVIOUS
<1>4. L \in Nat \ {0} /\ disc_stack[L] \in Frames /\ \A i \in 1..L : disc_stack[i] \in Frames
  BY <1>1, <1>2, <1>3
<1>5. PICK m \in disc_stack[L].todo :
        LET popped == [disc_stack EXCEPT ![L] = [node |-> disc_stack[L].node, todo |-> disc_stack[L].todo \ {m}]]
        IN  \/ disc_state[m] = 1 /\ disc_errors' = disc_errors \union {"cycle"} /\ disc_stack' = <<>> /\ UNCHANGED disc_state
            \/ disc_state[m] = 2 /\ disc_stack' = popped /\ UNCHANGED <<disc_errors, disc_state>>
            \/ disc_state[m] = 0 /\ Disc!Visit(popped, m) /\ UNCHANGED disc_errors
  BY <1>3 DEF Disc!NextNeighbour, Disc!Top
<1>6. m \in Places
  BY <1>2, <1>4, <1>5 DEF Frames
<1>13. PICK frame : frame = [node |-> disc_stack[L].node, todo |-> disc_stack[L].todo \ {m}]
  OBVIOUS
<1>14. frame \in Frames /\ frame.node = disc_stack[L].node /\ frame.todo = disc_stack[L].todo \ {m}
  BY <1>4, <1>13 DEF Frames
<1>15. PICK popped : popped = [disc_stack EXCEPT ![L] = frame]
  OBVIOUS
<1>7. \/ disc_state[m] = 1 /\ disc_errors' = disc_errors \union {"cycle"} /\ disc_stack' = <<>> /\ UNCHANGED disc_state
      \/ disc_state[m] = 2 /\ disc_stack' = popped /\ UNCHANGED <<disc_errors, disc_state>>
      \/ disc_state[m] = 0 /\ Disc!Visit(popped, m) /\ UNCHANGED disc_errors
  BY <1>5, <1>13, <1>15
<1>8. /\ popped \in Seq(Frames) /\ Len(popped) = L
      /\ \A i \in 1..L : /\ popped[i].node = disc_stack[i].node
                         /\ popped[i].todo = IF i = L THEN disc_stack[i].todo \ {m} ELSE disc_stack[i].todo
  <2>1. Len(disc_stack) = L /\ L \in 1..L
    BY <1>3, <1>4
  <2>2. /\ popped \in Seq(Frames) /\ Len(popped) = L /\ popped[L] = frame
        /\ \A i \in 1..L : i # L => popped[i] = disc_stack[i]
    BY <1>2, <1>14, <1>15, <2>1, ReplaceOne
  <2>3. ASSUME NEW i \in 1..L
        PROVE  /\ popped[i].node = disc_stack[i].node
               /\ popped[i].todo = IF i = L THEN disc_stack[i].todo \ {m} ELSE disc_stack[i].todo
    BY <1>14, <2>2
  <2> QED BY <2>2, <2>3
<1>9. /\ Places' = Places /\ Frames' = Frames /\ Found' = Found /\ (HasCycle' <=> HasCycle)
      /\ \A n : Disc!Neighbours(n)' = Disc!Neighbours(n)
  BY <1>1, SearchFrame
<1>10. CASE disc_state[m] = 1 /\ disc_errors' = disc_errors \union {"cycle"} /\ disc_stack' = <<>> /\ UNCHANGED disc_state
  <2>1. DiscTypes'
    BY <1>1, <1>9, <1>10 DEF DiscInv, DiscTypes
  <2>2. HasCycle
    <3>1. CASE "cycle" \in disc_errors
      BY <3>1, <1>1 DEF DiscInv, ErrorsFound, Validated
    <3>2. CASE "cycle" \notin disc_errors
      <4>1. StackInv
        BY <3>2, <1>1 DEF DiscInv
      <4>2. PICK k \in 1..L : disc_stack[k].node = m
        BY <1>3, <1>6, <1>10, <4>1 DEF StackInv
      <4>3. PICK S : S = {disc_stack[i].node : i \in k..L}
        OBVIOUS
      <4>4. ASSUME NEW i \in k..L PROVE Disc!Neighbours(disc_stack[i].node) \intersect S # {}
        <5>1. CASE i = L
          <6>1. m \in Disc!Neighbours(disc_stack[L].node)
            BY <1>3, <1>4, <1>5, <4>1 DEF StackInv
          <6>2. m \in S
            BY <1>4, <4>2, <4>3
          <6> QED BY <5>1, <6>1, <6>2
        <5>2. CASE i # L
          <6>1. i \in 1..(L - 1) /\ i + 1 \in k..L
            BY <5>2, <1>4, <4>2
          <6>2. disc_stack[i + 1].node \in Disc!Neighbours(disc_stack[i].node)
            BY <1>3, <4>1, <6>1 DEF StackInv
          <6> QED BY <4>3, <6>1, <6>2
        <5> QED BY <5>1, <5>2
      <4>5. \A n \in S : Disc!Neighbours(n) \intersect S # {}
        BY <4>3, <4>4
      <4>6. S \subseteq Disc!UnitIDs /\ S # {}
        <5>1. \A n \in S : n \in Disc!UnitIDs
          BY <4>5 DEF Disc!Neighbours
        <5> QED BY <5>1, <1>4, <4>2, <4>3
      <4> QED BY <1>2, <4>5, <4>6, NeighboursHave DEF HasCycle
    <3> QED BY <3>1, <3>2
  <2>3. ErrorsFound'
    <3>1. disc_errors' \ {"cycle"} = disc_errors \ {"cycle"}
      BY <1>10
    <3>2. disc_errors \ {"cycle"} = Found
      BY <1>1 DEF DiscInv, ErrorsFound, Validated
    <3> QED BY <1>9, <2>2, <3>1, <3>2 DEF ErrorsFound
  <2> QED BY <1>1, <1>10, <2>1, <2>3 DEF DiscInv
<1>11. CASE disc_state[m] = 2 /\ disc_stack' = popped /\ UNCHANGED <<disc_errors, disc_state>>
  <2>1. DiscTypes'
    BY <1>1, <1>2, <1>8, <1>9, <1>11 DEF DiscTypes
  <2>2. ErrorsFound'
    BY <1>1, <1>9, <1>11 DEF DiscInv, ErrorsFound, Validated
  <2>3. ASSUME "cycle" \notin disc_errors PROVE StackInv'
    <3>1. StackInv
      BY <1>1, <2>3 DEF DiscInv
    <3>2. Visited' = Visited /\ m \in Visited
      BY <1>6, <1>9, <1>11 DEF Visited
    <3>3. /\ \A i, k \in 1..L : popped[i].node = popped[k].node => i = k
          /\ \A n \in Places : disc_state[n] = 1 <=> \E i \in 1..L : popped[i].node = n
      <4>1. /\ \A i, k \in 1..L : disc_stack[i].node = disc_stack[k].node => i = k
            /\ \A n \in Places : disc_state[n] = 1 <=> \E i \in 1..L : disc_stack[i].node = n
        BY <1>3, <3>1 DEF StackInv
      <4>2. \A i \in 1..L : popped[i].node = disc_stack[i].node
        BY <1>8
      <4>3. \A n : (\E i \in 1..L : popped[i].node = n) <=> \E i \in 1..L : disc_stack[i].node = n
        BY <4>2
      <4>4. \A i, k \in 1..L : popped[i].node = popped[k].node => i = k
        BY <4>1, <4>2
      <4> QED BY <4>1, <4>3, <4>4
    <3>4. ASSUME NEW i \in 1..(L - 1) PROVE popped[i + 1].node \in Disc!Neighbours(popped[i].node)
      <4>1. i \in 1..L /\ i + 1 \in 1..L
        BY <1>4
      <4> QED BY <4>1, <1>3, <1>8, <3>1 DEF StackInv
    <3>5. ASSUME NEW i \in 1..L, NEW p \in Disc!Neighbours(popped[i].node) \ popped[i].todo
          PROVE  p \in Visited \/ (i < L /\ p = popped[i + 1].node)
      <4>1. CASE p = m
        BY <4>1, <3>2
      <4>2. CASE p # m
        <5>1. p \in Disc!Neighbours(disc_stack[i].node) \ disc_stack[i].todo
          BY <4>2, <1>8, <3>5
        <5>2. p \in Visited \/ (i < L /\ p = disc_stack[i + 1].node)
          BY <5>1, <1>3, <3>1 DEF StackInv
        <5>3. i < L => i + 1 \in 1..L
          BY <1>4
        <5> QED BY <5>2, <5>3, <1>8
      <4> QED BY <4>1, <4>2
    <3>6. \A i \in 1..L : popped[i].todo \subseteq Disc!Neighbours(popped[i].node)
      <4>1. \A i \in 1..L : disc_stack[i].todo \subseteq Disc!Neighbours(disc_stack[i].node)
        BY <1>3, <3>1 DEF StackInv
      <4> QED BY <4>1, <1>8
    <3>7. /\ \A p \in Visited : Disc!Neighbours(p) \subseteq Visited
          /\ \A S \in SUBSET Visited : S = {} \/ \E p \in S : Disc!Neighbours(p) \intersect S = {}
      BY <3>1 DEF StackInv
    <3>8. \A i : Disc!Neighbours(disc_stack[i].node)' = Disc!Neighbours(popped[i].node)
      BY <1>1, <1>11 DEF Disc!Neighbours, Disc!UnitIDs
    <3>9. Len(disc_stack') = L
      BY <1>8, <1>11
    <3> QED BY <1>9, <1>11, <3>2, <3>3, <3>4, <3>5, <3>6, <3>7, <3>8, <3>9 DEF StackInv
  <2> QED BY <1>1, <1>11, <2>1, <2>2, <2>3 DEF DiscInv
<1>12. CASE disc_state[m] = 0 /\ Disc!Visit(popped, m) /\ UNCHANGED disc_errors
  <2>1. DiscTypes'
    BY <1>1, <1>2, <1>6, <1>8, <1>12, VisitTyped
  <2>2. ErrorsFound'
    BY <1>1, <1>9, <1>12 DEF DiscInv, ErrorsFound, Validated
  <2>3. ASSUME "cycle" \notin disc_errors PROVE StackInv'
    <3>1. StackInv
      BY <1>1, <2>3 DEF DiscInv
    <3>2. /\ Len(popped) = Len(disc_stack)
          /\ \A i \in 1..Len(popped) : popped[i].node = disc_stack[i].node
          /\ \A i \in 1..Len(popped) : popped[i].todo \subseteq disc_stack[i].todo
          /\ \A i \in 1..Len(popped) : \A p \in disc_stack[i].todo \ popped[i].todo : i = Len(popped) /\ p = m
      BY <1>3, <1>8
    <3>3. m \in Disc!Neighbours(disc_stack[Len(popped)].node)
      BY <1>3, <1>4, <1>5, <1>8, <3>1 DEF StackInv
    <3> QED BY <1>1, <1>2, <1>6, <1>8, <1>12, <3>1, <3>2, <3>3, VisitDeeper
  <2> QED BY <1>1, <1>12, <2>1, <2>2, <2>3 DEF DiscInv
<1> QED BY <1>7, <1>10, <1>11, <1>12

LEMMA LeaveKeeps == ASSUME DiscInv, Disc!Leave PROVE DiscInv'
<1>1. PICK L, top : L = Len(disc_stack) /\ top = disc_stack[L].node
  OBVIOUS
<1>2. /\ UNCHANGED <<disc_tree, disc_units, disc_phase, disc_errors>> /\ disc_stack # <<>>
      /\ disc_phase = "search" /\ disc_stack[L].todo = {}
      /\ disc_state' = [disc_state EXCEPT ![top] = 2]
      /\ disc_stack' = SubSeq(disc_stack, 1, L - 1)
  BY <1>1 DEF Disc!Leave, Disc!Top, DiscInv, DiscTypes
<1>3. DiscTypes /\ disc_stack \in Seq(Frames) /\ disc_state \in [Places -> 0..2]
  BY <1>2 DEF DiscInv, DiscTypes
<1>4. L \in Nat \ {0} /\ (\A i \in 1..L : disc_stack[i] \in Frames) /\ top \in Places
  <2>1. L \in Nat \ {0} /\ \A i \in 1..L : disc_stack[i] \in Frames
    BY <1>1, <1>2, <1>3
  <2> QED BY <1>1, <2>1 DEF Frames
<1>5. /\ Places' = Places /\ Frames' = Frames /\ Found' = Found /\ (HasCycle' <=> HasCycle)
      /\ \A n : Disc!Neighbours(n)' = Disc!Neighbours(n)
  BY <1>2, SearchFrame
<1>6. /\ disc_stack' \in Seq(Frames) /\ Len(disc_stack') = L - 1
      /\ \A i \in 1..(L - 1) : disc_stack'[i] = disc_stack[i] /\ i \in 1..L /\ i < L
  BY <1>1, <1>2, <1>3, <1>4
<1>7. DiscTypes'
  <2>1. disc_state' \in [Places -> 0..2]
    BY <1>2, <1>3, <1>4
  <2> QED BY <1>2, <1>3, <1>5, <1>6, <2>1 DEF DiscTypes
<1>8. ErrorsFound'
  BY <1>2, <1>5 DEF DiscInv, ErrorsFound, Validated
<1>9. ASSUME "cycle" \notin disc_errors PROVE StackInv'
  <2>1. StackInv
    BY <1>2, <1>9 DEF DiscInv
  <2>2. Visited' = Visited \union {top} /\ top \notin Visited
    <3>1. disc_state[top] = 1
      BY <1>1, <1>4, <2>1 DEF StackInv
    <3> QED BY <3>1, <1>2, <1>3, <1>4, <1>5 DEF Visited
  <2>3. Disc!Neighbours(top) \subseteq Visited
    BY <1>1, <1>2, <1>4, <2>1 DEF StackInv
  <2>4. ASSUME NEW n \in Places PROVE disc_state'[n] = 1 <=> \E i \in 1..(L - 1) : disc_stack'[i].node = n
    <3>1. disc_state[n] = 1 <=> \E i \in 1..L : disc_stack[i].node = n
      BY <1>1, <2>1 DEF StackInv
    <3>2. \A i \in 1..L : disc_stack[i].node = top <=> i = L
      BY <1>1, <1>4, <2>1 DEF StackInv
    <3>3. \A i \in 1..L : i = L \/ i \in 1..(L - 1)
      BY <1>4
    <3>4. CASE n = top
      <4>1. disc_state'[n] = 2
        BY <3>4, <1>2, <1>3, <1>4
      <4>2. \A i \in 1..(L - 1) : disc_stack'[i].node # n
        BY <3>2, <3>4, <1>4, <1>6
      <4> QED BY <4>1, <4>2
    <3>5. CASE n # top
      BY <3>1, <3>2, <3>3, <3>5, <1>1, <1>2, <1>3, <1>6
    <3> QED BY <3>4, <3>5
  <2>5. \A i, k \in 1..(L - 1) : disc_stack'[i].node = disc_stack'[k].node => i = k
    BY <1>1, <1>6, <2>1 DEF StackInv
  <2>6. ASSUME NEW i \in 1..(L - 2) PROVE disc_stack'[i + 1].node \in Disc!Neighbours(disc_stack'[i].node)
    <3>1. i \in 1..(L - 1) /\ i + 1 \in 1..(L - 1)
      BY <1>4
    <3> QED BY <3>1, <1>1, <1>6, <2>1 DEF StackInv
  <2>7. ASSUME NEW i \in 1..(L - 1), NEW p \in Disc!Neighbours(disc_stack'[i].node) \ disc_stack'[i].todo
        PROVE  p \in Visited' \/ (i < L - 1 /\ p = disc_stack'[i + 1].node)
    <3>1. p \in Visited \/ p = disc_stack[i + 1].node
      BY <2>7, <1>1, <1>6, <2>1 DEF StackInv
    <3>2. i + 1 = L \/ (i < L - 1 /\ i + 1 \in 1..(L - 1))
      BY <1>4
    <3> QED BY <3>1, <3>2, <1>1, <1>6, <2>2
  <2>8. \A i \in 1..(L - 1) : disc_stack'[i].todo \subseteq Disc!Neighbours(disc_stack'[i].node)
    <3>1. \A i \in 1..L : disc_stack[i].todo \subseteq Disc!Neighbours(disc_stack[i].node)
      BY <1>1, <2>1 DEF StackInv
    <3> QED BY <3>1, <1>6
  <2>9. \A p \in Visited' : Disc!Neighbours(p) \subseteq Visited'
    BY <2>1, <2>2, <2>3 DEF StackInv
  <2>10. ASSUME NEW S \in SUBSET Visited', S # {} PROVE \E p \in S : Disc!Neighbours(p) \intersect S = {}
    <3>1. PICK T : T = S \intersect Visited
      OBVIOUS
    <3>2. CASE T = {}
      <4>1. S = {top}
        BY <3>1, <3>2, <2>2, <2>10
      <4> QED BY <4>1, <2>2, <2>3
    <3>3. CASE T # {}
      <4>1. PICK p \in T : Disc!Neighbours(p) \intersect T = {}
        BY <3>1, <3>3, <2>1 DEF StackInv
      <4>2. Disc!Neighbours(p) \subseteq Visited
        BY <3>1, <4>1, <2>1 DEF StackInv
      <4> QED BY <3>1, <4>1, <4>2
    <3> QED BY <3>2, <3>3
  <2>11. \A i : Disc!Neighbours(disc_stack[i].node)' = Disc!Neighbours(disc_stack'[i].node)
    BY <1>2 DEF Disc!Neighbours, Disc!UnitIDs
  <2>12. Len(disc_stack') = L - 1 /\ Len(disc_stack') - 1 = L - 2
    BY <1>4, <1>6
  <2> QED BY <1>5, <2>4, <2>5, <2>6, <2>7, <2>8, <2>9, <2>10, <2>11, <2>12 DEF StackInv
<1> QED BY <1>2, <1>7, <1>8, <1>9 DEF DiscInv

LEMMA EndKeeps == ASSUME DiscInv, Disc!EndSearch PROVE DiscInv'
<1>1. /\ disc_phase = "search" /\ disc_phase' = "done" /\ disc_stack = <<>>
      /\ \A n \in Disc!UnitIDs : disc_state[n] # 0
      /\ UNCHANGED <<disc_tree, disc_units, disc_errors, disc_state, disc_stack>>
  BY DEF Disc!EndSearch
<1>2. /\ Places' = Places /\ Frames' = Frames /\ Found' = Found /\ (HasCycle' <=> HasCycle)
      /\ (\A n : Disc!Neighbours(n)' = Disc!Neighbours(n)) /\ Disc!UnitIDs' = Disc!UnitIDs
  BY <1>1, SearchFrame
<1>3. DiscTypes'
  BY <1>1, <1>2 DEF DiscInv, DiscTypes
<1>4. ErrorsFound'
  BY <1>1, <1>2 DEF DiscInv, ErrorsFound, Validated
<1>5. "cycle" \notin disc_errors => StackInv'
  <2>1. Visited' = Visited /\ \A i : Disc!Neighbours(disc_stack[i].node)' = Disc!Neighbours(disc_stack[i].node)
    BY <1>1, <1>2 DEF Visited, Disc!Neighbours, Disc!UnitIDs
  <2> QED BY <1>1, <1>2, <2>1 DEF DiscInv, StackInv
<1> QED BY <1>1, <1>2, <1>3, <1>4, <1>5 DEF DiscInv

LEMMA DiscStep == DiscInv /\ [Disc!Next]_(Disc!vars) => DiscInv'
<1> SUFFICES ASSUME DiscInv, [Disc!Next]_(Disc!vars) PROVE DiscInv'
  OBVIOUS
<1>1. CASE UNCHANGED Disc!vars
  <2>1. UNCHANGED <<disc_tree, disc_phase, disc_units, disc_errors, disc_state, disc_stack>>
    BY <1>1 DEF Disc!vars
  <2>2. /\ Places' = Places /\ Frames' = Frames /\ Found' = Found /\ (HasCycle' <=> HasCycle)
        /\ (\A n : Disc!Neighbours(n)' = Disc!Neighbours(n)) /\ Disc!UnitIDs' = Disc!UnitIDs
    BY <2>1, SearchFrame
  <2>3. DiscTypes' /\ ErrorsFound'
    BY <2>1, <2>2 DEF DiscInv, DiscTypes, ErrorsFound, Validated
  <2>4. StackInv => StackInv'
    <3>1. Visited' = Visited /\ \A i : Disc!Neighbours(disc_stack[i].node)' = Disc!Neighbours(disc_stack[i].node)
      BY <2>1, <2>2 DEF Visited, Disc!Neighbours, Disc!UnitIDs
    <3> QED BY <2>1, <2>2, <3>1 DEF StackInv
  <2> QED BY <2>1, <2>2, <2>3, <2>4 DEF DiscInv
<1>2. CASE Disc!Next
  BY <1>2, DiscoverKeeps, ValidateKeeps, StartKeeps, NextKeeps, LeaveKeeps, EndKeeps DEF Disc!Next
<1> QED BY <1>1, <1>2

LEMMA DiscInit == Disc!Init => DiscInv
<1> SUFFICES ASSUME Disc!Init PROVE DiscInv
  OBVIOUS
<1>1. disc_phase = "read" /\ disc_units = <<>> /\ disc_errors = {} /\ disc_stack = <<>> /\ disc_tree \in Trees
  BY DEF Disc!Init
<1>2. DiscTypes
  BY <1>1 DEF DiscTypes
<1> QED BY <1>1, <1>2 DEF DiscInv, ErrorsFound, Validated

(* Numbers 1 to n, each once: what the two checks of a unit's numbers and  *)
(* that of its dependencies come to.                                       *)
LEMMA ChecksAreNumbering ==
  ASSUME NEW d \in Disc!Directory
  PROVE  Disc!UnitErrors(d) = {} <=> Disc!Numbered(d.tasks)
<1>1. PICK n, number : n = Len(d.tasks) /\ number = [i \in DOMAIN d.tasks |-> d.tasks[i].number]
  OBVIOUS
<1>2. n \in Nat /\ DOMAIN d.tasks = 1..n /\ \A i \in 1..n : d.tasks[i] \in Disc!Task
  BY <1>1 DEF Disc!Directory
<1>3. IsFiniteSet(1..n) /\ Cardinality(1..n) = n
  <2>1. IsFiniteSet(1..n) /\ Cardinality(1..n) = IF 1 > n THEN 0 ELSE n - 1 + 1
    BY <1>2, FS_Interval
  <2> QED BY <2>1, <1>2
<1>4. Disc!Numbers(d.tasks) = {number[i] : i \in 1..n} /\ \A i \in 1..n : number[i] = d.tasks[i].number
  BY <1>1, <1>2 DEF Disc!Numbers
<1>5. number \in Surjection(1..n, Disc!Numbers(d.tasks))
  BY <1>1, <1>2, <1>4 DEF Surjection
<1>6. 1..n \subseteq Disc!Numbers(d.tasks) => Disc!Numbers(d.tasks) = 1..n
  <2>1. PICK N : N = Disc!Numbers(d.tasks)
    OBVIOUS
  <2>2. IsFiniteSet(N) /\ Cardinality(N) <= n /\ Cardinality(N) \in Nat
    BY <1>3, <1>5, <2>1, FS_Surjection, FS_CardinalityType
  <2>3. ASSUME 1..n \subseteq N PROVE N = 1..n
    <3>1. Cardinality(1..n) <= Cardinality(N) /\ (Cardinality(N) = Cardinality(1..n) => N = 1..n)
      BY <2>2, <2>3, FS_Subset
    <3> QED BY <3>1, <2>2, <1>2, <1>3
  <2> QED BY <2>1, <2>3
<1>7. Disc!Numbers(d.tasks) = 1..n => \A i, k \in 1..n : number[i] = number[k] => i = k
  <2>1. ASSUME Disc!Numbers(d.tasks) = 1..n PROVE number \in Injection(1..n, 1..n)
    BY <2>1, <1>3, <1>5, FS_Surjection
  <2> QED BY <2>1, <1>1, <1>2 DEF Injection, IsInjective
<1>8. Disc!SequenceErrors(d.tasks) = {}
        <=> /\ \A i, k \in 1..n : i < k => number[i] # number[k]
            /\ 1..n \subseteq Disc!Numbers(d.tasks)
  <2>1. Disc!SequenceErrors(d.tasks) = {}
          <=> /\ {p \in (1..n) \X (1..n) : p[1] < p[2] /\ d.tasks[p[1]].number = d.tasks[p[2]].number} = {}
              /\ {k \in 1..n : k \notin Disc!Numbers(d.tasks)} = {}
    BY <1>1, <1>2 DEF Disc!SequenceErrors
  <2>2. {p \in (1..n) \X (1..n) : p[1] < p[2] /\ d.tasks[p[1]].number = d.tasks[p[2]].number} = {}
          <=> \A i, k \in 1..n : i < k => number[i] # number[k]
    <3>1. ASSUME NEW i \in 1..n, NEW k \in 1..n, i < k, number[i] = number[k]
          PROVE  <<i, k>> \in {p \in (1..n) \X (1..n) : p[1] < p[2] /\ d.tasks[p[1]].number = d.tasks[p[2]].number}
      BY <3>1, <1>4
    <3>2. ASSUME NEW p \in (1..n) \X (1..n), p[1] < p[2], d.tasks[p[1]].number = d.tasks[p[2]].number
          PROVE  \E i, k \in 1..n : i < k /\ number[i] = number[k]
      BY <3>2, <1>4
    <3> QED BY <3>1, <3>2
  <2> QED BY <2>1, <2>2
<1>9. Disc!DependencyErrors(d.tasks) = {}
        <=> \A i \in 1..n : \A e \in d.tasks[i].deps : e # number[i] /\ e \in Disc!Numbers(d.tasks)
  <2>1. Disc!DependencyErrors(d.tasks) = {}
          <=> {i \in 1..n : \E e \in d.tasks[i].deps : e = d.tasks[i].number \/ e \notin Disc!Numbers(d.tasks)} = {}
    BY <1>2 DEF Disc!DependencyErrors
  <2> QED BY <2>1, <1>4
<1>10. Disc!UnitErrors(d) = {}
        <=> /\ \A i \in 1..n : number[i] # 0 /\ d.tasks[i].backpressure
            /\ Disc!SequenceErrors(d.tasks) = {} /\ Disc!DependencyErrors(d.tasks) = {}
  BY <1>2, <1>4 DEF Disc!UnitErrors
<1>11. Disc!Numbered(d.tasks)
        <=> /\ Disc!Numbers(d.tasks) = 1..n
            /\ \A i \in 1..n : d.tasks[i].backpressure /\ \A e \in d.tasks[i].deps : e \in 1..n /\ e # number[i]
  BY <1>1, <1>2, <1>4 DEF Disc!Numbered
<1>12. Disc!Numbers(d.tasks) = 1..n => \A i \in 1..n : number[i] # 0
  <2> SUFFICES ASSUME Disc!Numbers(d.tasks) = 1..n, NEW i \in 1..n PROVE number[i] # 0
    OBVIOUS
  <2>1. number[i] \in 1..n
    BY <1>4
  <2> QED BY <2>1, <1>2
<1>13. ASSUME Disc!UnitErrors(d) = {} PROVE Disc!Numbered(d.tasks)
  <2>1. Disc!Numbers(d.tasks) = 1..n
    BY <1>6, <1>8, <1>10, <1>13
  <2> QED BY <2>1, <1>9, <1>10, <1>11, <1>13
<1>14. ASSUME Disc!Numbered(d.tasks) PROVE Disc!UnitErrors(d) = {}
  <2>1. Disc!Numbers(d.tasks) = 1..n
    BY <1>11, <1>14
  <2>2. \A i, k \in 1..n : i < k => number[i] # number[k]
    BY <2>1, <1>2, <1>7
  <2> QED BY <2>1, <2>2, <1>8, <1>9, <1>10, <1>11, <1>12, <1>14
<1> QED BY <1>13, <1>14

(* Validation finds no error exactly when there is none: the tasks of each *)
(* unit are numbered, what units depend on exists, and none waits for      *)
(* itself.                                                                 *)
THEOREM ValidationIsRightHolds == AllSpec => []ValidationIsRight
<1>1. DiscInv => Disc!ValidationIsRight
  <2> SUFFICES ASSUME DiscInv, disc_phase = "done", disc_errors # {"unreadable"}
               PROVE  disc_errors = {} <=>
                        /\ \A n \in Disc!UnitIDs : /\ Disc!Numbered(disc_tree[n].tasks)
                                                   /\ disc_tree[n].deps \subseteq Disc!UnitIDs
                        /\ ~HasCycle
    BY DEF Disc!ValidationIsRight, HasCycle
  <2>1. DiscTypes /\ Validated /\ Disc!UnitIDs \subseteq DOMAIN disc_tree
    BY DEF DiscInv, DiscTypes, Validated, Disc!UnitIDs
  <2>2. disc_errors \ {"cycle"} = Found /\ ("cycle" \in disc_errors => HasCycle)
    BY <2>1 DEF DiscInv, ErrorsFound
  <2>3. Found = {} <=> \A n \in Disc!UnitIDs : /\ Disc!Numbered(disc_tree[n].tasks)
                                               /\ disc_tree[n].deps \subseteq Disc!UnitIDs
    <3>1. \A n \in Disc!UnitIDs : disc_tree[n] \in Disc!Directory
      BY <2>1, Parameters DEF DiscTypes, Disc!TreesAssumption
    <3>2. \A n \in Disc!UnitIDs : Disc!UnitErrors(disc_tree[n]) = {} <=> Disc!Numbered(disc_tree[n].tasks)
      BY <3>1, ChecksAreNumbering
    <3>3. Found = {} <=> \A n \in Disc!UnitIDs : /\ Disc!UnitErrors(disc_tree[n]) = {}
                                                 /\ disc_tree[n].deps \subseteq Disc!UnitIDs
      BY DEF Found
    <3> QED BY <3>2, <3>3
  <2>4. "cycle" \notin disc_errors => ~HasCycle
    <3> SUFFICES ASSUME "cycle" \notin disc_errors, NEW S \in SUBSET Disc!UnitIDs, Disc!Circular(S) PROVE FALSE
      BY DEF HasCycle
    <3>1. StackInv /\ disc_stack = <<>> /\ disc_state \in [Places -> 0..2] /\ \A n \in Disc!UnitIDs : disc_state[n] # 0
      BY DEF DiscInv, DiscTypes
    <3>2. Disc!UnitIDs \subseteq Places
      BY <2>1, NeighboursHave
    <3>3. \A n \in Places : disc_state[n] # 1
      BY <3>1 DEF StackInv
    <3>4. \A n \in Disc!UnitIDs : n \in Visited
      BY <3>1, <3>2, <3>3 DEF Visited
    <3>5. S \in SUBSET Visited
      BY <3>4
    <3>6. S # {} /\ \A n \in S : Disc!Neighbours(n) \intersect S # {}
      BY <2>1, NeighboursHave
    <3> QED BY <3>1, <3>5, <3>6 DEF StackInv
  <2> QED BY <2>2, <2>3, <2>4
<1>2. Disc!Spec => []DiscInv
  BY DiscInit, DiscStep, PTL DEF Disc!Spec
<1> QED BY <1>1, <1>2, SideBySide, PTL DEF ValidationIsRight
=============================================================================
