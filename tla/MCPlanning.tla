----------------------------- MODULE MCPlanning -----------------------------
(***************************************************************************)
(* What plans the units and closes the feature, side by side: the graph of *)
(* units, their discovery and validation, the two workflows that write the *)
(* specifications, the documents they keep, and the archive at the end.    *)
(* They share no variable; a behaviour is one of the component in `part`,  *)
(* and the others rest in their initial states.                            *)
(***************************************************************************)
EXTENDS GraphSort, TLC

CONSTANTS
  Writers, Original, MaxEdits,              \* of Documents
  MaxIterations, PushRetries, MaxTriggers,  \* of FeatureWorkflow
  Trees,                                    \* of Discovery
  FeatureSpecs, FeatureUnits,
  ArchiveSpecs, ArchiveUnits                \* of Completion

VARIABLES
  part,  \* the component that moves
  spec_file, spec_pc, spec_mem, spec_phase, spec_mode, spec_dry,
  spec_cancelled, spec_asked, spec_done, spec_waived,
  feature_status, feature_call, feature_count, feature_reviews,
  feature_waived, feature_verdict, feature_specs, feature_remote,
  feature_done, feature_created, feature_body, feature_known,
  feature_baseline,
  disc_tree, disc_phase, disc_units, disc_errors, disc_state, disc_stack,
  doc_kind, doc_files, doc_path, doc_tmp, doc_pc, doc_kept, doc_opened,
  doc_cache, doc_edits, doc_raced,
  end_mode, end_complete, end_taken, end_tree, end_head, end_remote,
  end_mine, end_flow, end_pc, end_todo, end_misread, end_waived, end_pr

(* Directories for Discovery: every graph of three units, with a unit that *)
(* nobody has; one unit with up to three tasks; and what is no unit.       *)
Task(n, deps, status) == [number |-> n, deps |-> deps, status |-> status, backpressure |-> TRUE]
Plan(deps, tasks) == [plan |-> "ok", deps |-> deps, status |-> "", tasks |-> tasks]

GraphTrees ==
  [{"a", "b", "c"} -> {Plan(d, <<Task(1, {}, "pending")>>) : d \in SUBSET {"a", "b", "c", "x"}}]

Tasks == {Task(n, d, s) : n \in 0..3, d \in {{}, {1}, {2}, {1, 2}}, s \in {"pending", "complete"}}
           \union {[Task(1, {}, "pending") EXCEPT !.backpressure = FALSE], Task(1, {}, "bad"), Task(1, {}, "")}
FewTasks == {t \in Tasks : t.status = "pending" /\ t.deps # {1, 2}}
TaskTrees ==
  [{"a"} -> {Plan({}, t) : t \in {<<>>} \union [1..1 -> Tasks] \union [1..2 -> Tasks]
                                  \union [1..3 -> FewTasks]}]

OtherTrees ==
  [{"a", "b"} -> {[Plan({"a"}, <<Task(1, {}, "pending")>>) EXCEPT !.plan = p, !.status = s] :
                    p \in {"none", "bad", "ok"}, s \in {"", "complete", "merging", "unknown"}}]

MCTrees == GraphTrees \union TaskTrees \union OtherTrees

(* Nothing to validate, for the other components' behaviours.              *)
NoTasks == [n \in {"a"} |-> Plan({}, <<>>)]

Workflow == INSTANCE SpecWorkflow WITH
  file <- spec_file, pc <- spec_pc, mem <- spec_mem, phase <- spec_phase,
  mode <- spec_mode, dry <- spec_dry, cancelled <- spec_cancelled,
  asked <- spec_asked, done <- spec_done, waived <- spec_waived

Feature == INSTANCE FeatureWorkflow WITH
  Specs <- FeatureSpecs, Units <- FeatureUnits, status <- feature_status,
  call <- feature_call, count <- feature_count, reviews <- feature_reviews,
  waived <- feature_waived, verdict <- feature_verdict,
  specs <- feature_specs, remote <- feature_remote, done <- feature_done,
  created <- feature_created, body <- feature_body, known <- feature_known,
  baseline <- feature_baseline

Disc == INSTANCE Discovery WITH
  tree <- disc_tree, phase <- disc_phase,
  units <- disc_units, errors <- disc_errors, state <- disc_state,
  stack <- disc_stack

Doc == INSTANCE Documents WITH
  kind <- doc_kind, files <- doc_files, path <- doc_path,
  tmp <- doc_tmp, pc <- doc_pc, kept <- doc_kept, opened <- doc_opened,
  cache <- doc_cache, edits <- doc_edits, raced <- doc_raced

End == INSTANCE Completion WITH
  Specs <- ArchiveSpecs, Units <- ArchiveUnits, mode <- end_mode,
  complete <- end_complete, taken <- end_taken, tree <- end_tree,
  head <- end_head, remote <- end_remote, mine <- end_mine,
  flow <- end_flow, pc <- end_pc, todo <- end_todo,
  misread <- end_misread, waived <- end_waived, pr <- end_pr

specVars == <<spec_file, spec_pc, spec_mem, spec_phase, spec_mode,
              spec_dry, spec_cancelled, spec_asked, spec_done, spec_waived>>
featureVars == <<feature_status, feature_call, feature_count,
                 feature_reviews, feature_waived, feature_verdict,
                 feature_specs, feature_remote, feature_done,
                 feature_created, feature_body, feature_known,
                 feature_baseline>>
discVars == <<disc_tree, disc_phase, disc_units, disc_errors, disc_state,
              disc_stack>>
docVars == <<doc_kind, doc_files, doc_path, doc_tmp, doc_pc, doc_kept,
             doc_opened, doc_cache, doc_edits, doc_raced>>
endVars == <<end_mode, end_complete, end_taken, end_tree, end_head,
             end_remote, end_mine, end_flow, end_pc, end_todo,
             end_misread, end_waived, end_pr>>
all == <<part, vars, specVars, featureVars, discVars, docVars, endVars>>

ASSUME Parameters ==
  /\ Feature!FeatureAssumption /\ Doc!DocumentsAssumption
  /\ Disc!TreesAssumption /\ NoTasks \in Trees

AllInit ==
  /\ part \in {"graph", "spec", "feature", "disc", "doc", "end"}
  /\ part # "graph" => listed = [u \in Units |-> <<>>] /\ complete = {} /\ target = 0
  /\ part # "disc" => disc_tree = NoTasks
  /\ part # "doc" => doc_kind = [w \in Writers |-> "rename"]
  /\ part # "end" => end_mode = "none" /\ end_taken = {} /\ end_mine = FALSE
  /\ Init /\ Workflow!Init /\ Feature!Init /\ Disc!Init /\ Doc!Init /\ End!Init

(* A step of one component.                                                *)
InGraph(A) ==
  part = "graph" /\ A /\ UNCHANGED <<part, specVars, featureVars, discVars, docVars, endVars>>
InSpec(A) ==
  part = "spec" /\ A /\ UNCHANGED <<part, vars, featureVars, discVars, docVars, endVars>>
InFeature(A) ==
  part = "feature" /\ A /\ UNCHANGED <<part, vars, specVars, discVars, docVars, endVars>>
InDisc(A) ==
  part = "disc" /\ A /\ UNCHANGED <<part, vars, specVars, featureVars, docVars, endVars>>
InDoc(A) ==
  part = "doc" /\ A /\ UNCHANGED <<part, vars, specVars, featureVars, discVars, endVars>>
InEnd(A) ==
  part = "end" /\ A /\ UNCHANGED <<part, vars, specVars, featureVars, discVars, docVars>>

AllNext ==
  \/ InGraph(Next) \/ InSpec(Workflow!Next) \/ InFeature(Feature!Next)
  \/ InDisc(Disc!Next) \/ InDoc(Doc!Next) \/ InEnd(End!Next)

AllSpec == AllInit /\ [][AllNext]_all

Alike == Permutations(Writers)

(* The properties of the components, which state them in full.             *)

(* The state file of a specification workflow never claims more than was   *)
(* done, and no phase is skipped or repeated because of it.                *)
StateIsTrue == Workflow!StateIsTrue

(* Work on a feature starts from reviewed specifications on the remote.    *)
WorkFromRemote == Feature!WorkFromRemote

(* Validation reports an error exactly when there is one.                  *)
ValidationIsRight == Disc!ValidationIsRight

(* Updates of a document survive the failures of others.                   *)
UpdatesAreKept == Doc!UpdatesAreKept

(* A completed feature has its archive where the pull request shows it.    *)
ArchiveIsPublished == End!ArchiveIsPublished
=============================================================================
