---------------------------- MODULE MCTaskResume ----------------------------
(* TaskLoop with a history variable, for the runs that follow a command    *)
(* that failed.                                                            *)
EXTENDS MCTaskLoop

VARIABLE refused  \* tasks whose backpressure command failed when it last ran

ResumeInit == Init /\ refused = {}

ResumeNext ==
  \/ BackpressureFails /\ refused' = refused \union {chosen}
  \/ BackpressurePasses /\ refused' = refused \ {chosen}
  \/ Next /\ ~BackpressureFails /\ ~BackpressurePasses /\ UNCHANGED refused

ResumeSpec == ResumeInit /\ [][ResumeNext]_<<vars, refused>>

-----------------------------------------------------------------------------
(* Properties.                                                             *)

(* "Each task has a backpressure command that must pass before the task is *)
(* considered complete", and where it fails the status is reverted: what   *)
(* is merged holds no task whose command failed.  (With a dirty worktree   *)
(* the rebase of the merge refuses to start.)                              *)
NothingRefusedIsMerged == pc = "merging" /\ Clean => refused = {}
=============================================================================
