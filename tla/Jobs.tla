-------------------------------- MODULE Jobs --------------------------------
(***************************************************************************)
(* The jobs of the daemon: the runs table, jobManagerImpl's map of jobs,   *)
(* the gRPC server's map of cancel functions, one goroutine per job, and   *)
(* the calls StartJob, StopJob and Shutdown that work on all four, down to *)
(* graceful shutdown, crash and restart with ResumeJobs.                   *)
(*                                                                         *)
(* Every database statement is atomic and may fail; jm.mu is held across   *)
(* the statements of Start.  A branch stands for a pair of feature branch  *)
(* and repository.                                                         *)
(***************************************************************************)
EXTENDS Naturals, FiniteSets

CONSTANTS
  Jobs,       \* run IDs (ULIDs, never reused)
  Branches,   \* branch and repository pairs
  Unnamed,    \* the pairs whose branch is empty: StartJob looks nothing up
  Callers,    \* concurrent StartJob calls
  Stoppers,   \* concurrent StopJob calls
  MaxJobs,    \* the job manager's limit
  MayCrash,   \* whether the process may be killed and started again
  MayFail,    \* whether a statement of the database may fail
  None

ASSUME JobsAssumption ==
  /\ IsFiniteSet(Jobs) /\ IsFiniteSet(Callers)
  /\ Unnamed \subseteq Branches
  /\ MaxJobs \in Nat /\ MayCrash \in BOOLEAN /\ MayFail \in BOOLEAN
  /\ None \notin Jobs \union Branches \union Callers

VARIABLES
  row,       \* job -> status in the runs table, "none" without a row
  branch,    \* job -> its branch, None until a row is created
  inherited, \* jobs whose row said running when the daemon started
  unwritten, \* history: jobs whose row stayed at running for a write that failed
  listed,    \* jobManagerImpl.jobs
  tracked,   \* GRPCServer.activeJobs
  cancelled, \* jobs whose context is cancelled
  runner,    \* job -> where its goroutine stands
  mu,        \* the caller that holds jm.mu in Start, or None
  start,     \* caller -> where its StartJob stands
  wanted,    \* caller -> the branch asked for, or None
  made,      \* caller -> the job it is creating, or None
  stop,      \* stopper -> where its StopJob stands
  stopping,  \* stopper -> the job it stops, or None
  shut,      \* where the Shutdown call stands, "no" before it
  toStop,    \* the jobs Shutdown has still to stop
  phase      \* the daemon: "up", the steps of gracefulShutdown, "down"

dbVars == <<row, branch, inherited, unwritten>>
jobVars == <<listed, tracked, cancelled, runner>>
startVars == <<mu, start, wanted, made>>
stopVars == <<stop, stopping>>
shutVars == <<shut, toStop, phase>>
vars == <<dbVars, jobVars, startVars, stopVars, shutVars>>

Final == {"completed", "failed", "cancelled"}
Serving == phase \in {"up", "stop_jobs", "await_jobs"}
Handling == Serving \/ phase = "stop_grpc"
Fresh == {j \in Jobs : branch[j] = None}
RowsOf(b) == {j \in Jobs : branch[j] = b /\ row[j] # "none"}
Running(j) == runner[j] = "running"

Init ==
  /\ row = [j \in Jobs |-> "none"] /\ branch = [j \in Jobs |-> None]
  /\ inherited = {} /\ unwritten = {}
  /\ listed = {} /\ tracked = {} /\ cancelled = {}
  /\ runner = [j \in Jobs |-> "none"]
  /\ mu = None
  /\ start = [c \in Callers |-> "idle"] /\ wanted = [c \in Callers |-> None]
  /\ made = [c \in Callers |-> None]
  /\ stop = [s \in Stoppers |-> "idle"] /\ stopping = [s \in Stoppers |-> None]
  /\ shut = "no" /\ toStop = {} /\ phase = "up"

(* UpdateRunStatus: an unconditional write, an error without the row.      *)
SetStatus(j, s) == row' = [row EXCEPT ![j] = IF @ = "none" THEN @ ELSE s]

(* UpdateRunStatus where its error is only logged.                         *)
SetOrLog(j, s) ==
  \/ SetStatus(j, s) /\ UNCHANGED unwritten
  \/ /\ MayFail /\ UNCHANGED row
     /\ unwritten' = IF row[j] = "running" THEN unwritten \union {j} ELSE unwritten

(* DeleteNonActiveRunByBranch.                                             *)
DeleteNonActive(b) ==
  row' = [j \in Jobs |-> IF branch[j] = b /\ row[j] \in Final THEN "none" ELSE row[j]]

-----------------------------------------------------------------------------
(* StartJob.                                                               *)

Goto(c, from, to) ==
  /\ start[c] = from /\ Handling
  /\ start' = [start EXCEPT ![c] = to]
  /\ IF to = "idle" THEN wanted' = [wanted EXCEPT ![c] = None] ELSE UNCHANGED wanted

(* The bound: no more calls than there are IDs.                            *)
BeginStart(c, b) ==
  /\ Serving /\ shut = "no"
  /\ Cardinality({d \in Callers : start[d] # "idle"}) < Cardinality(Fresh)
  /\ start[c] = "idle"
  /\ start' = [start EXCEPT ![c] = IF b \in Unnamed THEN "lock" ELSE "lookup"]
  /\ wanted' = [wanted EXCEPT ![c] = b]
  /\ UNCHANGED <<dbVars, jobVars, mu, made, stopVars, shutVars>>

(* GetActiveRunByBranch: attach to the run, or refuse if its target branch *)
(* or tasks directory is another.                                          *)
Lookup(c) ==
  LET active == {j \in RowsOf(wanted[c]) : row[j] = "running"}
  IN  /\ IF active = {}
         THEN Goto(c, "lookup", "clean")
         ELSE Goto(c, "lookup", "idle")
      /\ UNCHANGED <<dbVars, jobVars, mu, made, stopVars, shutVars>>

Clean(c) ==
  /\ Goto(c, "clean", "lock")
  /\ DeleteNonActive(wanted[c])
  /\ UNCHANGED <<branch, inherited, unwritten, jobVars, mu, made, stopVars, shutVars>>

AtLimit == Cardinality(listed) >= MaxJobs

(* jobManagerImpl.Start takes jm.mu.                                       *)
Lock(c) ==
  /\ mu = None
  /\ IF AtLimit
     THEN Goto(c, "lock", "idle") /\ UNCHANGED mu
     ELSE Goto(c, "lock", "purge") /\ mu' = c
  /\ UNCHANGED <<dbVars, jobVars, made, stopVars, shutVars>>

Purge(c) ==
  /\ Goto(c, "purge", "create")
  /\ DeleteNonActive(wanted[c])
  /\ UNCHANGED <<branch, inherited, unwritten, jobVars, mu, made, stopVars, shutVars>>

(* CreateRun: one row per branch and repository.                           *)
Create(c) ==
  /\ IF RowsOf(wanted[c]) # {}
     THEN /\ Goto(c, "create", "idle")
          /\ mu' = None
          /\ UNCHANGED <<row, branch, made>>
     ELSE \E j \in Fresh :
            /\ Goto(c, "create", "config")
            /\ row' = [row EXCEPT ![j] = "running"]
            /\ branch' = [branch EXCEPT ![j] = wanted[c]]
            /\ made' = [made EXCEPT ![c] = j]
            /\ UNCHANGED mu
  /\ UNCHANGED <<inherited, unwritten, jobVars, stopVars, shutVars>>

\* Mutant of ConfigFails: the row stays.
ConfigFailsUnrecorded(c) ==
  /\ Goto(c, "config", "idle")
  /\ made' = [made EXCEPT ![c] = None]
  /\ mu' = None
  /\ UNCHANGED <<dbVars, jobVars, stopVars, shutVars>>

(* LoadConfig fails: the row says so, or the log says why not.             *)
ConfigFails(c) ==
  /\ Goto(c, "config", "idle")
  /\ SetOrLog(made[c], "failed")
  /\ made' = [made EXCEPT ![c] = None]
  /\ mu' = None
  /\ UNCHANGED <<branch, inherited, jobVars, stopVars, shutVars>>

(* Register the job, start its goroutine, release jm.mu.                   *)
Launch(c) ==
  /\ Goto(c, "config", "track")
  /\ listed' = listed \union {made[c]}
  /\ runner' = [runner EXCEPT ![made[c]] = "running"]
  /\ mu' = None
  /\ UNCHANGED <<dbVars, tracked, cancelled, made, stopVars, shutVars>>

Track(c) ==
  /\ Goto(c, "track", "idle")
  /\ tracked' = tracked \union {made[c]}
  /\ made' = [made EXCEPT ![c] = None]
  /\ UNCHANGED <<dbVars, listed, cancelled, runner, mu, stopVars, shutVars>>

(* A query, a delete or the insert fails: StartJob returns its error, and  *)
(* Start releases jm.mu.                                                   *)
StatementFails(c) ==
  /\ MayFail
  /\ \E from \in {"lookup", "clean", "purge", "create"} : Goto(c, from, "idle")
  /\ mu' = IF mu = c THEN None ELSE mu
  /\ UNCHANGED <<dbVars, jobVars, made, stopVars, shutVars>>

StartStep(c) ==
  \/ Lookup(c) \/ Clean(c) \/ Purge(c) \/ Create(c) \/ StatementFails(c)
  \/ ConfigFails(c) \/ Launch(c) \/ Track(c)

-----------------------------------------------------------------------------
(* The job's goroutine.                                                    *)

Move(j, from, to) ==
  /\ runner[j] = from /\ phase # "down"
  /\ runner' = [runner EXCEPT ![j] = to]

(* orch.Run returns; cancelled or not, it may have completed or failed.    *)
RunReturns(j) ==
  /\ \/ Move(j, "running", "completed") \/ Move(j, "running", "failed")
     \/ j \in cancelled /\ Move(j, "running", "cancelled")
  /\ UNCHANGED <<dbVars, listed, tracked, cancelled, startVars, stopVars, shutVars>>

(* The outcome goes into the row, whatever it says by now, or the log says *)
(* why not.                                                                *)
Record(j) ==
  /\ runner[j] \in Final /\ Move(j, runner[j], "recorded")
  /\ SetOrLog(j, runner[j])
  /\ UNCHANGED <<branch, inherited, listed, tracked, cancelled, startVars, stopVars, shutVars>>

(* cleanup: out of the map, then the callback.                             *)
Unlist(j) ==
  /\ mu = None
  /\ Move(j, "recorded", "unlisted")
  /\ listed' = listed \ {j}
  /\ UNCHANGED <<dbVars, tracked, cancelled, startVars, stopVars, shutVars>>

Untrack(j) ==
  /\ Move(j, "unlisted", "gone")
  /\ tracked' = tracked \ {j}
  /\ UNCHANGED <<dbVars, listed, cancelled, startVars, stopVars, shutVars>>

RunnerStep(j) == Record(j) \/ Unlist(j) \/ Untrack(j)

-----------------------------------------------------------------------------
(* StopJob.                                                                *)

StopGoto(s, from, to) ==
  /\ stop[s] = from /\ Handling
  /\ stop' = [stop EXCEPT ![s] = to]
  /\ IF to = "idle" THEN stopping' = [stopping EXCEPT ![s] = None] ELSE UNCHANGED stopping

(* GetJob: a listed job is running, for the others the row decides.        *)
BeginStop(s, j) ==
  /\ Serving /\ mu = None
  /\ branch[j] # None
  /\ j \in listed \/ row[j] = "running"
  /\ stop[s] = "idle"
  /\ stop' = [stop EXCEPT ![s] = "cancel"]
  /\ stopping' = [stopping EXCEPT ![s] = j]
  /\ UNCHANGED <<dbVars, jobVars, startVars, shutVars>>

(* jobManagerImpl.Stop: "job not found", or cancel ...                     *)
CancelJob(s) ==
  /\ mu = None
  /\ IF stopping[s] \in listed
     THEN StopGoto(s, "cancel", "mark") /\ cancelled' = cancelled \union {stopping[s]}
     ELSE StopGoto(s, "cancel", "idle") /\ UNCHANGED cancelled
  /\ UNCHANGED <<dbVars, listed, tracked, runner, startVars, shutVars>>

(* ... and write cancelled, which also fails if the row has been deleted.  *)
MarkCancelled(s) ==
  /\ \/ /\ StopGoto(s, "mark", "untrack")
        /\ row[stopping[s]] # "none" /\ SetStatus(stopping[s], "cancelled")
     \/ /\ StopGoto(s, "mark", "idle")
        /\ (row[stopping[s]] = "none" \/ MayFail) /\ UNCHANGED row
  /\ UNCHANGED <<branch, inherited, unwritten, jobVars, startVars, shutVars>>

UntrackStopped(s) ==
  /\ StopGoto(s, "untrack", "idle")
  /\ tracked' = tracked \ {stopping[s]}
  /\ UNCHANGED <<dbVars, listed, cancelled, runner, startVars, shutVars>>

StopStep(s) == CancelJob(s) \/ MarkCancelled(s) \/ UntrackStopped(s)

-----------------------------------------------------------------------------
(* Shutdown and gracefulShutdown.                                          *)

(* The Shutdown call, with or without wait_for_jobs.                       *)
Shutdown ==
  /\ Serving /\ shut = "no"
  /\ toStop' = tracked
  /\ shut' \in {IF tracked = {} THEN "signal" ELSE "waiting", "forcing"}
  /\ UNCHANGED <<dbVars, jobVars, startVars, stopVars, phase>>

(* No job is left, or the timeout passes.                                  *)
WaitEnds ==
  /\ shut = "waiting" /\ Handling
  /\ (listed = {} /\ shut' = "signal") \/ shut' = "forcing"
  /\ UNCHANGED <<dbVars, jobVars, startVars, stopVars, toStop, phase>>

(* Cancel the job, then jobManagerImpl.Stop, as one step.                  *)
ForceStop(j) ==
  /\ shut = "forcing" /\ j \in toStop /\ mu = None /\ Handling
  /\ toStop' = toStop \ {j}
  /\ cancelled' = cancelled \union {j}
  /\ \/ j \in listed /\ SetStatus(j, "cancelled")
     \/ (j \notin listed \/ MayFail) /\ UNCHANGED row
  /\ UNCHANGED <<branch, inherited, unwritten, listed, tracked, runner, startVars, stopVars,
                 shut, phase>>

Forced ==
  /\ shut = "forcing" /\ toStop = {} /\ Handling
  /\ shut' = "signal"
  /\ UNCHANGED <<dbVars, jobVars, startVars, stopVars, toStop, phase>>

(* onShutdown, or a signal to the process.                                 *)
Leave ==
  /\ phase = "up"
  /\ phase' = "stop_jobs"
  /\ UNCHANGED <<dbVars, jobVars, startVars, stopVars, shut, toStop>>

StopAll ==
  /\ phase = "stop_jobs" /\ mu = None
  /\ cancelled' = cancelled \union listed
  /\ phase' = "await_jobs"
  /\ UNCHANGED <<dbVars, listed, tracked, runner, startVars, stopVars, shut, toStop>>

(* The jobs are gone, or ten seconds have passed.                          *)
JobsAwaited ==
  /\ phase = "await_jobs"
  /\ phase' = "stop_grpc"
  /\ UNCHANGED <<dbVars, jobVars, startVars, stopVars, shut, toStop>>

(* GracefulStop ends, or Stop cuts the calls off; the database is closed   *)
(* and the process ends with all its memory.                               *)
Exit(from) ==
  /\ phase = from
  /\ phase' = "down"
  /\ listed' = {} /\ tracked' = {} /\ cancelled' = {}
  /\ runner' = [j \in Jobs |-> "none"]
  /\ mu' = None
  /\ start' = [c \in Callers |-> "idle"] /\ wanted' = [c \in Callers |-> None]
  /\ made' = [c \in Callers |-> None]
  /\ stop' = [s \in Stoppers |-> "idle"] /\ stopping' = [s \in Stoppers |-> None]
  /\ shut' = "no" /\ toStop' = {}
  /\ UNCHANGED dbVars

Crash == MayCrash /\ phase # "down" /\ Exit(phase)

(* Start: ResumeJobs fails the running rows whose repository is gone, and  *)
(* starts nothing for the others.                                          *)
Restart ==
  /\ MayCrash /\ phase = "down"
  /\ phase' = "up"
  /\ \E lost \in SUBSET {j \in Jobs : row[j] = "running"} :
       row' = [j \in Jobs |-> IF j \in lost THEN "failed" ELSE row[j]]
  /\ inherited' = {j \in Jobs : row'[j] = "running"} /\ unwritten' = {}
  /\ UNCHANGED <<branch, jobVars, startVars, stopVars, shut, toStop>>

ShutdownStep ==
  \/ WaitEnds \/ (\E j \in Jobs : ForceStop(j)) \/ Forced
  \/ shut = "signal" /\ Leave
  \/ StopAll \/ JobsAwaited \/ Exit("stop_grpc")

Next ==
  \/ \E c \in Callers : StartStep(c) \/ Lock(c) \/ \E b \in Branches : BeginStart(c, b)
  \/ \E j \in Jobs : RunReturns(j) \/ RunnerStep(j)
  \/ \E s \in Stoppers : StopStep(s) \/ \E j \in Jobs : BeginStop(s, j)
  \/ Shutdown \/ Leave \/ ShutdownStep \/ Crash \/ Restart

Spec == Init /\ [][Next]_vars

-----------------------------------------------------------------------------
(* Properties.                                                             *)

(* A row that says running is a job of this daemon's map or one being      *)
(* created: no path through Start, Stop or the goroutine forgets it.  Two  *)
(* kinds are outside: the rows of an earlier daemon, which nobody resumes, *)
(* and those of a job that is over and whose last status was lost in the   *)
(* log.                                                                    *)
RunningRowIsTended ==
  phase # "down" =>
    \A j \in Jobs :
      row[j] = "running" =>
        j \in listed \union inherited \union unwritten \/ \E c \in Callers : made[c] = j

(* A job nobody has cancelled can be: its orchestrator runs, so it is in   *)
(* the job manager's map, and the gRPC server tracks it unless its         *)
(* StartJob is about to.                                                   *)
LiveJobsAreReachable ==
  \A j \in Jobs :
    Running(j) /\ j \notin cancelled =>
      /\ j \in listed
      /\ j \in tracked \/ \E c \in Callers : start[c] = "track" /\ made[c] = j

(* The database, the two maps and the goroutines agree on what runs.       *)
JobsAreTended == RunningRowIsTended /\ LiveJobsAreReachable

(* The comment on StartJob: a second start for a branch whose job is       *)
(* running attaches to it, so no two orchestrators work on one branch.     *)
OneRunPerBranch ==
  \A j, k \in Jobs : Running(j) /\ Running(k) /\ branch[j] = branch[k] => j = k
=============================================================================
