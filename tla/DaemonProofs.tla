---------------------------- MODULE DaemonProofs ----------------------------
(***************************************************************************)
(* Proofs about the daemon: Jobs for every set of jobs, branches and       *)
(* callers, every limit, with crashes and restarts; DaemonProcess for      *)
(* every set of processes.                                                 *)
(***************************************************************************)
EXTENDS MCDaemon, TLAPS

(* A behaviour of the two side by side is one of each.                     *)
LEMMA SideBySide == AllSpec => Spec /\ Process!Spec
<1>1. AllInit => Init /\ Process!Init
  BY DEF AllInit
<1>2. [AllNext]_all => [Next]_vars /\ [Process!Next]_(Process!vars)
  <2>1. CASE UNCHANGED all
    BY <2>1 DEF all, processVars, Process!vars
  <2>2. CASE InJobs(Next)
    BY <2>2 DEF InJobs, processVars, Process!vars
  <2>3. CASE InProcess(Process!Next)
    BY <2>3 DEF InProcess
  <2> QED BY <2>1, <2>2, <2>3 DEF AllNext
<1> QED BY <1>1, <1>2, PTL DEF AllSpec, Spec, Process!Spec

-----------------------------------------------------------------------------
(* The jobs.                                                               *)

RunnerState == {"none", "running", "recorded", "unlisted", "gone"} \union Final

JobTypes ==
  /\ row \in [Jobs -> {"none", "running"} \union Final]
  /\ branch \in [Jobs -> Branches \union {None}]
  /\ listed \in SUBSET Jobs /\ tracked \in SUBSET Jobs /\ cancelled \in SUBSET Jobs
  /\ runner \in [Jobs -> RunnerState]
  /\ start \in [Callers -> {"idle", "lookup", "clean", "lock", "purge", "create", "config",
                            "track"}]
  /\ wanted \in [Callers -> Branches \union {None}]
  /\ made \in [Callers -> Jobs \union {None}]
  /\ stop \in [Stoppers -> {"idle", "cancel", "mark", "untrack"}]
  /\ stopping \in [Stoppers -> Jobs \union {None}]

(* A StartJob has a branch all along, and a job of its own from the insert *)
(* to the end.                                                             *)
StartsAreApart ==
  /\ \A c \in Callers :
       /\ start[c] # "idle" => wanted[c] \in Branches
       /\ start[c] \in {"config", "track"} <=> made[c] # None
       /\ start[c] = "track" => runner[made[c]] # "none"
  /\ \A c, d \in Callers : made[c] = made[d] /\ made[c] # None => c = d

(* A run ID is used for one row and one goroutine.                         *)
FreshIsUnused ==
  \A j \in Fresh : row[j] = "none" /\ runner[j] = "none" /\ \A c \in Callers : made[c] # j

(* A goroutine is in the map until its outcome is in the row, or lost with *)
(* the statement that failed; a row never goes back to running.            *)
RunnerIsListed ==
  \A j \in Jobs :
    /\ runner[j] \in {"running", "recorded"} \union Final => j \in listed
    /\ runner[j] \in {"recorded", "unlisted", "gone"} =>
         row[j] # "running" \/ j \in unwritten

(* What was in memory is gone with the process.                            *)
DownIsEmpty == phase = "down" => \A j \in Jobs : runner[j] = "none"

(* StopJob cancels before it takes a job out of the server's map.          *)
StopsCancelled ==
  \A s \in Stoppers : stop[s] \in {"mark", "untrack"} => stopping[s] \in cancelled

(* The inductive invariant.                                                *)
JobsInv ==
  /\ JobTypes
  /\ StartsAreApart
  /\ FreshIsUnused
  /\ RunnerIsListed
  /\ DownIsEmpty
  /\ StopsCancelled
  /\ JobsAreTended

LEMMA JobsInit == Init => JobsInv
  BY JobsAssumption
  DEF Init, JobsInv, JobTypes, StartsAreApart, Fresh, FreshIsUnused, RunnerIsListed,
      DownIsEmpty, StopsCancelled, JobsAreTended, RunningRowIsTended, LiveJobsAreReachable, Running,
      RunnerState, Final

(* The steps of StartJob.                                                  *)
LEMMA StartKeepsJobs ==
  ASSUME JobsInv, NEW c \in Callers,
         StartStep(c) \/ Lock(c) \/ (\E b \in Branches : BeginStart(c, b))
  PROVE  JobsInv'
<1> USE JobsAssumption
    DEF JobsInv, JobTypes, StartsAreApart, FreshIsUnused, RunnerIsListed, DownIsEmpty, StopsCancelled,
        JobsAreTended, RunningRowIsTended, LiveJobsAreReachable, Running, Fresh,
        RunnerState, Final, Handling, Serving, Goto, dbVars, jobVars, startVars, stopVars, shutVars
<1>1. CASE \E b \in Branches : BeginStart(c, b)
  BY <1>1 DEF BeginStart
<1>2. CASE Lookup(c) \/ Lock(c)
  BY <1>2 DEF Lookup, Lock
<1>8. CASE StatementFails(c)
  BY <1>8 DEF StatementFails
<1>3. CASE Clean(c) \/ Purge(c)
  BY <1>3 DEF Clean, Purge, DeleteNonActive
<1>4. CASE Create(c)
  BY <1>4 DEF Create, RowsOf
<1>5. CASE ConfigFails(c)
  BY <1>5 DEF ConfigFails, SetOrLog, SetStatus
<1>6. CASE Launch(c)
  BY <1>6 DEF Launch
<1>7. CASE Track(c)
  BY <1>7 DEF Track
<1> QED BY <1>1, <1>2, <1>3, <1>4, <1>5, <1>6, <1>7, <1>8 DEF StartStep

(* The steps of a job's goroutine.                                         *)
LEMMA RunnerKeepsJobs ==
  ASSUME JobsInv, NEW j \in Jobs, RunReturns(j) \/ RunnerStep(j)
  PROVE  JobsInv'
<1> USE JobsAssumption
    DEF JobsInv, JobTypes, StartsAreApart, FreshIsUnused, RunnerIsListed, DownIsEmpty, StopsCancelled,
        JobsAreTended, RunningRowIsTended, LiveJobsAreReachable, Running, Fresh,
        RunnerState, Final, Move, dbVars, jobVars, startVars, stopVars, shutVars
<1>1. CASE RunReturns(j)
  BY <1>1 DEF RunReturns
<1>2. CASE Record(j)
  BY <1>2 DEF Record, SetOrLog, SetStatus
<1>3. CASE Unlist(j)
  BY <1>3 DEF Unlist
<1>4. CASE Untrack(j)
  BY <1>4 DEF Untrack
<1> QED BY <1>1, <1>2, <1>3, <1>4 DEF RunnerStep

(* The steps of StopJob.                                                   *)
LEMMA StopKeepsJobs ==
  ASSUME JobsInv, NEW s \in Stoppers, StopStep(s) \/ \E j \in Jobs : BeginStop(s, j)
  PROVE  JobsInv'
<1> USE JobsAssumption
    DEF JobsInv, JobTypes, StartsAreApart, FreshIsUnused, RunnerIsListed, DownIsEmpty, StopsCancelled,
        JobsAreTended, RunningRowIsTended, LiveJobsAreReachable, Running, Fresh,
        RunnerState, Final, StopGoto, dbVars, jobVars, startVars, stopVars, shutVars
<1>1. CASE \E j \in Jobs : BeginStop(s, j)
  BY <1>1 DEF BeginStop
<1>2. CASE CancelJob(s)
  BY <1>2 DEF CancelJob
<1>3. CASE MarkCancelled(s)
  BY <1>3 DEF MarkCancelled, SetStatus
<1>4. CASE UntrackStopped(s)
  BY <1>4 DEF UntrackStopped
<1> QED BY <1>1, <1>2, <1>3, <1>4 DEF StopStep

(* The process ends: what was in memory is gone.                           *)
LEMMA ExitKeepsJobs ==
  ASSUME JobsInv, NEW from, Exit(from)
  PROVE  JobsInv'
  BY JobsAssumption
  DEF Exit, JobsInv, JobTypes, StartsAreApart, FreshIsUnused, RunnerIsListed, DownIsEmpty, StopsCancelled,
      JobsAreTended, RunningRowIsTended, LiveJobsAreReachable, Running, Fresh, RunnerState,
      Final, dbVars

(* Shutdown, gracefulShutdown, a crash and a restart.                      *)
LEMMA ShutdownKeepsJobs ==
  ASSUME JobsInv, Shutdown \/ Leave \/ ShutdownStep \/ Crash \/ Restart
  PROVE  JobsInv'
<1> USE JobsAssumption
    DEF JobsInv, JobTypes, StartsAreApart, FreshIsUnused, RunnerIsListed, DownIsEmpty, StopsCancelled,
        JobsAreTended, RunningRowIsTended, LiveJobsAreReachable, Running, Fresh,
        RunnerState, Final, dbVars, jobVars, startVars, stopVars, shutVars
<1>1. CASE Shutdown \/ WaitEnds \/ Forced
  BY <1>1 DEF Shutdown, WaitEnds, Forced
<1>2. CASE Leave \/ JobsAwaited
  BY <1>2 DEF Leave, JobsAwaited
<1>3. ASSUME NEW j \in Jobs, ForceStop(j) PROVE JobsInv'
  BY <1>3 DEF ForceStop, SetStatus
<1>4. CASE StopAll
  BY <1>4 DEF StopAll
<1>5. CASE Exit("stop_grpc") \/ Crash
  BY <1>5, ExitKeepsJobs DEF Crash
<1>6. CASE Restart
  BY <1>6 DEF Restart
<1> QED BY <1>1, <1>2, <1>3, <1>4, <1>5, <1>6 DEF ShutdownStep

LEMMA JobsStep == JobsInv /\ [Next]_vars => JobsInv'
<1> SUFFICES ASSUME JobsInv, [Next]_vars PROVE JobsInv'
  OBVIOUS
<1>1. CASE UNCHANGED vars
  BY <1>1 DEF vars, dbVars, jobVars, startVars, stopVars, shutVars, JobsInv, JobTypes,
     StartsAreApart, FreshIsUnused, RunnerIsListed, DownIsEmpty, StopsCancelled, JobsAreTended,
     RunningRowIsTended, LiveJobsAreReachable, Running, Fresh
<1>2. CASE Next
  BY <1>2, StartKeepsJobs, RunnerKeepsJobs, StopKeepsJobs, ShutdownKeepsJobs DEF Next
<1> QED BY <1>1, <1>2

LEMMA JobsInvariant == Spec => []JobsInv
<1> QED BY JobsInit, JobsStep, PTL DEF Spec

(* The rows, the two maps and the goroutines agree on what runs: no path   *)
(* of StartJob, StopJob, Shutdown or a goroutine forgets a running row, or *)
(* a job that nobody has cancelled, but for the rows whose last status     *)
(* failed to be written and those of an earlier daemon.                    *)
THEOREM JobsAreTendedHolds == AllSpec => []JobsAreTended
<1>1. JobsInv => JobsAreTended
  BY DEF JobsInv
<1> QED BY <1>1, SideBySide, JobsInvariant, PTL

(* Starts in progress have jobs of their own, whose IDs no row and no      *)
(* goroutine had before: the insert under jm.mu is what tells them apart.  *)
THEOREM StartsAreApartHolds == AllSpec => [](StartsAreApart /\ FreshIsUnused)
<1>1. JobsInv => StartsAreApart /\ FreshIsUnused
  BY DEF JobsInv
<1> QED BY <1>1, SideBySide, JobsInvariant, PTL

-----------------------------------------------------------------------------
(* The process.                                                            *)

ProcessStates ==
  {"none", "spawned", "remove_socket", "exited"} \union Process!Acquiring \union Process!Up

ProcessTypes ==
  /\ process_pc \in [Daemons -> ProcessStates]
  /\ process_pidfile \in [made : Daemons \union {NoOne}, pid : Daemons \union {NoOne}]
  /\ process_opened \in [Daemons -> Daemons \union {NoOne}]
  /\ process_raced \in BOOLEAN

(* From Acquire to the release of the PID file.                            *)
Holding(d) == process_pc[d] \in Process!Acquiring \union Process!Up

(* The inductive invariant: as long as no two were in Acquire at once, one *)
(* process at most is between Acquire and the release, so the file it      *)
(* opened is the one it writes, and its PID stays there: a later start     *)
(* sees a process that runs and goes away.                                 *)
ProcessInv ==
  /\ ProcessTypes
  /\ ~process_raced =>
       /\ \A d, e \in Daemons : Holding(d) /\ Holding(e) => d = e
       /\ \A d \in Daemons :
            /\ process_pc[d] = "write" => process_pidfile.made = process_opened[d]
            /\ process_pc[d] \in Process!Up => process_pidfile.pid = d

LEMMA ProcessInit == Process!Init => ProcessInv
<1> SUFFICES ASSUME Process!Init PROVE ProcessInv
  OBVIOUS
<1>1. ProcessTypes
  BY DEF Process!Init, Process!NoFile, ProcessTypes, ProcessStates
<1>2. \A d \in Daemons : process_pc[d] = "none"
  BY DEF Process!Init
<1> QED BY <1>1, <1>2 DEF ProcessInv, Holding, Process!Acquiring, Process!Up

LEMMA ProcessStep == ProcessInv /\ [Process!Next]_(Process!vars) => ProcessInv'
<1> SUFFICES ASSUME ProcessInv, [Process!Next]_(Process!vars) PROVE ProcessInv'
  OBVIOUS
<1> USE Parameters
    DEF Process!DaemonAssumption, Process!Goto, Process!Acquiring, Process!Up, Process!NoFile,
        ProcessInv, ProcessTypes, ProcessStates, Holding
<1>1. CASE UNCHANGED Process!vars
  BY <1>1 DEF Process!vars
<1> SUFFICES ASSUME NEW d \in Daemons,
                    \/ Process!Start(d) \/ Process!Poll(d) \/ Process!StopCommand(d)
                    \/ Process!GracefulShutdown(d) \/ Process!Crash(d) \/ Process!Reuse(d)
             PROVE  ProcessInv'
  BY <1>1 DEF Process!Next
<1>2. CASE Process!StartCommand(d) \/ Process!Poll(d) \/ Process!StopCommand(d)
           \/ Process!Reuse(d)
  BY <1>2 DEF Process!StartCommand, Process!Poll, Process!StopCommand, Process!Reuse
(* A start goes on to Acquire only when the PID in the file is of a dead   *)
(* process, which rules out one that is up.                                *)
<1>3. CASE Process!Spawned(d)
  <2>1. ASSUME NEW e \in Daemons, process_pc[e] \in Process!Up, ~process_raced
        PROVE  Process!IsDaemonRunning
    BY <2>1 DEF Process!IsDaemonRunning, Process!IsProcessRunning, Process!Dead
  <2>2. /\ process_raced' \in BOOLEAN
        /\ process_raced => process_raced'
    BY <1>3 DEF Process!Spawned
  <2>3. CASE Process!IsDaemonRunning
    BY <1>3, <2>2, <2>3 DEF Process!Spawned
  <2>4. CASE ~Process!IsDaemonRunning
    <3>1. ASSUME ~process_raced', NEW e \in Daemons PROVE ~Holding(e)
      <4>1. process_pc[e] \notin Process!Acquiring
        BY <1>3, <2>4, <3>1 DEF Process!Spawned
      <4> QED BY <2>1, <2>2, <2>4, <3>1, <4>1
    <3>2. ProcessTypes'
      BY <1>3, <2>2 DEF Process!Spawned
    <3>3. \A e \in Daemons \ {d} : process_pc'[e] = process_pc[e]
      BY <1>3 DEF Process!Spawned
    <3>4. process_pc'[d] = "stat"
      BY <1>3, <2>4 DEF Process!Spawned
    <3> QED BY <3>1, <3>2, <3>3, <3>4
  <2> QED BY <2>3, <2>4
<1>4. CASE Process!Stat(d) \/ Process!Judge(d) \/ Process!RemoveStale(d)
  BY <1>4 DEF Process!Stat, Process!Judge, Process!RemoveStale
<1>5. CASE Process!OpenPID(d) \/ Process!WritePID(d)
  BY <1>5 DEF Process!OpenPID, Process!WritePID
<1>6. CASE Process!Resume(d) \/ Process!UnlinkSocket(d) \/ Process!Listen(d)
  BY <1>6 DEF Process!Resume, Process!UnlinkSocket, Process!Listen, Process!Release
<1>7. CASE Process!GracefulShutdown(d)
  BY <1>7 DEF Process!GracefulShutdown, Process!StopGRPC, Process!ReleasePID,
              Process!RemoveSocket, Process!Release
<1>8. CASE Process!Crash(d)
  BY <1>8 DEF Process!Crash
<1> QED BY <1>2, <1>3, <1>4, <1>5, <1>6, <1>7, <1>8 DEF Process!Start, Process!Acquire

(* Unless two starts were in Acquire at once, one daemon is up at a time,  *)
(* and the PID file says which, through crashes and reused PIDs.           *)
THEOREM OneDaemonHolds == AllSpec => []OneDaemon
<1>1. Process!Spec => []ProcessInv
  BY ProcessInit, ProcessStep, PTL DEF Process!Spec
<1>2. ProcessInv => OneDaemon
  BY DEF ProcessInv, Holding, OneDaemon, Process!OneDaemon
<1> QED BY <1>1, <1>2, SideBySide, PTL
=============================================================================
