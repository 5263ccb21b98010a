---------------------------- MODULE ContainerJob ----------------------------
(***************************************************************************)
(* A job run in a container: its row in the database, the container, the   *)
(* log streamer that turns the lines of its standard output into events of *)
(* the job's bus, and the verdict.                                         *)
(*                                                                         *)
(* A line is an event, noise that is no JSON event, or too long for the    *)
(* scanner.                                                                *)
(***************************************************************************)
EXTENDS Naturals, Sequences

CONSTANTS
  BusCap,   \* events the channel of the job's bus holds
  MaxLines  \* bound: lines the container writes

LinesAssumption == {BusCap, MaxLines} \subseteq Nat

VARIABLES
  row,      \* status of the run in the database
  pc,       \* StartContainerJob, then its goroutine; "gone" when the daemon is
  ctx,      \* the context of the call: "live", "done"
  box,      \* the container
  code,     \* its exit code
  log,      \* lines it has written
  read,     \* lines the streamer has read
  emitted,  \* events the streamer has put on the job's bus
  waiting,  \* how many of them the bus has not dispatched
  dropped,  \* history: events the bus had no room for
  listed,   \* whether containerJobs has the job
  error     \* "log cut" when the log failed or ended before its end

busVars == <<emitted, waiting, dropped>>
vars == <<row, pc, ctx, box, code, log, read, busVars, listed, error>>

Init ==
  /\ row = "none" /\ pc = "create_run" /\ ctx = "live"
  /\ box = "none" /\ code = 0 /\ log = <<>> /\ read = 0
  /\ emitted = <<>> /\ waiting = 0 /\ dropped = {}
  /\ listed = FALSE /\ error = "none"

Step(from, to) == pc = from /\ pc' = to

(* UpdateRunStatus; a failed write is logged or not looked at.             *)
WriteRow(status) == row' \in {status, row}

-----------------------------------------------------------------------------
(* External: the runtime, and choo run --json-events in the container.     *)

(* The loop of the bus takes an event from the channel.                    *)
Dispatch ==
  /\ pc # "gone" /\ waiting > 0 /\ waiting' = waiting - 1
  /\ UNCHANGED <<row, pc, ctx, box, code, log, read, emitted, dropped, listed, error>>

(* JSONEmitter.Emit writes an event as one line; other prints are noise.   *)
Emit ==
  /\ box = "running" /\ Len(log) < MaxLines
  /\ \E kind \in {"event", "noise", "long"} : log' = Append(log, [kind |-> kind, n |-> Len(log)])
  /\ UNCHANGED <<row, pc, ctx, box, code, read, busVars, listed, error>>

BoxExit ==
  /\ box = "running" /\ box' = "exited"
  /\ code' \in {0, 1}
  /\ UNCHANGED <<row, pc, ctx, log, read, busVars, listed, error>>

-----------------------------------------------------------------------------
(* StartContainerJob.                                                      *)

(* An error of the database ends the call.                                 *)
CreateRun ==
  /\ \/ Step("create_run", "create") /\ row' = "running"
     \/ Step("create_run", "end") /\ UNCHANGED row
  /\ UNCHANGED <<ctx, box, code, log, read, busVars, listed, error>>

(* CLIManager.Create; an error marks the run failed.                       *)
Create ==
  /\ pc = "create"
  /\ \/ ctx = "live" /\ pc' = "start" /\ box' = "created" /\ UNCHANGED row
     \/ pc' = "end" /\ WriteRow("failed") /\ UNCHANGED box
  /\ UNCHANGED <<ctx, code, log, read, busVars, listed, error>>

(* CLIManager.Start; an error leaves the container behind.                 *)
Start ==
  /\ pc = "start"
  /\ \/ /\ ctx = "live" /\ box' = "running"
        /\ pc' = "stream" /\ listed' = TRUE
        /\ UNCHANGED row
     \/ /\ pc' = "end" /\ WriteRow("failed")
        /\ UNCHANGED <<box, listed>>
  /\ UNCHANGED <<ctx, code, log, read, busVars, error>>

-----------------------------------------------------------------------------
(* LogStreamer.Start.                                                      *)

(* Bus.Emit.                                                               *)
BusEmit(event) ==
  IF waiting < BusCap
  THEN emitted' = Append(emitted, event) /\ waiting' = waiting + 1 /\ UNCHANGED dropped
  ELSE dropped' = dropped \union {event} /\ UNCHANGED <<emitted, waiting>>

(* parseLine puts an event on the bus; a line that is too long ends the    *)
(* scan.                                                                   *)
ParseLine ==
  /\ pc = "stream" /\ ctx = "live" /\ read < Len(log)
  /\ read' = read + 1
  /\ LET line == log[read'] IN
       /\ IF line.kind = "event" THEN BusEmit(line.n) ELSE UNCHANGED busVars
       /\ pc' = IF line.kind = "long" THEN "wait" ELSE "stream"
  /\ UNCHANGED <<row, ctx, box, code, log, listed, error>>

\* Mutant of StreamEnds: the log is left when the container has exited.
StreamEndsEarly ==
  /\ Step("stream", "wait")
  /\ box = "exited" \/ ctx = "done"
  /\ UNCHANGED <<row, ctx, box, code, log, read, busVars, listed, error>>

(* The end of the log, or a cancelled context; or the process that follows *)
(* the log does not start, fails or ends at any line.                      *)
StreamEnds ==
  /\ Step("stream", "wait")
  /\ \/ /\ (box = "exited" /\ read = Len(log)) \/ ctx = "done"
        /\ UNCHANGED error
     \/ error' = "log cut"
  /\ UNCHANGED <<row, ctx, box, code, log, read, busVars, listed>>

-----------------------------------------------------------------------------
(* The rest of the goroutine.                                              *)

(* CLIManager.Wait, which an ended context and an error of the runtime     *)
(* fail.                                                                   *)
Wait ==
  /\ pc = "wait"
  /\ \/ box = "exited" /\ pc' = IF code = 0 THEN "complete" ELSE "fail"
     \/ pc' = "fail"
  /\ UNCHANGED <<row, ctx, box, code, log, read, busVars, listed, error>>

(* handleContainerFailure reads the log again, to its end unless the       *)
(* context is done.                                                        *)
HandleFailure ==
  /\ Step("fail", "cleanup")
  /\ WriteRow("failed")
  /\ UNCHANGED <<ctx, box, code, log, read, busVars, listed, error>>

MarkComplete ==
  /\ Step("complete", "cleanup")
  /\ WriteRow("completed")
  /\ UNCHANGED <<ctx, box, code, log, read, busVars, listed, error>>

(* cleanupContainerJob: the runtime refuses to remove a container that     *)
(* still runs, and nothing stops it.                                       *)
Cleanup ==
  /\ Step("cleanup", "end")
  /\ listed' = FALSE
  /\ box' = IF box = "exited" THEN "removed" ELSE box
  /\ UNCHANGED <<row, ctx, code, log, read, busVars, error>>

CancelContext ==
  /\ ctx = "live" /\ ctx' = "done"
  /\ UNCHANGED <<row, pc, box, code, log, read, busVars, listed, error>>

(* The daemon dies; the container runs on, and no restart looks for it.    *)
Crash ==
  /\ pc \notin {"create_run", "end", "gone"}
  /\ pc' = "gone" /\ listed' = FALSE
  /\ UNCHANGED <<row, ctx, box, code, log, read, busVars, error>>

Job == CreateRun \/ Create \/ Start \/ ParseLine \/ StreamEnds \/ Wait \/ HandleFailure
         \/ MarkComplete \/ Cleanup

Next == Job \/ Dispatch \/ Emit \/ BoxExit \/ CancelContext \/ Crash

Spec == Init /\ [][Next]_vars

-----------------------------------------------------------------------------
(* Properties.                                                             *)

(* The events among the lines read; a line's n is its place.               *)
EventsRead == {log[i].n : i \in {j \in 1..read : log[j].kind = "event"}}
Told == {emitted[i] : i \in 1..Len(emitted)}
IsAscending(q) == \A i, j \in 1..Len(q) : i < j => q[i] < q[j]

(* A run is recorded as completed only when its container succeeded, its   *)
(* log was read to the end, and every event of it is on the bus, in order, *)
(* or was dropped by a bus that was full.  The log was not read to the end *)
(* only where it was cut off, the scanner gave up on a line, or the        *)
(* context ended; what was read is told even so.                           *)
CompletedIsTold ==
  row = "completed" =>
    /\ code = 0 /\ box \in {"exited", "removed"}
    /\ Told \union dropped = EventsRead /\ Told \intersect dropped = {} /\ IsAscending(emitted)
    /\ \/ read = Len(log) \/ error = "log cut" \/ ctx = "done"
       \/ \E i \in 1..read : log[i].kind = "long"
=============================================================================
