--------------------------- MODULE DaemonProcess ---------------------------
(***************************************************************************)
(* The daemon as a process: choo daemon start and stop, the PID file that  *)
(* is to keep a second daemon away, and the socket file its clients dial.  *)
(*                                                                         *)
(* What a daemon does with its jobs between Start and the end of the       *)
(* graceful shutdown is module Jobs.                                       *)
(***************************************************************************)
EXTENDS Naturals, FiniteSets

CONSTANTS
  Daemons,  \* processes that run choo daemon start --foreground
  NoOne

DaemonAssumption == NoOne \notin Daemons

VARIABLES
  pc,       \* daemon -> where it stands
  asker,    \* daemon -> the background start that waits for it
  pidfile,  \* [made |-> who created the file, pid |-> what it says]
  opened,   \* daemon -> the file its WriteFile has open
  socket,   \* the daemon whose listener made the socket file
  reused,   \* dead daemons whose PID another process has got
  raced     \* whether two daemons were ever in Acquire at once

vars == <<pc, asker, pidfile, opened, socket, reused, raced>>

NoFile == [made |-> NoOne, pid |-> NoOne]
Acquiring == {"stat", "judge", "remove", "open", "write"}
Up == {"resume", "unlink", "listen", "serving", "stopping", "release"}
Dead == {"none", "exited"}

Init ==
  /\ pc = [d \in Daemons |-> "none"]
  /\ asker = [d \in Daemons |-> "no"]
  /\ pidfile = NoFile /\ opened = [d \in Daemons |-> NoOne]
  /\ socket = NoOne /\ reused = {} /\ raced = FALSE

Goto(d, from, to) == pc[d] = from /\ pc' = [pc EXCEPT ![d] = to]

(* IsProcessRunning: signal 0 reaches any process with that PID.           *)
IsProcessRunning(d) == d # NoOne /\ (pc[d] \notin Dead \/ d \in reused)

(* ReadPID fails on a file that is missing or still empty.                 *)
IsDaemonRunning == IsProcessRunning(pidfile.pid)

-----------------------------------------------------------------------------
(* choo daemon start.                                                      *)

(* The command looks for a daemon, and starts one in the background, or    *)
(* becomes it.                                                             *)
StartCommand(d) ==
  /\ ~IsDaemonRunning
  /\ Goto(d, "none", "spawned")
  /\ \E how \in {"polls", "foreground"} : asker' = [asker EXCEPT ![d] = how]
  /\ UNCHANGED <<pidfile, opened, socket, reused, raced>>

(* The new process asks the same again.                                    *)
Spawned(d) ==
  /\ Goto(d, "spawned", IF IsDaemonRunning THEN "exited" ELSE "stat")
  /\ raced' = (raced \/ (~IsDaemonRunning /\ \E e \in Daemons : pc[e] \in Acquiring))
  /\ UNCHANGED <<asker, pidfile, opened, socket, reused>>

(* Five looks at the PID file, of any daemon, and then no more.            *)
Poll(d) ==
  /\ asker[d] = "polls"
  /\ asker' = [asker EXCEPT ![d] = IF IsDaemonRunning THEN "started" ELSE "failed"]
  /\ UNCHANGED <<pc, pidfile, opened, socket, reused, raced>>

-----------------------------------------------------------------------------
(* PIDFile.Acquire.                                                        *)

Stat(d) ==
  /\ Goto(d, "stat", IF pidfile = NoFile THEN "open" ELSE "judge")
  /\ UNCHANGED <<asker, pidfile, opened, socket, reused, raced>>

(* A file that cannot be read, or the PID of a process that runs, ends the *)
(* start.                                                                  *)
Judge(d) ==
  /\ Goto(d, "judge", IF pidfile.pid = NoOne \/ IsProcessRunning(pidfile.pid)
                      THEN "exited" ELSE "remove")
  /\ UNCHANGED <<asker, pidfile, opened, socket, reused, raced>>

(* By name: the file may be another one by now.                            *)
RemoveStale(d) ==
  /\ Goto(d, "remove", "open")
  /\ pidfile' = NoFile
  /\ UNCHANGED <<asker, opened, socket, reused, raced>>

(* os.WriteFile creates the file or empties it, and then writes.           *)
OpenPID(d) ==
  /\ Goto(d, "open", "write")
  /\ pidfile' = [made |-> IF pidfile = NoFile THEN d ELSE pidfile.made, pid |-> NoOne]
  /\ opened' = [opened EXCEPT ![d] = pidfile'.made]
  /\ UNCHANGED <<asker, socket, reused, raced>>

WritePID(d) ==
  /\ Goto(d, "write", "resume")
  /\ pidfile' = IF pidfile.made = opened[d] THEN [pidfile EXCEPT !.pid = d] ELSE pidfile
  /\ UNCHANGED <<asker, opened, socket, reused, raced>>

Acquire(d) == Stat(d) \/ Judge(d) \/ RemoveStale(d) \/ OpenPID(d) \/ WritePID(d)

-----------------------------------------------------------------------------
(* Daemon.Start.                                                           *)

Resume(d) ==
  /\ Goto(d, "resume", "unlink")
  /\ UNCHANGED <<asker, pidfile, opened, socket, reused, raced>>

(* setupSocket: the old socket file goes, whose ever it is; Listen fails   *)
(* when a new one has come, and the start gives up and releases the file.  *)
UnlinkSocket(d) ==
  /\ Goto(d, "unlink", "listen")
  /\ socket' = NoOne
  /\ UNCHANGED <<asker, pidfile, opened, reused, raced>>

Release(d) == pidfile' = NoFile

Listen(d) ==
  \/ /\ socket = NoOne /\ socket' = d
     /\ Goto(d, "listen", "serving")
     /\ UNCHANGED <<asker, pidfile, opened, reused, raced>>
  \/ /\ socket # NoOne
     /\ Goto(d, "listen", "exited") /\ Release(d)
     /\ UNCHANGED <<asker, opened, socket, reused, raced>>

(* choo daemon stop: the Shutdown call, to the daemon that has the socket. *)
StopCommand(d) ==
  /\ IsDaemonRunning /\ socket = d
  /\ Goto(d, "serving", "stopping")
  /\ UNCHANGED <<asker, pidfile, opened, socket, reused, raced>>

-----------------------------------------------------------------------------
(* gracefulShutdown.                                                       *)

\* Mutant of StopGRPC: the PID file is given back before the server has stopped.
StopGRPCReleased(d) ==
  /\ Goto(d, "stopping", "release")
  /\ socket' = NoOne /\ Release(d)
  /\ UNCHANGED <<asker, opened, reused, raced>>

(* The listener closes, which removes the socket file by its name.         *)
StopGRPC(d) ==
  /\ Goto(d, "stopping", "release")
  /\ socket' = NoOne
  /\ UNCHANGED <<asker, pidfile, opened, reused, raced>>

ReleasePID(d) ==
  /\ Goto(d, "release", "remove_socket") /\ Release(d)
  /\ UNCHANGED <<asker, opened, socket, reused, raced>>

RemoveSocket(d) ==
  /\ Goto(d, "remove_socket", "exited")
  /\ socket' = NoOne
  /\ UNCHANGED <<asker, pidfile, opened, reused, raced>>

(* A kill, anywhere; both files stay.                                      *)
Crash(d) ==
  /\ pc[d] \notin Dead
  /\ pc' = [pc EXCEPT ![d] = "exited"]
  /\ UNCHANGED <<asker, pidfile, opened, socket, reused, raced>>

(* External: the system gives the PID of a dead process to another one,    *)
(* which ends some time.                                                   *)
Reuse(d) ==
  /\ pc[d] = "exited"
  /\ reused' = IF d \in reused THEN reused \ {d} ELSE reused \union {d}
  /\ UNCHANGED <<pc, asker, pidfile, opened, socket, raced>>

Start(d) == StartCommand(d) \/ Spawned(d) \/ Acquire(d) \/ Resume(d) \/ UnlinkSocket(d) \/ Listen(d)

GracefulShutdown(d) == StopGRPC(d) \/ ReleasePID(d) \/ RemoveSocket(d)

Next ==
  \E d \in Daemons :
    Start(d) \/ Poll(d) \/ StopCommand(d) \/ GracefulShutdown(d) \/ Crash(d) \/ Reuse(d)

Spec == Init /\ [][Next]_vars

-----------------------------------------------------------------------------
(* Properties.                                                             *)

(* Unless two of them were in Acquire at once, at most one daemon is up at *)
(* a time, and the PID file says which: through crashes, PIDs of others    *)
(* and a start that meets a daemon on its way out.                         *)
OneDaemon ==
  ~raced => \A d \in Daemons :
              pc[d] \in Up => pidfile.pid = d /\ \A e \in Daemons \ {d} : pc[e] \notin Up
=============================================================================
