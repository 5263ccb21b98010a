------------------------------ MODULE MCDaemon ------------------------------
(***************************************************************************)
(* The daemon, side by side: its jobs inside one process, and the process  *)
(* with its PID file and socket.  They share no variable; a behaviour is   *)
(* one of the component in `part`, and the other rests in its initial      *)
(* state.                                                                  *)
(***************************************************************************)
EXTENDS MCJobs

CONSTANTS
  Daemons, NoOne  \* of DaemonProcess

VARIABLES
  part,  \* the component that moves
  process_pc, process_asker, process_pidfile, process_opened,
  process_socket, process_reused, process_raced

Process == INSTANCE DaemonProcess WITH
  pc <- process_pc, asker <- process_asker, pidfile <- process_pidfile,
  opened <- process_opened, socket <- process_socket,
  reused <- process_reused, raced <- process_raced

processVars == <<process_pc, process_asker, process_pidfile,
                 process_opened, process_socket, process_reused,
                 process_raced>>
all == <<part, vars, processVars>>

ASSUME Parameters == Process!DaemonAssumption

AllInit ==
  /\ part \in {"jobs", "process"}
  /\ Init /\ Process!Init

(* A step of one component.                                                *)
InJobs(A)    == part = "jobs" /\ A /\ UNCHANGED <<part, processVars>>
InProcess(A) == part = "process" /\ A /\ UNCHANGED <<part, vars>>

AllNext == InJobs(Next) \/ InProcess(Process!Next)

AllSpec == AllInit /\ [][AllNext]_all

AllAlike == Alike \union Permutations(Daemons)

(* One daemon at a time, as long as starts do not overlap; DaemonProcess   *)
(* states it in full.                                                      *)
OneDaemon == Process!OneDaemon
=============================================================================
