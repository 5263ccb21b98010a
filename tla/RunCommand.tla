------------------------------ MODULE RunCommand ------------------------------
(***************************************************************************)
(* choo run and choo resume: the checks before a run, the set-up of a run  *)
(* in this process with its stack of deferred calls, the signal handler,   *)
(* the terminal view and the way down.  The orchestrator appears as the    *)
(* workers it keeps; Orchestrator has the rest of it.                      *)
(***************************************************************************)
EXTENDS Naturals, Sequences

CONSTANTS
  MaxWorkers,
  MaxQueue,     \* capacity of the bus
  MaxSignals    \* bound on the signals the user sends

RunAssumption == {MaxWorkers, MaxQueue, MaxSignals} \subseteq Nat

VARIABLES
  opts,     \* [cmd, force, web, tty]: how the command was called
  repo,     \* [dirty, units, remote]: what it finds
  pc,       \* of the main goroutine
  defers,   \* its deferred calls, the next one first
  ctx,      \* "live" or "cancelled"
  handler,  \* "none", "waiting", "called" or "stopped"
  buffered, \* signals in the handler's channel, of capacity 1
  sent,     \* signals so far
  tui,      \* "off", "starting", "up", "quitting" or "gone"
  bus,      \* "none", "open" or "closed"
  queue,    \* events in its channel
  loop,     \* "idle", or "sending" to the view
  workers   \* goroutines of the pool

main == <<pc, defers>>
signal == <<handler, buffered, sent>>
stream == <<bus, queue, loop>>
vars == <<opts, repo, main, ctx, signal, tui, stream, workers>>

Over == pc \in {"ended", "killed"}

Init ==
  /\ opts \in [cmd : {"run", "resume", "daemon"}, force : BOOLEAN, web : BOOLEAN, tty : BOOLEAN]
  /\ repo \in [dirty : BOOLEAN, units : BOOLEAN, remote : SUBSET {"target", "x/target"}]
  /\ pc = "preflight" /\ defers = <<>>
  /\ ctx = "live" /\ handler = "none" /\ buffered = 0 /\ sent = 0
  /\ tui = "off" /\ bus = "none" /\ queue = 0 /\ loop = "idle" /\ workers = 0

Goto(from, to) == pc = from /\ pc' = to

-----------------------------------------------------------------------------
(* Before the run.                                                         *)

(* A git status that fails is a warning only.                              *)
CheckWorkingDir ==
  /\ \/ Goto("preflight", "branch")
     \/ /\ opts.cmd # "resume" /\ ~opts.force /\ repo.dirty
        /\ Goto("preflight", "ended")
  /\ UNCHANGED <<opts, repo, defers, ctx, signal, tui, stream, workers>>

(* ls-remote matches the end of a name.                                    *)
BranchExistsOnRemote == repo.remote # {}

(* A push that fails is a warning only; the daemon's target is not looked  *)
(* at.                                                                     *)
EnsureBranchOnRemote ==
  /\ Goto("branch", IF opts.cmd = "run" THEN "setup" ELSE opts.cmd)
  /\ \/ /\ opts.cmd # "daemon" /\ ~BranchExistsOnRemote
        /\ repo' = [repo EXCEPT !.remote = {"target"}]
     \/ UNCHANGED repo
  /\ UNCHANGED <<opts, defers, ctx, signal, tui, stream, workers>>

(* Every status is read as pending: all that counts is that there is a     *)
(* unit.                                                                   *)
LoadResumeState ==
  /\ Goto("resume", IF repo.units THEN "setup" ELSE "ended")
  /\ UNCHANGED <<opts, repo, defers, ctx, signal, tui, stream, workers>>

(* Start the daemon when it does not run, start the job, watch it.  No     *)
(* signal is handled: the job goes on without its watcher.                 *)
RunWithDaemon ==
  /\ \/ pc = "daemon" /\ pc' \in {"watching", "ended"}
     \/ Goto("watching", "ended")
  /\ UNCHANGED <<opts, repo, defers, ctx, signal, tui, stream, workers>>

-----------------------------------------------------------------------------
(* The set-up: an error returns through what is deferred by then.          *)

Defer(calls) == defers' = calls \o defers

StartHandler ==
  /\ Goto("setup", "config") /\ Defer(<<"stopHandler", "cancel">>)
  /\ handler' = "waiting"
  /\ UNCHANGED <<opts, repo, ctx, buffered, sent, tui, stream, workers>>

LoadConfig ==
  /\ pc = "config" /\ pc' \in {"bus", "return"}
  /\ UNCHANGED <<opts, repo, defers, ctx, signal, tui, stream, workers>>

NewBus ==
  /\ Goto("bus", "pusher") /\ Defer(<<"closeBus">>)
  /\ bus' = "open"
  /\ UNCHANGED <<opts, repo, ctx, signal, tui, queue, loop, workers>>

(* A pusher that does not start is closed all the same.                    *)
StartPusher ==
  /\ Goto("pusher", "tui") /\ Defer(IF opts.web THEN <<"closePusher">> ELSE <<>>)
  /\ UNCHANGED <<opts, repo, ctx, signal, tui, stream, workers>>

StartTUI ==
  /\ Goto("tui", "clients") /\ Defer(IF opts.tty THEN <<"sendDone">> ELSE <<>>)
  /\ tui' = IF opts.tty THEN "starting" ELSE tui
  /\ UNCHANGED <<opts, repo, ctx, signal, stream, workers>>

(* The GitHub client, and the feature's branch.                            *)
NewClients ==
  /\ pc = "clients" /\ pc' \in {"orch", "return"}
  /\ UNCHANGED <<opts, repo, defers, ctx, signal, tui, stream, workers>>

NewOrchestrator ==
  /\ Goto("orch", "run") /\ Defer(<<"closeOrch">>)
  /\ UNCHANGED <<opts, repo, ctx, signal, tui, stream, workers>>

-----------------------------------------------------------------------------
(* The run, as far as it is seen from here.                                *)

StartWorker ==
  /\ pc = "run" /\ ctx = "live" /\ workers < MaxWorkers
  /\ workers' = workers + 1
  /\ UNCHANGED <<opts, repo, main, ctx, signal, tui, stream>>

WorkerEnds ==
  /\ ~Over /\ workers > 0 /\ workers' = workers - 1
  /\ UNCHANGED <<opts, repo, main, ctx, signal, tui, stream>>

(* An event is dropped when the channel is full; Emit does not ask whether *)
(* the bus is closed.                                                      *)
Emit ==
  /\ ~Over /\ (pc = "run" \/ workers > 0)
  /\ queue < MaxQueue /\ queue' = queue + 1
  /\ UNCHANGED <<opts, repo, main, ctx, signal, tui, bus, loop, workers>>

(* Run waits for its workers, after a cancellation no longer than the      *)
(* shutdown timeout.                                                       *)
RunReturns ==
  /\ ctx = "cancelled" \/ workers = 0
  /\ Goto("run", "return")
  /\ UNCHANGED <<opts, repo, defers, ctx, signal, tui, stream, workers>>

-----------------------------------------------------------------------------
(* The way down: one deferred call at a time.                              *)

\* Mutant of CloseOrch: the orchestrator does not wait for its pool.
CloseOrchAtOnce == UNCHANGED <<opts, repo, ctx, signal, tui, stream, workers>>

(* Close stops the pool and waits for every worker, without a timeout.     *)
CloseOrch == workers = 0 /\ UNCHANGED <<opts, repo, ctx, signal, tui, stream, workers>>

(* Send blocks until the program has started, and does nothing once it has *)
(* ended.                                                                  *)
SendDone ==
  /\ tui \in {"up", "quitting", "gone"}
  /\ tui' = IF tui = "up" THEN "quitting" ELSE tui
  /\ UNCHANGED <<opts, repo, ctx, signal, stream, workers>>

CloseBus == bus' = "closed" /\ UNCHANGED <<opts, repo, ctx, signal, tui, queue, loop, workers>>

(* Stop waits 100 ms for the handler's goroutine.                          *)
StopHandler ==
  /\ handler' = "stopped"
  /\ UNCHANGED <<opts, repo, ctx, buffered, sent, tui, stream, workers>>

Cancel == ctx' = "cancelled" /\ UNCHANGED <<opts, repo, signal, tui, stream, workers>>

Return ==
  /\ pc = "return" /\ defers # <<>>
  /\ defers' = Tail(defers) /\ UNCHANGED pc
  /\ CASE Head(defers) = "closeOrch"   -> CloseOrch
       [] Head(defers) = "sendDone"    -> SendDone
       [] Head(defers) = "closePusher" -> UNCHANGED <<opts, repo, ctx, signal, tui, stream, workers>>
       [] Head(defers) = "closeBus"    -> CloseBus
       [] Head(defers) = "stopHandler" -> StopHandler
       [] Head(defers) = "cancel"      -> Cancel

End ==
  /\ defers = <<>> /\ Goto("return", "ended")
  /\ UNCHANGED <<opts, repo, defers, ctx, signal, tui, stream, workers>>

-----------------------------------------------------------------------------
(* Signals.                                                                *)

(* Without a handler a signal kills the process, unless the view listens   *)
(* too; with one it is buffered, or dropped when one is buffered already.  *)
(* The view quits at a signal.                                             *)
Signal ==
  /\ ~Over /\ sent < MaxSignals /\ sent' = sent + 1
  /\ IF handler \in {"waiting", "called"}
     THEN buffered' = 1 /\ UNCHANGED pc
     ELSE pc' = (IF tui \in {"up", "quitting"} THEN pc ELSE "killed") /\ UNCHANGED buffered
  /\ tui' = IF tui = "up" THEN "quitting" ELSE tui
  /\ UNCHANGED <<opts, repo, defers, ctx, handler, stream, workers>>

\* Mutant of HandleSignal: the callbacks run, the context stays.
HandleSignalOnly ==
  /\ handler = "waiting" /\ buffered = 1
  /\ handler' = "called" /\ buffered' = 0
  /\ UNCHANGED <<opts, repo, main, ctx, sent, tui, stream, workers>>

(* Once: the goroutine ends, and later signals stay in the channel.        *)
HandleSignal ==
  /\ ~Over /\ handler = "waiting" /\ buffered = 1
  /\ handler' = "called" /\ buffered' = 0 /\ ctx' = "cancelled"
  /\ UNCHANGED <<opts, repo, main, sent, tui, stream, workers>>

-----------------------------------------------------------------------------
(* The terminal view, in its own goroutine.                                *)

TUIStarts ==
  /\ ~Over /\ tui = "starting" /\ tui' \in {"up", "gone"}
  /\ UNCHANGED <<opts, repo, main, ctx, signal, stream, workers>>

(* "q" and ctrl+c, which is no signal in raw mode: the run goes on.        *)
TUIKey ==
  /\ ~Over /\ tui = "up" /\ tui' = "quitting"
  /\ UNCHANGED <<opts, repo, main, ctx, signal, stream, workers>>

(* It restores the terminal; nobody waits for it.                          *)
TUIExits ==
  /\ ~Over /\ tui = "quitting" /\ tui' = "gone"
  /\ UNCHANGED <<opts, repo, main, ctx, signal, stream, workers>>

(* The bus's loop hands the view an event, and waits while it starts.      *)
Dispatch ==
  /\ ~Over /\ loop = "idle" /\ queue > 0 /\ queue' = queue - 1
  /\ loop' = IF tui = "off" THEN loop ELSE "sending"
  /\ UNCHANGED <<opts, repo, main, ctx, signal, tui, bus, workers>>

SendEvent ==
  /\ ~Over /\ loop = "sending" /\ tui \in {"up", "quitting", "gone"} /\ loop' = "idle"
  /\ UNCHANGED <<opts, repo, main, ctx, signal, tui, bus, queue, workers>>

-----------------------------------------------------------------------------

Main ==
  \/ CheckWorkingDir \/ EnsureBranchOnRemote \/ LoadResumeState \/ RunWithDaemon
  \/ StartHandler \/ LoadConfig \/ NewBus \/ StartPusher \/ StartTUI \/ NewClients
  \/ NewOrchestrator \/ RunReturns \/ Return \/ End

(* The pool's context is done once ctx is, or Close stops the pool.        *)
Stopping == ctx = "cancelled" \/ pc = "return"

Next ==
  \/ Main \/ StartWorker \/ WorkerEnds \/ Emit
  \/ Signal \/ HandleSignal
  \/ TUIStarts \/ TUIKey \/ TUIExits \/ Dispatch \/ SendEvent

(* The main goroutine, the handler's and the view's are scheduled, and a   *)
(* worker ends when its context is done.                                   *)
Fairness ==
  /\ WF_vars(Main) /\ WF_vars(HandleSignal) /\ WF_vars(TUIStarts)
  /\ WF_vars(Stopping /\ WorkerEnds)

Spec == Init /\ [][Next]_vars /\ Fairness

-----------------------------------------------------------------------------
(* Properties.                                                             *)

(* Nobody emits on a closed bus: whatever step of the set-up failed and    *)
(* however the run ended, the calls are deferred in an order that stops    *)
(* every worker first.                                                     *)
BusOutlivesWorkers == bus = "closed" => workers = 0

(* After SIGINT or SIGTERM, at any moment, the command ends: no deferred   *)
(* call waits for ever for a worker, the view or the handler.              *)
SignalEndsRun == []<>(sent = 0 \/ Over)
=============================================================================
