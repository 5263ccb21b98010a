------------------------------ MODULE MCRunning ------------------------------
(***************************************************************************)
(* What `choo run` is made of in one process, side by side: the command    *)
(* with its signals, view and deferred calls; a worker's task loop; and    *)
(* the agent whose output an invocation reads.  They share no variable; a  *)
(* behaviour is one of the component in `part`, and the others rest in     *)
(* their initial states.                                                   *)
(***************************************************************************)
EXTENDS MCTaskLoop, Sequences

CONSTANTS
  Specs, Listed, PipeCap, MaxLines, MaxTools,  \* of AgentStream
  MaxWorkers, MaxQueue, MaxSignals             \* of RunCommand

VARIABLES
  part,  \* the component that moves
  agent_streaming, agent_agent, agent_aim, agent_open, agent_told,
  agent_uttered, agent_said, agent_garbled, agent_lines, agent_pipe, agent_long,
  agent_cancelled, agent_invoke, agent_result, agent_current, agent_input,
  agent_toolMeta, agent_textBuf, agent_status, agent_printed,
  run_opts, run_repo, run_pc, run_defers, run_ctx, run_handler,
  run_buffered, run_sent, run_tui, run_bus, run_queue, run_loop,
  run_workers

Agent == INSTANCE AgentStream WITH
  streaming <- agent_streaming, agent <- agent_agent,
  aim <- agent_aim, open <- agent_open, told <- agent_told,
  uttered <- agent_uttered, said <- agent_said,
  garbled <- agent_garbled, lines <- agent_lines,
  pipe <- agent_pipe, long <- agent_long, cancelled <- agent_cancelled,
  invoke <- agent_invoke, result <- agent_result, current <- agent_current,
  input <- agent_input, toolMeta <- agent_toolMeta,
  textBuf <- agent_textBuf, status <- agent_status,
  printed <- agent_printed

Run == INSTANCE RunCommand WITH
  opts <- run_opts,
  repo <- run_repo, pc <- run_pc, defers <- run_defers, ctx <- run_ctx,
  handler <- run_handler, buffered <- run_buffered, sent <- run_sent,
  tui <- run_tui, bus <- run_bus, queue <- run_queue, loop <- run_loop,
  workers <- run_workers

agentVars == <<agent_streaming, agent_agent, agent_aim, agent_open,
               agent_told, agent_uttered, agent_said, agent_garbled, agent_lines,
               agent_pipe, agent_long, agent_cancelled, agent_invoke,
               agent_result, agent_current, agent_input, agent_toolMeta,
               agent_textBuf, agent_status, agent_printed>>
runVars == <<run_opts, run_repo, run_pc, run_defers, run_ctx, run_handler,
             run_buffered, run_sent, run_tui, run_bus, run_queue, run_loop,
             run_workers>>
all == <<part, vars, agentVars, runVars>>

ASSUME Parameters == Agent!StreamAssumption /\ Run!RunAssumption

AllInit ==
  /\ part \in {"worker", "agent", "command"}
  /\ part # "worker" => target = [t \in Tasks |-> "pending"]
  /\ part # "agent" => agent_streaming = TRUE
  /\ part # "command" =>
       /\ run_opts = [cmd |-> "run", force |-> FALSE, web |-> FALSE, tty |-> FALSE]
       /\ run_repo = [dirty |-> FALSE, units |-> TRUE, remote |-> {}]
  /\ Init /\ Agent!Init /\ Run!Init

(* A step of one component.                                                *)
InWorker(A)  == part = "worker" /\ A /\ UNCHANGED <<part, agentVars, runVars>>
InAgent(A)   == part = "agent" /\ A /\ UNCHANGED <<part, vars, runVars>>
InCommand(A) == part = "command" /\ A /\ UNCHANGED <<part, vars, agentVars>>

AllNext == InWorker(Next) \/ InAgent(Agent!Next) \/ InCommand(Run!Next)

(* The fairness each component states.  Only one of the disjuncts of a WF  *)
(* can be enabled in a behaviour, so it says the same as one WF for each.  *)
AllSpec ==
  /\ AllInit /\ [][AllNext]_all
  /\ WF_all(InAgent(Agent!Invoke) \/ InCommand(Run!Main))
  /\ WF_all(InAgent(Agent!Agent) \/ InCommand(Run!HandleSignal))
  /\ WF_all(InCommand(Run!TUIStarts))
  /\ WF_all(InCommand(Run!Stopping /\ Run!WorkerEnds))

(* The properties of the components; AgentStream and RunCommand state them *)
(* in full.                                                                *)

(* An invocation of the agent returns.                                     *)
InvokeReturns == part = "agent" => Agent!InvokeReturns

(* The progress shown of a spec is what the stream said of it last, unless *)
(* a call that tells of it cannot be read.                                 *)
LastWord == Agent!LastWord

(* No worker is left when the command closes the bus.                      *)
BusOutlivesWorkers == Run!BusOutlivesWorkers

(* A signal ends the command, whatever it waits for.                       *)
SignalEndsRun == Run!SignalEndsRun
=============================================================================
