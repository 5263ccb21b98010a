---------------------------- MODULE RunningProofs ----------------------------
(***************************************************************************)
(* Proofs about what runs in one process of choo run: the task loop of a   *)
(* worker for any tasks, dependencies and numbers of attempts, the agent's *)
(* stream for any specs, lines and size of the pipe, and the command for   *)
(* any number of workers, events and signals.                              *)
(***************************************************************************)
EXTENDS MCRunning, FiniteSetTheorems, TLAPS

-----------------------------------------------------------------------------
(* The components side by side.                                            *)

LEMMA SideBySide == AllSpec => /\ Init /\ [][Next]_vars
                               /\ Agent!Spec
                               /\ Run!Init /\ [][Run!Next]_(Run!vars)
<1>1. AllInit => Init /\ Agent!Init /\ Run!Init
  BY DEF AllInit
<1>2. [AllNext]_all => [Next]_vars /\ [Agent!Next]_(Agent!vars) /\ [Run!Next]_(Run!vars)
  <2> USE DEF agentVars, runVars, Agent!vars, Agent!agentVars, Agent!toolVars, Agent!shownVars,
              Agent!handlerVars, Agent!invokeVars,
              Run!vars, Run!main, Run!signal, Run!stream
  <2>1. CASE UNCHANGED all
    BY <2>1 DEF all
  <2>2. CASE InWorker(Next)
    BY <2>2 DEF InWorker
  <2>3. CASE InAgent(Agent!Next)
    BY <2>3 DEF InAgent
  <2>4. CASE InCommand(Run!Next)
    BY <2>4 DEF InCommand
  <2> QED BY <2>1, <2>2, <2>3, <2>4 DEF AllNext
<1> QED BY <1>1, <1>2, PTL DEF AllSpec, Agent!Spec

-----------------------------------------------------------------------------
(* The task loop.                                                          *)

(* A nonempty set of numbers has a least one.                              *)
LEMMA LeastNumber ==
  ASSUME NEW S \in SUBSET Nat, S # {}
  PROVE  \E n \in S : \A m \in S : n <= m
<1> DEFINE Below(n) == 0..n
           Segments == {Below(n) : n \in S}
<1>1. \A n \in S : IsFiniteSet(Below(n)) /\ Below(n) \subseteq Nat
  BY FS_Interval
<1>2. Segments \subseteq FiniteSubsetsOf(Nat) /\ Segments # {}
  BY <1>1 DEF FiniteSubsetsOf
<1>3. \E x \in Segments : \A y \in Segments : ~ (<<y, x>> \in StrictSubsetOrdering(Nat))
  BY <1>2, FS_StrictSubsetOrderingWellFounded, WFMin
<1>4. PICK n \in S : \A m \in S : ~ (<<Below(m), Below(n)>> \in StrictSubsetOrdering(Nat))
  BY <1>3
<1>5. ASSUME NEW m \in S, m < n PROVE <<Below(m), Below(n)>> \in StrictSubsetOrdering(Nat)
  <2>1. Below(m) \subseteq Below(n) /\ n \in Below(n) /\ n \notin Below(m)
    BY <1>5
  <2> QED BY <2>1, <1>1 DEF StrictSubsetOrdering
<1>6. \A m \in S : ~ (m < n)
  <2> HIDE DEF Below, Segments
  <2> QED BY <1>4, <1>5
<1> QED BY <1>6

TaskTypes ==
  /\ memory \in [Tasks -> FileStatus] /\ file \in [Tasks -> FileStatus]
  /\ head \in [Tasks -> FileStatus] /\ target \in [Tasks -> {"pending", "complete"}]
  /\ ready \subseteq Tasks /\ passed \subseteq Tasks /\ trusted \subseteq Tasks
  /\ review \in {"none", "passed", "fixed", "unfixed"}
  /\ cancelled \in BOOLEAN /\ edited \in BOOLEAN

(* The prompt lists tasks that are ready, and the task under backpressure  *)
(* is one of them, which its file calls complete.                          *)
PromptIsReady ==
  /\ pc \in {"invoke", "verify", "backpressure"} => \A t \in ready : IsReady(t)
  /\ pc = "backpressure" => chosen \in ready /\ file[chosen] = "complete"

(* What is complete in memory was validated or taken over, and what it     *)
(* depends on is.                                                          *)
CompleteIsValidated ==
  /\ \A t \in Tasks : Complete(t) => t \in passed \union trusted
  /\ AcceptedInOrder

(* What was validated stays complete in the worktree, and, but for the     *)
(* task about to be committed, in the last commit.                         *)
ValidatedStays ==
  pc # "failed" =>
    \A t \in Tasks \ trusted : Complete(t) =>
      /\ file[t] = "complete"
      /\ head[t] = "complete" \/ (pc = "commit" /\ t = chosen)

(* The phases after the loop begin with every task complete.               *)
AfterTheLoop ==
  pc \in {"baseline", "fix", "review", "review_fix", "review_commit", "review_cleanup", "merging"}
    => \A t \in Tasks : Complete(t)

(* The review's fixes are undone in the step that gives up on them.        *)
UndoneAtTheEnd == review = "unfixed" => pc = "merging" /\ (cancelled \/ Clean)

(* The inductive invariant.                                                *)
TaskInv ==
  /\ TaskTypes /\ PromptIsReady /\ CompleteIsValidated /\ ValidatedStays
  /\ AfterTheLoop /\ UndoneAtTheEnd

LEMMA TaskInit == Init => TaskInv
<1> SUFFICES ASSUME Init PROVE TaskInv
  OBVIOUS
<1>1. TaskTypes
  BY DEF Init, TaskTypes, FileStatus, TaskStatus
<1> QED BY <1>1 DEF Init, TaskInv, TaskTypes, PromptIsReady, CompleteIsValidated, AcceptedInOrder,
           Complete, ValidatedStays, AfterTheLoop, UndoneAtTheEnd

(* What the provider may do: the tasks it was not given keep their status, *)
(* and a commit of its own commits the files as they are.                  *)
LEMMA ProviderKeeps ==
  ASSUME TaskTypes, NEW S \in SUBSET Tasks, ProviderActs(S)
  PROVE  /\ file' \in [Tasks -> FileStatus] /\ head' \in [Tasks -> FileStatus] /\ edited' \in BOOLEAN
         /\ \A t \in Tasks \ S : file'[t] = file[t]
         /\ head' = head \/ head' = file'
<1>1. PICK marked \in SUBSET S, s \in Marks :
        /\ file' = [t \in Tasks |-> IF t \in marked THEN s ELSE file[t]]
        /\ \/ head' = head /\ edited' \in {edited, TRUE}
           \/ head' = file' /\ edited' = FALSE
  BY DEF ProviderActs
<1>2. s \in FileStatus
  BY TaskAssumption
<1> QED BY <1>1, <1>2 DEF TaskTypes

LEMMA TaskStep == TaskInv /\ [Next]_vars => TaskInv'
<1> SUFFICES ASSUME TaskInv, [Next]_vars PROVE TaskInv'
  OBVIOUS
<1> USE DEF TaskInv, TaskTypes, tree, PromptIsReady, CompleteIsValidated, AcceptedInOrder,
            ValidatedStays, AfterTheLoop, UndoneAtTheEnd, Complete, IsReady
<1>1. CASE UNCHANGED vars
  BY <1>1 DEF vars, Clean
<1>2. CASE Cancel
  BY <1>2 DEF Cancel, Ended, Clean
<1>3. CASE RunAgain
  BY <1>3 DEF RunAgain, FileStatus, TaskStatus
<1>4. CASE Select
  BY <1>4 DEF Select
<1>5. CASE Invoke
  BY <1>5, ProviderKeeps DEF Invoke
<1>6. CASE Verify
  <2>1. LET done == {t \in ready : file[t] = "complete"}
        IN  done # {} => \E t \in done : \A u \in done : t <= u
    BY LeastNumber, TaskAssumption
  <2> QED BY <1>6, <2>1 DEF Verify
<1>7. CASE BackpressureFails
  BY <1>7 DEF BackpressureFails
<1>8. CASE BackpressurePasses
  BY <1>8 DEF BackpressurePasses, FileStatus, TaskStatus
<1>9. CASE CommitTask
  BY <1>9 DEF CommitTask, CommitAll
<1>10. CASE BaselinePasses \/ BaselineFails
  BY <1>10 DEF BaselinePasses, BaselineFails
<1>11. CASE FixBaseline
  BY <1>11, ProviderKeeps DEF FixBaseline
<1>12. CASE FixedBaseline
  BY ZenonT(60), <1>12 DEF FixedBaseline, CommitAll
<1>13. CASE ReviewEnds \/ ReviewFindsIssues
  BY <1>13 DEF ReviewEnds, ReviewFindsIssues
<1>14. CASE FixReview
  BY <1>14, ProviderKeeps DEF FixReview
<1>15. CASE CommitReviewFix
  BY ZenonT(60), <1>15 DEF CommitReviewFix, CommitAll
<1>16. CASE CleanupReviewFix
  BY <1>16 DEF CleanupReviewFix, Cleanup
<1>17. CASE ReviewUnfixed
  BY <1>17 DEF ReviewUnfixed, Cleanup, Clean
<1> QED BY <1>1, <1>2, <1>3, <1>4, <1>5, <1>6, <1>7, <1>8, <1>9, <1>10, <1>11, <1>12, <1>13,
           <1>14, <1>15, <1>16, <1>17 DEF Next, WorkerStep

LEMMA TaskSafe == Init /\ [][Next]_vars => []TaskInv
  BY TaskInit, TaskStep, PTL

(* A unit is merged only with every task validated by its own command, or  *)
(* found complete when a run began, and each after the tasks it depends    *)
(* on: for any tasks, dependencies, retries and runs.                      *)
THEOREM ValidatedInOrderHolds == AllSpec => []ValidatedInOrder
<1>1. TaskInv => ValidatedInOrder
  BY DEF TaskInv, CompleteIsValidated, AfterTheLoop, ValidatedInOrder, MergedIsValidated
<1> QED BY <1>1, SideBySide, TaskSafe, PTL

(* Those tasks are complete in the commit that is merged, whatever the     *)
(* provider wrote or committed in between.                                 *)
THEOREM MergedIsCommittedHolds == AllSpec => []MergedIsCommitted
<1>1. TaskInv => MergedIsCommitted
  BY DEF TaskInv, AfterTheLoop, ValidatedStays, MergedIsCommitted
<1> QED BY <1>1, SideBySide, TaskSafe, PTL

(* A review that gives up leaves the last commit in the worktree.          *)
THEOREM FailedFixLeavesNoTraceHolds == AllSpec => []FailedFixLeavesNoTrace
<1>1. TaskInv => FailedFixLeavesNoTrace
  BY DEF TaskInv, UndoneAtTheEnd, FailedFixLeavesNoTrace
<1> QED BY <1>1, SideBySide, TaskSafe, PTL

(* What the specification of the worker promises holds of a worktree that  *)
(* is used once: only a second run takes the statuses the first one left   *)
(* on trust.  (The run task_resume has two, and finds the promise broken.) *)
THEOREM FirstRunValidatesAll == ASSUME MaxRuns = 1 PROVE Spec => []EveryTaskValidated
<1> DEFINE TargetOnly == runs = 1 /\ trusted = {t \in Tasks : target[t] = "complete"}
<1>1. Init => TargetOnly
  BY DEF Init
<1>2. TargetOnly /\ [Next]_vars => TargetOnly'
  <2>1. TargetOnly => ~RunAgain
    BY MaxRuns = 1 DEF RunAgain
  <2>2. [Next]_vars /\ ~RunAgain => UNCHANGED <<target, trusted, runs>>
    BY DEF Next, vars, WorkerStep, Cancel, Select, Invoke, Verify, BackpressureFails,
       BackpressurePasses, CommitTask, BaselinePasses, BaselineFails, FixBaseline, FixedBaseline,
       ReviewEnds, ReviewFindsIssues, FixReview, CommitReviewFix, CleanupReviewFix, ReviewUnfixed
  <2> QED BY <2>1, <2>2
<1>3. TaskInv /\ TargetOnly => EveryTaskValidated
  BY DEF TaskInv, CompleteIsValidated, AfterTheLoop, EveryTaskValidated
<1> QED BY <1>1, <1>2, <1>3, TaskSafe, PTL DEF Spec

-----------------------------------------------------------------------------
(* The command.                                                            *)

Calls == {"closeOrch", "sendDone", "closePusher", "closeBus", "stopHandler", "cancel"}

RunTypes == run_workers \in Nat /\ run_defers \in Seq(Calls)

(* Workers run while the command is in the run, and after it only until    *)
(* the first deferred call, the orchestrator's Close, has returned.        *)
ClosedFirst ==
  /\ run_pc = "run" => run_defers # <<>> /\ Head(run_defers) = "closeOrch"
  /\ run_workers > 0 =>
       \/ run_pc \in {"run", "killed"}
       \/ run_pc = "return" /\ run_defers # <<>> /\ Head(run_defers) = "closeOrch"
  /\ run_bus = "closed" => run_workers = 0 /\ run_pc \in {"return", "ended", "killed"}

RunInv == RunTypes /\ ClosedFirst

LEMMA RunInit == Run!Init => RunInv
  BY DEF Run!Init, RunInv, RunTypes, ClosedFirst

LEMMA RunStep == RunInv /\ [Run!Next]_(Run!vars) => RunInv'
<1> SUFFICES ASSUME RunInv, [Run!Next]_(Run!vars) PROVE RunInv'
  OBVIOUS
<1> USE DEF RunInv, RunTypes, ClosedFirst, Run!main, Run!signal, Run!stream, Run!Goto, Run!Defer
<1>1. CASE UNCHANGED Run!vars
  BY <1>1 DEF Run!vars
<1>2. CASE Run!CheckWorkingDir \/ Run!EnsureBranchOnRemote \/ Run!LoadResumeState \/ Run!RunWithDaemon
           \/ Run!LoadConfig \/ Run!NewClients \/ Run!RunReturns \/ Run!End
  <2>1. UNCHANGED <<run_defers, run_workers, run_bus>>
    BY <1>2 DEF Run!CheckWorkingDir, Run!EnsureBranchOnRemote, Run!LoadResumeState,
                Run!RunWithDaemon, Run!LoadConfig, Run!NewClients, Run!RunReturns, Run!End
  <2>2. \/ run_pc = "run" /\ run_pc' = "return"
        \/ run_pc = "return" /\ run_pc' = "ended" /\ run_defers = <<>>
        \/ run_pc \notin {"run", "return", "ended", "killed"} /\ run_pc' # "run"
    BY <1>2 DEF Run!CheckWorkingDir, Run!EnsureBranchOnRemote, Run!LoadResumeState,
                Run!RunWithDaemon, Run!LoadConfig, Run!NewClients, Run!RunReturns, Run!End
  <2> QED BY <2>1, <2>2
<1>3. CASE Run!StartHandler \/ Run!NewBus \/ Run!StartPusher \/ Run!StartTUI
  <2>1. run_pc' \in {"config", "pusher", "tui", "clients"}
        /\ run_pc \in {"setup", "bus", "pusher", "tui"}
    BY <1>3 DEF Run!StartHandler, Run!NewBus, Run!StartPusher, Run!StartTUI
  <2>2. run_defers' \in Seq(Calls)
    <3>1. {<<"stopHandler", "cancel">>, <<"closeBus">>, <<"closePusher">>, <<"sendDone">>, <<>>}
             \subseteq Seq(Calls)
      BY DEF Calls
    <3>2. \E calls \in Seq(Calls) : run_defers' = calls \o run_defers
      BY <1>3, <3>1 DEF Run!StartHandler, Run!NewBus, Run!StartPusher, Run!StartTUI
    <3> QED BY <3>2
  <2>3. run_workers' = run_workers /\ (run_bus' = run_bus \/ run_bus' = "open")
    BY <1>3 DEF Run!StartHandler, Run!NewBus, Run!StartPusher, Run!StartTUI
  <2> QED BY <2>1, <2>2, <2>3
<1>4. CASE Run!NewOrchestrator
  <2>1. run_defers' \in Seq(Calls) /\ run_defers' # <<>> /\ Head(run_defers') = "closeOrch"
    BY <1>4 DEF Run!NewOrchestrator, Calls
  <2> QED BY <1>4, <2>1 DEF Run!NewOrchestrator
\* One deferred call: whatever it is, it is the orchestrator's or finds no worker left.
<1>5. CASE Run!Return
  <2>1. run_pc = "return" /\ run_pc' = "return" /\ run_defers # <<>>
        /\ run_defers' = Tail(run_defers) /\ run_defers' \in Seq(Calls)
    BY <1>5 DEF Run!Return
  <2>2. Head(run_defers) \in Calls
    BY <2>1
  <2>3. run_workers' = run_workers
        /\ (Head(run_defers) = "closeOrch" => run_workers = 0 /\ run_bus' = run_bus)
    BY <1>5, <2>2 DEF Run!Return, Calls, Run!CloseOrch, Run!SendDone, Run!CloseBus,
                      Run!StopHandler, Run!Cancel
  <2>4. run_workers = 0
    BY <2>1, <2>3
  <2> QED BY <2>1, <2>3, <2>4
<1>6. CASE Run!StartWorker \/ Run!WorkerEnds
  BY <1>6 DEF Run!StartWorker, Run!WorkerEnds
<1>7. CASE Run!Emit \/ Run!HandleSignal \/ Run!TUIStarts \/ Run!TUIKey \/ Run!TUIExits
           \/ Run!Dispatch \/ Run!SendEvent
  BY <1>7 DEF Run!Emit, Run!HandleSignal, Run!TUIStarts, Run!TUIKey, Run!TUIExits,
              Run!Dispatch, Run!SendEvent
<1>8. CASE Run!Signal
  BY <1>8 DEF Run!Signal, Run!Over
<1> QED BY <1>1, <1>2, <1>3, <1>4, <1>5, <1>6, <1>7, <1>8 DEF Run!Next, Run!Main

(* Nobody emits on a closed bus: the orchestrator's Close is deferred last *)
(* and so runs first, for any number of workers and signals and wherever   *)
(* the set-up fails.                                                       *)
THEOREM BusOutlivesWorkersHolds == AllSpec => []BusOutlivesWorkers
<1>1. Run!Init /\ [][Run!Next]_(Run!vars) => []RunInv
  BY RunInit, RunStep, PTL
<1>2. RunInv => BusOutlivesWorkers
  BY DEF RunInv, ClosedFirst, BusOutlivesWorkers, Run!BusOutlivesWorkers
<1> QED BY <1>1, <1>2, SideBySide, PTL

-----------------------------------------------------------------------------
(* The agent's stream.                                                     *)

Gone == {"ok", "failed"}
Texts == [specs : SUBSET Specs, marks : SUBSET Agent!Final]
Told == {"never", "empty", "start", "input"}

(* A point of the stream: what it has said of the specs up to there, the   *)
(* text and the block that are not finished, and the tools it has used.    *)
Point(said, uttered, open, told, count) ==
  [said |-> said, uttered |-> uttered, open |-> open, told |-> told, count |-> count]
SaidOf == [Specs -> {"nothing", "writing"} \union Agent!Final]
PointsTo(n) ==
  {p \in [said : SaidOf, uttered : Texts, open : Nat, told : Told, count : Nat] :
     p.open <= p.count /\ p.count <= n /\ (p.open = 0 => p.told = "never")}
Points == PointsTo(Len(agent_aim))

(* The point the agent has come to.                                        *)
Present == Point(agent_said, agent_uttered, agent_open, agent_told, Len(agent_aim))

(* Agent's operators at a point.                                           *)
BegunAt(p, a) ==
  [s \in Specs |->
     IF \/ a = [kind |-> "spec", spec |-> s]
        \/ a = [kind |-> "task", spec |-> s] /\ (s \in Listed \/ p.said[s] # "nothing")
     THEN "writing" ELSE p.said[s]]
EndedAt(p, a, verdict) ==
  [s \in Specs |-> IF a = [kind |-> "spec", spec |-> s] THEN verdict ELSE p.said[s]]
HeardAt(p, line) ==
  [s \in Specs |-> IF s \in line.specs /\ line.marks # {} THEN Agent!Verdict(line.marks)
                   ELSE p.said[s]]

(* What a start has told with what it gave.                                *)
ToldBy(given) ==
  IF given = Agent!Unknown THEN "never" ELSE IF given = Agent!Empty THEN "empty" ELSE "start"

(* A line leads from a point of the stream to the next.                    *)
LeadsStart(aim, p, line, q) ==
  /\ line.type = "start" /\ p.open = 0 /\ line.id = p.count + 1
  /\ line.input \in {Agent!Unknown, Agent!Empty, aim[line.id]}
  /\ q = Point(BegunAt(p, line.input), p.uttered, line.id, ToldBy(line.input), line.id)
LeadsInput(aim, garbled, p, line, q) ==
  /\ line.type = "input" /\ p.open # 0 /\ p.told # "input" /\ line.input = aim[p.open]
  /\ p.told = "never" \/ p.open \in garbled
  /\ q = Point(p.said, p.uttered, p.open, "input", p.count)
LeadsStop(aim, p, line, q) ==
  /\ line.type = "stop" /\ p.open # 0 /\ p.told \in {"start", "input"}
  /\ q = Point(IF aim[p.open].kind = "task" THEN BegunAt(p, aim[p.open])
               ELSE EndedAt(p, aim[p.open], "done"),
               p.uttered, 0, "never", p.count)
LeadsUse(aim, p, line, q) ==
  /\ line.type = "tool_use" /\ p.open = 0 /\ line.id = p.count + 1 /\ line.input = aim[line.id]
  /\ q = Point(BegunAt(p, aim[line.id]), p.uttered, p.open, p.told, line.id)
LeadsResult(aim, p, line, q) ==
  /\ line.type = "tool_result" /\ line.id \in 1..p.count /\ line.id # p.open /\ line.ok \in BOOLEAN
  /\ q = Point(EndedAt(p, aim[line.id], IF line.ok THEN "done" ELSE "error"),
               p.uttered, p.open, p.told, p.count)
LeadsError(aim, p, line, q) ==
  /\ line.type = "error"
  /\ q = Point(IF p.told = "start" THEN EndedAt(p, aim[p.open], "error") ELSE p.said,
               p.uttered, p.open, p.told, p.count)
Longer(p, line) ==
  [specs |-> p.uttered.specs \union line.specs, marks |-> p.uttered.marks \union line.marks]
LeadsText(p, line, q) ==
  /\ line.type = "text"
  /\ q = IF line.newline
         THEN Point(HeardAt(p, Longer(p, line)), Agent!Silence, p.open, p.told, p.count)
         ELSE Point(p.said, Longer(p, line), p.open, p.told, p.count)
Leads(aim, garbled, p, line, q) ==
  \/ LeadsStart(aim, p, line, q) \/ LeadsInput(aim, garbled, p, line, q) \/ LeadsStop(aim, p, line, q)
  \/ LeadsUse(aim, p, line, q) \/ LeadsResult(aim, p, line, q) \/ LeadsError(aim, p, line, q)
  \/ LeadsText(p, line, q) \/ (line.type = "junk" /\ q = p)

(* What the item of a spec shows at a point.                               *)
ItemAt(p, s) ==
  IF p.said[s] = "writing" THEN "working"
  ELSE IF p.said[s] # "nothing" THEN p.said[s]
  ELSE IF s \in Listed THEN "pending" ELSE "absent"

(* The specs of which nothing is promised.                                 *)
Exempt(s) == \E x \in agent_garbled : Agent!Tells(x, s)

Shows(p) == \A s \in Specs : Exempt(s) \/ agent_status[s] = ItemAt(p, s)

(* The handler knows of a tool what the stream has told of it; of a task   *)
(* that counts for no spec it keeps that it is something else.  Of a tool  *)
(* with an input in pieces after some it may know nothing.                 *)
KnowsAt(p) ==
  \A x \in 1..MaxTools :
    IF x \in agent_garbled
    THEN agent_toolMeta[x] \in {Agent!Unknown, Agent!Other, agent_aim[x]}
    ELSE IF x > p.count \/ (x = p.open /\ p.told # "start")
    THEN agent_toolMeta[x] = Agent!Unknown
    ELSE \/ agent_toolMeta[x] = agent_aim[x]
         \/ agent_aim[x].kind = "task" /\ agent_toolMeta[x] = Agent!Other

(* What the handler holds of the input of the open block.                  *)
HoldsAt(p) ==
  IF p.open \in agent_garbled
  THEN agent_input \in Agent!NoPath \union {agent_aim[p.open]}
  ELSE agent_input = IF p.told = "never" THEN Agent!Unknown
                     ELSE IF p.told = "empty" THEN Agent!Empty
                     ELSE agent_aim[p.open]

(* The handler has come to a point of the stream.                          *)
HandledTo(p) ==
  /\ Shows(p)
  /\ agent_textBuf = p.uttered
  /\ agent_current = p.open
  /\ p.open # 0 => HoldsAt(p)
  /\ KnowsAt(p)

(* The agent stands at a point, or has ended there, which makes a line of  *)
(* the text that was not finished.                                         *)
AgentAt(p) ==
  IF agent_agent \in Gone THEN agent_said = HeardAt(p, p.uttered) ELSE p = Present

(* The points between the handler's and the agent's, one more than lines.  *)
Between(points) ==
  /\ HandledTo(points[1])
  /\ \A i \in 1..Len(agent_pipe) : Leads(agent_aim, agent_garbled, points[i], agent_pipe[i], points[i + 1])
  /\ AgentAt(points[Len(agent_pipe) + 1])

ShownTypes ==
  /\ agent_status \in [Specs -> {"absent", "pending", "working"} \union Agent!Final]
  /\ agent_printed \in [Specs -> {"absent"} \union Agent!Final]

Lines ==
  [type : {"start", "tool_use"}, id : Nat, input : Agent!Aims \union Agent!NoPath]
    \union [type : {"input"}, input : Agent!Aims]
    \union [type : {"tool_result"}, id : Nat, ok : BOOLEAN]
    \union [type : {"text"}, specs : SUBSET Specs, marks : SUBSET Agent!Final, newline : BOOLEAN]
    \union [type : {"stop", "error", "junk", "long"}]

StreamTypes ==
  /\ agent_aim \in Seq(Agent!Aims) /\ Len(agent_aim) <= MaxTools
  /\ agent_garbled \subseteq 1..Len(agent_aim)
  /\ agent_pipe \in Seq(Lines) /\ agent_streaming \in BOOLEAN /\ agent_long \in BOOLEAN
  /\ agent_agent \in {"running", "mute"} \union Gone
  /\ agent_input \in Agent!Aims \union Agent!NoPath
  /\ agent_toolMeta \in [1..MaxTools -> Agent!Aims \union {Agent!Unknown}]
  /\ agent_agent \notin Gone => Present \in Points

(* An item that has come to an end was printed as it is.                   *)
PrintedAsShown ==
  \A s \in Specs :
    /\ agent_status[s] \in Agent!Final => agent_printed[s] = agent_status[s]
    /\ agent_status[s] = "absent" => agent_printed[s] = "absent"

(* While the invocation reads, the handler is as many points behind the    *)
(* agent as there are lines in the pipe; then the items show what was said *)
(* last.                                                                   *)
Follows ==
  agent_streaming /\ ~agent_long =>
    IF agent_invoke = "stream"
    THEN \E points \in [1..(Len(agent_pipe) + 1) -> Points] : Between(points)
    ELSE /\ agent_agent \in Gone
         /\ \A s \in Specs : Exempt(s) \/ agent_status[s] = Agent!Expected(s)

(* The inductive invariant.                                                *)
StreamInv == StreamTypes /\ ShownTypes /\ PrintedAsShown /\ Follows

LEMMA PointsHave ==
  \A p \in Points :
    /\ p.said \in SaidOf /\ p.uttered \in Texts /\ p.open \in Nat /\ p.told \in Told
    /\ p.count \in Nat /\ p.open <= p.count /\ p.count <= Len(agent_aim)
    /\ p.open = 0 => p.told = "never"
BY DEF Points, PointsTo

LEMMA PointFields ==
  \A said, uttered, open, told, count :
    LET p == Point(said, uttered, open, told, count)
    IN  /\ p.said = said /\ p.uttered = uttered /\ p.open = open /\ p.told = told
        /\ p.count = count
BY DEF Point

LEMMA PointIsOne ==
  ASSUME NEW said \in SaidOf, NEW uttered \in Texts, NEW open \in Nat, NEW told \in Told,
         NEW count \in Nat, NEW n \in Nat,
         open <= count, count <= n, open = 0 => told = "never"
  PROVE  Point(said, uttered, open, told, count) \in PointsTo(n)
BY DEF PointsTo, Point

LEMMA PresentFields ==
  /\ Present.said = agent_said /\ Present.uttered = agent_uttered /\ Present.open = agent_open
  /\ Present.told = agent_told /\ Present.count = Len(agent_aim)
BY PointFields DEF Present

LEMMA AimKinds ==
  \A a \in Agent!Aims \union Agent!NoPath :
    /\ a.kind \in {"unknown", "empty", "garbage", "other", "spec", "task"}
    /\ a = Agent!Unknown <=> a.kind = "unknown"
    /\ a = Agent!Empty <=> a.kind = "empty"
    /\ a \in Agent!NoPath <=> a.kind \in {"unknown", "empty", "garbage"}
    /\ \A s \in Specs : /\ a = [kind |-> "spec", spec |-> s] => a.kind = "spec"
                        /\ a = [kind |-> "task", spec |-> s] => a.kind = "task"
BY DEF Agent!Aims, Agent!NoPath, Agent!Unknown, Agent!Empty, Agent!Garbage, Agent!Other

LEMMA VerdictIsFinal == \A marks : Agent!Verdict(marks) \in Agent!Final
BY DEF Agent!Verdict, Agent!Final

LEMMA SaidTypes ==
  ASSUME NEW p, p.said \in SaidOf
  PROVE  /\ \A a : BegunAt(p, a) \in SaidOf
         /\ \A a : \A verdict \in Agent!Final : EndedAt(p, a, verdict) \in SaidOf
         /\ \A line : HeardAt(p, line) \in SaidOf
<1>1. \A a : BegunAt(p, a) \in SaidOf
  BY DEF BegunAt, SaidOf
<1>2. \A a : \A verdict \in Agent!Final : EndedAt(p, a, verdict) \in SaidOf
  BY DEF EndedAt, SaidOf
<1>3. \A line : HeardAt(p, line) \in SaidOf
  BY VerdictIsFinal DEF HeardAt, SaidOf
<1> QED BY <1>1, <1>2, <1>3

(* A line leads to the same point when the agent has used more tools.      *)
LEMMA LeadsStays ==
  ASSUME agent_aim \in Seq(Agent!Aims), NEW aim, \A x \in 1..Len(agent_aim) : aim[x] = agent_aim[x],
         NEW garbled, agent_garbled \subseteq garbled, NEW p \in Points, NEW q \in Points,
         NEW line, Leads(agent_aim, agent_garbled, p, line, q)
  PROVE  Leads(aim, garbled, p, line, q)
<1>2. /\ p.open \in Nat /\ p.count \in Nat /\ p.open <= p.count /\ p.count <= Len(agent_aim)
      /\ q.count <= Len(agent_aim) /\ (p.open = 0 => p.told = "never")
      /\ Len(agent_aim) \in Nat
  BY PointsHave
<1>3. p.open # 0 => aim[p.open] = agent_aim[p.open]
  BY <1>2
<1>4. CASE LeadsStart(agent_aim, p, line, q)
  <2>1. line.id = p.count + 1 /\ line.id = q.count
    BY <1>4, PointFields DEF LeadsStart
  <2>2. aim[line.id] = agent_aim[line.id]
    BY <2>1, <1>2
  <2> QED BY <1>4, <2>2 DEF LeadsStart, Leads
<1>5. CASE LeadsUse(agent_aim, p, line, q)
  <2>1. line.id = p.count + 1 /\ line.id = q.count
    BY <1>5, PointFields DEF LeadsUse
  <2>2. aim[line.id] = agent_aim[line.id]
    BY <2>1, <1>2
  <2> QED BY <1>5, <2>2 DEF LeadsUse, Leads
<1>6. CASE LeadsResult(agent_aim, p, line, q)
  <2>1. aim[line.id] = agent_aim[line.id]
    BY <1>6, <1>2 DEF LeadsResult
  <2> QED BY <1>6, <2>1 DEF LeadsResult, Leads
<1>7. CASE LeadsInput(agent_aim, agent_garbled, p, line, q) \/ LeadsStop(agent_aim, p, line, q)
           \/ LeadsError(agent_aim, p, line, q)
  <2>1. p.open # 0 \/ p.told # "start"
    BY <1>2
  <2> QED BY <1>7, <2>1, <1>3 DEF LeadsInput, LeadsStop, LeadsError, Leads
<1>8. CASE LeadsText(p, line, q) \/ (line.type = "junk" /\ q = p)
  BY <1>8 DEF Leads
<1> QED BY <1>4, <1>5, <1>6, <1>7, <1>8 DEF Leads

(* A line the agent writes leads from where it stood to where it stands.   *)
Wrote(line) ==
  /\ line \in Lines /\ agent_pipe' = Append(agent_pipe, line)
  /\ agent_agent = "running" /\ agent_agent' \in {"running", "mute"}
  /\ agent_aim' = agent_aim \/ \E a \in Agent!Aims : agent_aim' = Append(agent_aim, a)
  /\ Len(agent_aim') <= MaxTools
  /\ agent_garbled \subseteq agent_garbled' /\ agent_garbled' \subseteq agent_garbled \union 1..Len(agent_aim)
  /\ Present' \in Points'
  /\ agent_long' \in BOOLEAN /\ (agent_long => agent_long')
  /\ agent_long' \/ Leads(agent_aim', agent_garbled', Present, line, Present')

LEMMA AimGrows ==
  ASSUME agent_aim \in Seq(Agent!Aims), NEW a \in Agent!Aims
  PROVE  /\ Append(agent_aim, a) \in Seq(Agent!Aims)
         /\ Len(Append(agent_aim, a)) = Len(agent_aim) + 1
         /\ Append(agent_aim, a)[Len(agent_aim) + 1] = a
OBVIOUS

LEMMA AgentWrites ==
  ASSUME StreamTypes, Agent!StreamLine \/ \E type \in {"junk", "long"} : Agent!Babble(type)
  PROVE  \E line : Wrote(line)
<1>1. agent_agent = "running" /\ Present \in Points
  BY DEF Agent!StreamLine, Agent!Babble, Agent!Writes, Agent!UseTool, Agent!OpenBlock,
         Agent!TellInput, Agent!CloseBlock, Agent!Error, Agent!ToolResult, Agent!Say, StreamTypes, Gone
<1>2. /\ agent_said \in SaidOf
      /\ agent_uttered \in Texts /\ agent_open \in Nat /\ agent_told \in Told
      /\ agent_open <= Len(agent_aim) /\ (agent_open = 0 => agent_told = "never")
      /\ agent_aim \in Seq(Agent!Aims) /\ Len(agent_aim) \in Nat /\ Len(agent_aim) <= MaxTools
      /\ agent_long \in BOOLEAN
  BY <1>1, PointsHave, PresentFields DEF StreamTypes
<1> USE PresentFields
<1>3. ASSUME NEW a \in Agent!Aims, Agent!UseTool(a) PROVE \E line : Wrote(line)
  <2> DEFINE line == [type |-> "tool_use", id |-> Len(agent_aim'), input |-> a]
  <2>1. agent_aim' = Append(agent_aim, a) /\ Len(agent_aim') = Len(agent_aim) + 1
        /\ agent_aim' \in Seq(Agent!Aims) /\ agent_aim'[Len(agent_aim')] = a
        /\ Len(agent_aim') <= MaxTools
    BY <1>2, <1>3, AimGrows, Parameters DEF Agent!UseTool, Agent!StreamAssumption
  <2>2. agent_said' = BegunAt(Present, a)
    BY <1>3 DEF Agent!UseTool, BegunAt, Agent!Begun
  <2>3. Present' = Point(BegunAt(Present, a), agent_uttered, agent_open, agent_told, line.id)
    BY <1>3, <2>2 DEF Present, Agent!UseTool
  <2>4. Present' \in Points'
    BY <1>2, <2>1, <2>3, <1>3, SaidTypes, PointIsOne DEF Points
  <2>5. LeadsUse(agent_aim', Present, line, Present')
    BY <2>1, <2>3, <1>3 DEF LeadsUse, Agent!UseTool
  <2>6. line \in Lines
    BY <2>1, <1>2 DEF Lines
  <2>7. Agent!Writes(line) /\ UNCHANGED <<agent_agent, agent_garbled, agent_long>>
    BY <1>3 DEF Agent!UseTool
  <2> HIDE DEF line
  <2> QED BY <1>1, <1>2, <2>1, <2>4, <2>5, <2>6, <2>7 DEF Wrote, Agent!Writes, Leads
<1>4. ASSUME NEW a \in Agent!Aims, NEW given \in {Agent!Unknown, Agent!Empty, a}, Agent!OpenBlock(a, given)
      PROVE  \E line : Wrote(line)
  <2> DEFINE line == [type |-> "start", id |-> agent_open', input |-> given]
  <2>1. agent_aim' = Append(agent_aim, a) /\ Len(agent_aim') = Len(agent_aim) + 1
        /\ agent_aim' \in Seq(Agent!Aims) /\ agent_aim'[Len(agent_aim')] = a
        /\ Len(agent_aim') <= MaxTools /\ agent_open' = Len(agent_aim')
    BY <1>2, <1>4, AimGrows, Parameters DEF Agent!OpenBlock, Agent!StreamAssumption
  <2>2. Present' = Point(BegunAt(Present, given), agent_uttered, line.id, ToldBy(given), line.id)
    BY <1>4, <2>1 DEF Present, Agent!OpenBlock, BegunAt, Agent!Begun, ToldBy
  <2>3. Present' \in Points'
    BY <1>2, <2>1, <2>2, <1>4, SaidTypes, PointIsOne DEF Points, Told, ToldBy
  <2>4. LeadsStart(agent_aim', Present, line, Present')
    BY <2>1, <2>2, <1>4 DEF LeadsStart, Agent!OpenBlock
  <2>5. line \in Lines
    BY <2>1, <1>2 DEF Lines, Agent!NoPath
  <2>6. Agent!Writes(line) /\ UNCHANGED <<agent_agent, agent_garbled, agent_long>>
    BY <1>4 DEF Agent!OpenBlock
  <2> HIDE DEF line
  <2> QED BY <1>1, <1>2, <2>1, <2>3, <2>4, <2>5, <2>6 DEF Wrote, Agent!Writes, Leads
<1>5. CASE Agent!TellInput
  <2> DEFINE line == [type |-> "input", input |-> agent_aim[agent_open]]
  <2>1. Present' = Point(agent_said, agent_uttered, agent_open, "input", Len(agent_aim))
        /\ agent_aim' = agent_aim /\ agent_open # 0
    BY <1>5 DEF Present, Agent!TellInput
  <2>2. Present' \in Points'
    BY <1>2, <2>1, PointIsOne DEF Points, Told
  <2>3. LeadsInput(agent_aim', agent_garbled', Present, line, Present')
    BY <2>1, <1>5 DEF LeadsInput, Agent!TellInput
  <2>4. agent_aim[agent_open] \in Agent!Aims
    BY <1>2, <2>1
  <2>5. line \in Lines
    BY <2>4 DEF Lines
  <2>6. /\ Agent!Writes(line) /\ UNCHANGED <<agent_agent, agent_long>>
        /\ agent_garbled \subseteq agent_garbled' /\ agent_garbled' \subseteq agent_garbled \union 1..Len(agent_aim)
    BY <1>2, <1>5 DEF Agent!TellInput
  <2> HIDE DEF line
  <2> QED BY <1>1, <1>2, <2>1, <2>2, <2>3, <2>5, <2>6 DEF Wrote, Agent!Writes, Leads
<1>6. CASE Agent!CloseBlock
  <2> DEFINE line == [type |-> "stop"]
             heard == IF agent_aim[agent_open].kind = "task" THEN BegunAt(Present, agent_aim[agent_open])
                      ELSE EndedAt(Present, agent_aim[agent_open], "done")
  <2>1. agent_said' = heard /\ agent_aim' = agent_aim
    BY <1>6 DEF Agent!CloseBlock, Agent!Begun, BegunAt, Agent!Ended, EndedAt
  <2>2. heard \in SaidOf
    BY <1>2, SaidTypes DEF Agent!Final
  <2>3. Present' = Point(heard, agent_uttered, 0, "never", Len(agent_aim))
    <3> HIDE DEF heard
    <3> QED BY <1>6, <2>1 DEF Present, Agent!CloseBlock
  <2>4. Present' \in Points'
    <3> HIDE DEF heard
    <3> QED BY <1>2, <2>1, <2>2, <2>3, PointIsOne DEF Points, Told
  <2>5. LeadsStop(agent_aim', Present, line, Present')
    BY <2>1, <2>3, <1>6 DEF LeadsStop, Agent!CloseBlock
  <2>6. line \in Lines
    BY DEF Lines
  <2>7. Agent!Writes(line) /\ UNCHANGED <<agent_agent, agent_garbled, agent_long>>
    BY <1>6 DEF Agent!CloseBlock
  <2> HIDE DEF line
  <2> QED BY <1>1, <1>2, <2>1, <2>4, <2>5, <2>6, <2>7 DEF Wrote, Agent!Writes, Leads
<1>7. CASE Agent!Error
  <2> DEFINE line == [type |-> "error"]
             heard == IF agent_told = "start" THEN EndedAt(Present, agent_aim[agent_open], "error")
                      ELSE agent_said
  <2>1. agent_said' = heard /\ agent_aim' = agent_aim
    BY <1>7 DEF Agent!Error, Agent!Ended, EndedAt
  <2>2. heard \in SaidOf
    BY <1>2, SaidTypes DEF Agent!Final
  <2>3. Present' = Point(heard, agent_uttered, agent_open, agent_told, Len(agent_aim))
    <3> HIDE DEF heard
    <3> QED BY <1>7, <2>1 DEF Present, Agent!Error
  <2>4. Present' \in Points'
    <3> HIDE DEF heard
    <3> QED BY <1>2, <2>1, <2>2, <2>3, PointIsOne DEF Points
  <2>5. LeadsError(agent_aim', Present, line, Present')
    BY <2>1, <2>3 DEF LeadsError
  <2>6. line \in Lines
    BY DEF Lines
  <2>7. Agent!Writes(line) /\ agent_agent' = "mute" /\ UNCHANGED <<agent_garbled, agent_long>>
    BY <1>7 DEF Agent!Error
  <2> HIDE DEF line
  <2> QED BY <1>1, <1>2, <2>1, <2>4, <2>5, <2>6, <2>7 DEF Wrote, Agent!Writes, Leads
<1>8. ASSUME NEW x \in 1..MaxTools, NEW ok \in BOOLEAN, Agent!ToolResult(x, ok)
      PROVE  \E line : Wrote(line)
  <2> DEFINE line == [type |-> "tool_result", id |-> x, ok |-> ok]
             heard == EndedAt(Present, agent_aim[x], IF ok THEN "done" ELSE "error")
  <2>1. agent_said' = heard /\ agent_aim' = agent_aim
    BY <1>8 DEF Agent!ToolResult, Agent!Ended, EndedAt
  <2>2. heard \in SaidOf
    BY <1>2, SaidTypes DEF Agent!Final
  <2>3. Present' = Point(heard, agent_uttered, agent_open, agent_told, Len(agent_aim))
    <3> HIDE DEF heard
    <3> QED BY <1>8, <2>1 DEF Present, Agent!ToolResult
  <2>4. Present' \in Points'
    <3> HIDE DEF heard
    <3> QED BY <1>2, <2>1, <2>2, <2>3, PointIsOne DEF Points
  <2>5. LeadsResult(agent_aim', Present, line, Present')
    BY <2>1, <2>3, <1>8 DEF LeadsResult, Agent!ToolResult
  <2>6. line \in Lines
    BY DEF Lines
  <2>7. Agent!Writes(line) /\ UNCHANGED <<agent_agent, agent_garbled, agent_long>>
    BY <1>8 DEF Agent!ToolResult
  <2> HIDE DEF line
  <2> QED BY <1>1, <1>2, <2>1, <2>4, <2>5, <2>6, <2>7 DEF Wrote, Agent!Writes, Leads
<1>9. ASSUME NEW specs \in SUBSET Specs, NEW marks \in SUBSET Agent!Final, NEW newline \in BOOLEAN,
             Agent!Say(specs, marks, newline)
      PROVE  \E line : Wrote(line)
  <2> DEFINE line == [type |-> "text", specs |-> specs, marks |-> marks, newline |-> newline]
             text == [specs |-> agent_uttered.specs \union specs, marks |-> agent_uttered.marks \union marks]
  <2>1. text = Longer(Present, line)
    BY DEF Longer
  <2>2. /\ agent_said' = IF newline THEN HeardAt(Present, text) ELSE agent_said
        /\ agent_uttered' = IF newline THEN Agent!Silence ELSE text
        /\ agent_aim' = agent_aim
    BY <1>9 DEF Agent!Say, Agent!Heard, HeardAt
  <2>3. text \in Texts /\ Agent!Silence \in Texts /\ HeardAt(Present, text) \in SaidOf
    BY <1>2, SaidTypes DEF Texts, Agent!Silence
  <2> HIDE DEF text
  <2>4. Present' = IF newline
                   THEN Point(HeardAt(Present, text), Agent!Silence, agent_open, agent_told, Len(agent_aim))
                   ELSE Point(agent_said, text, agent_open, agent_told, Len(agent_aim))
    BY <1>9, <2>2 DEF Present, Agent!Say
  <2>5. Present' \in Points'
    BY <1>2, <2>2, <2>3, <2>4, PointIsOne DEF Points
  <2>6. LeadsText(Present, line, Present')
    BY <2>1, <2>4 DEF LeadsText
  <2>7. line \in Lines
    BY DEF Lines
  <2>8. Agent!Writes(line) /\ UNCHANGED <<agent_agent, agent_garbled, agent_long>>
    BY <1>9 DEF Agent!Say
  <2> HIDE DEF line
  <2> QED BY <1>1, <1>2, <2>2, <2>5, <2>6, <2>7, <2>8 DEF Wrote, Agent!Writes, Leads
<1>10. ASSUME NEW type \in {"junk", "long"}, Agent!Babble(type)
       PROVE  \E line : Wrote(line)
  <2> DEFINE line == [type |-> type]
  <2>1. Present' = Present /\ agent_aim' = agent_aim
    BY <1>10 DEF Present, Agent!Babble
  <2>2. Present' \in Points' /\ line \in Lines
    BY <1>1, <2>1 DEF Points, Lines
  <2>3. /\ agent_long' \in BOOLEAN /\ (agent_long => agent_long')
        /\ agent_long' \/ Leads(agent_aim', agent_garbled', Present, line, Present')
    BY <1>2, <1>10, <2>1 DEF Leads, Agent!Babble
  <2>4. Agent!Writes(line) /\ UNCHANGED <<agent_agent, agent_garbled>>
    BY <1>10 DEF Agent!Babble
  <2> HIDE DEF line
  <2> QED BY <1>1, <1>2, <2>1, <2>2, <2>3, <2>4 DEF Wrote, Agent!Writes
<1>11. \A mark \in Agent!Final \union {"none"} : {mark} \ {"none"} \in SUBSET Agent!Final
  OBVIOUS
<1> QED BY <1>3, <1>4, <1>5, <1>6, <1>7, <1>8, <1>9, <1>10, <1>11 DEF Agent!StreamLine

(* What a handler's call makes of the items.                               *)
LEMMA ShowsBegun ==
  ASSUME NEW p \in Points, Shows(p), NEW a, NEW q, q.said = BegunAt(p, a),
         UNCHANGED <<agent_aim, agent_garbled>>,
         Agent!UpdateItems(Agent!WorkedOn(a), "working")
  PROVE  Shows(q)'
<1>1. ASSUME NEW s \in Specs, ~Exempt(s) PROVE agent_status'[s] = ItemAt(q, s)
  <2>1. agent_status[s] = ItemAt(p, s)
    BY <1>1 DEF Shows
  <2>2. agent_status[s] # "absent" <=> s \in Listed \/ p.said[s] # "nothing"
    BY <2>1, PointsHave DEF ItemAt, SaidOf, Agent!Final
  <2>3. s \in Agent!WorkedOn(a) <=> \/ a = [kind |-> "spec", spec |-> s]
                                    \/ /\ a = [kind |-> "task", spec |-> s]
                                       /\ s \in Listed \/ p.said[s] # "nothing"
    BY <2>2 DEF Agent!WorkedOn, Agent!FindSpec
  <2>4. q.said[s] = IF s \in Agent!WorkedOn(a) THEN "writing" ELSE p.said[s]
    BY <2>3 DEF BegunAt
  <2>5. agent_status'[s] = IF s \in Agent!WorkedOn(a) THEN "working" ELSE agent_status[s]
    BY DEF Agent!UpdateItems
  <2> QED BY <2>1, <2>4, <2>5 DEF ItemAt
<1> QED BY <1>1 DEF Shows, Exempt, Agent!Tells

(* The tool that counts as complete and the one the stream speaks of may   *)
(* differ in specs of which nothing is promised.                           *)
LEMMA ShowsEnded ==
  ASSUME NEW p \in Points, Shows(p), NEW a, NEW known, NEW success \in BOOLEAN, NEW q,
         q.said = EndedAt(p, a, IF success THEN "done" ELSE "error"),
         \A s \in Specs : Exempt(s) \/ (known = [kind |-> "spec", spec |-> s] <=> a = [kind |-> "spec", spec |-> s]),
         UNCHANGED <<agent_aim, agent_garbled>>,
         Agent!CompleteTool(known, success)
  PROVE  Shows(q)'
<1> DEFINE verdict == IF success THEN "done" ELSE "error"
<1>1. verdict \in {"done", "error"}
  OBVIOUS
<1> HIDE DEF verdict
<1>2. ASSUME NEW s \in Specs, ~Exempt(s) PROVE agent_status'[s] = ItemAt(q, s)
  <2>1. agent_status[s] = ItemAt(p, s)
    BY <1>2 DEF Shows
  <2>2. q.said[s] = IF a = [kind |-> "spec", spec |-> s] THEN verdict ELSE p.said[s]
    BY DEF EndedAt, verdict
  <2>3. agent_status'[s] = IF known = [kind |-> "spec", spec |-> s] THEN verdict ELSE agent_status[s]
    BY DEF Agent!CompleteTool, Agent!UpdateItems, verdict
  <2>4. known = [kind |-> "spec", spec |-> s] <=> a = [kind |-> "spec", spec |-> s]
    BY <1>2
  <2> QED BY <1>1, <2>1, <2>2, <2>3, <2>4 DEF ItemAt
<1> QED BY <1>2 DEF Shows, Exempt, Agent!Tells

LEMMA ShowsHeard ==
  ASSUME NEW p \in Points, Shows(p), NEW line, NEW q, q.said = HeardAt(p, line),
         UNCHANGED <<agent_aim, agent_garbled>>,
         Agent!ProcessTextLine(line)
  PROVE  Shows(q)'
<1>1. Agent!Verdict(line.marks) \in {"done", "warning", "error"}
  BY VerdictIsFinal DEF Agent!Final
<1>2. ASSUME NEW s \in Specs, ~Exempt(s) PROVE agent_status'[s] = ItemAt(q, s)
  <2>1. agent_status[s] = ItemAt(p, s)
    BY <1>2 DEF Shows
  <2>2. q.said[s] = IF s \in line.specs /\ line.marks # {} THEN Agent!Verdict(line.marks) ELSE p.said[s]
    BY DEF HeardAt
  <2>3. agent_status'[s] = IF s \in line.specs /\ line.marks # {} THEN Agent!Verdict(line.marks)
                           ELSE agent_status[s]
    BY DEF Agent!ProcessTextLine, Agent!UpdateItems
  <2> QED BY <1>1, <2>1, <2>2, <2>3 DEF ItemAt
<1> QED BY <1>2 DEF Shows, Exempt, Agent!Tells

LEMMA ShowsSame ==
  ASSUME NEW p, Shows(p), NEW q, q.said = p.said,
         UNCHANGED <<agent_aim, agent_garbled, agent_status>>
  PROVE  Shows(q)'
BY DEF Shows, ItemAt, Exempt, Agent!Tells

LEMMA BegunByNothing == \A p \in Points : \A a \in Agent!NoPath : BegunAt(p, a) = p.said
<1> SUFFICES ASSUME NEW p \in Points, NEW a \in Agent!NoPath PROVE BegunAt(p, a) = p.said
  OBVIOUS
<1>1. \A s \in Specs : a # [kind |-> "spec", spec |-> s] /\ a # [kind |-> "task", spec |-> s]
  BY AimKinds
<1>2. p.said \in SaidOf
  BY PointsHave
<1> QED BY <1>1, <1>2 DEF BegunAt, SaidOf

(* What the handler knows after it has looked at a call.                   *)
LEMMA KnowsMore ==
  ASSUME StreamTypes, NEW p \in Points, KnowsAt(p), NEW x \in 1..MaxTools,
         NEW a \in Agent!Aims, a = agent_aim[x], UNCHANGED <<agent_aim, agent_garbled>>,
         \/ agent_toolMeta' = [agent_toolMeta EXCEPT ![x] = a]
         \/ a.kind = "task" /\ agent_toolMeta' = [agent_toolMeta EXCEPT ![x] = Agent!Other],
         NEW q, q.count \in Nat, x <= q.count, x # q.open \/ q.told = "start",
         \A y \in 1..MaxTools \ {x} :
           /\ y > q.count <=> y > p.count
           /\ y = q.open /\ q.told # "start" <=> y = p.open /\ p.told # "start"
  PROVE  KnowsAt(q)'
<1> SUFFICES ASSUME NEW y \in 1..MaxTools
             PROVE  IF y \in agent_garbled
                    THEN agent_toolMeta'[y] \in {Agent!Unknown, Agent!Other, agent_aim[y]}
                    ELSE IF y > q.count \/ (y = q.open /\ q.told # "start")
                    THEN agent_toolMeta'[y] = Agent!Unknown
                    ELSE \/ agent_toolMeta'[y] = agent_aim[y]
                         \/ agent_aim[y].kind = "task" /\ agent_toolMeta'[y] = Agent!Other
  BY DEF KnowsAt
<1>1. agent_toolMeta \in [1..MaxTools -> Agent!Aims \union {Agent!Unknown}]
  BY DEF StreamTypes
<1>2. CASE y = x
  <2>1. ~ (x > q.count) /\ ~ (x = q.open /\ q.told # "start")
    OBVIOUS
  <2>2. agent_toolMeta'[x] = a \/ (a.kind = "task" /\ agent_toolMeta'[x] = Agent!Other)
    BY <1>1
  <2> QED BY <1>2, <2>1, <2>2
<1>3. CASE y # x
  <2>1. agent_toolMeta'[y] = agent_toolMeta[y]
    BY <1>1, <1>3
  <2> QED BY <1>3, <2>1 DEF KnowsAt
<1> QED BY <1>2, <1>3

LEMMA KnowsSame ==
  ASSUME NEW p, KnowsAt(p), UNCHANGED <<agent_aim, agent_garbled, agent_toolMeta>>,
         NEW q, q.count = p.count,
         \A y \in 1..MaxTools : y = q.open /\ q.told # "start" <=> y = p.open /\ p.told # "start"
  PROVE  KnowsAt(q)'
BY DEF KnowsAt

(* What the handler knows of a call is of the spec the call is of, or that *)
(* spec is one of which nothing is promised.                               *)
LEMMA KnownAlike ==
  ASSUME NEW p \in Points, KnowsAt(p), NEW x \in 1..MaxTools, x \in 1..Len(agent_aim), x <= p.count,
         agent_aim[x] \in Agent!Aims, x # p.open \/ p.told = "start", NEW s \in Specs
  PROVE  Exempt(s) \/ (agent_toolMeta[x] = [kind |-> "spec", spec |-> s] <=> agent_aim[x] = [kind |-> "spec", spec |-> s])
<1>1. CASE x \in agent_garbled
  <2>1. agent_toolMeta[x] \in {Agent!Unknown, Agent!Other, agent_aim[x]}
    BY <1>1 DEF KnowsAt
  <2>2. agent_aim[x] = [kind |-> "spec", spec |-> s] => Agent!Tells(x, s)
    BY DEF Agent!Tells
  <2> QED BY <1>1, <2>1, <2>2 DEF Exempt, Agent!Unknown, Agent!Other
<1>2. CASE x \notin agent_garbled
  <2>1. ~(x > p.count)
    BY PointsHave
  <2>2. agent_toolMeta[x] = agent_aim[x] \/ (agent_aim[x].kind = "task" /\ agent_toolMeta[x] = Agent!Other)
    BY <1>2, <2>1 DEF KnowsAt
  <2> QED BY <2>2, AimKinds DEF Agent!Other
<1> QED BY <1>1, <1>2

LEMMA HandlesBy ==
  ASSUME NEW line, Agent!HandleEvent(line)
  PROVE  /\ line.type = "start" => Agent!HandleBlockStart(line)
         /\ line.type = "input" => Agent!HandleDelta(line)
         /\ line.type = "stop" => Agent!HandleBlockStop
         /\ line.type = "tool_use" => Agent!HandleToolUse(line)
         /\ line.type = "tool_result" => Agent!HandleToolResult(line)
         /\ line.type = "error" => Agent!HandleError
         /\ line.type = "text" => Agent!HandleText(line)
         /\ line.type \in {"junk", "long"} => UNCHANGED Agent!handlerVars
BY DEF Agent!HandleEvent

(* The handler goes with the line to the point it leads to.                *)
LEMMA HandlerFollows ==
  ASSUME StreamTypes, UNCHANGED <<agent_aim, agent_garbled>>, NEW p \in Points, NEW q \in Points,
         NEW line, Leads(agent_aim, agent_garbled, p, line, q),
         HandledTo(p), Agent!HandleEvent(line)
  PROVE  HandledTo(q)'
<1>1. /\ p.said \in SaidOf /\ p.open \in Nat /\ p.told \in Told /\ p.count \in Nat
      /\ p.open <= p.count /\ p.count <= Len(agent_aim)
      /\ q.count \in Nat /\ q.count <= Len(agent_aim)
      /\ p.open = 0 => p.told = "never"
  BY PointsHave
<1>2. Len(agent_aim) \in Nat /\ Len(agent_aim) <= MaxTools /\ MaxTools \in Nat
      /\ \A x \in 1..Len(agent_aim) : agent_aim[x] \in Agent!Aims
  BY Parameters DEF StreamTypes, Agent!StreamAssumption
<1>3. /\ Shows(p) /\ agent_textBuf = p.uttered /\ agent_current = p.open /\ KnowsAt(p)
      /\ p.open # 0 => HoldsAt(p)
  BY DEF HandledTo
<1>4. \A a \in Agent!Aims : a \notin Agent!NoPath
  BY AimKinds DEF Agent!Aims, Agent!Other
<1>5. CASE LeadsStart(agent_aim, p, line, q)
  <2>1. line.type = "start" /\ p.open = 0 /\ line.id = p.count + 1
        /\ q.uttered = p.uttered /\ q.open = line.id /\ q.count = line.id
    BY <1>5, PointFields DEF LeadsStart
  <2>2. /\ agent_current' = line.id /\ agent_input' = line.input
        /\ Agent!HandleToolStart(line.id, line.input) /\ agent_textBuf' = agent_textBuf
    BY <2>1, HandlesBy DEF Agent!HandleBlockStart
  <2>3. line.id \in 1..MaxTools /\ line.id <= Len(agent_aim)
    BY <2>1, <1>1, <1>2
  <2>4. /\ q.said = BegunAt(p, line.input) /\ q.told = ToldBy(line.input)
        /\ line.input \in {Agent!Unknown, Agent!Empty, agent_aim[line.id]}
    BY <1>5, PointFields DEF LeadsStart
  <2>5. Shows(q)'
    BY <1>3, <2>2, <2>4, ShowsBegun DEF Agent!HandleToolStart
  <2>6. agent_aim[line.id] \in Agent!Aims
    BY <1>2, <2>3
  <2>7. Agent!Unknown # Agent!Empty /\ {Agent!Unknown, Agent!Empty} \subseteq Agent!NoPath
    BY DEF Agent!Unknown, Agent!Empty, Agent!NoPath
  <2>8. HoldsAt(q)'
    BY <1>4, <2>1, <2>2, <2>4, <2>6, <2>7 DEF HoldsAt, ToldBy
  <2>9. CASE line.input \in {Agent!Unknown, Agent!Empty}
    <3>1. agent_toolMeta' = agent_toolMeta
      BY <2>2, <2>7, <2>9 DEF Agent!HandleToolStart, StreamTypes
    <3>2. q.told # "start"
      BY <2>4, <2>7, <2>9 DEF ToldBy
    <3>3. KnowsAt(q)'
      BY <1>1, <1>3, <2>1, <2>3, <3>1, <3>2 DEF KnowsAt
    <3> QED BY <1>3, <2>1, <2>2, <2>5, <2>8, <3>3 DEF HandledTo
  <2>10. CASE line.input = agent_aim[line.id]
    <3>1. line.input \in Agent!Aims /\ q.told = "start"
      BY <1>4, <2>4, <2>6, <2>7, <2>10 DEF ToldBy
    <3>2. \/ agent_toolMeta' = [agent_toolMeta EXCEPT ![line.id] = line.input]
          \/ line.input.kind = "task" /\ agent_toolMeta' = [agent_toolMeta EXCEPT ![line.id] = Agent!Other]
      BY <2>2, <3>1, <1>4 DEF Agent!HandleToolStart
    <3>3. KnowsAt(q)'
      BY <1>1, <1>3, <2>1, <2>3, <2>10, <3>1, <3>2, KnowsMore
    <3> QED BY <1>3, <2>1, <2>2, <2>5, <2>8, <3>3 DEF HandledTo
  <2> QED BY <2>4, <2>9, <2>10
<1>6. CASE LeadsInput(agent_aim, agent_garbled, p, line, q)
  <2>1. /\ line.type = "input" /\ p.open # 0 /\ p.told # "input" /\ line.input = agent_aim[p.open]
        /\ p.told = "never" \/ p.open \in agent_garbled
        /\ q.said = p.said /\ q.uttered = p.uttered /\ q.open = p.open /\ q.told = "input"
        /\ q.count = p.count
    BY <1>6, PointFields DEF LeadsInput
  <2>2. /\ agent_input' = IF agent_input = Agent!Unknown THEN line.input ELSE Agent!Garbage
        /\ UNCHANGED <<agent_current, agent_toolMeta, agent_textBuf, agent_status>>
    BY <2>1, HandlesBy DEF Agent!HandleDelta, Agent!shownVars
  <2>3. Shows(q)'
    BY <1>3, <2>1, <2>2, ShowsSame
  <2>4. KnowsAt(q)'
    <3>1. \A y \in 1..MaxTools : y \in agent_garbled
            \/ (y = q.open /\ q.told # "start" <=> y = p.open /\ p.told # "start")
      BY <2>1
    <3> QED BY <1>3, <2>1, <2>2, <3>1 DEF KnowsAt
  <2>5. HoldsAt(q)'
    <3>1. CASE p.open \in agent_garbled
      BY <2>1, <2>2, <3>1 DEF HoldsAt, Agent!NoPath
    <3>2. CASE p.open \notin agent_garbled
      BY <1>3, <2>1, <2>2, <3>2 DEF HoldsAt
    <3> QED BY <3>1, <3>2
  <2> QED BY <1>3, <2>1, <2>2, <2>3, <2>4, <2>5 DEF HandledTo
<1>7. CASE LeadsStop(agent_aim, p, line, q)
  <2> DEFINE a == agent_aim[p.open]
             known == IF agent_input \in Agent!NoPath THEN agent_toolMeta[p.open] ELSE agent_input
  <2>1. /\ line.type = "stop" /\ p.open # 0 /\ p.told \in {"start", "input"}
        /\ q.said = IF a.kind = "task" THEN BegunAt(p, a) ELSE EndedAt(p, a, "done")
        /\ q.uttered = p.uttered /\ q.open = 0 /\ q.told = "never" /\ q.count = p.count
    BY <1>7, PointFields DEF LeadsStop
  <2>2. /\ agent_current = p.open /\ p.open \in 1..MaxTools /\ p.open \in 1..Len(agent_aim)
        /\ p.open <= p.count /\ a \in Agent!Aims /\ a = agent_aim[p.open]
    BY <1>1, <1>2, <1>3, <2>1
  <2>3. \/ agent_input = a /\ known = a
        \/ /\ p.open \in agent_garbled /\ agent_input \in Agent!NoPath
           /\ known \in {Agent!Unknown, Agent!Other, a}
    <3>1. agent_input \in Agent!NoPath => p.open \in agent_garbled
      BY <1>3, <1>4, <2>1, <2>2 DEF HoldsAt
    <3>2. agent_input \notin Agent!NoPath => agent_input = a /\ known = a
      BY <1>3, <2>1 DEF HoldsAt
    <3>3. p.open \in agent_garbled => agent_toolMeta[p.open] \in {Agent!Unknown, Agent!Other, a}
      BY <1>3, <2>2 DEF KnowsAt
    <3> QED BY <3>1, <3>2, <3>3
  <2>4. /\ agent_current' = 0 /\ agent_textBuf' = agent_textBuf
        /\ IF agent_input.kind = "task"
           THEN Agent!HandleToolStart(p.open, agent_input)
           ELSE /\ agent_toolMeta' = [agent_toolMeta EXCEPT ![p.open] = known]
                /\ Agent!CompleteTool(known, TRUE)
    BY <2>1, <2>2, HandlesBy DEF Agent!HandleBlockStop
  <2> HIDE DEF a, known
  <2>5. \A y \in 1..MaxTools \ {p.open} :
          /\ y > q.count <=> y > p.count
          /\ y = q.open /\ q.told # "start" <=> y = p.open /\ p.told # "start"
    BY <2>1
  <2>6. CASE agent_input = a /\ known = a /\ a.kind = "task"
    <3>1. Agent!HandleToolStart(p.open, a)
      BY <2>4, <2>6
    <3>2. Shows(q)'
      BY <1>3, <2>1, <2>6, <3>1, ShowsBegun DEF Agent!HandleToolStart
    <3>3. \/ agent_toolMeta' = [agent_toolMeta EXCEPT ![p.open] = a]
          \/ agent_toolMeta' = [agent_toolMeta EXCEPT ![p.open] = Agent!Other]
      BY <2>2, <3>1, <1>4 DEF Agent!HandleToolStart
    <3>4. KnowsAt(q)'
      BY <1>1, <1>3, <2>1, <2>2, <2>5, <2>6, <3>3, KnowsMore
    <3> QED BY <1>3, <2>1, <2>4, <3>2, <3>4 DEF HandledTo
  <2>7. CASE agent_input = a /\ known = a /\ a.kind # "task"
    <3>1. agent_toolMeta' = [agent_toolMeta EXCEPT ![p.open] = a] /\ Agent!CompleteTool(a, TRUE)
      BY <2>4, <2>7
    <3>2. Shows(q)'
      BY <1>3, <2>1, <2>7, <3>1, ShowsEnded
    <3>3. KnowsAt(q)'
      BY <1>1, <1>3, <2>1, <2>2, <2>5, <3>1, KnowsMore
    <3> QED BY <1>3, <2>1, <2>4, <3>2, <3>3 DEF HandledTo
  <2>8. CASE /\ p.open \in agent_garbled /\ agent_input \in Agent!NoPath
             /\ known \in {Agent!Unknown, Agent!Other, a}
    <3>1. agent_toolMeta' = [agent_toolMeta EXCEPT ![p.open] = known] /\ Agent!CompleteTool(known, TRUE)
      BY <2>4, <2>8, AimKinds
    <3>2. ASSUME NEW s \in Specs, ~Exempt(s)
          PROVE  agent_status'[s] = ItemAt(q, s)
      <4>1. ~Agent!Tells(p.open, s)
        BY <2>8, <3>2 DEF Exempt
      <4>2. a # [kind |-> "spec", spec |-> s] /\ a # [kind |-> "task", spec |-> s]
        BY <2>2, <4>1 DEF Agent!Tells
      <4>3. known # [kind |-> "spec", spec |-> s]
        BY <2>8, <4>2 DEF Agent!Unknown, Agent!Other
      <4>4. agent_status'[s] = agent_status[s]
        BY <3>1, <4>3 DEF Agent!CompleteTool, Agent!UpdateItems
      <4>5. q.said[s] = p.said[s]
        BY <2>1, <4>2 DEF BegunAt, EndedAt
      <4> QED BY <1>3, <3>2, <4>4, <4>5 DEF Shows, ItemAt
    <3>3. Shows(q)'
      BY <3>2 DEF Shows, Exempt, Agent!Tells
    <3>4. KnowsAt(q)'
      <4> SUFFICES ASSUME NEW y \in 1..MaxTools
                   PROVE  IF y \in agent_garbled
                          THEN agent_toolMeta'[y] \in {Agent!Unknown, Agent!Other, agent_aim[y]}
                          ELSE IF y > q.count \/ (y = q.open /\ q.told # "start")
                          THEN agent_toolMeta'[y] = Agent!Unknown
                          ELSE \/ agent_toolMeta'[y] = agent_aim[y]
                               \/ agent_aim[y].kind = "task" /\ agent_toolMeta'[y] = Agent!Other
        BY DEF KnowsAt
      <4>1. agent_toolMeta \in [1..MaxTools -> Agent!Aims \union {Agent!Unknown}]
        BY DEF StreamTypes
      <4>2. CASE y = p.open
        BY <2>2, <2>8, <3>1, <4>1, <4>2
      <4>3. CASE y # p.open
        <5>1. agent_toolMeta'[y] = agent_toolMeta[y]
          BY <3>1, <4>1, <4>3
        <5> QED BY <1>3, <2>5, <4>3, <5>1 DEF KnowsAt
      <4> QED BY <4>2, <4>3
    <3> QED BY <1>3, <2>1, <2>4, <3>3, <3>4 DEF HandledTo
  <2> QED BY <2>3, <2>6, <2>7, <2>8
<1>8. CASE LeadsUse(agent_aim, p, line, q)
  <2>1. /\ line.type = "tool_use" /\ p.open = 0 /\ line.id = p.count + 1
        /\ line.input = agent_aim[line.id] /\ q.said = BegunAt(p, line.input)
        /\ q.uttered = p.uttered /\ q.open = p.open /\ q.told = p.told /\ q.count = line.id
    BY <1>8, PointFields DEF LeadsUse
  <2>2. /\ Agent!HandleToolStart(line.id, line.input)
        /\ UNCHANGED <<agent_current, agent_input, agent_textBuf>>
    BY <2>1, HandlesBy DEF Agent!HandleToolUse
  <2>3. line.id \in 1..MaxTools /\ line.input \in Agent!Aims
    BY <2>1, <1>1, <1>2
  <2>4. Shows(q)'
    BY <1>3, <2>1, <2>2, ShowsBegun DEF Agent!HandleToolStart
  <2>5. \/ agent_toolMeta' = [agent_toolMeta EXCEPT ![line.id] = line.input]
        \/ line.input.kind = "task" /\ agent_toolMeta' = [agent_toolMeta EXCEPT ![line.id] = Agent!Other]
    BY <2>2, <2>3, <1>4 DEF Agent!HandleToolStart
  <2>6. /\ line.id <= q.count /\ line.id # q.open
        /\ \A y \in 1..MaxTools \ {line.id} :
             /\ y > q.count <=> y > p.count
             /\ y = q.open /\ q.told # "start" <=> y = p.open /\ p.told # "start"
    BY <1>1, <2>1, <2>3
  <2>7. KnowsAt(q)'
    BY <1>1, <1>3, <2>1, <2>3, <2>5, <2>6, KnowsMore
  <2> QED BY <1>3, <2>1, <2>2, <2>4, <2>7 DEF HandledTo, HoldsAt
<1>9. CASE LeadsResult(agent_aim, p, line, q)
  <2> DEFINE a == agent_aim[line.id]
             known == agent_toolMeta[line.id]
  <2>1. /\ line.type = "tool_result" /\ line.id \in 1..p.count /\ line.id # p.open
        /\ q.said = EndedAt(p, a, IF line.ok THEN "done" ELSE "error")
        /\ q.uttered = p.uttered /\ q.open = p.open /\ q.told = p.told /\ q.count = p.count
        /\ line.ok \in BOOLEAN
    BY <1>9, PointFields DEF LeadsResult
  <2>2. /\ Agent!CompleteTool(known, line.ok)
        /\ UNCHANGED <<agent_current, agent_input, agent_toolMeta, agent_textBuf>>
    BY <2>1, HandlesBy DEF Agent!HandleToolResult, Agent!toolVars
  <2>3. line.id \in 1..MaxTools /\ line.id \in 1..Len(agent_aim) /\ a \in Agent!Aims
    BY <2>1, <1>1, <1>2
  <2>4. \A s \in Specs : Exempt(s) \/ (known = [kind |-> "spec", spec |-> s] <=> a = [kind |-> "spec", spec |-> s])
    <3>1. KnowsAt(p) /\ line.id <= p.count /\ line.id # p.open /\ agent_aim[line.id] \in Agent!Aims
      BY <1>1, <1>3, <2>1, <2>3
    <3> QED BY <2>3, <3>1, KnownAlike
  <2>5. Shows(q)'
    <3> HIDE DEF a, known
    <3> QED BY <1>3, <2>1, <2>2, <2>4, ShowsEnded
  <2>6. KnowsAt(q)'
    BY <1>3, <2>1, <2>2, KnowsSame
  <2> QED BY <1>3, <2>1, <2>2, <2>5, <2>6 DEF HandledTo, HoldsAt
<1>10. CASE LeadsError(agent_aim, p, line, q)
  <2> DEFINE a == IF p.told = "start" THEN agent_aim[p.open] ELSE Agent!Other
             known == IF agent_current = 0 THEN Agent!Other ELSE agent_toolMeta[agent_current]
  <2>1. /\ line.type = "error"
        /\ q.said = IF p.told = "start" THEN EndedAt(p, agent_aim[p.open], "error") ELSE p.said
        /\ q.uttered = p.uttered /\ q.open = p.open /\ q.told = p.told /\ q.count = p.count
    BY <1>10, PointFields DEF LeadsError
  <2>2. /\ Agent!CompleteTool(known, FALSE)
        /\ UNCHANGED <<agent_current, agent_input, agent_toolMeta, agent_textBuf>>
    BY <2>1, HandlesBy DEF Agent!HandleError, Agent!toolVars
  <2>3. q.said = EndedAt(p, a, "error")
    <3>1. EndedAt(p, Agent!Other, "error") = p.said
      BY <1>1 DEF EndedAt, SaidOf, Agent!Other
    <3> QED BY <2>1, <3>1
  <2>4. \A s \in Specs : Exempt(s) \/ (known = [kind |-> "spec", spec |-> s] <=> a = [kind |-> "spec", spec |-> s])
    <3>1. \A s \in Specs : Agent!Other # [kind |-> "spec", spec |-> s]
      BY DEF Agent!Other
    <3>2. CASE p.open = 0
      BY <1>1, <1>3, <3>1, <3>2
    <3>3. CASE p.open # 0
      <4>1. p.open \in 1..MaxTools /\ p.open \in 1..Len(agent_aim) /\ p.open <= p.count
        BY <1>1, <1>2, <3>3
      <4>2. known = agent_toolMeta[p.open]
        BY <1>3, <3>3
      <4>3. CASE p.told = "start"
        BY <1>1, <1>2, <1>3, <4>1, <4>2, <4>3, KnownAlike
      <4>4. CASE p.told # "start" /\ p.open \in agent_garbled
        <5>1. known \in {Agent!Unknown, Agent!Other, agent_aim[p.open]}
          BY <1>3, <4>1, <4>2, <4>4 DEF KnowsAt
        <5> SUFFICES ASSUME NEW s \in Specs, ~Exempt(s) PROVE known # [kind |-> "spec", spec |-> s]
          BY <3>1, <4>4
        <5>2. ~Agent!Tells(p.open, s)
          BY <4>4 DEF Exempt
        <5>3. agent_aim[p.open] # [kind |-> "spec", spec |-> s]
          BY <4>1, <5>2 DEF Agent!Tells
        <5> QED BY <3>1, <5>1, <5>3 DEF Agent!Unknown
      <4>5. CASE p.told # "start" /\ p.open \notin agent_garbled
        <5>1. known = Agent!Unknown
          BY <1>3, <4>1, <4>2, <4>5 DEF KnowsAt
        <5> QED BY <3>1, <4>5, <5>1 DEF Agent!Unknown
      <4> QED BY <4>3, <4>4, <4>5
    <3> QED BY <3>2, <3>3
  <2> HIDE DEF a, known
  <2>5. Shows(q)'
    BY <1>3, <2>2, <2>3, <2>4, ShowsEnded
  <2>6. KnowsAt(q)'
    BY <1>3, <2>1, <2>2, KnowsSame
  <2> QED BY <1>3, <2>1, <2>2, <2>5, <2>6 DEF HandledTo, HoldsAt
<1>11. CASE LeadsText(p, line, q)
  <2>1. /\ line.type = "text" /\ q.open = p.open /\ q.told = p.told /\ q.count = p.count
        /\ q.uttered = IF line.newline THEN Agent!Silence ELSE Longer(p, line)
        /\ q.said = IF line.newline THEN HeardAt(p, Longer(p, line)) ELSE p.said
    BY <1>11, PointFields DEF LeadsText
  <2>2. /\ IF line.newline
           THEN Agent!ProcessTextLine(Longer(p, line)) /\ agent_textBuf' = Agent!Silence
           ELSE agent_textBuf' = Longer(p, line) /\ agent_status' = agent_status
        /\ UNCHANGED <<agent_current, agent_input, agent_toolMeta>>
    BY <2>1, <1>3, HandlesBy DEF Agent!HandleText, Agent!toolVars, Agent!shownVars, Longer
  <2>3. Shows(q)'
    BY <1>3, <2>1, <2>2, ShowsHeard, ShowsSame
  <2>4. KnowsAt(q)'
    BY <1>3, <2>1, <2>2, KnowsSame
  <2> QED BY <1>3, <2>1, <2>2, <2>3, <2>4 DEF HandledTo, HoldsAt
<1>12. CASE line.type = "junk" /\ q = p
  <2>1. UNCHANGED <<agent_status, agent_current, agent_input, agent_toolMeta, agent_textBuf>>
    BY <1>12, HandlesBy DEF Agent!handlerVars, Agent!toolVars, Agent!shownVars
  <2>2. Shows(q)' /\ KnowsAt(q)'
    BY <1>3, <1>12, <2>1, ShowsSame, KnowsSame
  <2> QED BY <1>3, <1>12, <2>1, <2>2 DEF HandledTo, HoldsAt
<1> QED BY <1>5, <1>6, <1>7, <1>8, <1>9, <1>10, <1>11, <1>12 DEF Leads

(* What the handler does keeps the types, and prints what comes to an end. *)
LEMMA PrintsEnds ==
  ASSUME ShownTypes, PrintedAsShown, Agent!EmitPlainUpdates,
         agent_status' \in [Specs -> {"absent", "pending", "working"} \union Agent!Final],
         \A s \in Specs : agent_status'[s] = "absent" => agent_status[s] = "absent"
  PROVE  ShownTypes' /\ PrintedAsShown'
<1>1. agent_printed' \in [Specs -> {"absent"} \union Agent!Final]
  BY DEF Agent!EmitPlainUpdates, ShownTypes
<1>2. ASSUME NEW s \in Specs
      PROVE  /\ agent_status'[s] \in Agent!Final => agent_printed'[s] = agent_status'[s]
             /\ agent_status'[s] = "absent" => agent_printed'[s] = "absent"
  BY DEF Agent!EmitPlainUpdates, ShownTypes, PrintedAsShown, Agent!Final
<1> QED BY <1>1, <1>2 DEF ShownTypes, PrintedAsShown

LEMMA UpdateShows ==
  ASSUME ShownTypes, PrintedAsShown, NEW ss, NEW st \in {"working"} \union Agent!Final,
         Agent!UpdateItems(ss, st)
  PROVE  ShownTypes' /\ PrintedAsShown'
<1>1. agent_status' \in [Specs -> {"absent", "pending", "working"} \union Agent!Final]
  BY DEF Agent!UpdateItems, ShownTypes
<1>2. \A s \in Specs : agent_status'[s] = "absent" => agent_status[s] = "absent"
  BY DEF Agent!UpdateItems, Agent!Final
<1> QED BY <1>1, <1>2, PrintsEnds DEF Agent!UpdateItems

LEMMA HandlerTypes ==
  ASSUME StreamTypes, ShownTypes, PrintedAsShown, NEW line \in Lines, Agent!HandleEvent(line)
  PROVE  /\ ShownTypes' /\ PrintedAsShown'
         /\ agent_input' \in Agent!Aims \union Agent!NoPath
         /\ agent_toolMeta' \in [1..MaxTools -> Agent!Aims \union {Agent!Unknown}]
<1>1. /\ agent_input \in Agent!Aims \union Agent!NoPath
      /\ agent_toolMeta \in [1..MaxTools -> Agent!Aims \union {Agent!Unknown}]
      /\ Agent!Other \in Agent!Aims /\ Agent!Unknown \in Agent!NoPath /\ Agent!Garbage \in Agent!NoPath
  BY DEF StreamTypes, Agent!Aims, Agent!NoPath
<1>2. ASSUME NEW x, NEW a \in Agent!Aims \union Agent!NoPath, Agent!HandleToolStart(x, a)
      PROVE  /\ ShownTypes' /\ PrintedAsShown'
             /\ agent_toolMeta' \in [1..MaxTools -> Agent!Aims \union {Agent!Unknown}]
  <2>1. ShownTypes' /\ PrintedAsShown'
    BY <1>2, UpdateShows DEF Agent!HandleToolStart
  <2>2. \E b \in Agent!Aims \union {Agent!Unknown} :
          agent_toolMeta' = agent_toolMeta \/ agent_toolMeta' = [agent_toolMeta EXCEPT ![x] = b]
    <3>1. CASE a \in Agent!NoPath
      BY <1>1, <1>2, <3>1 DEF Agent!HandleToolStart
    <3>2. CASE a \notin Agent!NoPath
      BY <1>1, <1>2, <3>2 DEF Agent!HandleToolStart
    <3> QED BY <3>1, <3>2
  <2> QED BY <1>1, <2>1, <2>2
<1>3. ASSUME NEW a, NEW success, Agent!CompleteTool(a, success)
      PROVE  ShownTypes' /\ PrintedAsShown'
  <2>1. (IF success THEN "done" ELSE "error") \in {"working"} \union Agent!Final
    BY DEF Agent!Final
  <2> QED BY <1>3, <2>1, UpdateShows DEF Agent!CompleteTool
<1>4. CASE line.type = "start"
  <2>1. line.input \in Agent!Aims \union Agent!NoPath
    BY <1>4 DEF Lines
  <2> QED BY <1>1, <1>2, <1>4, <2>1, HandlesBy DEF Agent!HandleBlockStart
<1>5. CASE line.type = "input"
  <2>1. line.input \in Agent!Aims
    BY <1>5 DEF Lines
  <2> QED BY <1>1, <1>5, <2>1, HandlesBy DEF Agent!HandleDelta, Agent!shownVars, ShownTypes, PrintedAsShown
<1>6. CASE line.type = "stop"
  <2>1. Agent!HandleBlockStop
    BY <1>6, HandlesBy
  <2>2. agent_input' = Agent!Unknown
    BY <2>1 DEF Agent!HandleBlockStop
  <2>3. CASE agent_input.kind = "task"
    BY <1>1, <1>2, <2>1, <2>2, <2>3 DEF Agent!HandleBlockStop
  <2>4. CASE agent_input.kind # "task"
    <3> DEFINE known == IF agent_input \in Agent!NoPath THEN agent_toolMeta[agent_current] ELSE agent_input
    <3>1. Agent!CompleteTool(known, TRUE) /\ agent_toolMeta' = [agent_toolMeta EXCEPT ![agent_current] = known]
      BY <2>1, <2>4 DEF Agent!HandleBlockStop
    <3>2. agent_current \in 1..MaxTools => known \in Agent!Aims \union {Agent!Unknown}
      BY <1>1
    <3> HIDE DEF known
    <3>3. agent_toolMeta' \in [1..MaxTools -> Agent!Aims \union {Agent!Unknown}]
      BY <1>1, <3>1, <3>2
    <3> QED BY <1>1, <1>3, <2>2, <3>1, <3>3
  <2> QED BY <2>3, <2>4
<1>7. CASE line.type = "tool_use"
  <2>1. line.input \in Agent!Aims \union Agent!NoPath
    BY <1>7 DEF Lines
  <2> QED BY <1>1, <1>2, <1>7, <2>1, HandlesBy DEF Agent!HandleToolUse
<1>8. CASE line.type \in {"tool_result", "error"}
  BY <1>1, <1>3, <1>8, HandlesBy DEF Agent!HandleToolResult, Agent!HandleError, Agent!toolVars
<1>9. CASE line.type = "text"
  <2>1. Agent!HandleText(line) /\ UNCHANGED <<agent_input, agent_toolMeta>>
    BY <1>9, HandlesBy DEF Agent!HandleText, Agent!toolVars
  <2>2. \/ UNCHANGED <<agent_status, agent_printed>>
        \/ \E ss, st : st \in Agent!Final /\ Agent!UpdateItems(ss, st)
    BY <2>1, VerdictIsFinal DEF Agent!HandleText, Agent!ProcessTextLine, Agent!shownVars
  <2>3. ShownTypes' /\ PrintedAsShown'
    BY <2>2, UpdateShows DEF ShownTypes, PrintedAsShown
  <2> QED BY <1>1, <2>1, <2>3
<1>10. CASE line.type \in {"junk", "long"}
  BY <1>1, <1>10, HandlesBy DEF Agent!handlerVars, Agent!toolVars, Agent!shownVars, ShownTypes,
     PrintedAsShown
<1>11. line.type \in {"start", "input", "stop", "tool_use", "tool_result", "error", "text", "junk", "long"}
  BY DEF Lines
<1> QED BY <1>4, <1>5, <1>6, <1>7, <1>8, <1>9, <1>10, <1>11

LEMMA FinishTypes ==
  ASSUME ShownTypes, PrintedAsShown, Agent!Finish
  PROVE  ShownTypes' /\ PrintedAsShown'
<1>1. Agent!Verdict(agent_textBuf.marks) \in Agent!Final
  BY VerdictIsFinal
<1>2. agent_status' \in [Specs -> {"absent", "pending", "working"} \union Agent!Final]
  BY <1>1 DEF Agent!Finish, ShownTypes, Agent!Final
<1>3. \A s \in Specs : agent_status'[s] = "absent" => agent_status[s] = "absent"
  BY <1>1 DEF Agent!Finish, Agent!Final
<1> QED BY <1>2, <1>3, PrintsEnds DEF Agent!Finish

LEMMA FinishTells ==
  ASSUME NEW p \in Points, HandledTo(p), agent_said = HeardAt(p, p.uttered), Agent!Finish
  PROVE  \A s \in Specs : Exempt(s) \/ agent_status'[s] = Agent!Expected(s)
<1> SUFFICES ASSUME NEW s \in Specs, ~Exempt(s) PROVE agent_status'[s] = Agent!Expected(s)
  OBVIOUS
<1>1. Agent!Verdict(p.uttered.marks) \in {"done", "warning", "error"}
  BY VerdictIsFinal DEF Agent!Final
<1>2. agent_status[s] = ItemAt(p, s) /\ agent_textBuf = p.uttered
  BY DEF HandledTo, Shows
<1>3. agent_said[s] = IF s \in p.uttered.specs /\ p.uttered.marks # {}
                      THEN Agent!Verdict(p.uttered.marks) ELSE p.said[s]
  BY DEF HeardAt
<1>4. agent_status'[s] = IF s \in p.uttered.specs /\ p.uttered.marks # {}
                         THEN Agent!Verdict(p.uttered.marks)
                         ELSE IF agent_status[s] \in {"pending", "working"} THEN "done"
                         ELSE agent_status[s]
  BY <1>2 DEF Agent!Finish
<1>5. p.said[s] \in {"nothing", "writing", "done", "warning", "error"}
  BY PointsHave DEF SaidOf, Agent!Final
<1> QED BY <1>1, <1>2, <1>3, <1>4, <1>5 DEF Agent!Expected, ItemAt, Agent!Final

(* The agent writes a line: its point is appended to those between.        *)
LEMMA AgentKeeps ==
  ASSUME StreamInv, NEW line, Wrote(line), UNCHANGED <<Agent!invokeVars, Agent!handlerVars>>
  PROVE  StreamInv'
<1>0. PICK n : n = Len(agent_pipe)
  OBVIOUS
<1>1. agent_pipe \in Seq(Lines) /\ n \in Nat /\ agent_aim \in Seq(Agent!Aims) /\ Len(agent_aim) \in Nat
      /\ StreamTypes
  BY <1>0 DEF StreamInv, StreamTypes
<1>2. UNCHANGED <<agent_streaming, agent_invoke, agent_current, agent_input, agent_toolMeta,
                  agent_textBuf, agent_status, agent_printed>>
  BY DEF Agent!invokeVars, Agent!handlerVars, Agent!toolVars, Agent!shownVars
<1>3. agent_aim' \in Seq(Agent!Aims) /\ Len(agent_aim) <= Len(agent_aim')
      /\ \A x \in 1..Len(agent_aim) : agent_aim'[x] = agent_aim[x]
  <2>1. CASE agent_aim' = agent_aim
    BY <1>1, <2>1
  <2>2. ASSUME NEW a \in Agent!Aims, agent_aim' = Append(agent_aim, a)
        PROVE  /\ agent_aim' \in Seq(Agent!Aims) /\ Len(agent_aim) <= Len(agent_aim')
               /\ \A x \in 1..Len(agent_aim) : agent_aim'[x] = agent_aim[x]
    BY <1>1, <2>2
  <2> QED BY <2>1, <2>2 DEF Wrote
<1>3a. /\ agent_garbled \subseteq agent_garbled' /\ agent_garbled \subseteq 1..Len(agent_aim)
       /\ agent_garbled' \subseteq 1..Len(agent_aim')
       /\ \A s : Exempt(s) => Exempt(s)'
  <2>1. /\ agent_garbled \subseteq agent_garbled' /\ agent_garbled \subseteq 1..Len(agent_aim)
        /\ agent_garbled' \subseteq agent_garbled \union 1..Len(agent_aim)
    BY <1>1 DEF StreamTypes, Wrote
  <2>2. agent_garbled' \subseteq 1..Len(agent_aim')
    BY <1>1, <1>3, <2>1
  <2>3. ASSUME NEW s, NEW x \in agent_garbled, Agent!Tells(x, s) PROVE Agent!Tells(x, s)'
    BY <1>1, <1>3, <2>1, <2>3 DEF Agent!Tells
  <2> QED BY <2>1, <2>2, <2>3 DEF Exempt
<1>4. agent_pipe' \in Seq(Lines) /\ Len(agent_pipe') = n + 1 /\ agent_pipe'[n + 1] = line
      /\ \A i \in 1..n : agent_pipe'[i] = agent_pipe[i]
  BY <1>0, <1>1 DEF Wrote
<1>5. StreamTypes' /\ ShownTypes' /\ PrintedAsShown'
  BY <1>2, <1>3, <1>3a, <1>4 DEF StreamInv, StreamTypes, ShownTypes, PrintedAsShown, Wrote, Gone
<1>6. ASSUME agent_streaming, ~agent_long', agent_invoke = "stream"
      PROVE  (\E points \in [1..(Len(agent_pipe) + 1) -> Points] : Between(points))'
  <2>1. PICK points \in [1..(n + 1) -> Points] : Between(points)
    BY <1>0, <1>6 DEF StreamInv, Follows, Wrote
  <2>2. PICK q : q = Present'
    OBVIOUS
  <2>3a. PICK longer : longer = [i \in 1..(n + 2) |-> IF i <= n + 1 THEN points[i] ELSE q]
    OBVIOUS
  <2>3. \A p \in Points : p \in Points'
    BY <1>1, <1>3, PointsHave DEF Points, PointsTo
  <2>4. longer \in [1..(Len(agent_pipe') + 1) -> Points']
    BY <1>1, <1>4, <2>1, <2>2, <2>3, <2>3a DEF Wrote
  <2>5. HandledTo(points[1])'
    <3>1. points[1] \in Points /\ HandledTo(points[1])
      BY <1>1, <2>1 DEF Between
    <3>1a. PICK p : p = points[1]
      OBVIOUS
    <3>2. p \in Points /\ HandledTo(p)
      BY <3>1, <3>1a
    <3>3. p.open \in Nat /\ p.count \in Nat /\ p.open <= p.count /\ p.count <= Len(agent_aim)
      BY <3>2, PointsHave
    <3>4. KnowsAt(p)'
      <4> SUFFICES ASSUME NEW x \in 1..MaxTools
                   PROVE  IF x \in agent_garbled'
                          THEN agent_toolMeta'[x] \in {Agent!Unknown, Agent!Other, agent_aim'[x]}
                          ELSE IF x > p.count \/ (x = p.open /\ p.told # "start")
                          THEN agent_toolMeta'[x] = Agent!Unknown
                          ELSE \/ agent_toolMeta'[x] = agent_aim'[x]
                               \/ agent_aim'[x].kind = "task" /\ agent_toolMeta'[x] = Agent!Other
        BY DEF KnowsAt
      <4>1. /\ x <= p.count => agent_aim'[x] = agent_aim[x]
            /\ x \in agent_garbled => agent_aim'[x] = agent_aim[x]
        BY <1>1, <1>3, <1>3a, <3>3
      <4>2. x > p.count \/ x <= p.count
        BY <3>3
      <4>3. IF x \in agent_garbled
            THEN agent_toolMeta[x] \in {Agent!Unknown, Agent!Other, agent_aim[x]}
            ELSE IF x > p.count \/ (x = p.open /\ p.told # "start")
            THEN agent_toolMeta[x] = Agent!Unknown
            ELSE \/ agent_toolMeta[x] = agent_aim[x]
                 \/ agent_aim[x].kind = "task" /\ agent_toolMeta[x] = Agent!Other
        BY <3>2 DEF HandledTo, KnowsAt
      <4>4. agent_toolMeta'[x] = agent_toolMeta[x]
        BY <1>2
      <4>5. CASE x \in agent_garbled
        BY <1>3a, <4>1, <4>3, <4>4, <4>5
      <4>6. CASE x \notin agent_garbled /\ x \in agent_garbled'
        BY <4>1, <4>2, <4>3, <4>4, <4>6
      <4>7. CASE x \notin agent_garbled /\ x \notin agent_garbled'
        BY <4>1, <4>2, <4>3, <4>4, <4>7
      <4> QED BY <4>5, <4>6, <4>7
    <3>5. ASSUME p.open # 0 PROVE agent_aim'[p.open] = agent_aim[p.open]
      <4>1. p.open \in 1..Len(agent_aim)
        BY <1>1, <3>3, <3>5
      <4> QED BY <1>3, <4>1
    <3>5a. ASSUME p.open # 0 PROVE HoldsAt(p)'
      <4>1. HoldsAt(p) /\ agent_aim'[p.open] = agent_aim[p.open] /\ agent_input' = agent_input
        BY <1>2, <3>2, <3>5, <3>5a DEF HandledTo
      <4>2. CASE p.open \in agent_garbled \/ p.open \notin agent_garbled'
        BY <1>3a, <4>1, <4>2 DEF HoldsAt
      <4>3. CASE p.open \notin agent_garbled /\ p.open \in agent_garbled'
        BY <4>1, <4>3 DEF HoldsAt, Agent!NoPath
      <4> QED BY <4>2, <4>3
    <3>5b. Shows(p)'
      BY <1>2, <1>3a, <3>2 DEF HandledTo, Shows
    <3>6. HandledTo(p)'
      BY <1>2, <3>2, <3>4, <3>5a, <3>5b DEF HandledTo
    <3> QED BY <3>1a, <3>6
  <2>6. ASSUME NEW i \in 1..(n + 1)
        PROVE  Leads(agent_aim', agent_garbled', longer[i], agent_pipe'[i], longer[i + 1])
    <3>1. CASE i = n + 1
      <4>1. longer[i] = points[n + 1] /\ longer[i + 1] = q /\ agent_pipe'[i] = line
        BY <1>1, <1>4, <2>3a, <3>1
      <4>2. points[n + 1] = Present
        BY <1>0, <2>1 DEF Between, AgentAt, Wrote, Gone
      <4> QED BY <1>6, <2>2, <4>1, <4>2 DEF Wrote
    <3>2. CASE i \in 1..n
      <4>1. /\ longer[i] = points[i] /\ longer[i + 1] = points[i + 1] /\ agent_pipe'[i] = agent_pipe[i]
            /\ points[i] \in Points /\ points[i + 1] \in Points
        <5>1. i \in 1..(n + 1) /\ i + 1 \in 1..(n + 1) /\ i <= n + 1 /\ i + 1 <= n + 1
          BY <1>1, <3>2
        <5> QED BY <1>1, <1>4, <2>1, <2>3a, <3>2, <5>1
      <4>2. Leads(agent_aim, agent_garbled, points[i], agent_pipe[i], points[i + 1])
        BY <1>0, <2>1, <3>2 DEF Between
      <4>3. Leads(agent_aim', agent_garbled', points[i], agent_pipe[i], points[i + 1])
        BY <1>1, <1>3, <1>3a, <4>1, <4>2, LeadsStays
      <4> QED BY <4>1, <4>3
    <3> QED BY <1>1, <3>1, <3>2
  <2>7. longer[1] = points[1] /\ longer[Len(agent_pipe') + 1] = q
    BY <1>1, <1>4, <2>3a
  <2>8. AgentAt(q)'
    BY <2>2 DEF AgentAt, Wrote, Gone
  <2>9. Between(longer)'
    BY <1>4, <2>5, <2>6, <2>7, <2>8 DEF Between
  <2> QED BY <2>4, <2>9
<1>7. Follows'
  BY <1>2, <1>6 DEF StreamInv, Follows, Wrote, Gone
<1> QED BY <1>5, <1>7 DEF StreamInv, Follows

(* A line is read: the handler goes on to the first point between.         *)
LEMMA ScanKeeps ==
  ASSUME StreamInv, Agent!ScanLine
  PROVE  StreamInv'
<1>0. PICK n, line : n = Len(agent_pipe) /\ line = Head(agent_pipe)
  OBVIOUS
<1>1. /\ agent_pipe \in Seq(Lines) /\ n \in Nat \ {0} /\ line \in Lines /\ line = agent_pipe[1]
      /\ agent_pipe' \in Seq(Lines) /\ Len(agent_pipe') = n - 1
      /\ \A i \in 1..(n - 1) : agent_pipe'[i] = agent_pipe[i + 1]
  BY <1>0 DEF StreamInv, StreamTypes, Agent!ScanLine
<1>2. StreamTypes /\ ShownTypes /\ PrintedAsShown /\ agent_invoke = "stream"
  BY DEF StreamInv, Agent!ScanLine
<1>3. UNCHANGED <<agent_agent, agent_aim, agent_open, agent_told, agent_uttered, agent_said,
                  agent_garbled, agent_long, agent_streaming>>
  BY DEF Agent!ScanLine, Agent!agentVars
<1>4. \/ agent_streaming /\ line.type = "long" /\ Agent!Finish /\ agent_invoke' = "wait"
      \/ agent_streaming /\ line.type # "long" /\ Agent!HandleEvent(line) /\ agent_invoke' = "stream"
      \/ ~agent_streaming /\ UNCHANGED Agent!handlerVars
  BY <1>0, <1>2 DEF Agent!ScanLine
<1>5. /\ ShownTypes' /\ PrintedAsShown'
      /\ agent_input' \in Agent!Aims \union Agent!NoPath
      /\ agent_toolMeta' \in [1..MaxTools -> Agent!Aims \union {Agent!Unknown}]
  <2>1. CASE Agent!Finish
    BY <1>2, <2>1, FinishTypes DEF Agent!Finish, Agent!toolVars, StreamTypes
  <2>2. CASE Agent!HandleEvent(line)
    BY <1>1, <1>2, <2>2, HandlerTypes
  <2>3. CASE UNCHANGED Agent!handlerVars
    BY <1>2, <2>3 DEF Agent!handlerVars, Agent!toolVars, Agent!shownVars, StreamTypes, ShownTypes,
                      PrintedAsShown
  <2> QED BY <1>4, <2>1, <2>2, <2>3
<1>6. Present' = Present /\ Points' = Points
  BY <1>3 DEF Present, Points
<1>7. StreamTypes'
  BY <1>1, <1>2, <1>3, <1>5, <1>6 DEF StreamTypes
<1>8. ASSUME agent_streaming, ~agent_long
      PROVE  /\ agent_invoke' = "stream"
             /\ (\E points \in [1..(Len(agent_pipe) + 1) -> Points] : Between(points))'
  <2>1. PICK points \in [1..(n + 1) -> Points] : Between(points)
    BY <1>0, <1>2, <1>8 DEF StreamInv, Follows
  <2>2. /\ points[1] \in Points /\ points[2] \in Points
        /\ HandledTo(points[1]) /\ Leads(agent_aim, agent_garbled, points[1], line, points[2])
    BY <1>0, <1>1, <2>1 DEF Between
  <2>3. line.type # "long"
    BY <2>2 DEF Leads, LeadsStart, LeadsInput, LeadsStop, LeadsUse, LeadsResult, LeadsError, LeadsText
  <2>4. HandledTo(points[2])'
    BY <1>2, <1>3, <1>4, <1>8, <2>2, <2>3, HandlerFollows
  <2>4a. PICK rest : rest = [i \in 1..n |-> points[i + 1]]
    OBVIOUS
  <2>5. rest \in [1..(Len(agent_pipe') + 1) -> Points']
    BY <1>1, <1>6, <2>1, <2>4a
  <2>6. rest[1] = points[2] /\ rest[Len(agent_pipe') + 1] = points[n + 1]
    BY <1>1, <2>4a
  <2>7. ASSUME NEW i \in 1..Len(agent_pipe')
        PROVE  Leads(agent_aim', agent_garbled', rest[i], agent_pipe'[i], rest[i + 1])
    <3>1. rest[i] = points[i + 1] /\ rest[i + 1] = points[(i + 1) + 1]
          /\ agent_pipe'[i] = agent_pipe[i + 1] /\ i + 1 \in 1..n
      BY <1>1, <2>4a
    <3> QED BY <1>0, <1>3, <2>1, <3>1 DEF Between
  <2>8. AgentAt(points[n + 1])'
    <3>1. AgentAt(points[n + 1])
      BY <1>0, <2>1 DEF Between
    <3> QED BY <1>3, <1>6, <3>1 DEF AgentAt
  <2>9. Between(rest)'
    BY <2>4, <2>6, <2>7, <2>8 DEF Between
  <2> QED BY <1>4, <1>8, <2>3, <2>5, <2>9
<1>9. Follows'
  BY <1>3, <1>8 DEF Follows
<1> QED BY <1>5, <1>7, <1>9 DEF StreamInv, Follows

LEMMA StreamInit == Agent!Init => StreamInv
<1> SUFFICES ASSUME Agent!Init PROVE StreamInv
  OBVIOUS
<1> USE DEF Agent!Init
<1>1. Agent!Silence \in Texts /\ [s \in Specs |-> "nothing"] \in SaidOf
  BY DEF Agent!Silence, Texts, SaidOf
<1>2. Present = Point([s \in Specs |-> "nothing"], Agent!Silence, 0, "never", 0)
  BY DEF Present
<1>3. Present \in Points
  BY <1>1, <1>2, PointIsOne DEF Points, Told
<1>4. StreamTypes /\ ShownTypes /\ PrintedAsShown
  <2>1. agent_toolMeta \in [1..MaxTools -> Agent!Aims \union {Agent!Unknown}]
        /\ agent_input \in Agent!Aims \union Agent!NoPath
    BY DEF Agent!NoPath
  <2>2. agent_aim \in Seq(Agent!Aims) /\ Len(agent_aim) <= MaxTools /\ agent_pipe \in Seq(Lines)
    BY Parameters DEF Agent!StreamAssumption
  <2>3. ShownTypes /\ PrintedAsShown
    BY DEF ShownTypes, PrintedAsShown, Agent!Final
  <2> QED BY <1>3, <2>1, <2>2, <2>3 DEF StreamTypes
<1>5. Between([i \in 1..1 |-> Present])
  <2>1. Shows(Present)
    BY PresentFields DEF Shows, ItemAt
  <2>2. KnowsAt(Present)
    BY PresentFields DEF KnowsAt
  <2>3. HandledTo(Present)
    BY <2>1, <2>2, PresentFields DEF HandledTo
  <2> QED BY <2>3 DEF Between, AgentAt, Gone
<1> QED BY <1>3, <1>4, <1>5 DEF StreamInv, Follows

LEMMA StreamStep == StreamInv /\ [Agent!Next]_(Agent!vars) => StreamInv'
<1> SUFFICES ASSUME StreamInv, [Agent!Next]_(Agent!vars) PROVE StreamInv'
  OBVIOUS
<1>1. StreamTypes /\ ShownTypes /\ PrintedAsShown /\ Follows
  BY DEF StreamInv, Follows
<1>2. CASE UNCHANGED <<Agent!agentVars, agent_pipe, agent_streaming, agent_invoke, Agent!handlerVars>>
  <2> USE DEF Agent!agentVars, Agent!handlerVars, Agent!toolVars, Agent!shownVars
  <2>1. Present' = Present /\ Points' = Points
    BY <1>2 DEF Present, Points
  <2>2. StreamTypes' /\ ShownTypes' /\ PrintedAsShown'
    BY <1>1, <1>2, <2>1 DEF StreamTypes, ShownTypes, PrintedAsShown
  <2>3. \A points : Between(points)' <=> Between(points)
    BY <1>2, <2>1 DEF Between, HandledTo, Shows, HoldsAt, KnowsAt, AgentAt, Exempt, Agent!Tells
  <2>4. Follows'
    BY <1>1, <1>2, <2>1, <2>3 DEF Follows, Agent!Expected, Exempt, Agent!Tells
  <2> QED BY <2>2, <2>4 DEF StreamInv, Follows
<1>3. CASE Agent!StreamLine \/ \E type \in {"junk", "long"} : Agent!Babble(type)
  <2>1. UNCHANGED <<Agent!invokeVars, Agent!handlerVars>>
    BY <1>3 DEF Agent!StreamLine, Agent!Babble, Agent!Writes, Agent!UseTool, Agent!OpenBlock,
       Agent!TellInput, Agent!CloseBlock, Agent!Error, Agent!ToolResult, Agent!Say
  <2> QED BY <1>1, <1>3, <2>1, AgentWrites, AgentKeeps
<1>4. ASSUME NEW how \in {"ok", "failed"}, Agent!AgentExit(how) PROVE StreamInv'
  <2> USE DEF Agent!handlerVars, Agent!toolVars, Agent!shownVars, Agent!invokeVars
  <2>1. /\ agent_agent \notin Gone /\ agent_agent' \in Gone
        /\ agent_said' = HeardAt(Present, Present.uttered)
        /\ UNCHANGED <<agent_aim, agent_garbled, agent_long, agent_pipe, agent_streaming, agent_invoke,
                       agent_current, agent_input, agent_toolMeta, agent_textBuf, agent_status,
                       agent_printed>>
    BY <1>4, PresentFields DEF Agent!AgentExit, Agent!Heard, HeardAt, Gone
  <2>2. StreamTypes' /\ ShownTypes' /\ PrintedAsShown'
    BY <1>1, <2>1 DEF StreamTypes, ShownTypes, PrintedAsShown
  <2>3. ASSUME NEW points, Between(points) PROVE Between(points)'
    <3>1. points[Len(agent_pipe) + 1] = Present
      BY <2>1, <2>3 DEF Between, AgentAt
    <3>2. AgentAt(points[Len(agent_pipe) + 1])'
      BY <2>1, <3>1 DEF AgentAt
    <3> QED BY <2>1, <2>3, <3>2 DEF Between, HandledTo, Shows, HoldsAt, KnowsAt, Exempt, Agent!Tells
  <2>4. Follows'
    BY <1>1, <2>1, <2>3 DEF Follows, Points
  <2> QED BY <2>2, <2>4 DEF StreamInv, Follows
<1>5. CASE Agent!ScanLine
  BY <1>5, ScanKeeps
<1>6. CASE Agent!ScanEnd
  <2>1. /\ agent_pipe = <<>> /\ agent_agent \in Gone /\ agent_invoke = "stream" /\ agent_invoke' = "wait"
        /\ UNCHANGED <<agent_agent, agent_aim, agent_open, agent_told, agent_uttered, agent_said,
                       agent_garbled, agent_long, agent_pipe, agent_streaming>>
        /\ IF agent_streaming THEN Agent!Finish ELSE UNCHANGED Agent!handlerVars
    BY <1>6 DEF Agent!ScanEnd, Agent!agentVars, Gone
  <2>2. ShownTypes' /\ PrintedAsShown' /\ UNCHANGED <<agent_input, agent_toolMeta>>
    BY <1>1, <2>1, FinishTypes DEF Agent!Finish, Agent!handlerVars, Agent!toolVars, Agent!shownVars,
                                   ShownTypes, PrintedAsShown
  <2>3. StreamTypes'
    BY <1>1, <2>1, <2>2 DEF StreamTypes
  <2>4. ASSUME agent_streaming, ~agent_long 
        PROVE  \A s \in Specs : Exempt(s) \/ agent_status'[s] = Agent!Expected(s)
    <3>1. PICK points \in [1..1 -> Points] : Between(points)
      BY <1>1, <2>1, <2>4 DEF Follows
    <3>2. points[1] \in Points /\ HandledTo(points[1]) /\ AgentAt(points[1])
      BY <2>1, <3>1 DEF Between
    <3> QED BY <2>1, <2>4, <3>2, FinishTells DEF AgentAt
  <2>5. Follows'
    BY <2>1, <2>4 DEF Follows, Agent!Expected, Exempt, Agent!Tells
  <2> QED BY <2>2, <2>3, <2>5 DEF StreamInv, Follows
<1>7. CASE Agent!Wait
  <2> USE DEF Agent!agentVars, Agent!handlerVars, Agent!toolVars, Agent!shownVars
  <2>1. agent_invoke = "wait" /\ agent_invoke' = "returned"
        /\ UNCHANGED <<Agent!agentVars, agent_pipe, agent_streaming, Agent!handlerVars>>
    BY <1>7 DEF Agent!Wait
  <2>2. Present' = Present /\ Points' = Points
    BY <2>1 DEF Present, Points
  <2>3. StreamTypes' /\ ShownTypes' /\ PrintedAsShown'
    BY <1>1, <2>1, <2>2 DEF StreamTypes, ShownTypes, PrintedAsShown
  <2>4. Follows'
    BY <1>1, <2>1 DEF Follows, Agent!Expected, Exempt, Agent!Tells
  <2> QED BY <2>3, <2>4 DEF StreamInv, Follows
<1> QED BY <1>2, <1>3, <1>4, <1>5, <1>6, <1>7 DEF Agent!Next, Agent!Agent, Agent!Invoke, Agent!Cancel,
        Agent!vars, Agent!invokeVars

LEMMA StreamSafe == Agent!Spec => []StreamInv
BY StreamInit, StreamStep, PTL DEF Agent!Spec

(* An item shows, and its last printed line says, what the stream said     *)
(* last of its spec: no result out of order, no piece of text, and no line *)
(* still in the pipe when the agent ends is lost or changes it, for any    *)
(* specs, tools, lines and pipe.  Only of the spec of a call whose start   *)
(* held some input and whose pieces followed is nothing promised; such a   *)
(* call takes nothing from the other specs.                                *)
THEOREM LastWordHolds == AllSpec => []LastWord
<1>1. StreamInv => LastWord
  <2> SUFFICES ASSUME StreamInv, agent_invoke = "returned", agent_streaming, ~agent_long,
                      NEW s \in Specs, ~Exempt(s)
               PROVE  agent_status[s] = Agent!Expected(s) /\ agent_printed[s] = Agent!Expected(s)
    BY DEF LastWord, Agent!LastWord, Exempt
  <2>1. agent_status[s] = Agent!Expected(s)
    BY DEF StreamInv, Follows
  <2>2. Agent!Expected(s) \in Agent!Final \union {"absent"}
    BY DEF Agent!Expected, Agent!Final
  <2> QED BY <2>1, <2>2 DEF StreamInv, PrintedAsShown
<1> QED BY <1>1, SideBySide, StreamSafe, PTL
=============================================================================
