---------------------------- MODULE Orchestrator ----------------------------
(***************************************************************************)
(* One run of the orchestrator: the dispatch loop of                       *)
(* internal/orchestrator, the event handler it subscribes, the worker pool *)
(* of internal/worker with one goroutine per unit, the event bus between   *)
(* them, cancellation, shutdown, and Close.  The scheduler is Scheduler's: *)
(* the loop calls Dispatch and Fail, the handler Complete and Fail, each   *)
(* under the scheduler's mutex.                                            *)
(*                                                                         *)
(* The handler acts on UnitCompleted and UnitFailed only.  All other       *)
(* events take room in the channel and are otherwise alike: Other.  The    *)
(* events of one scheduler operation are put on the channel together.      *)
(***************************************************************************)
EXTENDS Scheduler, Channel, Functions

CONSTANTS
  Capacity,           \* buffer size of the event bus
  MaxEscalations,     \* MaxConcurrentEscalations
  StatusWriteMayFail, \* whether updateUnitStatus may return an error
  NoPR,               \* Config.NoPR: workers do not merge
  FeatureMode,        \* Config.FeatureMode: a pull request ends the run
  NoUnit, NoEvent, NoResult

ASSUME RunAssumption ==
  /\ Capacity \in Nat \ {0}
  /\ MaxEscalations \in Nat
  /\ {StatusWriteMayFail, NoPR, FeatureMode} \subseteq BOOLEAN
  /\ NoUnit \notin Units

VARIABLES
  ch,            \* Bus.ch
  current,       \* the event handleEvent is called with, or NoEvent
  handler,       \* where that call stands: "idle", "handle" or "escalate"
  orch,          \* where Run, then Close, stands
  cur,           \* the unit being submitted, or NoUnit
  result,        \* Run's Result, or NoResult
  ctxDone,       \* Run's context is cancelled
  poolCancelled, \* Pool.cancelCtx is cancelled
  worker,        \* unit -> where its worker goroutine stands
  mergeOwner,    \* holder of Pool.mergeMu, or NoUnit
  merged,        \* the units whose branch is in the target branch
  reported,      \* history: unit -> the outcome its worker emitted
  closing,       \* Orchestrator.closing
  escalating,    \* unit -> its escalation goroutines now running
  escalated      \* history: unit -> escalations started for it

busVars == <<ch, current, handler>>
runVars == <<orch, cur, result>>
cancelVars == <<ctxDone, poolCancelled>>
workerVars == <<worker, mergeOwner, merged, reported>>
escVars == <<closing, escalating, escalated>>
vars == <<schedVars, busVars, runVars, cancelVars, workerVars, escVars>>

Event(type, u) == [type |-> type, unit |-> u]
Other == Event("other", NoUnit)
Others(n) == [i \in 1..n |-> Other]

Emit(es) == ch' = Sent(ch, es, Capacity)

(* What Scheduler.Complete and Fail emit: UnitCompleted and a UnitQueued   *)
(* per unit woken, or UnitFailed and a UnitBlocked per unit blocked.       *)
CompleteEvents(u) ==
  IF IsTerminal(status[u]) THEN <<>>
  ELSE <<Event("completed", u)>> \o Others(Cardinality(BecomesReady(u)))

FailEvents(u) ==
  IF IsTerminal(status[u]) THEN <<>>
  ELSE <<Event("failed", u)>> \o Others(Cardinality(BlockedByFailureOf(u)))

(* A worker that holds a slot of Pool.sem, and one Pool.wg waits for.      *)
HoldsSlot(u) == worker[u] \notin {"none", "waiting", "gone"}
InPool(u) == worker[u] \notin {"none", "gone"}
SlotFree == Cardinality({u \in Units : HoldsSlot(u)}) < MaxParallelism
PoolIdle == \A u \in Units : ~InPool(u)

(* Schedule has queued the roots and emitted OrchStarted; handleEvent is   *)
(* subscribed.                                                             *)
Init ==
  /\ SchedInit
  /\ ch = Sent(<<>>, Others(Cardinality(Roots) + 1), Capacity)
  /\ current = NoEvent /\ handler = "idle"
  /\ orch = "select" /\ cur = NoUnit /\ result = NoResult
  /\ ctxDone = FALSE /\ poolCancelled = FALSE
  /\ worker = [u \in Units |-> "none"]
  /\ mergeOwner = NoUnit /\ merged = {}
  /\ reported = [u \in Units |-> "nothing"]
  /\ closing = FALSE
  /\ escalating = [u \in Units |-> 0]
  /\ escalated = [u \in Units |-> 0]

-----------------------------------------------------------------------------
(* Run: the dispatch loop.                                                 *)

(* The caller cancels the context Run was given.                           *)
CancelContext ==
  /\ ~ctxDone /\ result = NoResult
  /\ ctxDone' = TRUE
  /\ UNCHANGED <<schedVars, busVars, runVars, poolCancelled, workerVars, escVars>>

\* Mutant of Select: does not look at the context.
SelectBlindly ==
  /\ orch = "select"
  /\ orch' = "dispatch"
  /\ UNCHANGED <<schedVars, busVars, cur, result, cancelVars, workerVars, escVars>>

Select ==
  /\ orch = "select"
  /\ orch' = IF ctxDone THEN "shutdown" ELSE "dispatch"
  /\ UNCHANGED <<schedVars, busVars, cur, result, cancelVars, workerVars, escVars>>

DispatchUnit(u) ==
  /\ orch = "dispatch"
  /\ Dispatch(u)
  /\ Emit(<<Other>>)
  /\ orch' = "submit" /\ cur' = u
  /\ UNCHANGED <<current, handler, result, cancelVars, workerVars, escVars>>

(* At capacity, or nothing ready: sleep, then look again.                  *)
DispatchNothing ==
  /\ orch = "dispatch"
  /\ DispatchReason \in {"at_capacity", "no_ready_units"}
  /\ orch' = "select"
  /\ UNCHANGED <<schedVars, busVars, cur, result, cancelVars, workerVars, escVars>>

(* Pool.Submit makes the provider and the worker, registers it, and counts *)
(* it in wg; a unit registered before is an error.                         *)
Submit ==
  /\ orch = "submit"
  /\ worker[cur] = "none"
  /\ worker' = [worker EXCEPT ![cur] = "waiting"]
  /\ orch' = "acquire"
  /\ UNCHANGED <<schedVars, busVars, cur, result, cancelVars, mergeOwner, merged,
                 reported, escVars>>

\* Mutants of SubmitFails: the error is ignored; the unit is queued again.
SubmitErrorIgnored ==
  /\ orch = "submit"
  /\ orch' = "select" /\ cur' = NoUnit
  /\ UNCHANGED <<schedVars, busVars, result, cancelVars, workerVars, escVars>>

SubmitRequeues ==
  /\ orch = "submit"
  /\ status' = [status EXCEPT ![cur] = "ready"]
  /\ ready' = ready \union {cur}
  /\ orch' = "select" /\ cur' = NoUnit
  /\ UNCHANGED <<deps, blockedBy, pushed, busVars, result, cancelVars, workerVars, escVars>>

(* The duplicate, or a provider or worker that cannot be made: Run fails   *)
(* the unit itself.                                                        *)
SubmitFails ==
  /\ orch = "submit"
  /\ Fail(cur)
  /\ Emit(FailEvents(cur))
  /\ orch' = "select" /\ cur' = NoUnit
  /\ UNCHANGED <<current, handler, result, cancelVars, workerVars, escVars>>

(* The semaphore: Submit blocks Run here until a slot is free.             *)
Acquire ==
  /\ orch = "acquire" /\ SlotFree
  /\ worker' = [worker EXCEPT ![cur] = "setup"]
  /\ orch' = "select" /\ cur' = NoUnit
  /\ UNCHANGED <<schedVars, busVars, result, cancelVars, mergeOwner, merged, reported,
                 escVars>>

Counting(s) == Cardinality({u \in Units : status[u] = s})

(* buildResult counts the scheduler's statuses.                            *)
BuildResult(outcome) ==
  [outcome |-> outcome, completed |-> Counting("complete"),
   failed |-> Counting("failed"), blocked |-> Counting("blocked")]

Return(outcome) ==
  /\ result' = BuildResult(outcome)
  /\ orch' = "returned"

(* All complete: in feature mode the pull request is created first, and    *)
(* its failure is the run's.                                               *)
AllUnitsComplete ==
  /\ orch = "dispatch" /\ DispatchReason = "all_complete"
  /\ \/ Return("completed")
     \/ FeatureMode /\ ~NoPR /\ Return("pr_failed")
  /\ Emit(<<Other>>)
  /\ UNCHANGED <<schedVars, current, handler, cur, cancelVars, workerVars, escVars>>

AllUnitsBlocked ==
  /\ orch = "dispatch" /\ DispatchReason = "all_blocked"
  /\ Return("blocked")
  /\ Emit(<<Other>>)
  /\ UNCHANGED <<schedVars, current, handler, cur, cancelVars, workerVars, escVars>>

(* shutdown: cancel the workers, then wait for them.                       *)
Shutdown ==
  /\ orch = "shutdown"
  /\ poolCancelled' = TRUE
  /\ orch' = "draining"
  /\ UNCHANGED <<schedVars, busVars, cur, result, ctxDone, workerVars, escVars>>

ShutdownDone ==
  /\ orch = "draining" /\ PoolIdle
  /\ Return("cancelled")
  /\ UNCHANGED <<schedVars, busVars, cur, cancelVars, workerVars, escVars>>

(* ShutdownTimeout passes: OrchFailed, and workers left over run on.       *)
ShutdownTimesOut ==
  /\ orch = "draining"
  /\ Emit(<<Other>>)
  /\ Return("cancelled")
  /\ UNCHANGED <<schedVars, current, handler, cur, cancelVars, workerVars, escVars>>

(* Close, deferred by the caller of Run: no new escalations, stop the pool *)
(* and wait for its workers, cancel the escalations and wait for them.     *)
MarkClosing ==
  /\ orch = "returned"
  /\ closing' = TRUE
  /\ orch' = "stopping"
  /\ UNCHANGED <<schedVars, busVars, cur, result, cancelVars, workerVars, escalating,
                 escalated>>

StopPool ==
  /\ orch = "stopping"
  /\ poolCancelled' = TRUE
  /\ orch' = "stop_wait"
  /\ UNCHANGED <<schedVars, busVars, cur, result, ctxDone, workerVars, escVars>>

PoolStopped ==
  /\ orch = "stop_wait" /\ PoolIdle
  /\ orch' = "escalate_wait"
  /\ UNCHANGED <<schedVars, busVars, cur, result, cancelVars, workerVars, escVars>>

Closed ==
  /\ orch = "escalate_wait" /\ \A u \in Units : escalating[u] = 0
  /\ orch' = "closed"
  /\ UNCHANGED <<schedVars, busVars, cur, result, cancelVars, workerVars, escVars>>

Run ==
  \/ Select \/ DispatchNothing \/ Submit \/ SubmitFails \/ Acquire
  \/ \E u \in Units : DispatchUnit(u)
  \/ AllUnitsComplete \/ AllUnitsBlocked
  \/ Shutdown \/ ShutdownDone \/ ShutdownTimesOut
  \/ MarkClosing \/ StopPool \/ PoolStopped \/ Closed

-----------------------------------------------------------------------------
(* The bus goroutine and handleEvent.                                      *)

Receive ==
  /\ handler = "idle" /\ ch # <<>>
  /\ current' = Head(ch)
  /\ ch' = Tail(ch)
  /\ handler' = "handle"
  /\ UNCHANGED <<schedVars, runVars, cancelVars, workerVars, escVars>>

HandleOther ==
  /\ handler = "handle" /\ current = Other
  /\ current' = NoEvent /\ handler' = "idle"
  /\ UNCHANGED <<schedVars, ch, runVars, cancelVars, workerVars, escVars>>

HandleCompleted ==
  /\ handler = "handle" /\ current.type = "completed"
  /\ Complete(current.unit)
  /\ Emit(CompleteEvents(current.unit))
  /\ current' = NoEvent /\ handler' = "idle"
  /\ UNCHANGED <<runVars, cancelVars, workerVars, escVars>>

HandleFailed ==
  /\ handler = "handle" /\ current.type = "failed"
  /\ Fail(current.unit)
  /\ Emit(FailEvents(current.unit))
  /\ handler' = "escalate"
  /\ UNCHANGED <<current, runVars, cancelVars, workerVars, escVars>>

(* escalateSem: how many escalations run, over all units.                  *)
InFlight == SumFunction(escalating)

\* Mutant of Escalate: does not look at closing.
EscalateLate ==
  /\ handler = "escalate"
  /\ escalating' = [escalating EXCEPT ![current.unit] = @ + 1]
  /\ escalated' = [escalated EXCEPT ![current.unit] = @ + 1]
  /\ current' = NoEvent /\ handler' = "idle"
  /\ UNCHANGED <<schedVars, ch, runVars, cancelVars, workerVars, closing>>

(* Escalate asynchronously, unless closing or at the limit.                *)
Escalate ==
  /\ handler = "escalate"
  /\ IF closing \/ InFlight >= MaxEscalations
     THEN UNCHANGED <<escalating, escalated>>
     ELSE /\ escalating' = [escalating EXCEPT ![current.unit] = @ + 1]
          /\ escalated' = [escalated EXCEPT ![current.unit] = @ + 1]
  /\ current' = NoEvent /\ handler' = "idle"
  /\ UNCHANGED <<schedVars, ch, runVars, cancelVars, workerVars, closing>>

(* An escalation returns, fails, or reaches its timeout.                   *)
EscalationEnds(u) ==
  /\ escalating[u] > 0
  /\ escalating' = [escalating EXCEPT ![u] = @ - 1]
  /\ UNCHANGED <<schedVars, busVars, runVars, cancelVars, workerVars, closing, escalated>>

Bus == Receive \/ HandleOther \/ HandleCompleted \/ HandleFailed \/ Escalate

-----------------------------------------------------------------------------
(* Worker.Run.  After the pool is cancelled every git command and provider *)
(* invocation that has not ended fails.                                    *)

Goto(u, from, to) ==
  /\ worker[u] = from
  /\ worker' = [worker EXCEPT ![u] = to]

WorkerOnly == UNCHANGED <<schedVars, current, handler, runVars, cancelVars, escVars>>

SetupDone(u) ==
  /\ ~poolCancelled
  /\ Goto(u, "setup", "mark_started")
  /\ UNCHANGED <<ch, mergeOwner, merged, reported>> /\ WorkerOnly

SetupFails(u) ==
  /\ Goto(u, "setup", "failing")
  /\ UNCHANGED <<ch, mergeOwner, merged, reported>> /\ WorkerOnly

(* updateUnitStatus(in_progress), then UnitStarted.                        *)
MarkStarted(u) ==
  /\ Goto(u, "mark_started", "tasks")
  /\ Emit(<<Other>>)
  /\ UNCHANGED <<mergeOwner, merged, reported>> /\ WorkerOnly

(* Either updateUnitStatus may fail: Run returns without any event.        *)
StatusWriteFails(u) ==
  /\ StatusWriteMayFail
  /\ Goto(u, "mark_started", "exiting") \/ Goto(u, "mark_done", "exiting")
  /\ UNCHANGED <<ch, mergeOwner, merged, reported>> /\ WorkerOnly

\* Mutant of TasksDone: goes on without the merge.
TasksDoneUnmerged(u) ==
  /\ Goto(u, "tasks", "mark_done")
  /\ Emit(<<Other>>)
  /\ UNCHANGED <<mergeOwner, merged, reported>> /\ WorkerOnly

(* The task loop (and the baseline checks) end; Other stands for the       *)
(* events of the tasks.                                                    *)
TasksDone(u) ==
  /\ Goto(u, "tasks", IF NoPR THEN "mark_done" ELSE "merge_wait")
  /\ Emit(<<Other>>)
  /\ UNCHANGED <<mergeOwner, merged, reported>> /\ WorkerOnly

TasksFail(u) ==
  /\ Goto(u, "tasks", "failing")
  /\ UNCHANGED <<ch, mergeOwner, merged, reported>> /\ WorkerOnly

LockMerge(u) ==
  /\ mergeOwner = NoUnit
  /\ Goto(u, "merge_wait", "merging")
  /\ mergeOwner' = u
  /\ UNCHANGED <<ch, merged, reported>> /\ WorkerOnly

(* UnitMerge.tla opens this step up: here the branch is in the target or   *)
(* the merge has failed.                                                   *)
MergeLands(u) ==
  /\ ~poolCancelled
  /\ Goto(u, "merging", "landed")
  /\ merged' = merged \union {u}
  /\ UNCHANGED <<ch, mergeOwner, reported>> /\ WorkerOnly

(* UnitMerged is emitted before the deferred unlock.                       *)
MergeDone(u) ==
  /\ Goto(u, "landed", "mark_done")
  /\ mergeOwner' = NoUnit
  /\ Emit(<<Other>>)
  /\ UNCHANGED <<merged, reported>> /\ WorkerOnly

\* Mutant of MergeFails: keeps the lock.
MergeFailsLocked(u) ==
  /\ Goto(u, "merging", "failing")
  /\ UNCHANGED <<ch, mergeOwner, merged, reported>> /\ WorkerOnly

(* A merge may land and still be reported as failed: the command is killed *)
(* once it has moved the branch, or Claude commits it and exits badly.     *)
MergeFails(u) ==
  /\ Goto(u, "merging", "failing") \/ Goto(u, "landed", "failing")
  /\ mergeOwner' = NoUnit
  /\ UNCHANGED <<ch, merged, reported>> /\ WorkerOnly

ReportFailed(u) ==
  /\ Goto(u, "failing", "exiting")
  /\ Emit(<<Event("failed", u)>>)
  /\ reported' = [reported EXCEPT ![u] = "failed"]
  /\ UNCHANGED <<mergeOwner, merged>> /\ WorkerOnly

(* updateUnitStatus(complete), then UnitCompleted.                         *)
ReportCompleted(u) ==
  /\ Goto(u, "mark_done", "exiting")
  /\ Emit(<<Event("completed", u)>>)
  /\ reported' = [reported EXCEPT ![u] = "completed"]
  /\ UNCHANGED <<mergeOwner, merged>> /\ WorkerOnly

(* The pool's deferred function gives the slot back.                       *)
Exit(u) ==
  /\ Goto(u, "exiting", "gone")
  /\ UNCHANGED <<ch, mergeOwner, merged, reported>> /\ WorkerOnly

Worker(u) ==
  \/ SetupDone(u) \/ SetupFails(u) \/ MarkStarted(u) \/ StatusWriteFails(u)
  \/ TasksDone(u) \/ TasksFail(u)
  \/ LockMerge(u) \/ MergeLands(u) \/ MergeDone(u) \/ MergeFails(u)
  \/ ReportFailed(u) \/ ReportCompleted(u) \/ Exit(u)

Next ==
  \/ CancelContext \/ Run \/ Bus
  \/ \E u \in Units : Worker(u) \/ EscalationEnds(u)

Spec == Init /\ [][Next]_vars

(* Every goroutine goes on: subprocesses (git, the provider, the           *)
(* escalators) end, and the scheduler of Go starves none of them.  Nobody  *)
(* has to cancel.                                                          *)
FairSpec ==
  /\ Spec
  /\ WF_vars(Run) /\ WF_vars(Bus)
  /\ \A u \in Units : WF_vars(Worker(u)) /\ WF_vars(EscalationEnds(u))

-----------------------------------------------------------------------------
(* Properties.                                                             *)

WorkerState == {"none", "waiting", "setup", "mark_started", "tasks", "merge_wait",
                "merging", "landed", "mark_done", "failing", "exiting", "gone"}

(* The orchestrator keeps the scheduler's contract: the calls it makes,    *)
(* whatever is dropped, delayed or repeated, are the ones Scheduler.tla    *)
(* allows, so all that is proved there holds here.                         *)
ImplementsScheduler == SchedSpec

(* No worker starts before the work of every unit it depends on is in the  *)
(* target branch: the order survives the detour over worker, bus, handler  *)
(* and scheduler.                                                          *)
DependenciesMerged ==
  ~NoPR => \A u \in Units : worker[u] # "none" => deps[u] \subseteq merged

(* The scheduler calls a unit complete only if its worker said so and its  *)
(* work is merged, and never one whose worker said that it failed.         *)
StatusIsTrue ==
  \A u \in Units :
    /\ status[u] = "complete" => reported[u] = "completed" /\ (NoPR \/ u \in merged)
    /\ status[u] = "failed" => reported[u] # "completed"

(* A run that returns because everything is terminal returns the final     *)
(* counts, which account for every unit, and leaves no worker at work;     *)
(* nothing after the return can change them.                               *)
ResultStands ==
  result # NoResult /\ result.outcome # "cancelled" =>
    /\ result = BuildResult(result.outcome)
    /\ result.completed + result.failed + result.blocked = Cardinality(Units)
    /\ result.outcome = "blocked" <=> result.failed > 0
    /\ \A u \in Units : worker[u] \in {"none", "exiting", "gone"}

(* When Close has returned no worker and no escalation runs, and none      *)
(* starts later although the bus still delivers events.                    *)
ClosedIsQuiet ==
  orch = "closed" => PoolIdle /\ \A u \in Units : escalating[u] = 0

(* A unit in progress is being submitted, has a worker that will report    *)
(* it, or its report is on the way to the scheduler.                       *)
InProgressIsTended ==
  \A u \in Active :
    \/ u = cur
    \/ worker[u] \notin {"none", "exiting", "gone"}
    \/ handler = "handle" /\ current.unit = u
    \/ \E i \in DOMAIN ch : ch[i].unit = u

(* Only a full channel that drops the report, or a failed status write     *)
(* that suppresses it, orphans a unit: no error path of Run, Submit or a   *)
(* worker forgets one.                                                     *)
OrphanedOnlyByLoss ==
  [][InProgressIsTended /\ ~InProgressIsTended' =>
       Len(ch') = Capacity \/ \E u \in Units : StatusWriteFails(u)]_vars

(* Unless a unit is orphaned, Run returns: whatever fails, waits for the   *)
(* merge lock or for a slot, it does not poll for ever.                    *)
RunReturns == []InProgressIsTended => <>(result # NoResult)

(* Cancelling makes Run return, and Close return after it, even when the   *)
(* bus drops events and workers end without reporting.                     *)
CancelReturns == ctxDone ~> orch = "closed"

(* Run ends, by itself or when it is told to.                              *)
RunEnds == RunReturns /\ CancelReturns
=============================================================================
