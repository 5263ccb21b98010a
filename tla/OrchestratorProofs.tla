------------------------- MODULE OrchestratorProofs -------------------------
(***************************************************************************)
(* Proofs about a run of the orchestrator, for every set of units, every   *)
(* acyclic dependency relation, every channel capacity and every pattern   *)
(* of drops, worker failures, silent workers and cancellation.             *)
(***************************************************************************)
EXTENDS Orchestrator, SchedulerProofs, SequenceTheorems

EventSet == [type : {"completed", "failed", "other"}, unit : Units \union {NoUnit}]

(* What UnitCompleted and UnitFailed for u vouch for.  A failed unit was   *)
(* failed by its worker or never got one.                                  *)
CompletedOK(u) == reported[u] = "completed"
FailedOK(u) ==
  /\ Started(u)
  /\ reported[u] = "failed" \/ (worker[u] = "none" /\ cur # u)

Good(e) ==
  /\ e.type = "completed" => e.unit \in Units /\ CompletedOK(e.unit)
  /\ e.type = "failed" => e.unit \in Units /\ FailedOK(e.unit)
GoodEvents == {e \in EventSet : Good(e)}

RunTypes ==
  /\ cur \in Units \union {NoUnit}
  /\ worker \in [Units -> WorkerState]
  /\ reported \in [Units -> {"nothing", "completed", "failed"}]
  /\ merged \in SUBSET Units

(* Where the loop and the worker of a unit can be at the same time.        *)
LoopMatchesWorker ==
  /\ orch = "submit" => cur \in Units /\ worker[cur] = "none" /\ Started(cur)
  /\ orch = "acquire" => cur \in Units /\ worker[cur] = "waiting"
  /\ orch \notin {"submit", "acquire"} => cur = NoUnit

WorkerMatchesStatus ==
  \A u \in Units :
    /\ worker[u] # "none" => Started(u)
    /\ reported[u] # "nothing" => worker[u] \in {"exiting", "gone"}
    /\ worker[u] \in {"landed", "mark_done"} \/ reported[u] = "completed"
         => NoPR \/ u \in merged

StatusVouchedFor ==
  \A u \in Units :
    /\ status[u] = "complete" => CompletedOK(u)
    /\ status[u] = "failed" => FailedOK(u)

EventsVouchedFor ==
  /\ ch \in Seq(GoodEvents)
  /\ handler = "handle" => current \in GoodEvents

(* The inductive invariant: a report on its way to the scheduler is about  *)
(* a started unit and says what its worker said, because a worker reports  *)
(* once, as the last thing it does.                                        *)
RunInv ==
  /\ SchedInv
  /\ RunTypes
  /\ LoopMatchesWorker
  /\ WorkerMatchesStatus
  /\ StatusVouchedFor
  /\ EventsVouchedFor

-----------------------------------------------------------------------------
(* Sending to the channel keeps what is queued of the same kind.           *)
LEMMA SentKeepsSeq ==
  ASSUME NEW E, NEW q \in Seq(E), NEW es \in Seq(E), NEW cap \in Nat
  PROVE  Sent(q, es, cap) \in Seq(E)
<1>1. q \o es \in Seq(E) /\ Len(q \o es) = Len(q) + Len(es)
  BY ConcatProperties
<1> DEFINE n == IF Len(q) + Len(es) <= cap THEN Len(q) + Len(es) ELSE cap
<1>2. n \in 0..Len(q \o es)
  BY <1>1, LenProperties
<1>3. SubSeq(q \o es, 1, n) \in Seq(E)
  BY <1>1, <1>2
<1> QED BY <1>3 DEF Sent

LEMMA OtherIsGood == Other \in GoodEvents
  BY DEF Other, Event, GoodEvents, EventSet, Good

LEMMA OthersAreGood ==
  ASSUME NEW n \in Nat
  PROVE  Others(n) \in Seq(GoodEvents)
  BY OtherIsGood DEF Others

LEMMA OtherIsGoodNext == Other \in GoodEvents'
  BY DEF Other, Event, GoodEvents, EventSet, Good

(* A step of the scheduler that takes back no worker's report and gives no *)
(* settled unit a worker keeps every voucher, so good events stay good.    *)
LEMMA VouchersKept ==
  ASSUME RunInv, [SchedNext]_schedVars,
         \A u \in Units : reported[u] # "nothing" => reported'[u] = reported[u],
         \A u \in Units : Started(u) /\ worker[u] = "none" /\ cur # u
                          => worker'[u] = "none" /\ cur' # u
  PROVE  /\ \A u \in Units : CompletedOK(u) => CompletedOK(u)'
         /\ \A u \in Units : FailedOK(u) => FailedOK(u)'
         /\ GoodEvents \subseteq GoodEvents'
         /\ Seq(GoodEvents) \subseteq Seq(GoodEvents')
<1>1. \A u \in Units : CompletedOK(u) => CompletedOK(u)'
  BY DEF CompletedOK
<1>2. \A u \in Units : Started(u) => Started(u)'
  BY StartedIsStable DEF RunInv
<1>3. \A u \in Units : FailedOK(u) => FailedOK(u)'
  BY <1>2 DEF FailedOK
<1>4. GoodEvents \subseteq GoodEvents'
  BY <1>1, <1>3 DEF GoodEvents, Good
<1>5. Seq(GoodEvents) \subseteq Seq(GoodEvents')
  BY <1>4
<1> QED BY <1>1, <1>3, <1>4, <1>5

-----------------------------------------------------------------------------
(* Steps that touch neither the scheduler nor a worker.                    *)
LEMMA QuietStep ==
  ASSUME RunInv, UNCHANGED <<schedVars, cur, worker, reported, merged>>,
         ch' \in Seq(GoodEvents),
         handler' = "handle" => current' \in GoodEvents,
         LoopMatchesWorker'
  PROVE  RunInv'
<1>1. SchedInv'
  BY StepInv DEF RunInv
<1>2. RunTypes' /\ WorkerMatchesStatus'
  BY DEF RunInv, RunTypes, WorkerMatchesStatus, Started, schedVars
<1>3. /\ \A u \in Units : CompletedOK(u) => CompletedOK(u)'
      /\ \A u \in Units : FailedOK(u) => FailedOK(u)'
      /\ GoodEvents \subseteq GoodEvents' /\ Seq(GoodEvents) \subseteq Seq(GoodEvents')
  BY VouchersKept
<1>4. StatusVouchedFor'
  BY <1>3 DEF RunInv, StatusVouchedFor, schedVars
<1>5. EventsVouchedFor'
  BY <1>3 DEF EventsVouchedFor
<1> QED BY <1>1, <1>2, <1>4, <1>5 DEF RunInv

LEMMA EmitOther ==
  ASSUME RunInv, Emit(<<Other>>)
  PROVE  ch' \in Seq(GoodEvents)
<1>1. <<Other>> \in Seq(GoodEvents)
  BY OtherIsGood
<1> QED BY <1>1, SentKeepsSeq, RunAssumption DEF RunInv, EventsVouchedFor, Emit

(* One step of a worker that has started and not reported.                 *)
LEMMA WorkerStep ==
  ASSUME RunInv, NEW u \in Units, UNCHANGED <<schedVars, orch, cur, handler, current>>,
         worker[u] \notin {"none", "waiting"}, reported[u] = "nothing",
         NEW to \in WorkerState \ {"none", "waiting"},
         worker' = [worker EXCEPT ![u] = to],
         NEW said \in {"nothing", "completed", "failed"},
         reported' = [reported EXCEPT ![u] = said],
         said # "nothing" => to = "exiting",
         merged' \in SUBSET Units, merged \subseteq merged',
         to \in {"landed", "mark_done"} \/ said = "completed" => NoPR \/ u \in merged',
         NEW es, es \in Seq(GoodEvents'), Emit(es) \/ (ch' = ch)
  PROVE  RunInv'
<1> USE DEF RunInv
<1>1. SchedInv'
  BY StepInv
<1>2. RunTypes'
  BY DEF RunTypes
<1>3. LoopMatchesWorker'
  BY DEF LoopMatchesWorker, RunTypes, Started, schedVars
<1>4. WorkerMatchesStatus'
  BY DEF WorkerMatchesStatus, RunTypes, Started, schedVars
<1>5. /\ \A v \in Units : CompletedOK(v) => CompletedOK(v)'
      /\ \A v \in Units : FailedOK(v) => FailedOK(v)'
      /\ GoodEvents \subseteq GoodEvents' /\ Seq(GoodEvents) \subseteq Seq(GoodEvents')
  <2>1. \A v \in Units : reported[v] # "nothing" => reported'[v] = reported[v]
    BY DEF RunTypes
  <2>2. \A v \in Units : Started(v) /\ worker[v] = "none" /\ cur # v
                         => worker'[v] = "none" /\ cur' # v
    BY DEF RunTypes
  <2> QED BY <2>1, <2>2, VouchersKept
<1>6. StatusVouchedFor'
  BY <1>5 DEF StatusVouchedFor, schedVars
<1>7. EventsVouchedFor'
  <2>1. ch \in Seq(GoodEvents')
    BY <1>5 DEF EventsVouchedFor
  <2>2. Capacity \in Nat
    BY RunAssumption
  <2>3. Sent(ch, es, Capacity) \in Seq(GoodEvents')
    BY <2>1, <2>2, SentKeepsSeq
  <2>4. ch' \in Seq(GoodEvents')
    BY <2>1, <2>3 DEF Emit
  <2> QED BY <2>4, <1>5 DEF EventsVouchedFor
<1> QED BY <1>1, <1>2, <1>3, <1>4, <1>6, <1>7

-----------------------------------------------------------------------------
LEMMA RunInit == Init => RunInv
<1> SUFFICES ASSUME Init PROVE RunInv
  OBVIOUS
<1>1. SchedInv
  BY InitInv DEF Init
<1>2. Cardinality(Roots) \in Nat
  <2>1. IsFiniteSet(Roots)
    BY FiniteAssumption, FS_Subset DEF Roots
  <2> QED BY <2>1, FS_CardinalityType
<1>3. Others(Cardinality(Roots) + 1) \in Seq(GoodEvents) /\ <<>> \in Seq(GoodEvents)
  BY <1>2, OthersAreGood
<1>4. Capacity \in Nat
  BY RunAssumption
<1>5. ch \in Seq(GoodEvents)
  BY <1>3, <1>4, SentKeepsSeq DEF Init
<1>6. RunTypes /\ LoopMatchesWorker /\ WorkerMatchesStatus
  BY DEF Init, RunTypes, LoopMatchesWorker, WorkerMatchesStatus, WorkerState
<1>7. StatusVouchedFor
  BY DEF Init, SchedInit, StatusVouchedFor
<1> QED BY <1>1, <1>5, <1>6, <1>7 DEF Init, RunInv, EventsVouchedFor

(* The loop's steps that leave scheduler, pool and handler alone.          *)
LEMMA LoopQuiet ==
  ASSUME RunInv,
         \/ CancelContext \/ Select \/ DispatchNothing
         \/ AllUnitsComplete \/ AllUnitsBlocked
         \/ Shutdown \/ ShutdownDone \/ ShutdownTimesOut
         \/ MarkClosing \/ StopPool \/ PoolStopped \/ Closed
         \/ \E u \in Units : EscalationEnds(u)
  PROVE  RunInv'
<1> USE DEF vars, runVars, busVars, cancelVars, workerVars, escVars
<1>1. UNCHANGED <<schedVars, cur, worker, reported, merged, handler, current>>
  BY DEF CancelContext, Select, DispatchNothing, AllUnitsComplete, AllUnitsBlocked,
         Shutdown, ShutdownDone, ShutdownTimesOut, MarkClosing, StopPool, PoolStopped,
         Closed, EscalationEnds
<1>2. ch' = ch \/ Emit(<<Other>>)
  BY DEF CancelContext, Select, DispatchNothing, AllUnitsComplete, AllUnitsBlocked,
         Shutdown, ShutdownDone, ShutdownTimesOut, MarkClosing, StopPool, PoolStopped,
         Closed, EscalationEnds
<1>3. ch' \in Seq(GoodEvents) /\ (handler' = "handle" => current' \in GoodEvents)
  BY <1>1, <1>2, EmitOther DEF RunInv, EventsVouchedFor
<1>4. LoopMatchesWorker'
  <2>1. orch' = orch \/ (orch \notin {"submit", "acquire"} /\ orch' \notin {"submit", "acquire"})
    BY DEF CancelContext, Select, DispatchNothing, AllUnitsComplete, AllUnitsBlocked,
         Shutdown, ShutdownDone, ShutdownTimesOut, MarkClosing, StopPool, PoolStopped,
         Closed, EscalationEnds, Return
  <2> QED BY <1>1, <2>1 DEF RunInv, LoopMatchesWorker, Started, schedVars
<1> QED BY <1>1, <1>3, <1>4, QuietStep

(* The bus goroutine's steps that leave the scheduler alone.               *)
LEMMA BusQuiet ==
  ASSUME RunInv, Receive \/ HandleOther \/ Escalate
  PROVE  RunInv'
<1> USE DEF vars, runVars, busVars, cancelVars, workerVars, escVars
<1>1. UNCHANGED <<schedVars, cur, orch, worker, reported, merged>>
  BY DEF Receive, HandleOther, Escalate
<1>2. ch' \in Seq(GoodEvents) /\ (handler' = "handle" => current' \in GoodEvents)
  <2>1. CASE Receive
    <3>1. ch \in Seq(GoodEvents) /\ ch # <<>>
      BY <2>1 DEF Receive, RunInv, EventsVouchedFor
    <3>2. Head(ch) \in GoodEvents /\ Tail(ch) \in Seq(GoodEvents)
      BY <3>1
    <3> QED BY <3>2, <2>1 DEF Receive
  <2>2. CASE HandleOther
    BY <2>2 DEF HandleOther, RunInv, EventsVouchedFor
  <2>3. CASE Escalate
    BY <2>3 DEF Escalate, RunInv, EventsVouchedFor
  <2> QED BY <2>1, <2>2, <2>3
<1>3. LoopMatchesWorker'
  BY <1>1 DEF RunInv, LoopMatchesWorker, Started, schedVars
<1> QED BY <1>1, <1>2, <1>3, QuietStep

(* Every step of a worker.                                                 *)
LEMMA WorkerInv ==
  ASSUME RunInv, NEW u \in Units, Worker(u)
  PROVE  RunInv'
<1> USE DEF runVars, busVars, cancelVars, workerVars, escVars, WorkerOnly, Goto
<1>1. worker[u] \notin {"none", "waiting", "gone"} => Started(u)
  BY DEF RunInv, WorkerMatchesStatus
<1>2. worker[u] \notin {"exiting", "gone"} => reported[u] = "nothing"
  BY DEF RunInv, WorkerMatchesStatus, RunTypes
<1>3. worker[u] \in {"landed", "mark_done"} => NoPR \/ u \in merged
  BY DEF RunInv, WorkerMatchesStatus
<1>4. reported = [reported EXCEPT ![u] = reported[u]] /\ merged \in SUBSET Units
  BY DEF RunInv, RunTypes
<1>5. <<Other>> \in Seq(GoodEvents') /\ <<>> \in Seq(GoodEvents')
  BY OtherIsGoodNext
<1>6. CASE SetupDone(u) \/ SetupFails(u) \/ StatusWriteFails(u) \/ TasksFail(u)
           \/ LockMerge(u) \/ MergeFails(u)
  <2>1. PICK to \in {"mark_started", "exiting", "failing", "merging"} :
          worker' = [worker EXCEPT ![u] = to]
    BY <1>6 DEF SetupDone, SetupFails, StatusWriteFails, TasksFail, LockMerge, MergeFails
  <2>2. /\ UNCHANGED <<schedVars, orch, cur, handler, current, reported, merged, ch>>
        /\ worker[u] \notin {"none", "waiting", "exiting", "gone"}
    BY <1>6 DEF SetupDone, SetupFails, StatusWriteFails, TasksFail, LockMerge, MergeFails
  <2>3. to \in WorkerState \ {"none", "waiting"} /\ to \notin {"landed", "mark_done"}
    BY DEF WorkerState
  <2>4. reported' = [reported EXCEPT ![u] = "nothing"]
    BY <1>2, <1>4, <2>2
  <2> QED BY <1>2, <1>4, <1>5, <2>1, <2>2, <2>3, <2>4, WorkerStep
<1>7. CASE MarkStarted(u) \/ TasksDone(u) \/ MergeLands(u) \/ MergeDone(u)
  <2>1. PICK to \in {"tasks", "merge_wait", "landed", "mark_done"} :
          /\ worker' = [worker EXCEPT ![u] = to]
          /\ to \in {"landed", "mark_done"} => NoPR \/ u \in merged'
    BY <1>3, <1>7 DEF MarkStarted, TasksDone, MergeLands, MergeDone
  <2>2. /\ UNCHANGED <<schedVars, orch, cur, handler, current, reported>>
        /\ worker[u] \notin {"none", "waiting", "exiting", "gone"}
        /\ merged' \in SUBSET Units /\ merged \subseteq merged'
        /\ ch' = ch \/ Emit(<<Other>>)
    BY <1>4, <1>7 DEF MarkStarted, TasksDone, MergeLands, MergeDone
  <2>3. to \in WorkerState \ {"none", "waiting"}
    BY DEF WorkerState
  <2>4. reported' = [reported EXCEPT ![u] = "nothing"]
    BY <1>2, <1>4, <2>2
  <2> QED BY <1>2, <1>5, <2>1, <2>2, <2>3, <2>4, WorkerStep
<1>8. CASE ReportFailed(u)
  <2>1. Event("failed", u) \in GoodEvents'
    <3>1. Started(u)'
      BY <1>1, <1>8 DEF ReportFailed, Started, schedVars
    <3>2. reported'[u] = "failed"
      BY <1>8 DEF ReportFailed, RunInv, RunTypes
    <3> QED BY <3>1, <3>2 DEF Event, GoodEvents, EventSet, Good, FailedOK
  <2>2. <<Event("failed", u)>> \in Seq(GoodEvents')
    BY <2>1
  <2>3. "exiting" \in WorkerState \ {"none", "waiting"}
    BY DEF WorkerState
  <2> QED BY <1>2, <1>4, <1>8, <2>2, <2>3, WorkerStep DEF ReportFailed
<1>9. CASE ReportCompleted(u)
  <2>1. reported'[u] = "completed"
    BY <1>9 DEF ReportCompleted, RunInv, RunTypes
  <2>2. Event("completed", u) \in GoodEvents'
    BY <2>1 DEF Event, GoodEvents, EventSet, Good, CompletedOK
  <2>3. <<Event("completed", u)>> \in Seq(GoodEvents')
    BY <2>2
  <2>4. "exiting" \in WorkerState \ {"none", "waiting"}
    BY DEF WorkerState
  <2> QED BY <1>2, <1>3, <1>4, <1>9, <2>3, <2>4, WorkerStep DEF ReportCompleted
<1>10. CASE Exit(u)
  <2>1. /\ UNCHANGED <<schedVars, orch, cur, handler, current, reported, merged, ch>>
        /\ worker[u] = "exiting" /\ worker' = [worker EXCEPT ![u] = "gone"]
    BY <1>10 DEF Exit
  <2>2. SchedInv' /\ RunTypes' /\ LoopMatchesWorker' /\ WorkerMatchesStatus'
    BY <2>1, StepInv DEF RunInv, RunTypes, LoopMatchesWorker, WorkerMatchesStatus,
       Started, schedVars, WorkerState
  <2>3. /\ \A v \in Units : CompletedOK(v) => CompletedOK(v)'
        /\ \A v \in Units : FailedOK(v) => FailedOK(v)'
        /\ GoodEvents \subseteq GoodEvents' /\ Seq(GoodEvents) \subseteq Seq(GoodEvents')
    <3>1. \A v \in Units : Started(v) /\ worker[v] = "none" /\ cur # v
                           => worker'[v] = "none" /\ cur' # v
      BY <2>1 DEF RunInv, RunTypes
    <3>2. [SchedNext]_schedVars
      BY <2>1
    <3> QED BY <2>1, <3>1, <3>2, VouchersKept
  <2>4. StatusVouchedFor' /\ EventsVouchedFor'
    BY <2>1, <2>3 DEF RunInv, StatusVouchedFor, EventsVouchedFor, schedVars
  <2> QED BY <2>2, <2>4 DEF RunInv
<1> QED BY <1>6, <1>7, <1>8, <1>9, <1>10 DEF Worker

(* Submit registers the dispatched unit, Acquire starts its worker.        *)
LEMMA SubmitInv ==
  ASSUME RunInv, Submit \/ Acquire
  PROVE  RunInv'
<1> USE DEF runVars, busVars, cancelVars, workerVars, escVars
<1>1. cur \in Units /\ Started(cur)
  BY DEF Submit, Acquire, RunInv, LoopMatchesWorker, WorkerMatchesStatus
<1>2. SchedInv' /\ [SchedNext]_schedVars
  BY StepInv DEF Submit, Acquire, RunInv
<1>3. reported[cur] = "nothing"
  BY <1>1 DEF Submit, Acquire, RunInv, RunTypes, LoopMatchesWorker, WorkerMatchesStatus
<1>4. RunTypes' /\ LoopMatchesWorker'
  BY <1>1 DEF Submit, Acquire, RunInv, RunTypes, LoopMatchesWorker, WorkerState
<1>5. WorkerMatchesStatus'
  BY <1>1, <1>3 DEF Submit, Acquire, RunInv, RunTypes, WorkerMatchesStatus, Started,
     schedVars
<1>6. \A v \in Units : reported[v] # "nothing" => reported'[v] = reported[v]
  BY DEF Submit, Acquire
<1>7. \A v \in Units : Started(v) /\ worker[v] = "none" /\ cur # v
                       => worker'[v] = "none" /\ cur' # v
  BY <1>1, RunAssumption DEF Submit, Acquire, RunInv, RunTypes
<1>8. /\ \A v \in Units : CompletedOK(v) => CompletedOK(v)'
      /\ \A v \in Units : FailedOK(v) => FailedOK(v)'
      /\ GoodEvents \subseteq GoodEvents' /\ Seq(GoodEvents) \subseteq Seq(GoodEvents')
  BY <1>2, <1>6, <1>7, VouchersKept
<1>9. StatusVouchedFor' /\ EventsVouchedFor'
  BY <1>8 DEF Submit, Acquire, RunInv, StatusVouchedFor, EventsVouchedFor, schedVars
<1> QED BY <1>2, <1>4, <1>5, <1>9 DEF RunInv

(* A step of the scheduler the loop or the handler makes, with what it     *)
(* puts on the bus.                                                        *)
LEMMA SchedulerStep ==
  ASSUME RunInv, SchedNext \/ UNCHANGED schedVars, UNCHANGED workerVars,
         NEW es, es \in Seq(GoodEvents'), Emit(es),
         handler' # "handle" \/ UNCHANGED <<handler, current>>,
         LoopMatchesWorker',
         \A v \in Units : Started(v) /\ worker[v] = "none" /\ cur # v => cur' # v,
         cur' \in Units \union {NoUnit},
         \A v \in Units : status'[v] # status[v] /\ status'[v] = "complete"
                          => CompletedOK(v),
         \A v \in Units : status'[v] # status[v] /\ status'[v] = "failed"
                          => FailedOK(v)'
  PROVE  RunInv'
<1> USE DEF workerVars
<1>1. SchedInv' /\ [SchedNext]_schedVars
  BY StepInv DEF RunInv
<1>2. RunTypes'
  BY DEF RunInv, RunTypes
<1>3. \A v \in Units : Started(v) => Started(v)'
  BY <1>1, StartedIsStable DEF RunInv
<1>4. WorkerMatchesStatus'
  BY <1>3 DEF RunInv, WorkerMatchesStatus
<1>5. /\ \A v \in Units : CompletedOK(v) => CompletedOK(v)'
      /\ \A v \in Units : FailedOK(v) => FailedOK(v)'
      /\ GoodEvents \subseteq GoodEvents' /\ Seq(GoodEvents) \subseteq Seq(GoodEvents')
  BY <1>1, VouchersKept
<1>6. StatusVouchedFor'
  BY <1>5 DEF RunInv, StatusVouchedFor
<1>7. ch' \in Seq(GoodEvents')
  <2>1. ch \in Seq(GoodEvents') /\ Capacity \in Nat
    BY <1>5, RunAssumption DEF RunInv, EventsVouchedFor
  <2>2. Sent(ch, es, Capacity) \in Seq(GoodEvents')
    BY <2>1, SentKeepsSeq
  <2> QED BY <2>2 DEF Emit
<1>8. EventsVouchedFor'
  BY <1>5, <1>7 DEF RunInv, EventsVouchedFor
<1> QED BY <1>1, <1>2, <1>4, <1>6, <1>8 DEF RunInv

(* A unit's own event and the Others after it form a sequence of good      *)
(* events.                                                                 *)
LEMMA EventsGoodNext ==
  ASSUME NEW S \in SUBSET Units, NEW e \in GoodEvents'
  PROVE  <<e>> \o Others(Cardinality(S)) \in Seq(GoodEvents')
<1>1. Cardinality(S) \in Nat
  BY FiniteAssumption, FS_Subset, FS_CardinalityType
<1>2. Others(Cardinality(S)) \in Seq(GoodEvents')
  BY <1>1, OtherIsGoodNext DEF Others
<1>3. <<e>> \in Seq(GoodEvents')
  OBVIOUS
<1> QED BY <1>2, <1>3, ConcatProperties

LEMMA DispatchUnitInv ==
  ASSUME RunInv, NEW u \in Units, DispatchUnit(u)
  PROVE  RunInv'
<1> USE DEF runVars, busVars, cancelVars, escVars
<1>1. status[u] = "ready" /\ SchedNext
  BY DEF DispatchUnit, Dispatch, IsHead, RunInv, SchedInv, QueueMatchesStatus, SchedNext
<1>2. ~Started(u) /\ status' = [status EXCEPT ![u] = "in_progress"]
  BY <1>1 DEF DispatchUnit, Dispatch, Started
<1>3. worker[u] = "none" /\ Started(u)'
  BY <1>2 DEF RunInv, SchedInv, Types, WorkerMatchesStatus, Started
<1>4. LoopMatchesWorker'
  BY <1>3 DEF DispatchUnit, workerVars, LoopMatchesWorker
<1>5. <<Other>> \in Seq(GoodEvents')
  BY OtherIsGoodNext
<1>6. \A v \in Units : status'[v] # status[v] => status'[v] = "in_progress"
  BY <1>2 DEF RunInv, SchedInv, Types
<1> QED BY <1>1, <1>2, <1>4, <1>5, <1>6, SchedulerStep DEF DispatchUnit

(* Fail, called for a started unit that its worker failed or that never    *)
(* gets a worker.                                                          *)
LEMMA FailStep ==
  ASSUME RunInv, NEW u \in Units, Started(u), Fail(u),
         FailedOK(u)'
  PROVE  /\ FailEvents(u) \in Seq(GoodEvents')
         /\ \A v \in Units : status'[v] # status[v] /\ status'[v] = "complete"
                           => CompletedOK(v)
         /\ \A v \in Units : status'[v] # status[v] /\ status'[v] = "failed"
                           => FailedOK(v)'
<1>1. Event("failed", u) \in GoodEvents'
  BY DEF Event, GoodEvents, EventSet, Good
<1>2. FailEvents(u) \in Seq(GoodEvents')
  <2>1. CASE IsTerminal(status[u])
    BY <2>1 DEF FailEvents
  <2>2. CASE ~IsTerminal(status[u])
    <3>1. BlockedByFailureOf(u) \in SUBSET Units
      BY DEF BlockedByFailureOf
    <3> QED BY <2>2, <3>1, <1>1, EventsGoodNext DEF FailEvents
  <2> QED BY <2>1, <2>2
<1>3. \A v \in Units : status'[v] # status[v] => status'[v] = "blocked" \/ v = u
  BY DEF Fail, schedVars
<1>4. status'[u] = "failed" \/ status'[u] = status[u]
  BY DEF Fail, schedVars
<1> QED BY <1>2, <1>3, <1>4

LEMMA SubmitFailsInv ==
  ASSUME RunInv, SubmitFails
  PROVE  RunInv'
<1> USE DEF runVars, busVars, cancelVars, escVars
<1>1. cur \in Units /\ Started(cur) /\ worker[cur] = "none"
  BY DEF SubmitFails, RunInv, LoopMatchesWorker
<1>2. SchedNext
  BY <1>1 DEF SubmitFails, SchedNext
<1>3. PICK u \in Units : u = cur
  BY <1>1
<1>4. FailedOK(u)'
  BY <1>1, <1>2, <1>3, StartedIsStable, RunAssumption
     DEF FailedOK, SubmitFails, workerVars, RunInv
<1>5. /\ FailEvents(u) \in Seq(GoodEvents')
      /\ \A v \in Units : status'[v] # status[v] /\ status'[v] = "complete"
                        => CompletedOK(v)
      /\ \A v \in Units : status'[v] # status[v] /\ status'[v] = "failed"
                        => FailedOK(v)'
  BY <1>1, <1>3, <1>4, FailStep DEF SubmitFails
<1>6. LoopMatchesWorker' /\ \A v \in Units : cur' # v
  BY RunAssumption DEF SubmitFails, LoopMatchesWorker
<1> QED BY <1>2, <1>3, <1>5, <1>6, SchedulerStep DEF SubmitFails

LEMMA HandleFailedInv ==
  ASSUME RunInv, HandleFailed
  PROVE  RunInv'
<1> USE DEF runVars, busVars, cancelVars, escVars
<1>1. PICK u \in Units : u = current.unit /\ FailedOK(u)
  BY DEF HandleFailed, RunInv, EventsVouchedFor, GoodEvents, Good
<1>2. SchedNext
  BY <1>1 DEF HandleFailed, SchedNext, FailedOK
<1>3. FailedOK(u)'
  BY <1>1, <1>2, StartedIsStable DEF FailedOK, HandleFailed, workerVars, RunInv
<1>4. /\ FailEvents(u) \in Seq(GoodEvents')
      /\ \A v \in Units : status'[v] # status[v] /\ status'[v] = "complete"
                        => CompletedOK(v)
      /\ \A v \in Units : status'[v] # status[v] /\ status'[v] = "failed"
                        => FailedOK(v)'
  BY <1>1, <1>3, FailStep DEF HandleFailed, FailedOK
<1>5. LoopMatchesWorker' /\ cur' = cur
  BY <1>2, StartedIsStable
     DEF HandleFailed, RunInv, LoopMatchesWorker, workerVars
<1>6. cur' \in Units \union {NoUnit}
  BY <1>5 DEF RunInv, RunTypes
<1> QED BY <1>1, <1>2, <1>4, <1>5, <1>6, SchedulerStep DEF HandleFailed

LEMMA HandleCompletedInv ==
  ASSUME RunInv, HandleCompleted
  PROVE  RunInv'
<1> USE DEF runVars, busVars, cancelVars, escVars
<1>1. PICK u \in Units : u = current.unit /\ CompletedOK(u)
  BY DEF HandleCompleted, RunInv, EventsVouchedFor, GoodEvents, Good
<1>2. Started(u)
  BY <1>1 DEF RunInv, WorkerMatchesStatus, CompletedOK
<1>3. SchedNext
  BY <1>1, <1>2 DEF HandleCompleted, SchedNext
<1>4. Event("completed", u) \in GoodEvents'
  BY <1>1 DEF HandleCompleted, workerVars, Event, GoodEvents, EventSet, Good, CompletedOK
<1>5. CompleteEvents(u) \in Seq(GoodEvents')
  <2>1. CASE IsTerminal(status[u])
    BY <2>1 DEF CompleteEvents
  <2>2. CASE ~IsTerminal(status[u])
    <3>1. BecomesReady(u) \in SUBSET Units
      BY DEF BecomesReady, Dependents
    <3> QED BY <2>2, <3>1, <1>4, EventsGoodNext DEF CompleteEvents
  <2> QED BY <2>1, <2>2
<1>6. \A v \in Units : status'[v] # status[v] =>
        (status'[v] = "complete" /\ v = u) \/ status'[v] = "ready"
  BY <1>1 DEF HandleCompleted, Complete, schedVars
<1>7. LoopMatchesWorker' /\ cur' = cur
  BY <1>3, StartedIsStable
     DEF HandleCompleted, RunInv, LoopMatchesWorker, workerVars
<1>8. cur' \in Units \union {NoUnit}
  BY <1>7 DEF RunInv, RunTypes
<1> QED BY <1>1, <1>3, <1>5, <1>6, <1>7, <1>8, SchedulerStep DEF HandleCompleted

-----------------------------------------------------------------------------
LEMMA RunStepInv == RunInv /\ [Next]_vars => RunInv'
<1> SUFFICES ASSUME RunInv, [Next]_vars PROVE RunInv'
  OBVIOUS
<1>1. CASE UNCHANGED vars
  <2>1. UNCHANGED <<schedVars, orch, cur, worker, reported, merged, ch, handler, current>>
    BY <1>1 DEF vars, busVars, runVars, workerVars
  <2>2. LoopMatchesWorker'
    BY <2>1 DEF RunInv, LoopMatchesWorker, Started, schedVars
  <2> QED BY <2>1, <2>2, QuietStep DEF RunInv, EventsVouchedFor
<1>2. CASE CancelContext \/ \E u \in Units : EscalationEnds(u)
  BY <1>2, LoopQuiet
<1>3. CASE Run
  <2>1. ASSUME NEW u \in Units, DispatchUnit(u) PROVE RunInv'
    BY <2>1, DispatchUnitInv
  <2>2. CASE Submit \/ Acquire
    BY <2>2, SubmitInv
  <2>3. CASE SubmitFails
    BY <2>3, SubmitFailsInv
  <2> QED BY <1>3, <2>1, <2>2, <2>3, LoopQuiet DEF Run
<1>4. CASE Bus
  BY <1>4, BusQuiet, HandleCompletedInv, HandleFailedInv DEF Bus
<1>5. ASSUME NEW u \in Units, Worker(u) PROVE RunInv'
  BY <1>5, WorkerInv
<1> QED BY <1>1, <1>2, <1>3, <1>4, <1>5 DEF Next

(* The inductive invariant holds throughout every run.                     *)
THEOREM RunInvariance == Spec => []RunInv
<1> QED BY RunInit, RunStepInv, PTL DEF Spec

(* Every step is a step of the scheduler under its contract, or none of   *)
(* its own.                                                                *)
LEMMA StepKeepsContract ==
  ASSUME RunInv, [Next]_vars
  PROVE  [SchedNext]_schedVars
<1> SUFFICES ASSUME Next PROVE SchedNext \/ UNCHANGED schedVars
  BY DEF vars
<1>1. CASE CancelContext \/ \E u \in Units : EscalationEnds(u)
  BY <1>1 DEF CancelContext, EscalationEnds
<1>2. CASE Run
  <2>1. CASE SubmitFails
    BY <2>1 DEF SubmitFails, SchedNext, RunInv, LoopMatchesWorker
  <2>2. CASE \E u \in Units : DispatchUnit(u)
    BY <2>2 DEF DispatchUnit, SchedNext
  <2> QED BY <1>2, <2>1, <2>2
        DEF Run, Select, DispatchNothing, Submit, Acquire, AllUnitsComplete,
            AllUnitsBlocked, Shutdown, ShutdownDone, ShutdownTimesOut, MarkClosing,
            StopPool, PoolStopped, Closed
<1>3. CASE Bus
  <2>1. CASE HandleCompleted
    <3>1. current.unit \in Units /\ Started(current.unit)
      BY <2>1 DEF HandleCompleted, RunInv, EventsVouchedFor, GoodEvents, Good,
         CompletedOK, WorkerMatchesStatus
    <3> QED BY <2>1, <3>1 DEF HandleCompleted, SchedNext
  <2>2. CASE HandleFailed
    BY <2>2 DEF HandleFailed, RunInv, EventsVouchedFor, GoodEvents, Good, FailedOK,
       SchedNext
  <2> QED BY <1>3, <2>1, <2>2 DEF Bus, Receive, HandleOther, Escalate
<1>4. ASSUME NEW u \in Units, Worker(u) PROVE UNCHANGED schedVars
  BY <1>4 DEF Worker, WorkerOnly, SetupDone, SetupFails, MarkStarted, StatusWriteFails,
     TasksDone, TasksFail, LockMerge, MergeLands, MergeDone, MergeFails, ReportFailed,
     ReportCompleted, Exit
<1> QED BY <1>1, <1>2, <1>3, <1>4 DEF Next

(* Whatever is dropped, late or repeated on the bus, the orchestrator uses *)
(* the scheduler as Scheduler.tla lets its callers: every run is a         *)
(* behaviour of SchedSpec.                                                 *)
THEOREM ContractKept == Spec => ImplementsScheduler
<1>1. Init => SchedInit
  BY DEF Init
<1>2. RunInv /\ [Next]_vars => [SchedNext]_schedVars
  BY StepKeepsContract
<1> QED BY <1>1, <1>2, RunInvariance, PTL DEF Spec, SchedSpec, ImplementsScheduler

(* No worker starts before the work it depends on is in the target branch. *)
THEOREM DependenciesMergedHolds == Spec => []DependenciesMerged
<1>1. RunInv => DependenciesMerged
  <2> SUFFICES ASSUME RunInv, ~NoPR, NEW u \in Units, worker[u] # "none",
                      NEW d \in deps[u]
               PROVE  d \in merged
    BY DEF DependenciesMerged
  <2>1. d \in Units /\ status[d] = "complete"
    BY DEF RunInv, WorkerMatchesStatus, Started, SchedInv, Types, DependenciesFirst
  <2> QED BY <2>1 DEF RunInv, StatusVouchedFor, CompletedOK, WorkerMatchesStatus
<1> QED BY <1>1, RunInvariance, PTL

(* The scheduler's verdict on a unit is its worker's, and complete means   *)
(* merged.                                                                 *)
THEOREM StatusIsTrueHolds == Spec => []StatusIsTrue
<1>1. RunInv => StatusIsTrue
  <2> SUFFICES ASSUME RunInv, NEW u \in Units
               PROVE  /\ status[u] = "complete"
                            => reported[u] = "completed" /\ (NoPR \/ u \in merged)
                      /\ status[u] = "failed" => reported[u] # "completed"
    BY DEF StatusIsTrue
  <2>1. status[u] = "complete" => CompletedOK(u)
    BY DEF RunInv, StatusVouchedFor
  <2>2. status[u] = "failed" => FailedOK(u)
    BY DEF RunInv, StatusVouchedFor
  <2> QED BY <2>1, <2>2 DEF RunInv, CompletedOK, FailedOK, WorkerMatchesStatus
<1> QED BY <1>1, RunInvariance, PTL
-----------------------------------------------------------------------------
(* The end of a run.                                                       *)

Ended == {"returned", "stopping", "stop_wait", "escalate_wait", "closed"}

(* Only a failure blocks units, and no failure is taken back.              *)
BlockedHasCause ==
  (\E u \in Units : status[u] = "blocked") => \E v \in Units : status[v] = "failed"

(* A result that is not a cancelled run's was counted when every unit was  *)
(* terminal, which no late report changes.                                 *)
ResultIsFinal ==
  /\ result # NoResult => orch \in Ended
  /\ result # NoResult /\ result.outcome # "cancelled" =>
       /\ AllBlockedOrComplete
       /\ result = BuildResult(result.outcome)
       /\ result.outcome = "blocked" <=> ~AllComplete

(* Close marks before it stops, and waits for the pool before it waits for *)
(* the escalations.                                                        *)
CloseInOrder ==
  /\ orch \in {"stopping", "stop_wait", "escalate_wait", "closed"} => closing
  /\ orch \in {"escalate_wait", "closed"} => PoolIdle
  /\ orch = "closed" => \A u \in Units : escalating[u] = 0

EndInv == BlockedHasCause /\ ResultIsFinal /\ CloseInOrder

LEMMA EndInit == Init => EndInv
<1> SUFFICES ASSUME Init PROVE EndInv
  OBVIOUS
<1>1. BlockedHasCause
  BY DEF Init, SchedInit, BlockedHasCause
<1>2. ResultIsFinal /\ CloseInOrder
  BY DEF Init, ResultIsFinal, CloseInOrder
<1> QED BY <1>1, <1>2 DEF EndInv

LEMMA CauseStays ==
  ASSUME SchedInv, BlockedHasCause, [SchedNext]_schedVars
  PROVE  BlockedHasCause'
<1>1. CASE UNCHANGED schedVars
  BY <1>1 DEF schedVars, BlockedHasCause
<1>2. ASSUME NEW u \in Units, Dispatch(u) PROVE BlockedHasCause'
  <2>1. status[u] = "ready"
    BY <1>2 DEF Dispatch, IsHead, SchedInv, QueueMatchesStatus
  <2> QED BY <1>2, <2>1 DEF Dispatch, SchedInv, Types, BlockedHasCause
<1>3. ASSUME NEW u \in Units, Complete(u) PROVE BlockedHasCause'
  BY <1>3 DEF Complete, schedVars, IsTerminal, BecomesReady, BlockedHasCause
<1>4. ASSUME NEW u \in Units, Fail(u) PROVE BlockedHasCause'
  BY <1>4 DEF Fail, schedVars, BlockedHasCause
<1> QED BY <1>1, <1>2, <1>3, <1>4 DEF SchedNext
(* No call of the scheduler changes it once every unit is terminal.        *)
LEMMA TerminalStands ==
  ASSUME SchedInv, AllBlockedOrComplete, [SchedNext]_schedVars
  PROVE  UNCHANGED schedVars
<1>1. \A u \in Units : ~Dispatch(u)
  BY DEF Dispatch, IsHead, SchedInv, QueueMatchesStatus, AllBlockedOrComplete, IsTerminal
<1>2. ASSUME NEW u \in Units, Complete(u) \/ Fail(u) PROVE UNCHANGED schedVars
  BY <1>2 DEF Complete, Fail, AllBlockedOrComplete
<1> QED BY <1>1, <1>2 DEF SchedNext

LEMMA CountsStand ==
  ASSUME UNCHANGED status, NEW outcome
  PROVE  BuildResult(outcome)' = BuildResult(outcome)
<1>1. \A s : Counting(s)' = Counting(s)
  BY DEF Counting
<1> QED BY <1>1 DEF BuildResult

(* Where Run and Close set the result and move on.                         *)
LEMMA ResultMoves ==
  ASSUME [Next]_vars
  PROVE  \/ UNCHANGED result /\ (orch \in Ended => orch' \in Ended)
         \/ AllUnitsComplete \/ AllUnitsBlocked \/ ShutdownDone \/ ShutdownTimesOut
<1> USE DEF runVars
<1>1. CASE UNCHANGED vars
  BY <1>1 DEF vars
<1>2. CASE CancelContext \/ \E u \in Units : EscalationEnds(u)
  BY <1>2 DEF CancelContext, EscalationEnds
<1>3. CASE Select \/ DispatchNothing \/ Submit \/ SubmitFails \/ Acquire \/ Shutdown
           \/ (\E u \in Units : DispatchUnit(u))
  BY <1>3 DEF Select, DispatchNothing, Submit, SubmitFails, Acquire, Shutdown, DispatchUnit, Ended
<1>4. CASE MarkClosing \/ StopPool \/ PoolStopped \/ Closed
  BY <1>4 DEF MarkClosing, StopPool, PoolStopped, Closed, Ended
<1>5. CASE Bus
  BY <1>5 DEF Bus, Receive, HandleOther, HandleCompleted, HandleFailed, Escalate
<1>6. ASSUME NEW u \in Units, Worker(u) PROVE UNCHANGED <<result, orch>>
  BY <1>6 DEF Worker, WorkerOnly, SetupDone, SetupFails, MarkStarted, StatusWriteFails,
     TasksDone, TasksFail, LockMerge, MergeLands, MergeDone, MergeFails, ReportFailed,
     ReportCompleted, Exit
<1> QED BY <1>1, <1>2, <1>3, <1>4, <1>5, <1>6 DEF Next, Run

LEMMA FinalStays ==
  ASSUME RunInv, ResultIsFinal, [Next]_vars
  PROVE  ResultIsFinal'
<1>1. [SchedNext]_schedVars /\ SchedInv
  BY StepKeepsContract DEF RunInv
<1>2. CASE UNCHANGED result /\ (orch \in Ended => orch' \in Ended)
  <2>1. result' # NoResult => orch' \in Ended
    BY <1>2 DEF ResultIsFinal
  <2>2. ASSUME result' # NoResult, result'.outcome # "cancelled"
        PROVE  /\ AllBlockedOrComplete'
               /\ result' = BuildResult(result.outcome)'
               /\ result'.outcome = "blocked" <=> ~AllComplete'
    <3>1. /\ AllBlockedOrComplete /\ result = BuildResult(result.outcome)
          /\ result.outcome = "blocked" <=> ~AllComplete
      BY <1>2, <2>2 DEF ResultIsFinal
    <3>2. UNCHANGED schedVars
      BY <1>1, <3>1, TerminalStands
    <3>3. PICK outcome : outcome = result.outcome
      OBVIOUS
    <3>4. BuildResult(outcome)' = BuildResult(outcome)
      BY <3>2, CountsStand DEF schedVars
    <3>5. BuildResult(result.outcome)' = BuildResult(outcome)'
      BY <1>2, <3>3
    <3> QED BY <1>2, <3>1, <3>2, <3>3, <3>4, <3>5 DEF schedVars, AllBlockedOrComplete, AllComplete
  <2> QED BY <2>1, <2>2 DEF ResultIsFinal
<1>3. CASE ShutdownDone \/ ShutdownTimesOut
  BY <1>3 DEF ShutdownDone, ShutdownTimesOut, Return, BuildResult, ResultIsFinal, Ended
<1>4. CASE AllUnitsComplete \/ AllUnitsBlocked
  <2>1. /\ AllBlockedOrComplete /\ UNCHANGED schedVars /\ orch' = "returned"
        /\ \/ AllComplete /\ (result' = BuildResult("completed") \/ result' = BuildResult("pr_failed"))
           \/ ~AllComplete /\ result' = BuildResult("blocked")
    BY <1>4 DEF AllUnitsComplete, AllUnitsBlocked, DispatchReason, Return
  <2>2. PICK outcome \in {"completed", "pr_failed", "blocked"} :
          /\ result' = BuildResult(outcome) /\ result'.outcome = outcome
          /\ outcome = "blocked" <=> ~AllComplete
    BY <2>1 DEF BuildResult
  <2>3. BuildResult(outcome)' = BuildResult(outcome)
    BY <2>1, CountsStand DEF schedVars
  <2>4. BuildResult(result.outcome)' = BuildResult(outcome)'
    BY <2>2
  <2>5. AllBlockedOrComplete' /\ (AllComplete' <=> AllComplete)
    BY <2>1 DEF schedVars, AllBlockedOrComplete, AllComplete
  <2> QED BY <2>1, <2>2, <2>3, <2>4, <2>5 DEF ResultIsFinal, Ended
<1> QED BY <1>2, <1>3, <1>4, ResultMoves

(* A worker that has gone stays away, and nobody is submitted to a pool    *)
(* that Close has waited for.                                              *)
LEMMA CloseStays ==
  ASSUME CloseInOrder, [Next]_vars
  PROVE  CloseInOrder'
<1> USE DEF CloseInOrder, runVars, busVars, cancelVars, workerVars, escVars
<1>1. CASE UNCHANGED vars
  BY <1>1 DEF vars, PoolIdle, InPool
<1>2. CASE CancelContext
  BY <1>2 DEF CancelContext, PoolIdle, InPool
<1>3. ASSUME NEW u \in Units, EscalationEnds(u) PROVE CloseInOrder'
  <2>1. orch # "closed" /\ UNCHANGED <<orch, closing, worker>>
    BY <1>3 DEF EscalationEnds
  <2> QED BY <2>1 DEF PoolIdle, InPool
<1>4. CASE Select \/ DispatchNothing \/ Submit \/ SubmitFails \/ Acquire \/ Shutdown
           \/ AllUnitsComplete \/ AllUnitsBlocked \/ ShutdownDone \/ ShutdownTimesOut
           \/ (\E u \in Units : DispatchUnit(u))
  BY <1>4 DEF Select, DispatchNothing, Submit, SubmitFails, Acquire, Shutdown, DispatchUnit,
     AllUnitsComplete, AllUnitsBlocked, ShutdownDone, ShutdownTimesOut, Return
<1>5. CASE MarkClosing \/ StopPool \/ PoolStopped \/ Closed
  BY <1>5 DEF MarkClosing, StopPool, PoolStopped, Closed, PoolIdle, InPool
<1>6. CASE Receive \/ HandleOther \/ HandleCompleted \/ HandleFailed
  BY <1>6 DEF Receive, HandleOther, HandleCompleted, HandleFailed, PoolIdle, InPool
<1>7. CASE Escalate
  BY <1>7 DEF Escalate, PoolIdle, InPool
<1>8. ASSUME NEW u \in Units, Worker(u) PROVE CloseInOrder'
  <2>1. InPool(u) /\ UNCHANGED <<orch, closing, escalating>>
    BY <1>8 DEF Worker, WorkerOnly, SetupDone, SetupFails, MarkStarted, StatusWriteFails,
       TasksDone, TasksFail, LockMerge, MergeLands, MergeDone, MergeFails, ReportFailed,
       ReportCompleted, Exit, Goto, InPool
  <2>2. orch \notin {"escalate_wait", "closed"}
    BY <2>1 DEF PoolIdle
  <2> QED BY <2>1, <2>2
<1> QED BY <1>1, <1>2, <1>3, <1>4, <1>5, <1>6, <1>7, <1>8 DEF Next, Run, Bus

LEMMA EndSafe == Spec => []EndInv
<1>1. RunInv /\ EndInv /\ [Next]_vars => EndInv'
  BY StepKeepsContract, CauseStays, FinalStays, CloseStays DEF EndInv, RunInv
<1> QED BY <1>1, EndInit, RunInvariance, PTL DEF Spec

(* When Close has returned no worker and no escalation runs.               *)
THEOREM ClosedIsQuietHolds == Spec => []ClosedIsQuiet
<1>1. EndInv => ClosedIsQuiet
  BY DEF EndInv, CloseInOrder, ClosedIsQuiet
<1> QED BY <1>1, EndSafe, PTL

(* When every unit is terminal, the three counts account for all of them.  *)
LEMMA CountsAddUp ==
  ASSUME AllBlockedOrComplete
  PROVE  /\ Counting("complete") + Counting("failed") + Counting("blocked") = Cardinality(Units)
         /\ Counting("failed") \in Nat
         /\ Counting("failed") > 0 <=> \E u \in Units : status[u] = "failed"
<1> DEFINE C == {u \in Units : status[u] = "complete"}
           F == {u \in Units : status[u] = "failed"}
           B == {u \in Units : status[u] = "blocked"}
<1>1. IsFiniteSet(C) /\ IsFiniteSet(F) /\ IsFiniteSet(B)
  BY FiniteAssumption, FS_Subset
<1>2. Cardinality(C) \in Nat /\ Cardinality(F) \in Nat /\ Cardinality(B) \in Nat
  BY <1>1, FS_CardinalityType
<1>3. Units = (C \union F) \union B
  BY DEF AllBlockedOrComplete, IsTerminal
<1>4. C \cap F = {} /\ (C \union F) \cap B = {}
  OBVIOUS
<1>5. Cardinality(C \union F) = Cardinality(C) + Cardinality(F) /\ IsFiniteSet(C \union F)
  <2>1. Cardinality(C \union F) = Cardinality(C) + Cardinality(F) - Cardinality(C \cap F)
    BY <1>1, FS_Union
  <2>2. Cardinality(C \cap F) = 0
    BY <1>4, FS_EmptySet
  <2> HIDE DEF C, F
  <2>3. IsFiniteSet(C \union F)
    BY <1>1, FS_Union
  <2> QED BY <1>2, <2>1, <2>2, <2>3
<1>6. Cardinality(Units) = Cardinality(C) + Cardinality(F) + Cardinality(B)
  <2> HIDE DEF C, F, B
  <2>1. Cardinality((C \union F) \union B)
          = Cardinality(C \union F) + Cardinality(B) - Cardinality((C \union F) \cap B)
    BY <1>1, <1>5, FS_Union
  <2>2. Cardinality((C \union F) \cap B) = 0
    BY <1>4, FS_EmptySet
  <2> QED BY <1>2, <1>3, <1>5, <2>1, <2>2
<1>7. Cardinality(F) > 0 <=> F # {}
  <2> HIDE DEF F
  <2>1. Cardinality(F) = 0 <=> F = {}
    BY <1>1, FS_EmptySet
  <2> QED BY <1>2, <2>1
<1> QED BY <1>2, <1>6, <1>7 DEF Counting

(* The result of a run that was not cancelled is final and accounts for    *)
(* every unit, and no worker is at work any more.                          *)
THEOREM ResultStandsHolds == Spec => []ResultStands
<1>1. RunInv /\ EndInv => ResultStands
  <2> SUFFICES ASSUME RunInv, EndInv, result # NoResult, result.outcome # "cancelled"
               PROVE  /\ result = BuildResult(result.outcome)
                      /\ result.completed + result.failed + result.blocked = Cardinality(Units)
                      /\ result.outcome = "blocked" <=> result.failed > 0
                      /\ \A u \in Units : worker[u] \in {"none", "exiting", "gone"}
    BY DEF ResultStands
  <2>1. /\ AllBlockedOrComplete /\ result = BuildResult(result.outcome)
        /\ result.outcome = "blocked" <=> ~AllComplete
    BY DEF EndInv, ResultIsFinal
  <2>2. /\ result.completed = Counting("complete") /\ result.failed = Counting("failed")
        /\ result.blocked = Counting("blocked")
    BY <2>1 DEF BuildResult
  <2>3. ~AllComplete <=> \E u \in Units : status[u] = "failed"
    BY <2>1 DEF EndInv, BlockedHasCause, AllBlockedOrComplete, AllComplete, IsTerminal
  <2>4. \A u \in Units : worker[u] \in {"none", "exiting", "gone"}
    <3> SUFFICES ASSUME NEW u \in Units, worker[u] # "none" PROVE worker[u] \in {"exiting", "gone"}
      OBVIOUS
    <3>1. status[u] \in {"complete", "failed"}
      BY <2>1 DEF RunInv, WorkerMatchesStatus, Started, AllBlockedOrComplete, IsTerminal
    <3>2. reported[u] # "nothing"
      BY <3>1 DEF RunInv, StatusVouchedFor, CompletedOK, FailedOK
    <3> QED BY <3>2 DEF RunInv, WorkerMatchesStatus
  <2> QED BY <2>1, <2>2, <2>3, <2>4, CountsAddUp
<1> QED BY <1>1, EndSafe, RunInvariance, PTL
-----------------------------------------------------------------------------
(* Units in progress.                                                      *)

(* A send that does not fill the channel drops nothing.                    *)
LEMMA NothingDropped ==
  ASSUME NEW E, ch \in Seq(E), NEW es \in Seq(E), Emit(es), Len(ch') # Capacity
  PROVE  /\ \A i \in DOMAIN ch : i \in DOMAIN ch' /\ ch'[i] = ch[i]
         /\ \A j \in 1..Len(es) : \E i \in DOMAIN ch' : ch'[i] = es[j]
<1> DEFINE all == ch \o es
           n == IF Len(ch) + Len(es) <= Capacity THEN Len(ch) + Len(es) ELSE Capacity
<1>1. /\ all \in Seq(E) /\ Len(all) = Len(ch) + Len(es)
      /\ \A i \in 1..Len(ch) : all[i] = ch[i]
      /\ \A j \in 1..Len(es) : all[Len(ch) + j] = es[j]
      /\ Len(ch) \in Nat /\ Len(es) \in Nat /\ Capacity \in Nat
  BY RunAssumption
<1>2. ch' = SubSeq(all, 1, n) /\ n \in Nat /\ n <= Len(all)
  BY <1>1 DEF Emit, Sent
<1> HIDE DEF all
<1>3. Len(ch') = n /\ \A i \in 1..n : ch'[i] = all[i]
  <2> HIDE DEF n
  <2> QED BY <1>1, <1>2
<1>4. n = Len(all)
  BY <1>1, <1>3
<1>5. DOMAIN ch' = 1..Len(all)
  <2>1. SubSeq(all, 1, n) \in Seq(E)
    <3> HIDE DEF n
    <3> QED BY <1>1, <1>2
  <2>2. DOMAIN ch' = 1..Len(ch')
    BY <1>2, <2>1
  <2> QED BY <1>3, <1>4, <2>2
<1>6. \A j \in 1..Len(es) : Len(ch) + j \in 1..Len(all)
  BY <1>1
<1>7. \A i \in 1..Len(ch) : i \in 1..Len(all)
  BY <1>1
<1>8. DOMAIN ch = 1..Len(ch)
  OBVIOUS
<1> QED BY <1>1, <1>3, <1>4, <1>5, <1>6, <1>7, <1>8

LEMMA OperationEvents ==
  ASSUME NEW u \in Units
  PROVE  CompleteEvents(u) \in Seq(EventSet) /\ FailEvents(u) \in Seq(EventSet)
         /\ <<Other>> \in Seq(EventSet)
<1>1. Other \in EventSet
  BY DEF Other, Event, EventSet
<1>2. ASSUME NEW S \in SUBSET Units, NEW e \in EventSet
      PROVE  <<e>> \o Others(Cardinality(S)) \in Seq(EventSet)
  <2>1. Cardinality(S) \in Nat
    BY FiniteAssumption, FS_Subset, FS_CardinalityType
  <2>2. Others(Cardinality(S)) \in Seq(EventSet)
    BY <1>1, <2>1 DEF Others
  <2>3. <<e>> \in Seq(EventSet)
    OBVIOUS
  <2> QED BY <2>2, <2>3, ConcatProperties
<1>3. Event("completed", u) \in EventSet /\ Event("failed", u) \in EventSet
  BY DEF Event, EventSet
<1>4. BecomesReady(u) \in SUBSET Units /\ BlockedByFailureOf(u) \in SUBSET Units
  BY DEF BecomesReady, Dependents, BlockedByFailureOf
<1>5. CompleteEvents(u) \in Seq(EventSet)
  BY <1>2, <1>3, <1>4 DEF CompleteEvents
<1>6. FailEvents(u) \in Seq(EventSet)
  BY <1>2, <1>3, <1>4 DEF FailEvents
<1> QED BY <1>1, <1>5, <1>6

(* Who tends to a unit in progress.                                        *)
Tended(u) ==
  \/ u = cur
  \/ worker[u] \notin {"none", "exiting", "gone"}
  \/ handler = "handle" /\ current.unit = u
  \/ \E i \in DOMAIN ch : ch[i].unit = u

(* A unit stays tended unless the one that tends to it hands it over or    *)
(* ends it.                                                                *)
LEMMA TendedStep ==
  ASSUME RunInv, InProgressIsTended, [Next]_vars, Len(ch') # Capacity,
         ~\E u \in Units : StatusWriteFails(u)
  PROVE  InProgressIsTended'
<1> USE DEF runVars, busVars, cancelVars, workerVars, escVars
<1>1. /\ ch \in Seq(EventSet) /\ \A u \in Active : Tended(u)
      /\ worker \in [Units -> WorkerState] /\ NoUnit \notin Units
  <2>1. GoodEvents \subseteq EventSet
    BY DEF GoodEvents
  <2>2. ch \in Seq(EventSet)
    BY <2>1 DEF RunInv, EventsVouchedFor
  <2> QED BY <2>2, RunAssumption DEF RunInv, RunTypes, InProgressIsTended, Tended
<1> SUFFICES ASSUME NEW u \in Units, u \in Active' PROVE Tended(u)'
  BY DEF InProgressIsTended, Active, Tended
<1>2. ASSUME UNCHANGED <<schedVars, cur, worker, handler, current>>,
             ch' = ch \/ Emit(<<Other>>)
      PROVE  Tended(u)'
  <2>1. Tended(u)
    BY <1>1, <1>2 DEF Active, schedVars
  <2>2. \A i \in DOMAIN ch : i \in DOMAIN ch' /\ ch'[i] = ch[i]
    <3>1. CASE Emit(<<Other>>)
      BY <1>1, <3>1, OperationEvents, NothingDropped
    <3>2. CASE ch' = ch
      BY <3>2
    <3> QED BY <1>2, <3>1, <3>2
  <2> QED BY <1>2, <2>1, <2>2 DEF Tended
<1>3. CASE UNCHANGED vars
  BY <1>2, <1>3 DEF vars
<1>4. CASE CancelContext \/ Select \/ DispatchNothing \/ AllUnitsComplete \/ AllUnitsBlocked
           \/ Shutdown \/ ShutdownDone \/ ShutdownTimesOut
           \/ MarkClosing \/ StopPool \/ PoolStopped \/ Closed
           \/ (\E v \in Units : EscalationEnds(v))
  <2>1. UNCHANGED <<schedVars, cur, worker, handler, current>>
    BY <1>4 DEF CancelContext, Select, DispatchNothing, AllUnitsComplete, AllUnitsBlocked,
         Shutdown, ShutdownDone, ShutdownTimesOut, MarkClosing, StopPool, PoolStopped,
         Closed, EscalationEnds
  <2>2. ch' = ch \/ Emit(<<Other>>)
    BY <1>4 DEF CancelContext, Select, DispatchNothing, AllUnitsComplete, AllUnitsBlocked,
         Shutdown, ShutdownDone, ShutdownTimesOut, MarkClosing, StopPool, PoolStopped,
         Closed, EscalationEnds
  <2> QED BY <1>2, <2>1, <2>2
<1>5. ASSUME NEW v \in Units, DispatchUnit(v) PROVE Tended(u)'
  <2>1. CASE u = v
    BY <1>5, <2>1 DEF DispatchUnit, Tended
  <2>2. CASE u # v
    <3>1. Tended(u) /\ cur = NoUnit
      BY <1>1, <1>5, <2>2 DEF DispatchUnit, Dispatch, Active, IsActive, RunInv, SchedInv, Types,
         LoopMatchesWorker
    <3>2. \A i \in DOMAIN ch : i \in DOMAIN ch' /\ ch'[i] = ch[i]
      BY <1>1, <1>5, OperationEvents, NothingDropped DEF DispatchUnit
    <3> QED BY <1>1, <1>5, <3>1, <3>2 DEF DispatchUnit, Tended
  <2> QED BY <2>1, <2>2
<1>6. CASE Submit \/ Acquire
  <2>1. Tended(u)
    BY <1>1, <1>6 DEF Submit, Acquire, Active, schedVars
  <2>2. cur \in Units /\ worker'[cur] \in {"waiting", "setup"}
        /\ \A v \in Units : v # cur => worker'[v] = worker[v]
    BY <1>1, <1>6 DEF Submit, Acquire, RunInv, LoopMatchesWorker
  <2> QED BY <1>6, <2>1, <2>2 DEF Submit, Acquire, Tended
<1>7. CASE SubmitFails
  <2>1. cur \in Units
    BY <1>7 DEF SubmitFails, RunInv, LoopMatchesWorker
  <2>2. u # cur /\ Tended(u)
    <3>1. u # cur /\ u \in Active
      BY <1>7, <2>1 DEF SubmitFails, Fail, Active, IsActive, IsTerminal, schedVars
    <3> QED BY <1>1, <3>1
  <2>3. PICK v \in Units : v = cur
    BY <2>1
  <2>4. \A i \in DOMAIN ch : i \in DOMAIN ch' /\ ch'[i] = ch[i]
    <3>1. Emit(FailEvents(v))
      BY <1>7, <2>3 DEF SubmitFails
    <3>2. FailEvents(v) \in Seq(EventSet)
      BY OperationEvents
    <3> QED BY <1>1, <3>1, <3>2, NothingDropped
  <2> QED BY <1>7, <2>2, <2>4 DEF SubmitFails, Tended
<1>8. CASE Receive
  <2>1. Tended(u) /\ ch # <<>> /\ current' = Head(ch) /\ ch' = Tail(ch) /\ handler' = "handle"
        /\ handler = "idle" /\ UNCHANGED <<cur, worker>>
    BY <1>1, <1>8 DEF Receive, Active, schedVars
  <2>2. /\ DOMAIN ch = 1..Len(ch) /\ DOMAIN ch' = 1..(Len(ch) - 1) /\ Len(ch) \in Nat
        /\ Head(ch) = ch[1] /\ \A i \in 1..(Len(ch) - 1) : ch'[i] = ch[i + 1]
    BY <1>1, <2>1
  <2>3. ASSUME NEW i \in DOMAIN ch, ch[i].unit = u PROVE Tended(u)'
    <3>1. CASE i = 1
      BY <2>1, <2>2, <2>3, <3>1 DEF Tended
    <3>2. CASE i # 1
      <4>1. i - 1 \in DOMAIN ch' /\ ch'[i - 1] = ch[i]
        BY <2>2, <3>2
      <4> QED BY <2>3, <4>1 DEF Tended
    <3> QED BY <3>1, <3>2
  <2> QED BY <2>1, <2>3 DEF Tended
<1>9. CASE HandleOther
  <2>1. current.unit # u
    BY <1>1, <1>9 DEF HandleOther, Other, Event
  <2> QED BY <1>1, <1>9, <2>1 DEF HandleOther, Active, schedVars, Tended
<1>10. CASE Escalate
  BY <1>1, <1>10 DEF Escalate, Active, schedVars, Tended
<1>11. CASE HandleCompleted \/ HandleFailed
  <2>1. PICK v \in Units : v = current.unit
    BY <1>11 DEF HandleCompleted, HandleFailed, RunInv, EventsVouchedFor, GoodEvents, Good
  <2>2. u # v /\ u \in Active
    <3>1. Complete(v) \/ Fail(v)
      BY <1>11, <2>1 DEF HandleCompleted, HandleFailed
    <3> QED BY <3>1 DEF Complete, Fail, schedVars, Active, IsActive, IsTerminal
  <2>3. \A i \in DOMAIN ch : i \in DOMAIN ch' /\ ch'[i] = ch[i]
    <3>1. Emit(CompleteEvents(v)) \/ Emit(FailEvents(v))
      BY <1>11, <2>1 DEF HandleCompleted, HandleFailed
    <3>2. CompleteEvents(v) \in Seq(EventSet) /\ FailEvents(v) \in Seq(EventSet)
      BY OperationEvents
    <3> QED BY <1>1, <3>1, <3>2, NothingDropped
  <2>4. UNCHANGED <<cur, worker>> /\ Tended(u)
    BY <1>1, <1>11, <2>2 DEF HandleCompleted, HandleFailed
  <2> QED BY <2>1, <2>2, <2>3, <2>4 DEF Tended
<1>12. ASSUME NEW v \in Units, Worker(v) PROVE Tended(u)'
  <2>1. Tended(u) /\ UNCHANGED <<cur, handler, current>>
    BY <1>1, <1>12 DEF Worker, WorkerOnly, SetupDone, SetupFails, MarkStarted, StatusWriteFails,
       TasksDone, TasksFail, LockMerge, MergeLands, MergeDone, MergeFails, ReportFailed,
       ReportCompleted, Exit, Active, schedVars
  <2>2. CASE ReportFailed(v) \/ ReportCompleted(v)
    <3>1. PICK e \in EventSet : Emit(<<e>>) /\ e.unit = v
      BY <2>2 DEF ReportFailed, ReportCompleted, Event, EventSet
    <3>2. /\ \A i \in DOMAIN ch : i \in DOMAIN ch' /\ ch'[i] = ch[i]
          /\ \A j \in 1..Len(<<e>>) : \E i \in DOMAIN ch' : ch'[i] = <<e>>[j]
      <4>1. <<e>> \in Seq(EventSet)
        OBVIOUS
      <4> QED BY <1>1, <3>1, <4>1, NothingDropped
    <3>3. \E i \in DOMAIN ch' : ch'[i].unit = v
      BY <3>1, <3>2
    <3>4. worker' = [worker EXCEPT ![v] = "exiting"]
      BY <2>2 DEF ReportFailed, ReportCompleted, Goto
    <3> QED BY <1>1, <2>1, <3>2, <3>3, <3>4 DEF Tended
  <2>3. CASE ~(ReportFailed(v) \/ ReportCompleted(v))
    <3>1. \A i \in DOMAIN ch : i \in DOMAIN ch' /\ ch'[i] = ch[i]
      <4>1. ch' = ch \/ Emit(<<Other>>)
        BY <1>12, <2>3 DEF Worker, SetupDone, SetupFails, MarkStarted, StatusWriteFails,
           TasksDone, TasksFail, LockMerge, MergeLands, MergeDone, MergeFails, Exit
      <4>2. CASE Emit(<<Other>>)
        BY <1>1, <4>2, OperationEvents, NothingDropped
      <4> QED BY <4>1, <4>2
    <3>2. ~StatusWriteFails(v)
      OBVIOUS
    <3>3. PICK to \in WorkerState : worker' = [worker EXCEPT ![v] = to]
            /\ (to \notin {"none", "exiting", "gone"} \/ worker[v] \in {"none", "exiting", "gone"})
      BY <1>12, <2>3, <3>2 DEF Worker, SetupDone, SetupFails, MarkStarted, TasksDone, TasksFail,
         LockMerge, MergeLands, MergeDone, MergeFails, Exit, Goto, WorkerState
    <3> QED BY <1>1, <2>1, <3>1, <3>3 DEF Tended
  <2> QED BY <2>2, <2>3
<1> QED BY <1>3, <1>4, <1>5, <1>6, <1>7, <1>8, <1>9, <1>10, <1>11, <1>12 DEF Next, Run, Bus

(* Nothing but a full channel or a failed status write orphans a unit.     *)
THEOREM OrphanedOnlyByLossHolds == Spec => OrphanedOnlyByLoss
<1>1. RunInv /\ [Next]_vars =>
        [InProgressIsTended /\ ~InProgressIsTended' =>
           Len(ch') = Capacity \/ \E u \in Units : StatusWriteFails(u)]_vars
  BY TendedStep
<1> QED BY <1>1, RunInvariance, PTL DEF Spec, OrphanedOnlyByLoss
=============================================================================
