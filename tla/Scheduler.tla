----------------------------- MODULE Scheduler -----------------------------
(***************************************************************************)
(* The unit scheduler of internal/scheduler: the status of every unit of   *)
(* work, the FIFO queue of ready units, and the operations Dispatch,       *)
(* Complete and Fail.  Every operation runs under Scheduler.mu, so each is *)
(* one action.  Orchestrator.tla puts the events they emit on the bus.     *)
(*                                                                         *)
(* The ready queue is kept as the log of its pushes and the set of members *)
(* that have neither been popped nor removed: ReadyQueue.queue is `pushed' *)
(* restricted to `ready' (see QueueList), and ReadyQueue.set is `ready'.   *)
(***************************************************************************)
EXTENDS Integers, FiniteSets, Sequences

CONSTANTS
  Units,           \* unit IDs
  UnitOrder,       \* the units as discovery lists them
  Graphs,          \* the depends_on relations the units may come with
  MaxParallelism   \* the parallelism the scheduler was built with

(* A depends_on relation maps a unit to the set of units it names; NewGraph *)
(* refuses one that names an unknown unit.                                 *)
ASSUME GraphsAssumption == Graphs \subseteq [Units -> SUBSET Units]

ASSUME FiniteAssumption == IsFiniteSet(Units)

ASSUME ParallelismAssumption == MaxParallelism \in Nat

(* Discovery lists every unit once.                                        *)
ASSUME OrderAssumption ==
  /\ UnitOrder \in Seq(Units)
  /\ {UnitOrder[i] : i \in DOMAIN UnitOrder} = Units
  /\ \A i, j \in DOMAIN UnitOrder : UnitOrder[i] = UnitOrder[j] => i = j

VARIABLES
  deps,        \* Graph.edges: unit -> the units it depends on
  status,      \* unit -> UnitState.Status
  blockedBy,   \* unit -> UnitState.BlockedBy, the failed units recorded
  ready,       \* ReadyQueue.set
  pushed       \* every unit pushed so far, oldest first

schedVars == <<deps, status, blockedBy, ready, pushed>>

Status == {"pending", "ready", "in_progress", "complete", "failed", "blocked"}
IsTerminal(s) == s \in {"complete", "failed", "blocked"}
IsActive(s) == s = "in_progress"

Active == {u \in Units : IsActive(status[u])}
Dependents(u) == {v \in Units : u \in deps[v]}

(* ReadyQueue.List: the queue's members, next to be popped first.          *)
QueueList == SelectSeq(pushed, LAMBDA u : u \in ready)

(* The units of S in the order discovery lists them.                       *)
InOrder(S) == SelectSeq(UnitOrder, LAMBDA u : u \in S)

-----------------------------------------------------------------------------
(* Schedule: NewGraph refuses cycles (GraphSort.tla checks that Kahn's      *)
(* algorithm accepts exactly the relations with this property); then every *)
(* unit starts pending and evaluateReady queues those without dependencies.*)

Acyclic(g) ==
  \A S \in SUBSET Units : S # {} => \E u \in S : g[u] \cap S = {}

Roots == {u \in Units : deps[u] = {}}

SchedInit ==
  /\ deps \in Graphs
  /\ Acyclic(deps)
  /\ status = [u \in Units |-> IF u \in Roots THEN "ready" ELSE "pending"]
  /\ blockedBy = [u \in Units |-> {}]
  /\ ready = Roots
  /\ pushed = InOrder(Roots)

-----------------------------------------------------------------------------
(* Dispatch: the capacity test comes first, then Pop.                      *)

AtCapacity == Cardinality(Active) >= MaxParallelism

(* ReadyQueue.Pop takes the oldest push that is still queued.              *)
IsHead(u) ==
  \E i \in DOMAIN pushed :
    /\ pushed[i] = u
    /\ u \in ready
    /\ \A j \in 1..(i - 1) : pushed[j] \notin ready

\* Mutant of AllBlockedOrComplete: forgets the active units.
NoneWaiting == \A u \in Units : status[u] \notin {"pending", "ready"}

(* allBlockedOrComplete: no unit is pending, ready or active.              *)
AllBlockedOrComplete == \A u \in Units : IsTerminal(status[u])
AllComplete == \A u \in Units : status[u] = "complete"

(* DispatchResult.Reason of a call made in this state.                     *)
DispatchReason ==
  IF AtCapacity THEN "at_capacity"
  ELSE IF ready # {} THEN "none"
  ELSE IF ~AllBlockedOrComplete THEN "no_ready_units"
  ELSE IF AllComplete THEN "all_complete"
  ELSE "all_blocked"

Dispatch(u) ==
  /\ ~AtCapacity
  /\ IsHead(u)
  /\ status' = [status EXCEPT ![u] = "in_progress"]
  /\ ready' = ready \ {u}
  /\ UNCHANGED <<deps, blockedBy, pushed>>

-----------------------------------------------------------------------------
(* Complete: a no-op on a terminal unit; otherwise the unit is complete    *)
(* and evaluateReady runs on each of its dependents.                       *)

\* Mutants of BecomesReady: one dependency is enough; only a sole one is.
WokenByAny(u) == {v \in Dependents(u) : status[v] = "pending"}
WokenByOnly(u) == {v \in WokenByAny(u) : deps[v] = {u}}

(* evaluateReady moves v: pending, and every dependency complete once u is.*)
BecomesReady(u) ==
  {v \in Dependents(u) :
    /\ status[v] = "pending"
    /\ \A d \in deps[v] : d = u \/ status[d] = "complete"}

Complete(u) ==
  IF IsTerminal(status[u])
  THEN UNCHANGED schedVars
  ELSE LET woken == BecomesReady(u)
       IN  /\ status' = [v \in Units |-> IF v = u THEN "complete"
                                           ELSE IF v \in woken THEN "ready" ELSE status[v]]
           /\ ready' = ready \union woken
           /\ pushed' = pushed \o InOrder(woken)
           /\ UNCHANGED <<deps, blockedBy>>

-----------------------------------------------------------------------------
(* Fail: a no-op on a terminal unit; otherwise the unit has failed, leaves *)
(* the ready queue, and propagateBlocked walks its dependents.             *)

(* propagateBlocked recurses from a unit it blocks, never through one that *)
(* is already terminal: what it blocks is the least set closed under       *)
(* "non-terminal dependent of f or of a member".                           *)
ClosedUnderBlocking(f, S) ==
  \A v \in Units :
    /\ v # f
    /\ ~IsTerminal(status[v])
    /\ deps[v] \cap (S \union {f}) # {}
    => v \in S

\* Mutant of BlockedByFailureOf: the recursion is missing.
DirectlyBlocked(f) == {v \in Dependents(f) : ~IsTerminal(status[v])}

BlockedByFailureOf(f) ==
  {v \in Units : \A S \in SUBSET Units : ClosedUnderBlocking(f, S) => v \in S}

Fail(u) ==
  IF IsTerminal(status[u])
  THEN UNCHANGED schedVars
  ELSE LET hit == BlockedByFailureOf(u)
       IN  /\ status' = [v \in Units |-> IF v = u THEN "failed"
                                           ELSE IF v \in hit THEN "blocked" ELSE status[v]]
           /\ blockedBy' = [v \in Units |->
                 IF v \in hit THEN blockedBy[v] \union {u} ELSE blockedBy[v]]
           /\ ready' = ready \ (hit \union {u})
           /\ UNCHANGED <<deps, pushed>>

-----------------------------------------------------------------------------
(* The scheduler under any caller that reports the outcome of units it was *)
(* handed: the orchestrator calls Complete and Fail for a unit only after  *)
(* Dispatch returned it, but may call them late, twice, or both.           *)

Started(u) == status[u] \in {"in_progress", "complete", "failed"}

SchedNext ==
  \E u \in Units :
    \/ Dispatch(u)
    \/ Started(u) /\ Complete(u)
    \/ Started(u) /\ Fail(u)

SchedSpec == SchedInit /\ [][SchedNext]_schedVars

-----------------------------------------------------------------------------
(* Properties.                                                             *)

(* No unit is queued, run, completed or failed before every unit it        *)
(* depends on is complete (evaluateReady and the order of its calls).      *)
DependenciesFirst ==
  \A u \in Units :
    status[u] \in {"ready", "in_progress", "complete", "failed"}
      => \A d \in deps[u] : status[d] = "complete"

(* A unit any of whose dependencies failed or is blocked is itself blocked *)
(* (propagateBlocked leaves none behind, however deep).                    *)
FailureContained ==
  \A u \in Units :
    (\E d \in deps[u] : status[d] \in {"failed", "blocked"})
      => status[u] = "blocked"

(* A unit still pending waits for a dependency that is not complete yet:   *)
(* no completion forgets to wake a dependent.                              *)
NoLostWakeup ==
  \A u \in Units :
    status[u] = "pending" => \E d \in deps[u] : status[d] # "complete"

(* The queue and the statuses agree: a unit is queued exactly while its    *)
(* status is ready (Complete does not touch the queue, Fail does).         *)
QueueMatchesStatus == ready = {u \in Units : status[u] = "ready"}

(* The statuses, the graph and the queue agree after every Complete and    *)
(* Fail, late, repeated or contradictory as they may come.                 *)
StatusesAgree ==
  DependenciesFirst /\ FailureContained /\ NoLostWakeup /\ QueueMatchesStatus

(* Never more units in progress than the parallelism limit.                *)
WithinParallelism == Cardinality(Active) <= MaxParallelism

(* With nothing queued and nothing in progress every unit is terminal, so  *)
(* Dispatch can only answer no_ready_units while some unit is running: the *)
(* orchestrator's polling loop always has something to wait for.           *)
NeverStuck == ready = {} /\ Active = {} => AllBlockedOrComplete

(* The scheduler's statuses as phases of the abstract specification.       *)
PhaseOf(s) ==
  IF s \in {"pending", "ready"} THEN "waiting"
  ELSE IF s = "in_progress" THEN "running"
  ELSE IF s = "complete" THEN "done"
  ELSE IF s = "blocked" THEN "skipped"
  ELSE s

Abstract == INSTANCE Execution
  WITH graph <- deps, phase <- [u \in Units |-> PhaseOf(status[u])]

(* The scheduler implements Execution: its queue, its capacity test and    *)
(* the recursion that stops at terminal units lose nothing of the promise. *)
ImplementsExecution == Abstract!ExecSpec

(* ValidTransitions of state.go.                                           *)
CanTransition(from, to) ==
  <<from, to>> \in {<<"pending", "ready">>, <<"pending", "blocked">>,
                    <<"ready", "in_progress">>, <<"ready", "blocked">>,
                    <<"in_progress", "complete">>, <<"in_progress", "failed">>}

(* Complete and Fail assign statuses without asking CanTransition, yet     *)
(* every change is one it allows; terminal statuses are final.             *)
OnlyValidTransitions ==
  [][\A u \in Units :
        status'[u] # status[u] => CanTransition(status[u], status'[u])]_schedVars
=============================================================================
