----------------------------- MODULE Execution -----------------------------
(***************************************************************************)
(* What the scheduler promises its callers, with no queue, no capacity and *)
(* no events: units run in dependency order, each at most once, and a      *)
(* failure skips exactly the waiting units that depend on it, directly or  *)
(* through others.  Scheduler.tla implements it (SchedulerProofs).         *)
(***************************************************************************)
CONSTANT Units

VARIABLES
  graph,   \* unit -> the units it depends on
  phase    \* unit -> where it is in its life

execVars == <<graph, phase>>

(* The units u depends on, directly or through others: the members of      *)
(* every set that holds u's dependencies and those of its own members.     *)
AncestorsOf(g, u) ==
  {a \in Units : \A S \in SUBSET Units :
      (\A v \in S \union {u} : g[v] \subseteq S) => a \in S}

ExecInit == phase = [u \in Units |-> "waiting"]

Start(u) ==
  /\ phase[u] = "waiting"
  /\ \A d \in graph[u] : phase[d] = "done"
  /\ phase' = [phase EXCEPT ![u] = "running"]

Finish(u) ==
  /\ phase[u] = "running"
  /\ phase' = [phase EXCEPT ![u] = "done"]

FailAndSkip(u) ==
  /\ phase[u] = "running"
  /\ phase' = [v \in Units |->
        IF v = u THEN "failed"
        ELSE IF phase[v] = "waiting" /\ u \in AncestorsOf(graph, v) THEN "skipped"
        ELSE phase[v]]

ExecNext ==
  /\ graph' = graph
  /\ \E u \in Units : Start(u) \/ Finish(u) \/ FailAndSkip(u)

ExecSpec == ExecInit /\ [][ExecNext]_execVars
=============================================================================
