----------------------------- MODULE GraphSort -----------------------------
(***************************************************************************)
(* How the scheduler's graph is built from discovered units: all of them   *)
(* or one with what it depends on are chosen, those that are complete are  *)
(* taken out, references are checked, Kahn's algorithm orders the rest, a  *)
(* depth-first search finds the cycle to report, the levels are computed.  *)
(* IDs are numbers, to be sorted; depends_on is a list and may name a unit *)
(* twice.                                                                  *)
(***************************************************************************)
EXTENDS Naturals, FiniteSets, Sequences, SequencesExt

CONSTANTS
  Units,   \* the IDs of the discovered units
  Others,  \* IDs that depends_on may name besides
  Targets, \* what SingleUnit may name, 0 for none
  MaxDeps  \* bound: entries of depends_on

ASSUME GraphAssumption ==
  /\ Units \subseteq Nat \ {0} /\ Others \subseteq Nat \ {0} /\ IsFiniteSet(Units)
  /\ Units \intersect Others = {} /\ Targets \subseteq Units \union {0} /\ MaxDeps \in Nat

VARIABLES
  listed,    \* unit -> its depends_on as discovered
  target,    \* SingleUnit
  complete,  \* the units discovered as complete
  nodes,     \* the units of the graph
  left,      \* unit -> the entries of its depends_on that are left
  pc,        \* "filter", "sort", "levels", "dfs", or the outcome
  degree,    \* unit -> what is left of its in-degree
  queue,     \* Kahn's queue: it is kept sorted, so the least is its head
  order,     \* the result
  levels,    \* the result of GetLevels
  color,     \* unit -> "white", "gray", "black"
  path,      \* the gray units, outermost first
  cycle      \* what CycleError reports

kahnVars == <<degree, queue, order>>
dfsVars == <<color, path, cycle>>
vars == <<listed, target, complete, nodes, left, pc, kahnVars, levels, dfsVars>>

Outcome == {"missing", "cycle", "ok"}
Deps(u) == {listed[u][i] : i \in left[u]}
Occurs(d, u) == Cardinality({i \in left[u] : listed[u][i] = d})
Least(S) == CHOOSE u \in S : \A v \in S : u <= v

Init ==
  /\ listed \in [Units -> UNION {[1..n -> Units \union Others] : n \in 0..MaxDeps}]
  /\ complete \in SUBSET Units /\ target \in Targets
  /\ nodes = {} /\ left = [u \in Units |-> {}]
  /\ pc = "filter"
  /\ degree = [u \in Units |-> 0] /\ queue = {} /\ order = <<>> /\ levels = <<>>
  /\ color = [u \in Units |-> "white"] /\ path = <<>> /\ cycle = <<>>

-----------------------------------------------------------------------------
Names(u, d) == d \in Range(listed[u])
Closed(S) == \A u \in S, d \in Units : Names(u, d) => d \in S

\* Mutant of Chosen: direct dependencies only.
ChosenDirect == IF target = 0 THEN Units ELSE {u \in Units : u = target \/ Names(target, u)}

(* filterToUnit: the target and all it depends on.                         *)
Chosen ==
  IF target = 0 THEN Units
  ELSE {u \in Units : \A S \in SUBSET Units : target \in S /\ Closed(S) => u \in S}

(* filterOutCompleteUnits takes the complete units out of depends_on.      *)
Remaining(u) == {i \in 1..Len(listed[u]) : listed[u][i] \notin complete}

(* NewGraph: nodes, edges and the check of the references.                 *)
Build ==
  /\ pc = "filter"
  /\ nodes' = Chosen \ complete
  /\ left' = [u \in Units |-> IF u \in nodes' THEN Remaining(u) ELSE {}]
  /\ degree' = [u \in Units |-> Cardinality(left'[u])]
  /\ IF \E u \in nodes' : \E i \in left'[u] : listed[u][i] \notin nodes'
     THEN pc' = "missing" /\ UNCHANGED queue
     ELSE pc' = "sort" /\ queue' = {u \in nodes' : degree'[u] = 0}
  /\ UNCHANGED <<listed, target, complete, order, levels, dfsVars>>

\* Mutant of Decrement: the first dependency stands for all.
DecrementAll(d, u) == IF d \in Deps(u) THEN Cardinality(left[u]) ELSE 0

(* dependents lists a unit once for each entry of its depends_on.          *)
Decrement(d, u) == Occurs(d, u)

(* One round of TopologicalSort.                                           *)
Kahn ==
  /\ pc = "sort" /\ queue # {}
  /\ LET u == Least(queue)
         woken == {v \in nodes : degree[v] > 0 /\ degree[v] = Decrement(u, v)}
     IN  /\ order' = Append(order, u)
         /\ degree' = [v \in Units |-> degree[v] - Decrement(u, v)]
         /\ queue' = (queue \ {u}) \union woken
  /\ UNCHANGED <<listed, target, complete, nodes, left, pc, levels, dfsVars>>

(* Not every node was visited: there is a cycle.                           *)
Sort ==
  /\ pc = "sort" /\ queue = {}
  /\ pc' = IF Len(order) = Cardinality(nodes) THEN "levels" ELSE "dfs"
  /\ UNCHANGED <<listed, target, complete, nodes, left, kahnVars, levels, dfsVars>>

FitsLevel(u, earlier) == Deps(u) \subseteq earlier

(* One round of GetLevels.                                                 *)
Level ==
  /\ pc = "levels"
  /\ LET earlier == UNION Range(levels)
     IN  IF earlier = nodes
         THEN pc' = "ok" /\ UNCHANGED levels
         ELSE /\ levels' = Append(levels, {u \in nodes \ earlier : FitsLevel(u, earlier)})
              /\ UNCHANGED pc
  /\ UNCHANGED <<listed, target, complete, nodes, left, kahnVars, dfsVars>>

-----------------------------------------------------------------------------
(* findCycle, along the dependents.  A graph without a cycle would leave   *)
(* it with every node black and nothing to report.                         *)

Dependents(d) == {u \in nodes : d \in Deps(u)}
Colored(S, c) == {u \in S : color[u] = c}

(* The next outer node.                                                    *)
EnterRoot ==
  /\ pc = "dfs" /\ path = <<>> /\ Colored(nodes, "white") # {}
  /\ LET u == Least(Colored(nodes, "white"))
     IN  color' = [color EXCEPT ![u] = "gray"] /\ path' = <<u>>
  /\ UNCHANGED <<listed, target, complete, nodes, left, pc, kahnVars, levels, cycle>>

(* The dependents in order, black ones skipped: a gray one closes a cycle. *)
(* The walk up the parents stops before it, and it is appended once more.  *)
Visit ==
  /\ pc = "dfs" /\ path # <<>>
  /\ LET top == Last(path)
         open == {v \in Dependents(top) : color[v] # "black"}
         v == Least(open)
     IN  CASE open = {} ->
                /\ color' = [color EXCEPT ![top] = "black"] /\ path' = Front(path)
                /\ UNCHANGED <<pc, cycle>>
           [] open # {} /\ color[v] = "white" ->
                /\ color' = [color EXCEPT ![v] = "gray"] /\ path' = Append(path, v)
                /\ UNCHANGED <<pc, cycle>>
           [] open # {} /\ color[v] = "gray" ->
                /\ LET at == CHOOSE i \in 1..Len(path) : path[i] = v
                   IN  cycle' = SubSeq(path, at + 1, Len(path)) \o <<v, v>>
                /\ pc' = "cycle"
                /\ UNCHANGED <<color, path>>
  /\ UNCHANGED <<listed, target, complete, nodes, left, kahnVars, levels>>

Next == Build \/ Kahn \/ Sort \/ Level \/ EnterRoot \/ Visit

Spec == Init /\ [][Next]_vars

-----------------------------------------------------------------------------
(* The reference: the units to do and what their depends_on say.           *)

(* A unit that the target depends on, as a path of its own shows.          *)
Reached(u) ==
  \E n \in 1..Cardinality(Units) : \E p \in [1..n -> Units] :
    /\ p[1] = target /\ p[n] = u
    /\ \A i, k \in 1..n : p[i] = p[k] => i = k
    /\ \A i \in 1..(n - 1) : Names(p[i], p[i + 1])

Todo == {u \in Units : target = 0 \/ Reached(u)} \ complete

(* Each of them waits for one of them.                                     *)
Circular(S) == S # {} /\ \A u \in S : \E d \in S : Names(u, d)

Cyclic == \E S \in SUBSET Todo : Circular(S)
Dangling == \E u \in Todo : ~(Range(listed[u]) \subseteq Units)

(* Properties.                                                             *)

(* Schedule accepts exactly the unit sets whose references all exist and   *)
(* are acyclic, and says which of the two is wrong: what it reports is a   *)
(* cycle, and the search for it never comes back without one.  The order   *)
(* of a run rests on that: a cycle let through would wait for itself for   *)
(* ever.                                                                   *)
VerdictIsRight ==
  /\ pc \in Outcome => (pc = "missing" <=> Dangling)
  /\ pc = "dfs" => Colored(nodes, "black") # nodes
  /\ pc = "cycle" => Range(cycle) \in SUBSET Todo /\ Circular(Range(cycle))
  /\ pc = "ok" => ~Cyclic /\ ~Dangling

(* The order lists every unit once, after all it depends on; so do the     *)
(* levels, of which none is empty, and each unit of one depends on a unit  *)
(* of the level before.                                                    *)
OrderIsTopological ==
  pc = "ok" =>
    LET todo == Todo
    IN  /\ Range(order) = todo /\ Len(order) = Cardinality(todo)
        /\ \A i, k \in 1..Len(order) : Names(order[i], order[k]) => k < i
        /\ UNION Range(levels) = todo
        /\ \A n \in 1..Len(levels) : levels[n] # {} /\ \A u \in levels[n] :
             /\ \A d \in todo : Names(u, d) => \E m \in 1..(n - 1) : d \in levels[m]
             /\ n > 1 => \E d \in levels[n - 1] : Names(u, d)
=============================================================================
