------------------------------ MODULE Discovery ------------------------------
(***************************************************************************)
(* Package discovery: reading the unit directories, and the validation of  *)
(* what was read, with its depth-first search for cycles.                  *)
(*                                                                         *)
(* Discover reads for every run; ValidateUnits is called by tests only,    *)
(* and a run leaves the graph to the scheduler (GraphSort).                *)
(***************************************************************************)
EXTENDS Integers, Sequences

CONSTANTS
  Trees   \* sets of directories: functions from names to Directory

TaskStatus == {"pending", "in_progress", "complete", "failed"}
UnitStatus == TaskStatus \union {"blocked"}
Legacy == {"pr_open", "in_review", "merging"}

(* A directory: the state of its plan, what the plan says, and its task    *)
(* files in the order of their names.                                      *)
Task == [number : Int, deps : SUBSET Int, status : STRING, backpressure : BOOLEAN]
Directory ==
  [plan : {"none", "bad", "ok"}, deps : SUBSET STRING, status : STRING, tasks : Seq(Task)]

TreesAssumption == \A t \in Trees : \A n \in DOMAIN t : t[n] \in Directory

VARIABLES
  tree,      \* the directories
  phase,     \* "read", "validate", "search" or "done"
  units,     \* name -> status of the units found
  errors,    \* kinds of errors found
  state,     \* unit -> 0 unvisited, 1 visiting, 2 visited
  stack      \* the search: a sequence of [node, todo]

vars == <<tree, phase, units, errors, state, stack>>

Init ==
  /\ tree \in Trees
  /\ phase = "read" /\ units = <<>> /\ errors = {}
  /\ state = <<>> /\ stack = <<>>

-----------------------------------------------------------------------------
(* Discover.                                                               *)

(* A directory without a plan or without tasks is no unit.                 *)
IsUnit(d) == d.plan # "none" /\ d.tasks # <<>>

(* parseTaskStatus: a task that says no status is pending.                 *)
StatusOf(task) == IF task.status = "" THEN "pending" ELSE task.status

(* Frontmatter that does not parse, in the plan or a task, ends the        *)
(* discovery of all.                                                       *)
Unreadable(d) ==
  /\ IsUnit(d)
  /\ \/ d.plan = "bad" \/ d.status \notin UnitStatus \union Legacy \union {""}
     \/ \E i \in DOMAIN d.tasks : StatusOf(d.tasks[i]) \notin TaskStatus

(* inferUnitStatusFromTasks, for a plan that says no status; the states   *)
(* of former versions count as in progress.                                *)
InferredStatus(d) ==
  LET Tasks(s) == {i \in DOMAIN d.tasks : StatusOf(d.tasks[i]) = s}
  IN  IF d.status \in Legacy THEN "in_progress"
      ELSE IF d.status # "" THEN d.status
      ELSE IF Tasks("failed") # {} THEN "failed"
      ELSE IF Tasks("complete") = DOMAIN d.tasks THEN "complete"
      ELSE IF Tasks("pending") # DOMAIN d.tasks THEN "in_progress"
      ELSE "pending"

Discover ==
  /\ phase = "read"
  /\ IF \E n \in DOMAIN tree : Unreadable(tree[n])
     THEN errors' = {"unreadable"} /\ phase' = "done" /\ UNCHANGED units
     ELSE /\ units' = [n \in {n \in DOMAIN tree : IsUnit(tree[n])} |-> InferredStatus(tree[n])]
          /\ phase' = "validate" /\ UNCHANGED errors
  /\ state' = [n \in DOMAIN tree \union UNION {tree[n].deps : n \in DOMAIN tree} |-> 0]
  /\ UNCHANGED <<tree, stack>>

UnitIDs == DOMAIN units

-----------------------------------------------------------------------------
(* ValidateUnits, up to DetectCycles.                                      *)

Numbers(tasks) == {tasks[i].number : i \in DOMAIN tasks}

(* ValidateTaskSequence: duplicates, a start at 1, and gaps up to the      *)
(* number of tasks.                                                        *)
SequenceErrors(tasks) ==
  {"duplicate" : p \in {p \in (DOMAIN tasks) \X (DOMAIN tasks) :
                          p[1] < p[2] /\ tasks[p[1]].number = tasks[p[2]].number}}
  \union {"gap" : k \in {k \in 1..Len(tasks) : k \notin Numbers(tasks)}}

(* ValidateTaskDependencies: a task may not name itself or a missing task. *)
DependencyErrors(tasks) ==
  {"depends_on" : i \in {i \in DOMAIN tasks :
                           \E d \in tasks[i].deps : d = tasks[i].number \/ d \notin Numbers(tasks)}}

(* ValidateUnit: fields, numbers, dependencies.                            *)
UnitErrors(d) ==
  {"field" : i \in {i \in DOMAIN d.tasks : d.tasks[i].number = 0 \/ ~d.tasks[i].backpressure}}
  \union SequenceErrors(d.tasks) \union DependencyErrors(d.tasks)

Validate ==
  /\ phase = "validate" /\ phase' = "search"
  /\ errors' = (UNION {UnitErrors(tree[n]) : n \in UnitIDs})
                 \union {"missing" : n \in {n \in UnitIDs : ~(tree[n].deps \subseteq UnitIDs)}}
  /\ UNCHANGED <<tree, units, state, stack>>

-----------------------------------------------------------------------------
(* DetectCycles.                                                           *)

Neighbours(n) == IF n \in UnitIDs THEN tree[n].deps ELSE {}

\* Mutant of Visit: a node counts as visited from the start.
VisitAsVisited(path, n) ==
  /\ stack' = Append(path, [node |-> n, todo |-> Neighbours(n)])
  /\ state' = [state EXCEPT ![n] = 2]

Visit(path, n) ==
  /\ stack' = Append(path, [node |-> n, todo |-> Neighbours(n)])
  /\ state' = [state EXCEPT ![n] = 1]

Top == stack[Len(stack)]

(* The outer loop starts from any unit that is unvisited.                  *)
StartSearch ==
  /\ phase = "search" /\ stack = <<>>
  /\ \E n \in UnitIDs : state[n] = 0 /\ Visit(stack, n)
  /\ UNCHANGED <<tree, phase, units, errors>>

(* The next neighbour: one that is being visited closes a cycle, and the   *)
(* whole search from this start ends; the nodes on its path stay           *)
(* "visiting", and a later search that meets one of them reports a cycle.  *)
NextNeighbour ==
  /\ stack # <<>>
  /\ \E m \in Top.todo :
       LET popped == [stack EXCEPT ![Len(stack)] = [node |-> Top.node, todo |-> Top.todo \ {m}]]
       IN  \/ /\ state[m] = 1
              /\ errors' = errors \union {"cycle"}
              /\ stack' = <<>> /\ UNCHANGED state
           \/ /\ state[m] = 2
              /\ stack' = popped /\ UNCHANGED <<errors, state>>
           \/ /\ state[m] = 0
              /\ Visit(popped, m) /\ UNCHANGED errors
  /\ UNCHANGED <<tree, phase, units>>

Leave ==
  /\ stack # <<>> /\ Top.todo = {}
  /\ state' = [state EXCEPT ![Top.node] = 2]
  /\ stack' = SubSeq(stack, 1, Len(stack) - 1)
  /\ UNCHANGED <<tree, phase, units, errors>>

EndSearch ==
  /\ phase = "search" /\ stack = <<>> /\ \A n \in UnitIDs : state[n] # 0
  /\ phase' = "done"
  /\ UNCHANGED <<tree, units, errors, state, stack>>

Next == Discover \/ Validate \/ StartSearch \/ NextNeighbour \/ Leave \/ EndSearch

Spec == Init /\ [][Next]_vars

-----------------------------------------------------------------------------
(* Properties.                                                             *)

(* Each of them depends on one of them.                                    *)
Circular(S) == S # {} /\ \A n \in S : tree[n].deps \intersect S # {}

Numbered(tasks) ==
  /\ Numbers(tasks) = 1..Len(tasks)
  /\ \A i \in DOMAIN tasks :
       /\ tasks[i].backpressure
       /\ tasks[i].deps \subseteq (1..Len(tasks)) \ {tasks[i].number}

(* Validation finds no error exactly when the tasks of every unit are      *)
(* numbered 1 to n with dependencies among themselves, every unit depended *)
(* on exists, and no unit depends on itself through others.                *)
ValidationIsRight ==
  phase = "done" /\ errors # {"unreadable"} =>
    (errors = {} <=> /\ \A n \in UnitIDs : /\ Numbered(tree[n].tasks)
                                            /\ tree[n].deps \subseteq UnitIDs
                     /\ ~\E S \in SUBSET UnitIDs : Circular(S))
=============================================================================
