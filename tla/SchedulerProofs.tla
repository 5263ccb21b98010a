--------------------------- MODULE SchedulerProofs ---------------------------
(***************************************************************************)
(* Proofs about Scheduler for every set of units, every acyclic dependency *)
(* relation and every parallelism limit.                                   *)
(***************************************************************************)
EXTENDS Scheduler, FiniteSetTheorems, TLAPS

(* The part of the type invariant the safety argument needs.               *)
Types ==
  /\ deps \in [Units -> SUBSET Units]
  /\ status \in [Units -> Status]
  /\ blockedBy \in [Units -> SUBSET Units]
  /\ ready \in SUBSET Units

(* The inductive invariant.  FailureContained is not inductive without     *)
(* DependenciesFirst (a failed unit's dependents must still be waiting),   *)
(* and DependenciesFirst is not without QueueMatchesStatus (what Dispatch  *)
(* pops must be ready).                                                    *)
SchedInv ==
  /\ Types
  /\ QueueMatchesStatus
  /\ DependenciesFirst
  /\ FailureContained
  /\ NoLostWakeup
  /\ WithinParallelism
  /\ Acyclic(deps)

-----------------------------------------------------------------------------
(* The set propagateBlocked blocks is itself closed: it blocks every       *)
(* non-terminal dependent of the failed unit and of what it blocks.        *)
LEMMA BlockingIsClosed ==
  ASSUME NEW f \in Units, Types
  PROVE  ClosedUnderBlocking(f, BlockedByFailureOf(f))
<1> DEFINE B == BlockedByFailureOf(f)
<1>1. SUFFICES ASSUME NEW v \in Units, v # f, ~IsTerminal(status[v]),
                      deps[v] \cap (B \union {f}) # {},
                      NEW S \in SUBSET Units, ClosedUnderBlocking(f, S)
               PROVE  v \in S
  BY DEF ClosedUnderBlocking, BlockedByFailureOf
<1>2. B \subseteq S
  BY <1>1 DEF BlockedByFailureOf
<1>3. deps[v] \cap (S \union {f}) # {}
  BY <1>1, <1>2
<1> QED BY <1>1, <1>3 DEF ClosedUnderBlocking

(* It blocks nothing else: only non-terminal units, never the failed one.  *)
LEMMA BlockingHitsWaiting ==
  ASSUME NEW f \in Units, Types, NEW v \in BlockedByFailureOf(f)
  PROVE  v \in Units /\ v # f /\ ~IsTerminal(status[v])
<1> DEFINE W == {u \in Units : u # f /\ ~IsTerminal(status[u])}
<1>1. W \in SUBSET Units /\ ClosedUnderBlocking(f, W)
  BY DEF ClosedUnderBlocking
<1> QED BY <1>1 DEF BlockedByFailureOf

(* It blocks only units that wait for a unit that is not complete: no      *)
(* queued or running unit is hit.                                          *)
LEMMA BlockingHitsPending ==
  ASSUME NEW f \in Units, SchedInv, status[f] # "complete",
         NEW v \in BlockedByFailureOf(f)
  PROVE  status[v] = "pending"
<1> DEFINE P == {u \in Units : u # f /\ status[u] = "pending"}
<1>1. ClosedUnderBlocking(f, P)
  <2>1. SUFFICES ASSUME NEW u \in Units, u # f, ~IsTerminal(status[u]),
                        deps[u] \cap (P \union {f}) # {}
                 PROVE  status[u] = "pending"
    BY DEF ClosedUnderBlocking
  <2>2. PICK x \in deps[u] : x \in P \union {f}
    BY <2>1
  <2>3. x \in Units /\ status[x] # "complete"
    BY <2>2, <2>1 DEF SchedInv, Types
  <2>4. status[u] \in Status
    BY DEF SchedInv, Types
  <2> QED BY <2>1, <2>2, <2>3, <2>4
          DEF SchedInv, DependenciesFirst, Status, IsTerminal
<1>2. P \in SUBSET Units
  OBVIOUS
<1> QED BY <1>1, <1>2 DEF BlockedByFailureOf

-----------------------------------------------------------------------------
(* What a step can do to the set of active units.                          *)
LEMMA ActiveFinite ==
  IsFiniteSet(Active) /\ Cardinality(Active) \in Nat
<1>1. IsFiniteSet(Active)
  BY FiniteAssumption, FS_Subset DEF Active
<1> QED BY <1>1, FS_CardinalityType

(* Dropping units from the active ones keeps the parallelism bound.        *)
LEMMA FewerActive ==
  ASSUME WithinParallelism, Active' \subseteq Active
  PROVE  WithinParallelism'
<1>1. IsFiniteSet(Active) /\ Cardinality(Active) \in Nat
  BY ActiveFinite
<1>2. Cardinality(Active') <= Cardinality(Active) /\ Cardinality(Active') \in Nat
  BY <1>1, FS_Subset, FS_CardinalityType
<1> QED BY <1>1, <1>2, ParallelismAssumption DEF WithinParallelism

-----------------------------------------------------------------------------
LEMMA InitInv == SchedInit => SchedInv
<1> SUFFICES ASSUME SchedInit PROVE SchedInv
  OBVIOUS
<1>1. Types
  BY GraphsAssumption DEF SchedInit, Types, Roots, Status
<1>2. Active = {}
  BY DEF SchedInit, Active, IsActive
<1>3. WithinParallelism
  BY <1>2, FS_EmptySet, ParallelismAssumption DEF WithinParallelism
<1>4. QueueMatchesStatus /\ DependenciesFirst /\ FailureContained /\ NoLostWakeup
  BY <1>1 DEF SchedInit, Types, Roots, QueueMatchesStatus, DependenciesFirst,
              FailureContained, NoLostWakeup
<1> QED BY <1>1, <1>3, <1>4 DEF SchedInv, SchedInit

(* Dispatch preserves the invariant.                                       *)
LEMMA DispatchInv ==
  ASSUME SchedInv, NEW u \in Units, Dispatch(u)
  PROVE  SchedInv'
<1>1. status[u] = "ready" /\ u \in ready
  BY DEF Dispatch, IsHead, SchedInv, QueueMatchesStatus
<1>2. Types'
  BY DEF Dispatch, SchedInv, Types, Status
<1>3. QueueMatchesStatus'
  BY <1>1 DEF Dispatch, SchedInv, Types, QueueMatchesStatus
<1>4. DependenciesFirst' /\ FailureContained' /\ NoLostWakeup'
  BY <1>1 DEF Dispatch, SchedInv, Types, DependenciesFirst, FailureContained,
              NoLostWakeup
<1>5. WithinParallelism'
  <2>1. Active' = Active \union {u} /\ u \notin Active
    BY <1>1 DEF Dispatch, SchedInv, Types, Active, IsActive
  <2>2. Cardinality(Active') = Cardinality(Active) + 1
    BY <2>1, ActiveFinite, FS_AddElement
  <2> QED BY <2>2, ActiveFinite, ParallelismAssumption
          DEF Dispatch, AtCapacity, WithinParallelism
<1>6. Acyclic(deps)'
  BY DEF Dispatch, SchedInv, Acyclic
<1> QED BY <1>2, <1>3, <1>4, <1>5, <1>6 DEF SchedInv

(* Complete preserves the invariant, whatever started unit it is called for.*)
LEMMA CompleteInv ==
  ASSUME SchedInv, NEW u \in Units, status[u] = "in_progress", Complete(u)
  PROVE  SchedInv'
<1> DEFINE woken == BecomesReady(u)
<1>1. /\ status' = [v \in Units |-> IF v = u THEN "complete"
                                     ELSE IF v \in woken THEN "ready" ELSE status[v]]
      /\ ready' = ready \union woken
      /\ deps' = deps /\ blockedBy' = blockedBy
  BY DEF Complete, IsTerminal
<1>2. \A v \in woken : v \in Units /\ v # u /\ status[v] = "pending"
  BY DEF BecomesReady, Dependents
<1>3. /\ status'[u] = "complete"
      /\ \A v \in woken : status'[v] = "ready"
      /\ \A v \in Units : v # u /\ v \notin woken => status'[v] = status[v]
  BY <1>1, <1>2
<1>4. Types'
  BY <1>1, <1>2 DEF SchedInv, Types, Status
<1>5. QueueMatchesStatus'
  BY <1>1, <1>2, <1>3 DEF SchedInv, QueueMatchesStatus
<1>6. DependenciesFirst'
  <2>1. ASSUME NEW v \in Units, NEW x \in deps[v],
               status'[v] \in {"ready", "in_progress", "complete", "failed"}
        PROVE  status'[x] = "complete"
    <3>0. x \in Units
      BY DEF SchedInv, Types
    <3>1. CASE v \in woken
      BY <3>0, <3>1, <1>2, <1>3 DEF BecomesReady
    <3>2. CASE v \notin woken
      <4>1. status[x] = "complete"
        BY <2>1, <3>2, <1>3 DEF SchedInv, DependenciesFirst
      <4> QED BY <3>0, <4>1, <1>2, <1>3
    <3> QED BY <3>1, <3>2
  <2> QED BY <2>1, <1>1 DEF DependenciesFirst
<1>7. FailureContained'
  <2>1. ASSUME NEW v \in Units, NEW x \in deps[v],
               status'[x] \in {"failed", "blocked"}
        PROVE  status'[v] = "blocked"
    <3>0. x \in Units
      BY DEF SchedInv, Types
    <3>1. status[x] = status'[x]
      BY <3>0, <2>1, <1>3
    <3>2. status[v] = "blocked"
      BY <2>1, <3>1 DEF SchedInv, FailureContained
    <3> QED BY <3>2, <1>2, <1>3
  <2> QED BY <2>1, <1>1 DEF FailureContained
<1>8. NoLostWakeup'
  <2>1. ASSUME NEW v \in Units, status'[v] = "pending"
        PROVE  \E x \in deps[v] : status'[x] # "complete"
    <3>1. v # u /\ v \notin woken /\ status[v] = "pending"
      BY <2>1, <1>3
    <3>2. PICK x \in deps[v] : x # u /\ status[x] # "complete"
      <4>1. CASE u \in deps[v]
        BY <4>1, <3>1 DEF BecomesReady, Dependents
      <4>2. CASE u \notin deps[v]
        BY <4>2, <3>1 DEF SchedInv, NoLostWakeup
      <4> QED BY <4>1, <4>2
    <3>3. x \in Units
      BY DEF SchedInv, Types
    <3> QED BY <3>2, <3>3, <1>3
  <2> QED BY <2>1, <1>1 DEF NoLostWakeup
<1>9. WithinParallelism'
  <2>1. Active' \subseteq Active
    BY <1>3 DEF Active, IsActive
  <2> QED BY <2>1, FewerActive DEF SchedInv
<1>10. Acyclic(deps)'
  BY <1>1 DEF SchedInv, Acyclic
<1> QED BY <1>4, <1>5, <1>6, <1>7, <1>8, <1>9, <1>10 DEF SchedInv

(* Fail preserves the invariant.                                           *)
LEMMA FailInv ==
  ASSUME SchedInv, NEW u \in Units, status[u] = "in_progress", Fail(u)
  PROVE  SchedInv'
<1> DEFINE hit == BlockedByFailureOf(u)
<1>1. /\ status' = [v \in Units |-> IF v = u THEN "failed"
                                     ELSE IF v \in hit THEN "blocked" ELSE status[v]]
      /\ blockedBy' = [v \in Units |->
            IF v \in hit THEN blockedBy[v] \union {u} ELSE blockedBy[v]]
      /\ ready' = ready \ (hit \union {u})
      /\ deps' = deps
  BY DEF Fail, IsTerminal
<1>2. \A v \in hit : v \in Units /\ v # u /\ status[v] = "pending"
  BY BlockingHitsPending, BlockingHitsWaiting DEF SchedInv
<1>3. /\ status'[u] = "failed"
      /\ \A v \in hit : status'[v] = "blocked"
      /\ \A v \in Units : v # u /\ v \notin hit => status'[v] = status[v]
  BY <1>1, <1>2
<1>4. Types'
  BY <1>1, <1>2 DEF SchedInv, Types, Status
<1>5. QueueMatchesStatus'
  BY <1>1, <1>2, <1>3 DEF SchedInv, QueueMatchesStatus
<1>6. DependenciesFirst'
  <2>1. ASSUME NEW v \in Units, NEW x \in deps[v],
               status'[v] \in {"ready", "in_progress", "complete", "failed"}
        PROVE  status'[x] = "complete"
    <3>0. x \in Units
      BY DEF SchedInv, Types
    <3>1. status[v] \in {"ready", "in_progress", "complete", "failed"}
      BY <2>1, <1>3
    <3>2. status[x] = "complete"
      BY <3>1 DEF SchedInv, DependenciesFirst
    <3> QED BY <3>0, <3>2, <1>2, <1>3
  <2> QED BY <2>1, <1>1 DEF DependenciesFirst
<1>7. FailureContained'
  <2>1. ASSUME NEW v \in Units, NEW x \in deps[v],
               status'[x] \in {"failed", "blocked"}
        PROVE  status'[v] = "blocked"
    <3>0. x \in Units
      BY DEF SchedInv, Types
    <3>1. CASE x = u \/ x \in hit
      <4>1. status[x] # "complete"
        BY <3>1, <1>2
      <4>2. status[v] \in {"pending", "blocked"}
        BY <4>1 DEF SchedInv, Types, Status, DependenciesFirst
      <4>3. CASE status[v] = "pending"
        <5>1. v \in hit
          BY <4>3, <3>1, BlockingIsClosed
             DEF ClosedUnderBlocking, IsTerminal, SchedInv
        <5> QED BY <5>1, <1>3
      <4>4. CASE status[v] = "blocked"
        BY <4>4, <1>2, <1>3
      <4> QED BY <4>2, <4>3, <4>4
    <3>2. CASE x # u /\ x \notin hit
      <4>1. status[v] = "blocked"
        BY <3>0, <3>2, <2>1, <1>3 DEF SchedInv, FailureContained
      <4> QED BY <4>1, <1>2, <1>3
    <3> QED BY <3>1, <3>2
  <2> QED BY <2>1, <1>1 DEF FailureContained
<1>8. NoLostWakeup'
  <2>1. ASSUME NEW v \in Units, status'[v] = "pending"
        PROVE  \E x \in deps[v] : status'[x] # "complete"
    <3>1. status[v] = "pending"
      BY <2>1, <1>3
    <3>2. PICK x \in deps[v] : status[x] # "complete"
      BY <3>1 DEF SchedInv, NoLostWakeup
    <3>3. x \in Units
      BY DEF SchedInv, Types
    <3> QED BY <3>2, <3>3, <1>2, <1>3
  <2> QED BY <2>1, <1>1 DEF NoLostWakeup
<1>9. WithinParallelism'
  <2>1. Active' \subseteq Active
    BY <1>3 DEF Active, IsActive
  <2> QED BY <2>1, FewerActive DEF SchedInv
<1>10. Acyclic(deps)'
  BY <1>1 DEF SchedInv, Acyclic
<1> QED BY <1>4, <1>5, <1>6, <1>7, <1>8, <1>9, <1>10 DEF SchedInv

(* Every step of the scheduler preserves the invariant.                    *)
LEMMA StepInv == SchedInv /\ [SchedNext]_schedVars => SchedInv'
<1> SUFFICES ASSUME SchedInv, [SchedNext]_schedVars PROVE SchedInv'
  OBVIOUS
<1>1. CASE UNCHANGED schedVars
  BY <1>1 DEF schedVars, SchedInv, Types, QueueMatchesStatus, DependenciesFirst,
              FailureContained, NoLostWakeup, WithinParallelism, Active, Acyclic
<1>2. ASSUME NEW u \in Units, Dispatch(u) PROVE SchedInv'
  BY <1>2, DispatchInv
<1>3. ASSUME NEW u \in Units, Started(u), Complete(u) PROVE SchedInv'
  BY <1>3, <1>1, CompleteInv DEF Started, Complete, IsTerminal
<1>4. ASSUME NEW u \in Units, Started(u), Fail(u) PROVE SchedInv'
  BY <1>4, <1>1, FailInv DEF Started, Fail, IsTerminal
<1> QED BY <1>1, <1>2, <1>3, <1>4 DEF SchedNext

(* The inductive invariant holds in every reachable state.                 *)
THEOREM Invariance == SchedSpec => []SchedInv
<1> QED BY InitInv, StepInv, PTL DEF SchedSpec

-----------------------------------------------------------------------------
(* For every dependency graph and limit: no unit is queued or run before   *)
(* its dependencies are complete.                                          *)
THEOREM DependenciesFirstHolds == SchedSpec => []DependenciesFirst
<1>1. SchedInv => DependenciesFirst
  BY DEF SchedInv
<1> QED BY <1>1, Invariance, PTL

(* A failure blocks everything downstream of it, at any depth.             *)
THEOREM FailureContainedHolds == SchedSpec => []FailureContained
<1>1. SchedInv => FailureContained
  BY DEF SchedInv
<1> QED BY <1>1, Invariance, PTL

(* No completion forgets a dependent.                                      *)
THEOREM NoLostWakeupHolds == SchedSpec => []NoLostWakeup
<1>1. SchedInv => NoLostWakeup
  BY DEF SchedInv
<1> QED BY <1>1, Invariance, PTL

(* The queue holds exactly the units whose status is ready.                *)
THEOREM QueueMatchesStatusHolds == SchedSpec => []QueueMatchesStatus
<1>1. SchedInv => QueueMatchesStatus
  BY DEF SchedInv
<1> QED BY <1>1, Invariance, PTL

(* The parallelism limit is never exceeded.                                *)
THEOREM WithinParallelismHolds == SchedSpec => []WithinParallelism
<1>1. SchedInv => WithinParallelism
  BY DEF SchedInv
<1> QED BY <1>1, Invariance, PTL

(* The scheduler cannot get stuck: take the pending units; acyclicity gives *)
(* one that waits for no pending unit, NoLostWakeup a dependency of it that *)
(* is not complete, which is then failed or blocked, against               *)
(* FailureContained.                                                       *)
THEOREM NeverStuckHolds == SchedSpec => []NeverStuck
<1>1. SchedInv => NeverStuck
  <2> SUFFICES ASSUME SchedInv, ready = {}, Active = {},
                      NEW w \in Units, ~IsTerminal(status[w])
               PROVE  FALSE
    BY DEF NeverStuck, AllBlockedOrComplete
  <2> DEFINE P == {u \in Units : status[u] = "pending"}
  <2>1. \A u \in Units : status[u] \in {"pending", "complete", "failed", "blocked"}
    BY DEF SchedInv, Types, Status, QueueMatchesStatus, Active, IsActive
  <2>2. w \in P
    BY <2>1 DEF IsTerminal
  <2>3. PICK u \in P : deps[u] \cap P = {}
    BY <2>2 DEF SchedInv, Acyclic
  <2>4. PICK x \in deps[u] : status[x] # "complete"
    BY <2>3 DEF SchedInv, NoLostWakeup
  <2>5. x \in Units /\ x \notin P
    BY <2>3, <2>4 DEF SchedInv, Types
  <2>6. status[x] \in {"failed", "blocked"}
    BY <2>1, <2>4, <2>5
  <2> QED BY <2>3, <2>4, <2>6 DEF SchedInv, FailureContained
<1> QED BY <1>1, Invariance, PTL

(* The four of them together, as the run checks them.                      *)
THEOREM StatusesAgreeHolds == SchedSpec => []StatusesAgree
<1>1. SchedInv => StatusesAgree
  BY DEF SchedInv, StatusesAgree
<1> QED BY <1>1, Invariance, PTL

(* A step changes a status only as ValidTransitions allows.                *)
LEMMA StepIsValid ==
  ASSUME SchedInv, SchedNext, NEW v \in Units, status'[v] # status[v]
  PROVE  CanTransition(status[v], status'[v])
<1>1. ASSUME NEW u \in Units, Dispatch(u)
      PROVE  CanTransition(status[v], status'[v])
  BY <1>1 DEF Dispatch, IsHead, SchedInv, Types, QueueMatchesStatus, CanTransition
<1>2. ASSUME NEW u \in Units, Started(u), Complete(u)
      PROVE  CanTransition(status[v], status'[v])
  BY <1>2 DEF Started, Complete, IsTerminal, schedVars, BecomesReady, CanTransition
<1>3. ASSUME NEW u \in Units, Started(u), Fail(u)
      PROVE  CanTransition(status[v], status'[v])
  <2>1. status[u] = "in_progress"
    BY <1>3 DEF Started, Fail, IsTerminal, schedVars
  <2>2. \A x \in BlockedByFailureOf(u) : status[x] = "pending"
    BY <2>1, BlockingHitsPending
  <2> QED BY <1>3, <2>1, <2>2 DEF Fail, IsTerminal, CanTransition
<1> QED BY <1>1, <1>2, <1>3 DEF SchedNext

(* Complete and Fail, which assign statuses unchecked, still make only the *)
(* transitions of ValidTransitions.                                        *)
THEOREM OnlyValidTransitionsHolds == SchedSpec => OnlyValidTransitions
<1> DEFINE Valid == \A u \in Units :
             status'[u] # status[u] => CanTransition(status[u], status'[u])
<1>1. SchedInv /\ [SchedNext]_schedVars => [Valid]_schedVars
  BY StepIsValid
<1> QED BY <1>1, Invariance, PTL DEF SchedSpec, OnlyValidTransitions

(* A unit that was handed out once stays started: running, complete or     *)
(* failed.                                                                 *)
LEMMA StartedIsStable ==
  ASSUME SchedInv, [SchedNext]_schedVars, NEW u \in Units, Started(u)
  PROVE  Started(u)'
<1>1. CASE UNCHANGED schedVars
  BY <1>1 DEF schedVars, Started
<1>2. CASE SchedNext
  <2>1. CASE status'[u] = status[u]
    BY <2>1 DEF Started
  <2>2. CASE status'[u] # status[u]
    <3>1. CanTransition(status[u], status'[u])
      BY <1>2, <2>2, StepIsValid
    <3> QED BY <3>1 DEF CanTransition, Started
  <2> QED BY <2>1, <2>2
<1> QED BY <1>1, <1>2

-----------------------------------------------------------------------------
(* propagateBlocked hits exactly the waiting units downstream of the       *)
(* failure.  It stops at terminal units, but no waiting unit lies behind   *)
(* one: behind a complete or failed unit everything is complete, and behind *)
(* a blocked one everything is blocked.                                    *)
LEMMA BlockingIsExact ==
  ASSUME SchedInv, NEW u \in Units, status[u] = "in_progress", NEW v \in Units
  PROVE  v \in BlockedByFailureOf(u)
           <=> /\ status[v] \in {"pending", "ready"}
               /\ u \in Abstract!AncestorsOf(deps, v)
<1> DEFINE hit == BlockedByFailureOf(u)
           Anc(x) == Abstract!AncestorsOf(deps, x)
<1>1. ASSUME v \in hit PROVE status[v] \in {"pending", "ready"} /\ u \in Anc(v)
  <2> DEFINE D == {x \in Units : u \in Anc(x)}
  <2>1. ClosedUnderBlocking(u, D)
    <3> SUFFICES ASSUME NEW x \in Units, deps[x] \cap (D \union {u}) # {},
                        NEW S \in SUBSET Units,
                        \A y \in S \union {x} : deps[y] \subseteq S
                 PROVE  u \in S
      BY DEF ClosedUnderBlocking, Abstract!AncestorsOf
    <3>1. PICK y \in deps[x] : y \in D \union {u}
      OBVIOUS
    <3>2. y \in S /\ (\A z \in S \union {y} : deps[z] \subseteq S)
      BY <3>1
    <3> QED BY <3>1, <3>2 DEF Abstract!AncestorsOf
  <2>2. v \in D
    BY <1>1, <2>1 DEF BlockedByFailureOf
  <2>3. status[v] = "pending"
    BY <1>1, BlockingHitsPending
  <2> QED BY <2>2, <2>3
<1>2. ASSUME status[v] \in {"pending", "ready"}, u \in Anc(v), v \notin hit
      PROVE  FALSE
  <2> DEFINE S == {x \in Units : /\ x # u /\ x \notin hit
                                 /\ status[x] \notin {"failed", "blocked"}}
  <2>1. v \in S
    BY <1>2
  <2>2. ASSUME NEW x \in S, NEW y \in deps[x] PROVE y \in S
    <3>1. y \in Units
      BY DEF SchedInv, Types
    <3>2. status[y] \notin {"failed", "blocked"}
      BY DEF SchedInv, FailureContained
    <3>3. ASSUME y = u \/ y \in hit PROVE FALSE
      <4>1. status[y] # "complete"
        BY <3>3, BlockingHitsPending
      <4>2. ~IsTerminal(status[x])
        BY <4>1 DEF SchedInv, DependenciesFirst, IsTerminal
      <4> QED BY <3>3, <4>2, BlockingIsClosed DEF ClosedUnderBlocking, SchedInv
    <3> QED BY <3>1, <3>2, <3>3
  <2>3. \A x \in S \union {v} : deps[x] \subseteq S
    BY <2>1, <2>2
  <2>4. u \in S
    BY ZenonT(60), <2>3, <1>2 DEF Abstract!AncestorsOf
  <2> QED BY <2>4
<1> QED BY <1>1, <1>2

(* Each step of the scheduler is a step of the abstract specification or a *)
(* stutter.                                                                *)
LEMMA StepImplements ==
  ASSUME SchedInv, SchedInv', [SchedNext]_schedVars
  PROVE  [Abstract!ExecNext]_(Abstract!execVars)
<1> DEFINE phase == [x \in Units |-> PhaseOf(status[x])]
<1>0. /\ \A x \in Units : phase[x] = PhaseOf(status[x])
      /\ \A x \in Units : phase'[x] = PhaseOf(status'[x])
  OBVIOUS
<1>1. CASE UNCHANGED schedVars
  BY <1>1 DEF schedVars, Abstract!execVars
<1>2. ASSUME NEW u \in Units, Dispatch(u)
      PROVE  Abstract!ExecNext
  <2>1. status[u] = "ready" /\ deps' = deps
        /\ status' = [status EXCEPT ![u] = "in_progress"]
    BY <1>2 DEF Dispatch, IsHead, SchedInv, QueueMatchesStatus
  <2>2. \A d \in deps[u] : d \in Units /\ phase[d] = "done"
    BY <2>1 DEF SchedInv, Types, DependenciesFirst, PhaseOf
  <2>3. phase' = [phase EXCEPT ![u] = "running"]
    BY <2>1 DEF SchedInv, Types, PhaseOf
  <2>4. phase[u] = "waiting"
    BY <2>1 DEF PhaseOf
  <2> QED BY <2>1, <2>2, <2>3, <2>4 DEF Abstract!ExecNext, Abstract!Start
<1>3. ASSUME NEW u \in Units, status[u] = "in_progress", Complete(u)
      PROVE  Abstract!ExecNext
  <2>1. deps' = deps /\ status' = [v \in Units |-> IF v = u THEN "complete"
             ELSE IF v \in BecomesReady(u) THEN "ready" ELSE status[v]]
    BY <1>3 DEF Complete, IsTerminal
  <2>2. \A v \in BecomesReady(u) : v # u /\ status[v] = "pending"
    BY <1>3 DEF BecomesReady
  <2>3. phase' = [phase EXCEPT ![u] = "done"]
    BY <2>1, <2>2 DEF PhaseOf
  <2>4. phase[u] = "running"
    BY <1>3 DEF PhaseOf
  <2> QED BY <2>1, <2>3, <2>4 DEF Abstract!ExecNext, Abstract!Finish
<1>4. ASSUME NEW u \in Units, status[u] = "in_progress", Fail(u)
      PROVE  Abstract!ExecNext
  <2>1. deps' = deps /\ status' = [v \in Units |-> IF v = u THEN "failed"
             ELSE IF v \in BlockedByFailureOf(u) THEN "blocked" ELSE status[v]]
    BY <1>4 DEF Fail, IsTerminal
  <2>2. \A v \in Units : v \in BlockedByFailureOf(u)
           <=> phase[v] = "waiting" /\ u \in Abstract!AncestorsOf(deps, v)
    <3>1. \A v \in Units : phase[v] = "waiting" <=> status[v] \in {"pending", "ready"}
      BY DEF PhaseOf, SchedInv, Types, Status
    <3> QED BY <3>1, <1>4, BlockingIsExact
  <2>3. phase' = [v \in Units |->
           IF v = u THEN "failed"
           ELSE IF phase[v] = "waiting" /\ u \in Abstract!AncestorsOf(deps, v)
                THEN "skipped" ELSE phase[v]]
    <3>1. ASSUME NEW v \in Units
          PROVE  phase'[v] = IF v = u THEN "failed"
                   ELSE IF phase[v] = "waiting" /\ u \in Abstract!AncestorsOf(deps, v)
                        THEN "skipped" ELSE phase[v]
      <4>1. phase'[v] = IF v = u THEN "failed"
                        ELSE IF v \in BlockedByFailureOf(u) THEN "skipped" ELSE phase[v]
        BY <2>1 DEF PhaseOf
      <4> QED BY <4>1, <2>2
    <3> QED BY <3>1
  <2>4. phase[u] = "running"
    BY <1>4 DEF PhaseOf
  <2> QED BY <2>1, <2>3, <2>4 DEF Abstract!ExecNext, Abstract!FailAndSkip
<1>5. ASSUME NEW u \in Units, Started(u), Complete(u) \/ Fail(u),
             status[u] # "in_progress"
      PROVE  UNCHANGED schedVars
  BY <1>5 DEF Started, Complete, Fail, IsTerminal
<1> QED BY <1>1, <1>2, <1>3, <1>4, <1>5 DEF SchedNext

(* The scheduler implements Execution, for every graph and every limit.    *)
THEOREM Refinement == SchedSpec => ImplementsExecution
<1>1. SchedInit => Abstract!ExecInit
  BY DEF SchedInit, Roots, Abstract!ExecInit, PhaseOf
<1>2. SchedInv /\ SchedInv' /\ [SchedNext]_schedVars
        => [Abstract!ExecNext]_(Abstract!execVars)
  BY StepImplements
<1> QED BY <1>1, <1>2, Invariance, PTL
        DEF SchedSpec, ImplementsExecution, Abstract!ExecSpec
=============================================================================
