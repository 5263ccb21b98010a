------------------------------ MODULE EventBus ------------------------------
(***************************************************************************)
(* The in-process event bus of internal/events/bus.go: a bounded channel,  *)
(* non-blocking emission that drops when the channel is full, one dispatch *)
(* goroutine that calls the registered handlers in order, Close, and the   *)
(* WaitGroup behind Wait.                                                  *)
(***************************************************************************)
EXTENDS Integers, FiniteSets, Channel

CONSTANTS
  Emitters,     \* goroutines that emit
  RawEmitters,  \* those that use EmitRaw; the others use Emit
  MaxEmits,     \* bound: emissions per emitter
  Capacity,     \* buffer size of the channel
  MaxHandlers,  \* bound: handlers ever subscribed
  Closers,      \* goroutines that call Close
  None          \* no event

Events == Emitters \X (1..MaxEmits)

ASSUME BusAssumption ==
  /\ RawEmitters \subseteq Emitters
  /\ IsFiniteSet(Emitters)
  /\ MaxEmits \in Nat /\ Capacity \in Nat \ {0} /\ MaxHandlers \in Nat
  /\ None \notin Events

VARIABLES
  ch,         \* Bus.ch
  wg,         \* the counter of Bus.wg
  closed,     \* Bus.closed
  doneCloses, \* how often Bus.done has been closed (twice panics)
  handlers,   \* number of handlers registered
  loop,       \* the dispatch goroutine: "select", "draining" or "exited"
  current,    \* the event being dispatched, or None
  next,       \* the next handler to call for it
  snapshot,   \* handlers copied for it
  emitter,    \* emitter -> where its call stands
  emits,      \* emitter -> emissions begun
  closer,     \* closer -> where its call of Close stands
  accepted,   \* history: the events put in the channel, in order
  early,      \* history: how many of them were sent before close(done)
  seen        \* history: handler -> the events it was called with

vars == <<ch, wg, closed, doneCloses, handlers, loop, current, next, snapshot,
          emitter, emits, closer, accepted, early, seen>>
busVars == <<ch, wg, accepted, early>>
loopVars == <<loop, current, next, snapshot, seen>>
emitVars == <<emitter, emits>>
closeVars == <<closed, doneCloses, closer>>

Handlers == 1..MaxHandlers

Init ==
  /\ ch = <<>> /\ wg = 0
  /\ closed = FALSE /\ doneCloses = 0
  /\ handlers = 0
  /\ loop = "select" /\ current = None /\ next = 1 /\ snapshot = 0
  /\ emitter = [p \in Emitters |-> "idle"]
  /\ emits = [p \in Emitters |-> 0]
  /\ closer = [c \in Closers |-> "idle"]
  /\ accepted = <<>> /\ early = 0
  /\ seen = [h \in Handlers |-> <<>>]

-----------------------------------------------------------------------------
(* Subscribe.                                                              *)
Subscribe ==
  /\ handlers < MaxHandlers
  /\ handlers' = handlers + 1
  /\ UNCHANGED <<busVars, closeVars, loopVars, emitVars>>

(* EmitRaw reads closed under the lock, releases it, and goes on only if   *)
(* the bus was open then.                                                  *)
CheckClosed(p) ==
  /\ p \in RawEmitters
  /\ emitter[p] = "idle"
  /\ emits[p] < MaxEmits
  /\ emits' = [emits EXCEPT ![p] = @ + 1]
  /\ emitter' = [emitter EXCEPT ![p] = IF closed THEN "idle" ELSE "open"]
  /\ UNCHANGED <<busVars, closeVars, loopVars, handlers>>

(* Emit and EmitRaw count the event before they try to send it; Emit does  *)
(* not look at closed at all.                                              *)
CountEvent(p) ==
  /\ \/ p \in RawEmitters /\ emitter[p] = "open" /\ UNCHANGED emits
     \/ /\ p \notin RawEmitters /\ emitter[p] = "idle"
        /\ emits[p] < MaxEmits
        /\ emits' = [emits EXCEPT ![p] = @ + 1]
  /\ wg' = wg + 1
  /\ emitter' = [emitter EXCEPT ![p] = "counted"]
  /\ UNCHANGED <<ch, accepted, early, closeVars, loopVars, handlers>>

\* Mutant of SendEvent: a full channel drops its oldest event.
SendDroppingOldest(p) ==
  LET e == <<p, emits[p]>>
  IN  /\ emitter[p] = "counted"
      /\ emitter' = [emitter EXCEPT ![p] = "idle"]
      /\ ch' = IF HasRoom(ch, Capacity) THEN Append(ch, e) ELSE Append(Tail(ch), e)
      /\ wg' = IF HasRoom(ch, Capacity) THEN wg ELSE wg - 1
      /\ accepted' = Append(accepted, e)
      /\ early' = IF doneCloses = 0 THEN early + 1 ELSE early
      /\ UNCHANGED <<emits, closeVars, loopVars, handlers>>

SendEvent(p) ==
  LET e == <<p, emits[p]>>
      room == HasRoom(ch, Capacity)
  IN  /\ emitter[p] = "counted"
      /\ emitter' = [emitter EXCEPT ![p] = "idle"]
      /\ ch' = Sent(ch, <<e>>, Capacity)
      /\ wg' = IF room THEN wg ELSE wg - 1
      /\ accepted' = IF room THEN Append(accepted, e) ELSE accepted
      /\ early' = IF room /\ doneCloses = 0 THEN early + 1 ELSE early
      /\ UNCHANGED <<emits, closeVars, loopVars, handlers>>

(* Close: set the flag under the lock, return if it was set already;       *)
(* otherwise close done, and return without waiting for the loop.          *)
MarkClosed(c) ==
  /\ closer[c] = "idle"
  /\ closer' = [closer EXCEPT ![c] = IF closed THEN "returned" ELSE "marked"]
  /\ closed' = TRUE
  /\ UNCHANGED <<doneCloses, busVars, loopVars, emitVars, handlers>>

CloseDone(c) ==
  /\ closer[c] = "marked"
  /\ doneCloses' = doneCloses + 1
  /\ closer' = [closer EXCEPT ![c] = "returned"]
  /\ UNCHANGED <<closed, busVars, loopVars, emitVars, handlers>>

-----------------------------------------------------------------------------
(* The dispatch goroutine.                                                 *)

(* Receive an event and copy the handlers (loop, dispatch).                *)
Receive ==
  /\ loop # "exited" /\ current = None /\ ch # <<>>
  /\ current' = Head(ch)
  /\ ch' = Tail(ch)
  /\ next' = 1
  /\ snapshot' = handlers
  /\ UNCHANGED <<wg, accepted, early, loop, seen, closeVars, emitVars, handlers>>

(* Call the next handler; a panic in it is recovered, so it always ends.   *)
CallHandler ==
  /\ current # None /\ next <= snapshot
  /\ seen' = [seen EXCEPT ![next] = Append(@, current)]
  /\ next' = next + 1
  /\ UNCHANGED <<busVars, loop, current, snapshot, closeVars, emitVars, handlers>>

FinishEvent ==
  /\ current # None /\ next > snapshot
  /\ current' = None
  /\ wg' = wg - 1
  /\ UNCHANGED <<ch, accepted, early, loop, next, snapshot, seen, closeVars,
                 emitVars, handlers>>

(* select may take the done case while events are waiting: then it drains. *)
StartDraining ==
  /\ loop = "select" /\ current = None /\ doneCloses > 0
  /\ loop' = "draining"
  /\ UNCHANGED <<busVars, current, next, snapshot, seen, closeVars, emitVars,
                 handlers>>

\* Mutant of Exit: the loop does not drain the channel.
ExitUndrained ==
  /\ loop = "draining" /\ current = None
  /\ loop' = "exited"
  /\ UNCHANGED <<busVars, current, next, snapshot, seen, closeVars, emitVars,
                 handlers>>

(* The drain's default case: nothing left, return.                         *)
Exit ==
  /\ loop = "draining" /\ current = None /\ ch = <<>>
  /\ loop' = "exited"
  /\ UNCHANGED <<busVars, current, next, snapshot, seen, closeVars, emitVars,
                 handlers>>

(* Wait blocks until the counter is zero.                                  *)
WaitReturns == wg = 0

Loop == Receive \/ CallHandler \/ FinishEvent \/ StartDraining \/ Exit

Next ==
  \/ Subscribe
  \/ \E p \in Emitters : CheckClosed(p) \/ CountEvent(p) \/ SendEvent(p)
  \/ \E c \in Closers : MarkClosed(c) \/ CloseDone(c)
  \/ Loop

Spec == Init /\ [][Next]_vars

(* The goroutines in a call of the bus, and the dispatch goroutine, run on. *)
FairSpec ==
  /\ Spec
  /\ WF_vars(Loop)
  /\ \A p \in Emitters : WF_vars(SendEvent(p))

-----------------------------------------------------------------------------
(* Properties.                                                             *)

(* Events taken off the channel so far.                                    *)
Taken == Len(accepted) - Len(ch)

(* Every handler sees a gap-free stretch of the accepted events in their   *)
(* order of acceptance, each once: concurrent emitters, drops, late        *)
(* subscription and Close never reorder, repeat or skip one.               *)
GapFreeInOrder ==
  \A h \in Handlers :
    seen[h] # <<>> =>
      LET last == IF current # None /\ ~(h < next /\ h <= snapshot)
                  THEN Taken - 1 ELSE Taken
      IN  /\ Len(seen[h]) <= last
          /\ seen[h] = SubSeq(accepted, last - Len(seen[h]) + 1, last)

(* The WaitGroup counts exactly the events begun but not yet processed,    *)
(* dropped ones excluded: it never goes negative, and Wait returns exactly *)
(* when no event is being sent, queued or dispatched.                      *)
WaitGroupExact ==
  /\ WaitReturns <=> Taken = Len(accepted) /\ current = None
                     /\ \A p \in Emitters : emitter[p] # "counted"
  /\ wg = Len(ch) + (IF current = None THEN 0 ELSE 1)
          + Cardinality({p \in Emitters : emitter[p] = "counted"})

(* Order and count together.                                               *)
BusIsExact == GapFreeInOrder /\ WaitGroupExact

(* Every event sent before close(done) is eventually dispatched.           *)
EarlyEventsDelivered == []<>(Taken >= early /\ current = None)
=============================================================================
