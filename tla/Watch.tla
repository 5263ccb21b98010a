------------------------------- MODULE Watch -------------------------------
(***************************************************************************)
(* The streams of the daemon: WatchJob calls on one job, each with a       *)
(* subscriber channel filled by a handler on the job's bus, the adapter's  *)
(* goroutine that numbers the events into a second channel, and the loop   *)
(* that sends them to the client.                                          *)
(*                                                                         *)
(* The job's events are 1, 2, ... in the order of the bus (EventBus has    *)
(* the bus itself).  Nothing writes the events table, so SubscribeFrom has *)
(* no history to replay.                                                   *)
(***************************************************************************)
EXTENDS Naturals, Sequences

CONSTANTS
  Watches,   \* WatchJob calls
  Cap,       \* capacity of each of the two channels
  MaxEvents  \* bound: events of the job

WatchAssumption == Cap \in Nat \ {0} /\ MaxEvents \in Nat

VARIABLES
  emitted,  \* events the bus has dispatched
  job,      \* "running", or "ended": out of the job manager's map
  pc,       \* watch -> "idle", "streaming", "ended"
  sub,      \* watch -> the subscriber's channel
  live,     \* watches whose handler is on the job's bus
  closed,   \* watches whose subscriber is closed
  held,     \* watch -> the event the adapter has taken, 0 for none
  next,     \* watch -> the next sequence number
  adapter,  \* watch -> the adapter's goroutine: "none", "running", "done"
  out,      \* watch -> the numbered events
  got,      \* watch -> what the client has received
  gone,     \* watches whose client has disconnected
  shutdown  \* whether shutdownCh is closed

subVars == <<sub, live, closed>>
adapterVars == <<held, next, adapter, out>>
vars == <<emitted, job, pc, subVars, adapterVars, got, gone, shutdown>>

Init ==
  /\ emitted = 0 /\ job = "running"
  /\ pc = [w \in Watches |-> "idle"]
  /\ sub = [w \in Watches |-> <<>>] /\ live = {} /\ closed = {}
  /\ held = [w \in Watches |-> 0] /\ next = [w \in Watches |-> 0]
  /\ adapter = [w \in Watches |-> "none"] /\ out = [w \in Watches |-> <<>>]
  /\ got = [w \in Watches |-> <<>>] /\ gone = {} /\ shutdown = FALSE

\* Mutant of Accepts: the handler does not look at closed.
AcceptsAlways(w) == w \in live /\ Len(sub[w]) < Cap

(* The handler: nothing once closed, dropped if the channel is full.       *)
Accepts(w) == w \in live \ closed /\ Len(sub[w]) < Cap

Dispatch ==
  /\ job = "running" /\ emitted < MaxEvents
  /\ emitted' = emitted + 1
  /\ sub' = [w \in Watches |-> IF Accepts(w) THEN Append(sub[w], emitted') ELSE sub[w]]
  /\ UNCHANGED <<job, pc, live, closed, adapterVars, got, gone, shutdown>>

JobEnds ==
  /\ job = "running" /\ job' = "ended"
  /\ UNCHANGED <<emitted, pc, subVars, adapterVars, got, gone, shutdown>>

(* WatchJob of an ended job returns at once, unless a replay is asked for; *)
(* SubscribeFrom registers for live events if the job is still there.      *)
WatchJob(w, from) ==
  /\ pc[w] = "idle"
  /\ IF job = "ended" /\ from = 0
     THEN pc' = [pc EXCEPT ![w] = "ended"] /\ UNCHANGED <<live, adapter, next>>
     ELSE /\ pc' = [pc EXCEPT ![w] = "streaming"]
          /\ live' = IF job = "running" THEN live \union {w} ELSE live
          /\ adapter' = [adapter EXCEPT ![w] = "running"]
          /\ next' = [next EXCEPT ![w] = from]
  /\ UNCHANGED <<emitted, job, sub, closed, held, out, got, gone, shutdown>>

-----------------------------------------------------------------------------
(* The adapter's goroutine.                                                *)

AdapterTake(w) ==
  /\ adapter[w] = "running" /\ held[w] = 0 /\ sub[w] # <<>>
  /\ held' = [held EXCEPT ![w] = Head(sub[w])]
  /\ sub' = [sub EXCEPT ![w] = Tail(@)]
  /\ UNCHANGED <<emitted, job, pc, live, closed, next, adapter, out, got, gone, shutdown>>

\* Mutant of AdapterPut: a full channel loses the event.
AdapterPutOrDrop(w) ==
  /\ held[w] # 0
  /\ held' = [held EXCEPT ![w] = 0]
  /\ out' = IF Len(out[w]) < Cap
            THEN [out EXCEPT ![w] = Append(@, [seq |-> next[w], event |-> held[w]])]
            ELSE out
  /\ next' = [next EXCEPT ![w] = @ + 1]
  /\ UNCHANGED <<emitted, job, pc, subVars, adapter, got, gone, shutdown>>

(* The send blocks while the channel is full.                              *)
AdapterPut(w) ==
  /\ held[w] # 0 /\ Len(out[w]) < Cap
  /\ held' = [held EXCEPT ![w] = 0]
  /\ out' = [out EXCEPT ![w] = Append(@, [seq |-> next[w], event |-> held[w]])]
  /\ next' = [next EXCEPT ![w] = @ + 1]
  /\ UNCHANGED <<emitted, job, pc, subVars, adapter, got, gone, shutdown>>

AdapterEnd(w) ==
  /\ adapter[w] = "running" /\ held[w] = 0 /\ sub[w] = <<>> /\ w \in closed
  /\ adapter' = [adapter EXCEPT ![w] = "done"]
  /\ UNCHANGED <<emitted, job, pc, subVars, held, next, out, got, gone, shutdown>>

Adapter(w) == AdapterTake(w) \/ AdapterPut(w) \/ AdapterEnd(w)

-----------------------------------------------------------------------------
(* The loop of WatchJob.                                                   *)

(* Every way out runs unsub, which closes the subscriber's channel.        *)
Return(w) ==
  /\ pc[w] = "streaming"
  /\ pc' = [pc EXCEPT ![w] = "ended"]
  /\ closed' = closed \union {w}

Send(w) ==
  /\ pc[w] = "streaming" /\ out[w] # <<>>
  /\ out' = [out EXCEPT ![w] = Tail(@)]
  /\ IF w \in gone
     THEN Return(w) /\ UNCHANGED got
     ELSE got' = [got EXCEPT ![w] = Append(@, Head(out[w]))] /\ UNCHANGED <<pc, closed>>
  /\ UNCHANGED <<emitted, job, sub, live, held, next, adapter, gone, shutdown>>

(* The client has disconnected or the server shuts down.                   *)
Leaves(w) == w \in gone \/ shutdown

Leave(w) ==
  /\ Leaves(w)
  /\ Return(w)
  /\ UNCHANGED <<emitted, job, sub, live, adapterVars, got, gone, shutdown>>

Disconnect(w) ==
  /\ pc[w] = "streaming" /\ gone' = gone \union {w}
  /\ UNCHANGED <<emitted, job, pc, subVars, adapterVars, got, shutdown>>

Shutdown ==
  /\ shutdown' = TRUE
  /\ UNCHANGED <<emitted, job, pc, subVars, adapterVars, got, gone>>

Next ==
  \/ Dispatch \/ JobEnds \/ Shutdown
  \/ \E w \in Watches :
       \/ \E from \in 0..MaxEvents : WatchJob(w, from)
       \/ Adapter(w) \/ Send(w) \/ Leave(w) \/ Disconnect(w)

Spec == Init /\ [][Next]_vars

(* The goroutines run; nobody has to disconnect.                           *)
FairSpec ==
  Spec /\ \A w \in Watches : WF_vars(Adapter(w)) /\ WF_vars(Send(w)) /\ WF_vars(Leave(w))

-----------------------------------------------------------------------------
(* Properties.                                                             *)

(* The bus keeps its handlers for ever: one whose watch has returned must  *)
(* not send on the closed channel, which would panic in the bus goroutine. *)
NoSendOnClosed ==
  [][\A w \in closed : Len(sub'[w]) <= Len(sub[w])]_vars

EventsOf(q) == {q[i].event : i \in 1..Len(q)}
OnTheWay(w) == {sub[w][i] : i \in 1..Len(sub[w])} \union ({held[w]} \ {0}) \union EventsOf(out[w])
Kept(w) == OnTheWay(w) \union EventsOf(got[w])


(* No step on the way of an event loses it, while the stream is open.      *)
NothingIsLost ==
  [][\A w \in Watches : pc'[w] # "ended" => Kept(w) \subseteq Kept(w)']_vars

(* An event the subscriber's channel has taken reaches a client that stays:*)
(* nothing on the way loses it, and the way is empty again and again.      *)
TakenIsReceived ==
  NothingIsLost /\ \A w \in Watches : []<>(pc[w] = "ended" \/ OnTheWay(w) = {})
=============================================================================
