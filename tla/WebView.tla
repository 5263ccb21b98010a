------------------------------ MODULE WebView ------------------------------
(***************************************************************************)
(* The web view of a run: the store of the server's process, the hub of    *)
(* its SSE clients, and the two ways events come to them: the handler that *)
(* the daemon puts on the bus of its job, and the pusher of a `choo run    *)
(* --web`, which writes to the server's socket from another process.       *)
(*                                                                         *)
(* An event is its number in the run.  What the store or a browser shows   *)
(* of a unit is the number of the event it comes from, 0 when it does not  *)
(* know the unit.  Only their order is looked at, so the payloads and the  *)
(* statuses that HandleEvent reads from them are left out.  "shown" stands *)
(* for the events of a unit or task that a browser listens to, "hidden"    *)
(* for unit.queued and unit.blocked, which only the store notices.         *)
(***************************************************************************)
EXTENDS Channel, FiniteSets

CONSTANTS
  Units,      \* the units of the run
  Browsers,
  MaxEvents,  \* bound: events of a run
  MaxConns,   \* bound: connections of the pusher
  MaxClients, \* bound: SSE connections of a browser
  QueueCap,   \* capacity of the bus of the job, or of the pusher's channel
  ClientCap   \* capacity of a client's channel

WebAssumption ==
  /\ {MaxEvents, MaxConns, MaxClients} \subseteq Nat
  /\ {QueueCap, ClientCap} \subseteq Nat \ {0}

VARIABLES
  source,    \* where the run is: "job" in the daemon, "push" in another process
  emitted,   \* events of the run so far
  queue,     \* the bus of the job, or the pusher's eventCh
  pusher,    \* the push loop: "off", "select", "write", "backoff", "retry", "exit"
  writing,   \* the event in the push loop's hands
  conn,      \* the pusher's connection, 0 for none
  dialled,   \* connections made so far; they are numbered
  wire,      \* connection -> lines written and not read
  shut,      \* connections the pusher has closed
  backlog,   \* connections waiting for Accept
  serving,   \* the connection acceptLoop handles, 0 for none
  store,     \* unit -> what the store shows
  connected, \* Store.connectedCount
  publish,   \* the event in the store and not yet broadcast
  hub,       \* the loop of the hub: "running", "stopped"
  done,      \* whether Hub.done is closed
  clients,   \* Hub.clients
  events,    \* client -> its channel
  closed,    \* client -> how often that channel was closed
  handler,   \* browser -> EventsHandler: "none", "register", "serving", "unregister"
  opened,    \* browser -> SSE connections so far
  page,      \* browser -> the page: "new", "loaded", "left"
  view,      \* browser -> what it shows
  server     \* Server: "up", "socket", "hub", "down"

runVars == <<source, emitted, queue>>
pushVars == <<pusher, writing, conn, dialled>>
lineVars == <<wire, shut, backlog>>
storeVars == <<store, connected>>
hubVars == <<hub, done, clients, events, closed>>
pageVars == <<handler, opened, page, view>>
vars == <<runVars, pushVars, lineVars, serving, storeVars, publish, hubVars, pageVars, server>>

NoEvent == [n |-> 0]
Clients == Browsers \X (1..MaxClients)
Nothing == [u \in Units |-> 0]

Init ==
  /\ source \in {"job", "push"} /\ emitted = 0 /\ queue = <<>>
  /\ pusher = "off" /\ writing = NoEvent /\ conn = 0 /\ dialled = 0
  /\ wire = [c \in 1..MaxConns |-> <<>>] /\ shut = {} /\ backlog = <<>> /\ serving = 0
  /\ store = Nothing
  /\ connected = IF source = "job" THEN 1 ELSE 0
  /\ publish = NoEvent
  /\ hub = "running" /\ done = FALSE /\ clients = {}
  /\ events = [c \in Clients |-> <<>>] /\ closed = [c \in Clients |-> 0]
  /\ handler = [b \in Browsers |-> "none"] /\ opened = [b \in Browsers |-> 0]
  /\ page = [b \in Browsers |-> "new"] /\ view = [b \in Browsers |-> Nothing]
  /\ server = "up"

-----------------------------------------------------------------------------
(* The run.  orch.started comes first; the bus of the job and the pusher's *)
(* handler take an event if they have room.                                *)

Emit(type, u) ==
  /\ emitted < MaxEvents
  /\ (type = "orch.started") <=> (emitted = 0)
  /\ source = "push" => pusher \in {"select", "write", "backoff", "retry"}
  /\ emitted' = emitted + 1
  /\ queue' = Sent(queue, <<[n |-> emitted', type |-> type, unit |-> u]>>, QueueCap)
  /\ UNCHANGED <<source, pushVars, lineVars, serving, storeVars, publish, hubVars, pageVars, server>>

-----------------------------------------------------------------------------
(* The pusher.                                                             *)

\* Mutant of Connect: the server answers each connection in a goroutine, so the
\* new one may be read before the old one.
ConnectOvertaking ==
  /\ dialled < MaxConns /\ server = "up"
  /\ dialled' = dialled + 1 /\ conn' = dialled'
  /\ shut' = shut \union ({conn} \ {0})
  /\ backlog' = <<dialled'>> \o backlog

(* Dial succeeds while the socket listens, whether or not the server is at *)
(* Accept; the previous connection is closed.                              *)
Connect ==
  /\ dialled < MaxConns /\ server = "up"
  /\ dialled' = dialled + 1 /\ conn' = dialled'
  /\ shut' = shut \union ({conn} \ {0})
  /\ backlog' = Append(backlog, dialled')

(* Start: a first connection that fails leaves the run without a pusher.   *)
PusherStart ==
  /\ source = "push" /\ pusher = "off" /\ Connect
  /\ pusher' = "select"
  /\ UNCHANGED <<runVars, writing, wire, serving, storeVars, publish, hubVars, pageVars, server>>

PusherTake ==
  /\ pusher = "select" /\ queue # <<>>
  /\ pusher' = "write" /\ writing' = Head(queue)
  /\ queue' = Tail(queue)
  /\ UNCHANGED <<source, emitted, conn, dialled, lineVars, serving, storeVars, publish, hubVars, pageVars, server>>

(* writeEvent.  A write that fails at its deadline may have delivered the  *)
(* line, since the server's scanner takes a last line without a newline;   *)
(* a shorter remainder is not JSON and is skipped.  What is written to a   *)
(* socket the server no longer reads is lost.                              *)
Deliver(line) ==
  wire' = [wire EXCEPT ![conn] = @ \o line]

WriteEvent(ok) ==
  /\ pusher \in {"write", "retry"}
  /\ \/ Deliver(<<writing>>)
     \/ ~ok /\ UNCHANGED wire
  /\ pusher' = IF ok \/ pusher = "retry" THEN "select" ELSE "backoff"
  /\ writing' = IF pusher' = "select" THEN NoEvent ELSE writing
  /\ UNCHANGED <<runVars, conn, dialled, shut, backlog, serving, storeVars, publish, hubVars,
                 pageVars, server>>

(* The same event is written again, once.  A failed dial only waits.       *)
Reconnect ==
  /\ pusher = "backoff" /\ Connect
  /\ pusher' = "retry"
  /\ UNCHANGED <<runVars, writing, wire, serving, storeVars, publish, hubVars, pageVars, server>>

(* Close, or the run's context: the loop leaves its selects, what is queued *)
(* is lost, and the connection is closed.                                  *)
PusherClose ==
  /\ pusher \in {"select", "backoff"}
  /\ pusher' = "exit" /\ writing' = NoEvent
  /\ conn' = 0 /\ shut' = shut \union ({conn} \ {0})
  /\ UNCHANGED <<runVars, dialled, wire, backlog, serving, storeVars, publish, hubVars, pageVars, server>>

-----------------------------------------------------------------------------
(* The server's end.                                                       *)

(* acceptLoop handles one connection at a time.                            *)
Accept ==
  /\ serving = 0 /\ backlog # <<>> /\ server = "up"
  /\ serving' = Head(backlog) /\ backlog' = Tail(backlog)
  /\ connected' = connected + 1
  /\ UNCHANGED <<runVars, pushVars, wire, shut, store, publish, hubVars, pageVars, server>>

(* Store.HandleEvent: orch.started replaces the units of the graph, other  *)
(* events touch a unit that is known.                                      *)
HandleEvent(e) ==
  store' = [u \in Units |->
              IF e.type = "orch.started" \/ (e.unit = u /\ store[u] # 0) THEN e.n ELSE store[u]]

(* One line of handleConnection's scanner.                                 *)
ReadLine ==
  /\ serving # 0 /\ wire[serving] # <<>> /\ publish = NoEvent
  /\ HandleEvent(Head(wire[serving]))
  /\ publish' = Head(wire[serving])
  /\ wire' = [wire EXCEPT ![serving] = Tail(@)]
  /\ UNCHANGED <<runVars, pushVars, shut, backlog, serving, connected, hubVars, pageVars, server>>

(* End of the stream; the deferred SetConnected(false).                    *)
Hangup ==
  /\ serving \in shut /\ wire[serving] = <<>> /\ publish = NoEvent
  /\ serving' = 0
  /\ connected' = connected - 1
  /\ UNCHANGED <<runVars, pushVars, lineVars, store, publish, hubVars, pageVars, server>>

(* The daemon's handler on the bus of its job.                             *)
JobEvent ==
  /\ source = "job" /\ queue # <<>> /\ publish = NoEvent
  /\ HandleEvent(Head(queue))
  /\ publish' = Head(queue)
  /\ queue' = Tail(queue)
  /\ UNCHANGED <<source, emitted, pushVars, lineVars, serving, connected, hubVars, pageVars, server>>

\* Mutant of Broadcast: a stopped hub is not noticed.
BroadcastOnly ==
  /\ publish # NoEvent
  /\ publish' = NoEvent
  /\ hub = "running"
  /\ events' = [c \in Clients |->
                  IF c \in clients THEN Sent(events[c], <<publish>>, ClientCap) ELSE events[c]]
  /\ UNCHANGED <<runVars, pushVars, lineVars, serving, storeVars, hub, done, clients, closed,
                 pageVars, server>>

(* Broadcast: taken by the hub's loop, which sends to every client that    *)
(* has room, or dropped when the hub is done.                              *)
Broadcast ==
  /\ publish # NoEvent
  /\ publish' = NoEvent
  /\ \/ /\ hub = "running"
        /\ events' = [c \in Clients |->
                        IF c \in clients THEN Sent(events[c], <<publish>>, ClientCap)
                        ELSE events[c]]
     \/ done /\ UNCHANGED events
  /\ UNCHANGED <<runVars, pushVars, lineVars, serving, storeVars, hub, done, clients, closed,
                 pageVars, server>>

-----------------------------------------------------------------------------
(* The hub's loop and the handlers of /api/events.                         *)

(* The client of the browser's last connection.                            *)
Client(b) == <<b, opened[b]>>

(* GET /api/events: NewClient.                                             *)
Open(b) ==
  /\ page[b] = "loaded" /\ handler[b] = "none"
  /\ server # "down" /\ opened[b] < MaxClients
  /\ opened' = [opened EXCEPT ![b] = @ + 1]
  /\ handler' = [handler EXCEPT ![b] = "register"]
  /\ UNCHANGED <<runVars, pushVars, lineVars, serving, storeVars, publish, hubVars, page, view,
                 server>>

(* Register: the loop takes it, or the hub is done and the channel is      *)
(* closed at once.                                                         *)
Register(b) ==
  /\ handler[b] = "register"
  /\ handler' = [handler EXCEPT ![b] = "serving"]
  /\ \/ hub = "running" /\ clients' = clients \union {Client(b)} /\ UNCHANGED closed
     \/ done /\ closed' = [closed EXCEPT ![Client(b)] = @ + 1] /\ UNCHANGED clients
  /\ UNCHANGED <<runVars, pushVars, lineVars, serving, storeVars, publish, hub, done, events,
                 opened, page, view, server>>

(* The browser's handler for an event: it knows the types it listens to    *)
(* and the units it has loaded.                                            *)
Apply(b, e) ==
  IF e.type = "shown" /\ view[b][e.unit] # 0
  THEN [view EXCEPT ![b][e.unit] = e.n]
  ELSE view

(* The loop of EventsHandler sends an event to its browser, or meets the   *)
(* closed channel, or the request's context has ended.                     *)
Serve(b) ==
  /\ handler[b] = "serving" /\ events[Client(b)] # <<>>
  /\ events' = [events EXCEPT ![Client(b)] = Tail(@)]
  /\ view' = Apply(b, Head(events[Client(b)]))
  /\ UNCHANGED <<runVars, pushVars, lineVars, serving, storeVars, publish, hub, done, clients,
                 closed, handler, opened, page, server>>

ServeEnd(b) ==
  /\ handler[b] = "serving"
  /\ \/ events[Client(b)] = <<>> /\ closed[Client(b)] > 0
     \/ page[b] = "left"
  /\ handler' = [handler EXCEPT ![b] = "unregister"]
  /\ UNCHANGED <<runVars, pushVars, lineVars, serving, storeVars, publish, hubVars, opened, page,
                 view, server>>

(* Unregister: the loop forgets the client and closes its channel, or the  *)
(* hub is done.                                                            *)
Unregister(b) ==
  /\ handler[b] = "unregister"
  /\ handler' = [handler EXCEPT ![b] = "none"]
  /\ \/ /\ hub = "running"
        /\ clients' = clients \ {Client(b)}
        /\ closed' = IF Client(b) \in clients THEN [closed EXCEPT ![Client(b)] = @ + 1] ELSE closed
     \/ done /\ UNCHANGED <<clients, closed>>
  /\ UNCHANGED <<runVars, pushVars, lineVars, serving, storeVars, publish, hub, done, events,
                 opened, page, view, server>>

(* The loop sees done: every client's channel is closed.                   *)
HubExit ==
  /\ hub = "running" /\ done
  /\ hub' = "stopped" /\ clients' = {}
  /\ closed' = [c \in Clients |-> IF c \in clients THEN closed[c] + 1 ELSE closed[c]]
  /\ UNCHANGED <<runVars, pushVars, lineVars, serving, storeVars, publish, done, events, pageVars,
                 server>>

Handler(b) == Register(b) \/ Serve(b) \/ ServeEnd(b) \/ Unregister(b)

-----------------------------------------------------------------------------
(* The browser.                                                            *)

(* /api/state answers with a copy made under the store's lock.             *)
Snapshot == store

(* init: the page asks for /api/state and only then connects to the        *)
(* stream; what happens in between it does not hear of.                    *)
Load(b) ==
  /\ page[b] = "new" /\ server # "down"
  /\ page' = [page EXCEPT ![b] = "loaded"]
  /\ view' = [view EXCEPT ![b] = Snapshot]
  /\ UNCHANGED <<runVars, pushVars, lineVars, serving, storeVars, publish, hubVars, handler, opened,
                 server>>

(* The stream breaks; onerror reconnects without loading the state again.  *)
Leave(b) ==
  /\ page[b] = "loaded" /\ handler[b] = "serving"
  /\ page' = [page EXCEPT ![b] = "left"]
  /\ UNCHANGED <<runVars, pushVars, lineVars, serving, storeVars, publish, hubVars, handler, opened,
                 view, server>>

Return(b) ==
  /\ page[b] = "left" /\ handler[b] = "none"
  /\ page' = [page EXCEPT ![b] = "loaded"]
  /\ UNCHANGED <<runVars, pushVars, lineVars, serving, storeVars, publish, hubVars, handler, opened,
                 view, server>>

-----------------------------------------------------------------------------
(* Server.Stop: the socket, the hub, then the HTTP server, which waits for *)
(* its handlers.                                                           *)

SocketStop ==
  /\ server = "up" /\ server' = "socket"
  /\ UNCHANGED <<runVars, pushVars, lineVars, serving, storeVars, publish, hubVars, pageVars>>

HubStop ==
  /\ server = "socket" /\ server' = "hub"
  /\ done' = TRUE
  /\ UNCHANGED <<runVars, pushVars, lineVars, serving, storeVars, publish, hub, clients, events,
                 closed, pageVars>>

HTTPShutdown ==
  /\ server = "hub" /\ \A b \in Browsers : handler[b] = "none"
  /\ server' = "down"
  /\ UNCHANGED <<runVars, pushVars, lineVars, serving, storeVars, publish, hubVars, pageVars>>

Stop == SocketStop \/ HubStop \/ HTTPShutdown

Pusher ==
  \/ PusherStart \/ PusherTake \/ Reconnect \/ PusherClose
  \/ \E ok \in BOOLEAN : WriteEvent(ok)

Next ==
  \/ \E u \in Units, type \in {"orch.started", "shown", "hidden"} : Emit(type, u)
  \/ Pusher
  \/ Accept \/ ReadLine \/ Hangup \/ JobEvent \/ Broadcast \/ HubExit \/ Stop
  \/ \E b \in Browsers : Open(b) \/ Handler(b) \/ Load(b) \/ Leave(b) \/ Return(b)

Spec == Init /\ [][Next]_vars

(* The goroutines of the server go on, and a Stop that has begun does.     *)
FairSpec ==
  /\ Spec
  /\ WF_vars(HubExit) /\ WF_vars(HubStop) /\ WF_vars(HTTPShutdown) /\ WF_vars(Broadcast)
  /\ \A b \in Browsers : WF_vars(Handler(b))

-----------------------------------------------------------------------------
(* Properties.                                                             *)

(* Neither the store nor a browser goes back to an earlier event of a unit,*)
(* although lines may be written twice, connections replaced, and a page   *)
(* loads its state beside the stream.                                      *)
ViewsNeverRevert ==
  [][\A u \in Units :
       /\ store'[u] >= store[u]
       /\ \A b \in Browsers : view'[b][u] >= view[b][u]]_vars

(* Stop comes to its end without its timeout, and never leaves the         *)
(* goroutine of a bus, or of a connection, in Broadcast.                   *)
StopEnds ==
  []<>(server \in {"up", "down"} /\ publish = NoEvent)
=============================================================================
