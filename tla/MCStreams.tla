----------------------------- MODULE MCStreams -----------------------------
(***************************************************************************)
(* The ways of an event, side by side: the bus, a client's WatchJob        *)
(* stream, the web page, and the log of a container.  They share no        *)
(* variable; a behaviour is one of the component in `way`, and the others  *)
(* rest in their initial states.                                           *)
(***************************************************************************)
EXTENDS EventBus

CONSTANTS
  Watches, Cap, MaxEvents,                              \* of Watch
  Units, Browsers, MaxWebEvents, MaxConns, MaxClients,
  QueueCap, ClientCap,                                  \* of WebView
  BusCap, MaxLines                                      \* of ContainerJob

VARIABLES
  way,  \* the component that moves
  watch_emitted, watch_job, watch_pc, watch_sub, watch_live, watch_closed,
  watch_held, watch_next, watch_adapter, watch_out, watch_got, watch_gone,
  watch_shutdown,
  web_source, web_emitted, web_queue, web_pusher, web_writing, web_conn,
  web_dialled, web_wire, web_shut, web_backlog, web_serving, web_store,
  web_connected, web_publish, web_hub, web_done, web_clients, web_events,
  web_closed, web_handler, web_opened, web_page, web_view, web_server,
  box_row, box_pc, box_ctx, box_box, box_code, box_log, box_read,
  box_emitted, box_waiting, box_dropped, box_listed, box_error

Stream == INSTANCE Watch WITH
  emitted <- watch_emitted,
  job <- watch_job, pc <- watch_pc, sub <- watch_sub, live <- watch_live,
  closed <- watch_closed, held <- watch_held, next <- watch_next,
  adapter <- watch_adapter, out <- watch_out, got <- watch_got,
  gone <- watch_gone, shutdown <- watch_shutdown

Web == INSTANCE WebView WITH
  MaxEvents <- MaxWebEvents, source <- web_source,
  emitted <- web_emitted, queue <- web_queue, pusher <- web_pusher,
  writing <- web_writing, conn <- web_conn, dialled <- web_dialled,
  wire <- web_wire, shut <- web_shut, backlog <- web_backlog,
  serving <- web_serving, store <- web_store, connected <- web_connected,
  publish <- web_publish, hub <- web_hub, done <- web_done,
  clients <- web_clients, events <- web_events, closed <- web_closed,
  handler <- web_handler, opened <- web_opened, page <- web_page,
  view <- web_view, server <- web_server

Box == INSTANCE ContainerJob WITH
  row <- box_row, pc <- box_pc, ctx <- box_ctx,
  box <- box_box, code <- box_code, log <- box_log, read <- box_read,
  emitted <- box_emitted, waiting <- box_waiting, dropped <- box_dropped,
  listed <- box_listed, error <- box_error

watchVars == <<watch_emitted, watch_job, watch_pc, watch_sub, watch_live,
               watch_closed, watch_held, watch_next, watch_adapter,
               watch_out, watch_got, watch_gone, watch_shutdown>>
webVars == <<web_source, web_emitted, web_queue, web_pusher, web_writing,
             web_conn, web_dialled, web_wire, web_shut, web_backlog,
             web_serving, web_store, web_connected, web_publish, web_hub,
             web_done, web_clients, web_events, web_closed, web_handler,
             web_opened, web_page, web_view, web_server>>
boxVars == <<box_row, box_pc, box_ctx, box_box, box_code, box_log,
             box_read, box_emitted, box_waiting, box_dropped, box_listed,
             box_error>>
all == <<way, vars, watchVars, webVars, boxVars>>

ASSUME Parameters ==
  /\ Stream!WatchAssumption /\ Web!WebAssumption
  /\ Box!LinesAssumption

AllInit ==
  /\ way \in {"bus", "watch", "web", "box"}
  /\ way # "web" => web_source = "job"
  /\ Init /\ Stream!Init /\ Web!Init /\ Box!Init

(* A step of one component.                                                *)
InBus(A)   == way = "bus" /\ A /\ UNCHANGED <<way, watchVars, webVars, boxVars>>
InWatch(A) == way = "watch" /\ A /\ UNCHANGED <<way, vars, webVars, boxVars>>
InWeb(A)   == way = "web" /\ A /\ UNCHANGED <<way, vars, watchVars, boxVars>>
InBox(A)   == way = "box" /\ A /\ UNCHANGED <<way, vars, watchVars, webVars>>

AllNext ==
  InBus(Next) \/ InWatch(Stream!Next) \/ InWeb(Web!Next) \/ InBox(Box!Next)

(* The fairness each component states.  Only one of the disjuncts of a WF  *)
(* can be enabled in a behaviour, so with one watch and one browser it     *)
(* says the same as one WF for each.                                       *)
AllFairness ==
  /\ \A w \in Watches :
       /\ WF_all(InBus(Loop) \/ InWatch(Stream!Adapter(w)) \/ InWeb(Web!HubExit))
       /\ WF_all(InWatch(Stream!Send(w)) \/ InWeb(Web!HubStop))
       /\ WF_all(InWatch(Stream!Leave(w)) \/ InWeb(Web!HTTPShutdown))
  /\ \A p \in Emitters : WF_all(InBus(SendEvent(p)))
  /\ WF_all(InWeb(Web!Broadcast))
  /\ \A b \in Browsers : WF_all(InWeb(Web!Handler(b)))

AllSpec == AllInit /\ [][AllNext]_all /\ AllFairness

(* The properties of the components; Watch, WebView and ContainerJob state *)
(* them in full.                                                           *)

(* The handler a finished WatchJob leaves on the bus never sends on its    *)
(* closed channel.                                                         *)
NoSendOnClosed == Stream!NoSendOnClosed

(* What a stream has accepted its client receives, unless the stream ends. *)
TakenIsReceived == Stream!TakenIsReceived

(* Store and page never go back to an earlier event of a unit.             *)
ViewsNeverRevert == Web!ViewsNeverRevert

(* Stopping the web server ends, and nobody is left in Broadcast.          *)
StopEnds == Web!StopEnds

(* A container run is completed only with its events told or dropped.      *)
CompletedIsTold == Box!CompletedIsTold
=============================================================================
