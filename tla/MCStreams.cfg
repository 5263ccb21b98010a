\* Two emitters of two events, channels of one or two, one client of each kind.
SPECIFICATION AllSpec
CONSTANTS
  Emitters = {e1, e2}
  RawEmitters = {e2}
  MaxEmits = 2
  Capacity = 1
  MaxHandlers = 2
  Closers = {c1}
  None = None
  Watches = {"w1"}
  Cap = 2
  MaxEvents = 3
  Units = {"u1"}
  Browsers = {"b1"}
  MaxWebEvents = 2
  MaxConns = 2
  MaxClients = 2
  QueueCap = 2
  ClientCap = 1
  BusCap = 2
  MaxLines = 4
INVARIANTS
  BusIsExact
  CompletedIsTold
PROPERTIES
  EarlyEventsDelivered
  NoSendOnClosed
  TakenIsReceived
  ViewsNeverRevert
  StopEnds
CHECK_DEADLOCK FALSE
