CONSTANTS
  Conns = {c1, c2}
  NoConn = NoConn
  QueueCap = 1
  BufferCap = 1
  Emitters = {e1}
  MaxEvents = 3
  MaxConnects = 2
  Requests = {"subscribe", "unsubscribe", "metrics"}
  MaxRequests = 2
  UserMessages = {1}
  StreamStarts = {2}
  Updates = {3}
SPECIFICATION Spec
SYMMETRY Symmetry
INVARIANTS
  TypeOK
  ChannelIsLive
  CurrentSocketIsServed
  WritersAreToldToEnd
  GapMeansClose
  DemandIsCurrent
  SubscriberKnowsTheRun
PROPERTIES
  ClosedOnce
  OnlyItsHandlerDetaches
  ClearedWasConsumed
CHECK_DEADLOCK FALSE
