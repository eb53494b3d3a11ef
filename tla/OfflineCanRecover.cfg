CONSTANTS
  Conns = {c1, c2}
  NoConn = NoConn
  QueueCap = 1
  BufferCap = 1
  Emitters = {e1}
  MaxEvents = 3
  MaxConnects = 2
  Requests = {"subscribe"}
  MaxRequests = 2
  UserMessages = {1}
  StreamStarts = {2}
  Updates = {3}
SPECIFICATION Spec
SYMMETRY Symmetry
INVARIANTS
  OfflineCanRecover
CHECK_DEADLOCK FALSE
