SPECIFICATION ServerSpec
CONSTANTS
  Requests = {c1, c2, c3}
  Workers = {w1, w2}
  Bytes <- MCBytes
  Idle = Idle
  Gone = Gone
  NoConn = NoConn
  Scheds = {"rr"}
SYMMETRY Interchangeable
INVARIANTS NoneAbandoned SocketLifecycle RowPerDone
CHECK_DEADLOCK FALSE
