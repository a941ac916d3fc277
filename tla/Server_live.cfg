SPECIFICATION ServerFairSpec
CONSTANTS
  Requests = {c1, c2}
  Workers = {w1, w2}
  Bytes <- MCBytes
  Idle = Idle
  Gone = Gone
  NoConn = NoConn
  Scheds = {"drr"}
PROPERTIES ShutdownCompletes EveryoneIsAnswered
CHECK_DEADLOCK FALSE
