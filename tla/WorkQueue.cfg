SPECIFICATION RRFairSpec
CONSTANTS
  Requests <- MCRequests
  Workers <- MCWorkers
  Bytes <- MCBytes
  r1 = r1
  r2 = r2
  r3 = r3
  w1 = w1
  w2 = w2
  Idle = Idle
  Gone = Gone
  Scheds = {"rr", "sjf"}
INVARIANTS SingleOwner NothingLeftBehind
PROPERTIES NoSecondOvertake WaitingIsTaken ShutdownDrains
CHECK_DEADLOCK FALSE
