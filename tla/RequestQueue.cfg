SPECIFICATION FairSpec
CONSTANTS
  Requests <- MCRequests
  Workers <- MCWorkers
  Bytes <- MCBytes
  r1 = r1
  r2 = r2
  r3 = r3
  w1 = w1
  w2 = w2
  NoRequest = NoRequest
  Scheds = {"drr", "sjf"}
INVARIANTS NoLostWakeup NoSleepThroughShutdown
PROPERTIES ImplementsWorkQueue
CHECK_DEADLOCK FALSE
