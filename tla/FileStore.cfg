SPECIFICATION Spec
CONSTANTS
  p1 = p1
  p2 = p2
  g1 = g1
  a = a
  None = None
  Requests = {p1, p2, g1}
  Op <- MCOp
  Size <- MCSize
  Target <- MCTarget
  MaxId = 3
  MaxCrashes = 2
INVARIANTS NeverHalfWritten NoOrphans SoleWriter
PROPERTIES ImplementsStore
CHECK_DEADLOCK FALSE
