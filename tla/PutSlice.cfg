SPECIFICATION Spec
CONSTANTS
  MaxBytes = 7
  Chunk = 3
  Params <- MCParams
  Bodies <- MCBodies
INVARIANTS BodyInOrder RoundsExact VerdictIsTrue
CHECK_DEADLOCK FALSE
