SPECIFICATION ExSpec
CONSTANTS
  Sizes = {1, 2, 3, 5}
  Chunk = 2
  Params <- MCParams
  Bodies <- MCBodies
INVARIANTS ConfirmedIsStored StoredIsConfirmed NoMutualWait
CHECK_DEADLOCK FALSE
