SPECIFICATION ExSpec
CONSTANTS
  Sizes = {0}
  Chunk = 2
  Params <- MCParams
  Bodies <- MCBodies
INVARIANTS StoredIsConfirmed
CHECK_DEADLOCK FALSE
