SPECIFICATION FairSpec
CONSTANTS
  Files <- MCFiles
  MaxSize = 8
  Params <- MCParams
  Chunk = 2
  Unbounded = 9
INVARIANTS WireInOrder RrAccounting DrrAccounting DeficitBelowLine RoundsBounded
PROPERTIES Terminates ImplementsRounds
CHECK_DEADLOCK FALSE
