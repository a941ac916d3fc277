SPECIFICATION Spec
CONSTANTS
  files <- MCFiles
  Size <- MCSize
  Rounds <- MCRounds
  Forfeits <- MCForfeits
  NameClass <- MCNameClass
  SmallLimit = 2
  MediumLimit = 3
  None = None
  n_requests = 2
  seed_count = 2
  Picks <- MCPicks
  Threads = {t1, t2}
  Main = Main
  Unreliable = {2, 4}
  MaxFailures = 1
SYMMETRY Interchangeable
INVARIANTS ExactlyRequested SeedsDropped PercentilesAreRanks ScriptsAgree
CHECK_DEADLOCK FALSE
