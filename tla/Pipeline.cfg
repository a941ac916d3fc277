SPECIFICATION Spec
CONSTANTS
  RUNS <- MCRuns
  EXTRA_RUNS <- MCExtraRuns
  WARMUP_RUN = "warmup"
  CELLS = {"fcfs_ref", "rr_st1"}
  REFERENCE = {"fcfs_ref"}
  Compared = {"fcfs_ref"}
  Asides = {"aside_p1"}
  AsideOrder <- MCAsideOrder
  AsideCell = "fcfs_ref"
  ResultsDir = "results"
  Dirs = {"results", "aside_p1"}
  ByHand <- MCByHand
  NoFile = NoFile
  Procs = {s1, s2}
  NoProc = NoProc
  MaxSessions = 4
INVARIANTS OneServer ResultsFresh ArchiveSound
PROPERTIES SessionEnds
CHECK_DEADLOCK FALSE
