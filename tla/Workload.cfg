SPECIFICATION Spec
CONSTANTS
  WordLens = {1, 3}
  ShortLens <- MCShortLens
  Files <- MCFiles
INVARIANTS FileAsOrdered LongLinesSpread
CHECK_DEADLOCK FALSE
