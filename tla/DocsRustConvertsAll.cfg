CONSTANTS
  NBUF = 8
  MAXBOM = 4
  Files <- MCFiles
  Garbage <- MCGarbage
  Sources <- MCSources
SPECIFICATION BSpec
INVARIANT RustConvertsAll
CHECK_DEADLOCK FALSE
