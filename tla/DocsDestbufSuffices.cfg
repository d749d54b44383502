CONSTANTS
  NBUF = 8
  MAXBOM = 4
  Files <- MCFiles
  Garbage <- MCGarbage
  Sources <- MCSources
SPECIFICATION TSpec
INVARIANT
  DestbufSuffices
CHECK_DEADLOCK FALSE
