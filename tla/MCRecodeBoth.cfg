CONSTANTS
  NBUF = 8
  MAXBOM = 4
  Files <- MCFiles
  Garbage <- MCGarbage
  Sources <- MCSources
SPECIFICATION BSpec
INVARIANTS
  TypeOK
  ChunksDoNotShow
  OutputComplete
  OutputFaithful
  RustChunksDoNotShow
  RustOutputFaithful
  SameOutput
PROPERTIES
  CTerminates
  RustEndsUnlessStuck
CHECK_DEADLOCK FALSE
