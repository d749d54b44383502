CONSTANTS
  MAX_TIME = 999999
  PENALTY = 100
  UINT_MAX = 31
  INT_BITS = 5
  Argvs <- MCArgvs
  Garbage <- MCGarbage
  Addresses <- MCAddresses
  MaxOps = 3
SPECIFICATION Spec
INVARIANTS
  TypeOK
  BlocksHaveOneName
  VerboseConsistent
  SummaryCovers
PROPERTY
  VerboseComplete
CHECK_DEADLOCK FALSE
