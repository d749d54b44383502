CONSTANTS
  MAX_TIME = 999999
  PENALTY = 100
  UINT_MAX = 7
  E = 2
  S = 2
  Tags <- MCTags
  MaxOps = 5
SPECIFICATION HSpec
INVARIANTS
  TypeOK
  UniqueTags
  UniqueTimes
  FilledInOrder
  Accounting
  BlocksConserved
  ContentsFollowTrace
  StatisticsFollowTrace
PROPERTY
  ImplementsLRU
CHECK_DEADLOCK FALSE
