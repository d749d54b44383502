CONSTANTS
  MAX_TIME = 2
  PENALTY = 100
  UINT_MAX = 7
  E = 2
  S = 1
  Tags <- MCTags
  MaxOps = 5
SPECIFICATION HSpec
INVARIANT VictimIsLeastRecent
CHECK_DEADLOCK FALSE
