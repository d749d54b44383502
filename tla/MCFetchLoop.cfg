CONSTANTS
  MAX_TIME = 2
  PENALTY = 100
  UINT_MAX = 1
  E = 3
  Times <- MCTimes
SPECIFICATION Spec
INVARIANTS
  LoopInv
  Correct
PROPERTY
  Returns
CHECK_DEADLOCK FALSE
