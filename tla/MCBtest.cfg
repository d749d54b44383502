CONSTANTS
  W = 16
  BYTE = 4
  EX = 5
  FR = 10
  TEST_RANGE = 8
  TIMEOUT_LIMIT = 10
  CommandLines <- MCCommandLines
  Weights <- MCWeights
  MaxTimeouts = 2
SPECIFICATION Spec
INVARIANTS
  TypeOK
  OnlyDenormalPowersFail
  WithinArrays
  ScoreAddsUp
  RunsUnderOwnAlarm
  ArgumentsTaken
PROPERTIES
  FirstTestFair
  Terminates
