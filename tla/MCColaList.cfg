CONSTANTS
  a1 = a1
  a2 = a2
  a3 = a3
  a4 = a4
  v1 = v1
  NULL = NULL
  Addr <- MCAddr
  Values <- MCValues
SPECIFICATION LSpec
INVARIANTS
  TypeOK
  HeapOwned
  Linked
  NoUseAfterFree
PROPERTIES
  ImplementsFifo
  DestruirTermina
CHECK_DEADLOCK FALSE
