SPECIFICATION Spec
CONSTANTS
  InitialReserve = 2
  MaxAllocated = 8
  MaxScalars = 5
  MaxMany = 2
  IndexLists <- MCIndexLists
  WordBits = 5
INVARIANTS TypeOK HoldsItsScalars
PROPERTY IsDeque
CHECK_DEADLOCK FALSE
