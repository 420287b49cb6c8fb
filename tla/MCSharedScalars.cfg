SPECIFICATION Spec
CONSTANTS
  t1 = t1
  t2 = t2
  t3 = t3
  x = x
  y = y
  Undef = Undef
  Nobody = Nobody
  Threads <- TwoThreads
  Scalars <- MCScalars
  Refers <- Downwards
  MaxHolds = 2
  MaxLocks = 1
INVARIANTS RefsExact FreedIsForgotten LocksReturned NoCircularWait
PROPERTY OnlyOwnerChanges
CHECK_DEADLOCK FALSE
SYMMETRY Interchangeable
