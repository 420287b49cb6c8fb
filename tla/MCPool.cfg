SPECIFICATION Spec
CONSTANTS
  t1 = t1
  t2 = t2
  NoThread = NoThread
  Threads <- MCThreads
  InitialSize = 2
  Loads <- AllLoads
  WordSize = 32
INVARIANTS NoDoubleAllocation 
CHECK_DEADLOCK FALSE
SYMMETRY ThreadSymmetry
