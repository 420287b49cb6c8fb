SPECIFICATION OFairSpec
CONSTANTS
  t1 = t1
  t2 = t2
  t3 = t3
  Threads <- MCThreads
  InitialSize = 1
  MaxAllocated = 4
  MaxWrites = 4
INVARIANTS TypeOK NoLostWakeup QueueInOrder QueuedIntact
PROPERTIES IsFifo ItemReachesReader WriteEnds
CHECK_DEADLOCK FALSE
