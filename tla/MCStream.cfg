SPECIFICATION Spec
CONSTANTS
  t1 = t1
  t2 = t2
  s1 = s1
  s2 = s2
  c1 = c1
  c2 = c2
  None = None
  Threads <- MCThreads
  Streams <- MCStreams
  Children <- MCChildren
  Kinds = {"file", "write", "sock"}
  MaxFd = 2
  MaxOpening = 1
INVARIANTS DescriptorsOwned ChildrenWaited
 
CHECK_DEADLOCK FALSE
