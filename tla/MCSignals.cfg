SPECIFICATION Spec
CONSTANTS
  m = m
  c1 = c1
  s1 = s1
  s2 = s2
  Main = m
  Contexts <- TwoContexts
  Signals <- MCSignalSet
  MaxCalls = 2
  MaxSent = 3
CHECK_DEADLOCK FALSE
INVARIANTS HandlersDontNest
PROPERTIES HandledNeverKills 
