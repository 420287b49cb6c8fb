SPECIFICATION FairSpec
CONSTANTS
  m = m
  c1 = c1
  c2 = c2
  Main = m
  Contexts <- MCContexts
  MaxTables = 6
  MaxCalls = 2
  EndCalls = 1
INVARIANTS RefsBalance ScopesLive PoolsOutliveContexts
PROPERTIES ReturnRestoresScope MainEnds
CHECK_DEADLOCK FALSE
