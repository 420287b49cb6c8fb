SPECIFICATION ObjectSpec
CONSTANTS
  t1 = t1
  t2 = t2
  t3 = t3
  k1 = k1
  k2 = k2
  k3 = k3
  Nobody = Nobody
  Contexts <- MCContexts
  Tokens <- MCTokens
  Shared = TRUE
  MaxGrowths = 0
INVARIANTS RefsExact HolderSafe
CHECK_DEADLOCK FALSE
SYMMETRY Interchangeable
