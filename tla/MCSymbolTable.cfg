SPECIFICATION SymbolSpec
CONSTANTS
  Identifiers <- MCIdentifiers
  FunctionIds <- MCFunctions
  MaxSymbols = 5
  MaxScopes = 2
  MaxOuter = 1
  MaxObjects = 2
INVARIANTS RefsExact SymbolsReached
PROPERTY IsEnvironment
CHECK_DEADLOCK FALSE
