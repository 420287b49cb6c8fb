SPECIFICATION Spec
CONSTANTS
  Keys <- MCKeys
  HASH_BUCKETS = 3
  HashOf <- MCHashOf
  KeyLists <- MCKeyLists
  MaxItems = 5
  MaxScalars = 6
INVARIANTS BucketsSound HoldsItsValues
PROPERTY IsDictionary
CHECK_DEADLOCK FALSE
