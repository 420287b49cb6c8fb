SPECIFICATION StackSpec
CONSTANTS
  Owners = {main, coro}
  First = main
  Ints <- MCInts
  Objects = {a}
  Undef = Undef
  InitialSize = 2
  MaxAllocated = 4
  MaxItems = 5
  WordBits = 5
INVARIANT ClonesExact
PROPERTY IsOperandStack
CHECK_DEADLOCK FALSE
