SPECIFICATION AssemblerSpec
CONSTANTS
  main = main
  f = f
  x = x
  None = None
  MainName = main
  Names = {main, f, x}
  Lines <- MCLines
  Word = 8
  ByteRange = 4
  MaxLines = 4
  MaxReturns = 2
INVARIANT FetchesInstructions
PROPERTY IsProgram
CHECK_DEADLOCK FALSE
