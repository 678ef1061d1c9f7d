SPECIFICATION Spec
CONSTANTS
  Keys <- MCKeys
  Strings <- MCStrings
  LoneStrings <- EveryByte
  LineEndings <- MCLineEndings
  MaxCalls = 7
  MaxDepth = 3
INVARIANTS
  DumpReadsBack
  CountersAreTrue
CHECK_DEADLOCK FALSE
