SPECIFICATION RoundTripSpec
CONSTANTS
  Versions <- MCVersions
  Names <- MCNames
  Arguments <- MCArguments
  Locals <- MCLocals
  Literals <- MCLiterals
  Handlers <- MCHandlers
  Tasks <- MCTasks
  Trees <- MCTrees
INVARIANTS
  NodesAreInPlace
  StatementsComeBack
  StackIsKept
CHECK_DEADLOCK FALSE
