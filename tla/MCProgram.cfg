CONSTANTS
  Folders <- MCFolders
  OutputFolders <- MCOutputFolders
  GivenNames <- MCGivenNames
  Words <- MCWords
  MaxFiles = 2
  Extensions <- AllKinds
  Lines <- MCLines
  None = None
SPECIFICATION ProgramSpec
INVARIANTS
  ProgramTypeOK
  LineIsTakenAsSaid
  InputsSurvive
  NothingDecompiledTwice
  CrashesForAReason
  DistinctStemsAreSafe
PROPERTIES
  ProgramEnds
