CONSTANTS
  Folders <- MCFolders
  OutputFolders <- MCOutputFolders
  GivenNames <- MCGivenNames
  Words <- MCWords
  MaxFiles = 2
  Extensions <- Movies
  Lines <- OneLine
  None = None
SPECIFICATION ProgramSpec
INVARIANT EveryInputHasItsOutput
