CONSTANTS
  Movies <- MCMovies
  Clean <- MCClean
  None = None
SPECIFICATION Spec
INVARIANTS
  TypeOK
  NoForeignText
  TextsAreComplete
  TextReachesItsMember
  DumpAgreesWithRestored
  GivesUpForAReason
