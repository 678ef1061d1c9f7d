SPECIFICATION RoundTripSpec
CONSTANTS
  PosModulus = 65536
  TailLength = 3
  Programs <- MCPrograms
  Codes <- MCCodes
INVARIANTS
  RecompilesToCode
  IsGotThrough
  TypeOK
  AstIsTree
  OnlyEndTellLosesBlock
PROPERTIES
  Terminates
