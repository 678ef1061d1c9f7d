SPECIFICATION RoundTripSpec
CONSTANTS
  PosModulus = 65536
  TailLength = 1
  Programs <- MCSometimesCounting
  Codes = {}
INVARIANT HiddenStepIsLoopLogic
