SPECIFICATION Spec
CONSTANTS
  Members = {}
  Texts = {}
  Configs = {}
  Scripts = {}
  Sounds <- MCSounds
  Objects = {}
  MaxRewrites = 2
  NoMember = NoMember
  NoInfo = NoInfo
  Unreadable = Unreadable
  NoConfig = NoConfig
  Unknown = Unknown
  Null = Null
  Uninitialized = Uninitialized
  Unused = Unused
INVARIANT
  TakenSoundsAreComplete
CHECK_DEADLOCK FALSE
