SPECIFICATION Spec
CONSTANTS
  Members <- MCMembers
  Texts <- MCTexts
  Configs <- MCConfigs
  Scripts <- MCScripts
  Sounds <- MCSounds
  Objects <- MCObjects
  MaxRewrites = 2
  NoMember = NoMember
  NoInfo = NoInfo
  Unreadable = Unreadable
  NoConfig = NoConfig
  Unknown = Unknown
  Null = Null
  Uninitialized = Uninitialized
  Unused = Unused
INVARIANTS
  TypeOK
  MembersAreKept
  ConfigsAreKept
  ScriptsAreWhole
  ScriptsAreLinked
  SoundsAreKept
  FieldsAreKept
PROPERTIES
  RewritesAreStable
  DecodingEnds
CHECK_DEADLOCK FALSE
