CONSTANTS
  Names <- MCNames
  Files <- MCFiles
  Texts <- MCTexts
  FontMapSize = 17
  NoOutput = NoOutput
  Slots = 2
SPECIFICATION Spec
INVARIANTS
  TypeOK
  EntriesDisjoint
  FreeListIsExact
  EstimatesHold
PROPERTY RepackSpec
