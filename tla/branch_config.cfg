SPECIFICATION Spec
CONSTANTS
  Names <- MCNames
  DetTypes <- MCDetTypes
  BranchNames <- MCBranchNames
  Rank <- MCRank
  Prefixed <- MCPrefixed
  UserNames <- MCUserNames
  Handles = {h1, h2}
  NoConfig = NoConfig
  CallerIds = {1}
  MaxSlots = 4
INVARIANTS
  TypeOK
  FieldIdsUnique
  SlotsReserved
  OneElementaryType
  DefaultFieldsKept
PROPERTIES
  ImplementsLayout
SYMMETRY MCSymmetry
CHECK_DEADLOCK FALSE
