SPECIFICATION Spec
CONSTANTS
  Names <- MCNames
  DetTypes <- MCDetTypes
  BranchNames <- MCBranchNames
  Rank <- MCRank
  Prefixed <- MCPrefixed
  NewFields <- MCNewFields
  Prefixes <- MCPrefixes
  Branches = {in, out}
  in = in
  out = out
  Flows <- MCFlows
  NoBranch = NoBranch
  NoMapping = NoMapping
  Values = {0, 1, 2}
  MutableArgs = {TRUE}
  Inputs = {1}
  MaxRecords = 1
  MaxFields = 2
INVARIANTS
  TypeOK
  RecordsComplete
  MappingsCurrent
  MappingsWhole
PROPERTIES
  ImplementsNamedRecords
CHECK_DEADLOCK FALSE
