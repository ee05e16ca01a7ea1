SPECIFICATION MergeSpec
CONSTANTS
  Names <- MCNames
  DetTypes <- MCDetTypes
  BranchNames <- MCBranchNames
  Rank <- MCRank
  Prefixed <- MCPrefixed
  NewFields <- MCNewFields
  Prefixes <- MCPrefixes
  SourceName <- MCSourceName
  Branches = {rec, sim, out}
  rec = rec
  sim = sim
  out = out
  Flows <- MCFlows
  NoBranch = NoBranch
  NoMapping = NoMapping
  NullChannel = NullChannel
  Values = {0, 2, 3, 4}
  MutableArgs = {TRUE}
  Inputs = {3}
  MaxRecords = 1
  MaxFields = 7
INVARIANTS
  MergedRecordHolds
CHECK_DEADLOCK FALSE
