SPECIFICATION Spec
CONSTANTS
  HeaderBranches = {"H"}
  ChannelBranches = {"A", "B", "C"}
  NameOrder <- MCNameOrder
  MatchIndexes <- MCMatchIndexes
  CutObjects = {"a1", "a2", "ab"}
  CutBranches <- MCCutBranches
  Signature <- MCSignature
  LambdaSignature = "lambda"
  Passes <- MCPasses
  NoCut = "none"
  NoWeight <- MCNoWeight
  Requests <- MCRequests
  EventSizes <- MCEventSizes
  MaxRequests = 2
  MaxMatches = 2
INVARIANTS
  TypeOK
  ColumnsDenoteRequests
  RowsAreSelected
  RowsComplete
  ReadyTaskRuns
CHECK_DEADLOCK FALSE
