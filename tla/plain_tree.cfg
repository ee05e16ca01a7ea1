SPECIFICATION FillerSpec
CONSTANTS
  HeaderBranches = {"H"}
  ChannelBranches = {"A"}
  NameOrder <- MCNameOrder
  MatchIndexes <- MCMatchIndexes
  CutObjects = {"a1", "a2", "h"}
  CutBranches <- MCCutBranches
  Signature <- MCSignature
  LambdaSignature = "lambda"
  Passes <- MCPasses
  NoCut = "none"
  NoWeight <- MCNoWeight
  Requests <- MCRequests
  EventSizes <- MCEventSizes
  MaxRequests = 1
  MaxMatches = 0
  Fields <- MCFields
  FieldLists <- MCFieldLists
  NoBranch = "none"
  MaxEvents = 2
INVARIANTS
  PlainTreeHolds
  LeavesChosen
CHECK_DEADLOCK FALSE
