SPECIFICATION Spec
CONSTANTS
  NameOrder <- MCNameOrder
  BranchFields <- MCBranchFields
  CutObjects <- MCCutObjects
  CutBranches <- MCCutBranches
  Signature <- MCSignature
  Passes <- MCPasses
  NoCut = NoCut
  NoBranch = NoBranch
  Inputs <- MCInputsHashed
  Settings <- MCSettings
  TaskSettings <- MCTaskSettings
  Requests <- MCRequests
  Events <- MCEvents
  RunArguments <- MCRunArguments
  MaxTasks = 1
  MaxRequests = 1
INVARIANT DocumentedTwoBranches
CHECK_DEADLOCK FALSE
