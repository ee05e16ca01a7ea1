SPECIFICATION Spec
CONSTANTS
  NameOrder <- MCNameOrder
  BranchFields <- MCBranchFields
  CutObjects <- MCCutObjects
  CutBranches <- MCCutBranches
  Signature <- MCSignature
  Passes <- MCPasses
  NoCut = NoCut
  NoBranch = NoBranch
  Inputs <- MCInputs
  Settings <- MCSettings
  TaskSettings <- MCTaskSettings
  Requests <- MCRequests
  Events <- MCEvents
  RunArguments <- MCRunArguments
  MaxTasks = 2
  MaxRequests = 2
INVARIANTS
  TypeOK
  TasksServed
  ColumnsDenoteRequests
  RowsExact
  OutputFollowsEvents
  ReadyTasksRun
CHECK_DEADLOCK FALSE
