SPECIFICATION Spec
CONSTANTS
  Leaves <- MCLeaves
  Values <- MCValues
  Counts <- MCCounts
  Limits <- MCLimits
  MaxRows = 4
  MaxRuns = 2
INVARIANTS
  TypeOK
  RowsKept
  FullEntries
  SplitsFollowTrigger
PROPERTIES
  RunEnds
CHECK_DEADLOCK FALSE
