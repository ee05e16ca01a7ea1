SPECIFICATION Spec
CONSTANTS
  Leaves <- MCLeaves
  Values <- MCValues
  Counts <- MCCounts
  Limits <- MCLimits
  MaxRows = 4
  MaxRuns = 2
INVARIANTS
  DocumentedTrigger
CHECK_DEADLOCK FALSE
