SPECIFICATION Spec
CONSTANTS
  Objects = {o1, o2}
  Files = {f1}
  BranchNames <- MCBranchNames
  NewNames <- MCNewNames
  Ids <- MCIds
  IdOf <- MCIdOf
  DataBranch <- MCDataBranch
  InMapOrder <- MCInMapOrder
  InitialFiles <- MCInitialFiles
  Nothing = Nothing
  MaxEntries = 6
  MaxWritten = 3
INVARIANTS
  TypeOK
  StructuresAgree
  FilesReadable
  MatchesRefer
PROPERTIES
  ImplementsMatchedBranches
SYMMETRY MCSymmetry
CHECK_DEADLOCK FALSE
