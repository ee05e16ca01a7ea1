SPECIFICATION Spec
CONSTANTS
  t1 = t1
  t2 = t2
  A = A
  B = B
  f0 = f0
  f1 = f1
  f2 = f2
  Tasks = {t1, t2}
  Branch <- MCBranch
  Files = {f0, f1, f2}
  DefaultFile = f0
  None = None
  MaxEvents = 2
  MaxEntries = 2
  MaxSessions = 3
SYMMETRY MCSymmetry
CHECK_DEADLOCK FALSE
INVARIANTS
  TypeOK
  FilesReadable
  EntriesCounted
  ChainUsable
PROPERTIES
  OutputDescribed
