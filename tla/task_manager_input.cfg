SPECIFICATION Spec
CONSTANTS
  t1 = t1
  t2 = t2
  A = A
  B = B
  f0 = f0
  f1 = f1
  f2 = f2
  Tasks = {t1, t2}
  Branch <- MCBranch
  Files = {f0, f1, f2}
  DefaultFile = f0
  None = None
  MaxEvents = 1
  MaxEntries = 1
  MaxSessions = 3
SYMMETRY MCSymmetry
CHECK_DEADLOCK FALSE
INVARIANTS
  InputExists
