CONSTANTS
  Procs = {p1, p2, p3}
  Inodes = {i1, i2, i3, i4}
  None = None
  MaxCreates = 5
  MaxCancels = 3
SPECIFICATION Spec
SYMMETRY ProcSymmetry
INVARIANTS ClaimExclusive ClaimReachable
CHECK_DEADLOCK FALSE
