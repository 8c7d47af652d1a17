CONSTANTS
  Procs = {p1, p2}
  Inodes = {i1, i2, i3}
  None = None
  MaxCreates = 3
  MaxCancels = 1
SPECIFICATION Spec
INVARIANTS OneListener
CHECK_DEADLOCK FALSE
