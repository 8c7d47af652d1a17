CONSTANTS
  a = a
  b = b
  s1 = s1
  p1 = p1
  p2 = p2
  Labels = {a, b}
  Paths = {s1}
  Pids = {p1, p2}
  Plists = {"a.plist", "b.plist", "bad.plist"}
  DefOf <- MCDefOf
  DefaultThrottle = 1
  DefaultThrottles = {1}
  MaxThrottle = 1
  Graces = {1}
  Failures = {"socket", "memory", "fork"}
  Interrupts = TRUE
  ForeignReaper = TRUE
  NoPid = NoPid
  NoLabel = NoLabel
SPECIFICATION Spec
SYMMETRY PidSymmetry
INVARIANTS TypeOK LabelsUnique NoStrayProcess NoDeadSocketPath
PROPERTIES ThrottleHonoured StopOutranksPlist
