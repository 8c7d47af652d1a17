CONSTANTS
  a = a
  b = b
  s1 = s1
  p1 = p1
  p2 = p2
  c1 = c1
  Labels = {a, b}
  Paths = {s1}
  Pids = {p1}
  Plists = {"a.plist", "b.plist", "bad.plist"}
  DefOf <- MCDefOf
  DefaultThrottle = 1
  DefaultThrottles = {1}
  MaxThrottle = 1
  Graces = {0, 1}
  Failures = {"socket", "registry"}
  Interrupts = TRUE
  ForeignReaper = FALSE
  NoPid = NoPid
  NoLabel = NoLabel
  Clients = {c1}
  NoClient = NoClient
  Requests <- MCRequests
  NoFile = NoFile
  Backlog = 1
  PollTimeout = 0
  ReceiveTimeout = 1
  StopGrace = 1
  UnloadGrace = 1
  SingleUser = {TRUE, FALSE}
  Installed = {"a.plist", "bad.plist"}
  ShutdownTimeout = 1
  FreeGrace = 0
SPECIFICATION SysLiveSpec
INVARIANTS CleanExit PidIsOwnChild
PROPERTIES ShutdownCompletes ReloadSeesFile
CHECK_DEADLOCK FALSE
