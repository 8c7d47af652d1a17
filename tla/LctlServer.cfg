CONSTANTS
  a = a
  p1 = p1
  c1 = c1
  c2 = c2
  Labels = {a}
  Paths = {}
  Pids = {p1}
  Plists = {"a.plist"}
  DefOf <- MCDefOf
  DefaultThrottle = 1
  DefaultThrottles = {1}
  MaxThrottle = 1
  Graces = {1}
  Failures = {"memory"}
  Interrupts = FALSE
  ForeignReaper = TRUE
  NoPid = NoPid
  NoLabel = NoLabel
  Clients = {c1, c2}
  NoClient = NoClient
  Requests <- MCRequests
  NoFile = NoFile
  Backlog = 1
  PollTimeout = 1
  ReceiveTimeout = 1
  StopGrace = 1
  UnloadGrace = 1
SPECIFICATION LctlLiveSpec
INVARIANTS NoLeakedZombie
PROPERTIES RepliesAreTrue RequestsAnswered KeptAlive CallsReturn
CHECK_DEADLOCK TRUE
