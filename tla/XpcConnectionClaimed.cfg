CONSTANTS
  t1 = t1
  t2 = t2
  Threads = {t1, t2}
  Consumers = {t1, t2}
  Reader = Reader
  None = None
  MaxSends = 2
  MaxEvents = 1
  Large <- MCLarge
  HandlerCancels = FALSE
  MemoryFails = FALSE
SPECIFICATION Spec
PROPERTIES RepliesMatch
CHECK_DEADLOCK FALSE
