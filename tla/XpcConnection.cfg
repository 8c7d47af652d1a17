CONSTANTS
  t1 = t1
  t2 = t2
  Threads = {t1, t2}
  Consumers = {t1}
  Reader = Reader
  None = None
  MaxSends = 2
  MaxEvents = 1
  Large <- MCLarge
  HandlerCancels = FALSE
  MemoryFails = TRUE
SPECIFICATION LiveSpec
INVARIANTS NothingLost
PROPERTIES RepliesMatch TimeoutHonoured ReplyReachesCaller CancelEndsReader
CHECK_DEADLOCK FALSE
