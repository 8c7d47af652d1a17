CONSTANTS
  t1 = t1
  t2 = t2
  t3 = t3
  p1 = p1
  p2 = p2
  Threads = {t1, t2, t3}
  Uses <- MCUses
  Ports = {p1, p2}
  Grants <- MCGrants
  PortSets <- MCPortSets
  MaxSends = 2
  MemoryFails = TRUE
SPECIFICATION LiveSpec
INVARIANTS TypeOK OwnedIsLive SignalPending
PROPERTIES FreshPort NoFalseTimeout ReceiverWakes WaitAnyWakes
