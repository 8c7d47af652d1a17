CONSTANTS
  t1 = t1
  t2 = t2
  Threads = {t1, t2}
  B = 8
  Magic <- MCMagic
  MaxMessage = 48
  Nodes = {1, 2, 3}
  Nil = 0
  Keys <- MCKeys
  Values <- MCValues
  Frames <- MCFrames
  NoFrame = NoFrame
  Conns = {1}
  NoThread = NoThread
  Gone = Gone
  MaxRefs = 2
  MaxSends = 1
  MemoryFails = TRUE
SPECIFICATION Spec
SYMMETRY ThreadSymmetry
INVARIANTS ListAgrees FreedOnce StampHolds RoundTrip ReadsInBounds
PROPERTIES IsOrderedMap
CHECK_DEADLOCK TRUE
