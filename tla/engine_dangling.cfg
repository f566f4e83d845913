SPECIFICATION Spec
CONSTANTS
  m1 = m1
  m2 = m2
  m3 = m3
  Mbuf = {m1, m2, m3}
  Queue = {0, 1}
  LcoreQueue = 0
  RxBurstMax = 1
  BurstMax = 1
  RingSize = 2
  EtherType = {0, 8}
  CacheSlack = 0
  Build = {FALSE}
  MaxFrames = 1
  Empty = Empty
INVARIANT EngineMemorySafe
CHECK_DEADLOCK FALSE
