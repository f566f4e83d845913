SPECIFICATION Spec
CONSTANTS
  m1 = m1
  m2 = m2
  m3 = m3
  m4 = m4
  Mbuf = {m1, m2, m3, m4}
  Queue = {0, 1}
  LcoreQueue = 0
  RxBurstMax = 2
  BurstMax = 1
  RingSize = 2
  EtherType = {0, 8}
  CacheSlack = 0
  Build = {FALSE}
  MaxFrames = 2
  Empty = Empty
PROPERTY EnqueueKeepsOrFrees
CHECK_DEADLOCK FALSE
