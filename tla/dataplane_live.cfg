SPECIFICATION FairSpec
CONSTANTS
  m1 = m1
  m2 = m2
  m3 = m3
  m4 = m4
  Mbuf = {m1, m2, m3, m4}
  Queue = {0}
  LcoreQueue = 0
  RxBurstMax = 1
  BurstMax = 1
  RingSize = 2
  EtherType = {8}
  CacheSlack = 0
  Build = {TRUE, FALSE}
  MaxFrames = 3
  Empty = Empty
PROPERTIES RingServed CtrlCStopsUnlessSpinning BacklogDrains CtrlCStopsEngine PolledQueueServed
CHECK_DEADLOCK FALSE
