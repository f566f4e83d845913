SPECIFICATION MCSpec
CONSTANTS
  Mbuf = {m1, m2, m3, m4}
  Ip <- TestIp
  NotIp = NotIp
  Client = {2, 3}
  BurstMax = 1
  RingSize = 2
  MaxSent = 2
  MaxRoutes = 1
SYMMETRY MbufSymmetry
INVARIANTS TypeOK NoMbufTwice EveryPacketLeaksOne
PROPERTY NothingLeftBehind
CHECK_DEADLOCK FALSE
