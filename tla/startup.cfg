SPECIFICATION FairSpec
CONSTANTS
  Packetiser = {p1, p2, p3}
  Cores = {1, 2, 3}
INVARIANTS TypeOK DoubleFreeNeedsTwo HelloAnnouncesLiveObjects TxQueuesReady
PROPERTIES AttachIsOnce EngineStarts PacketiserEnds
CHECK_DEADLOCK FALSE
