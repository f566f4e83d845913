SPECIFICATION Spec
CONSTANTS
  IdSpace = 4
  MaxAdds = 6
INVARIANTS TypeOK RingNamesMatch ChannelsAllocated IdsNeverReused PacketiserIdReserved
CHECK_DEADLOCK FALSE
