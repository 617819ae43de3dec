SPECIFICATION UnitsSpec
CONSTANTS
  Window = 3
  MaxCounter = 7
  NMaps = 2
  MaxBytes = 2
  Room = 1
  Packets <- Frames
  Buf = 2
  Slots = 2
  MaxPackets = 3
  Keys = {k1, k2}
  Addresses = {a1}
INVARIANTS
  NoFalseRefusal
  StreamsIntact
  HandlesReturned
  PacketsIntact
  DiskSound
PROPERTIES
  ImplementsAtMostOnce
  HandlerEnds
  PacketsTaken
CHECK_DEADLOCK FALSE
