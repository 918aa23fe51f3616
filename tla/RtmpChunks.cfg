SPECIFICATION Spec
CONSTANTS
  Csids = {3, 400}
  Lengths = {0, 1, 5}
  Times = {1, 5}
  ChunkSizes = {2, 8}
  kDefaultChunkSize = 3
  C0C1Size = 3
  PacketSize = 2
  ExtMark = 4
  TimeMod = 8
  MaxMessages = 3
  Window = 2
  LengthMod = 65536
CONSTRAINT Scope
CHECK_DEADLOCK FALSE
INVARIANTS TypeOK AsSent NothingLeft Amf0RoundTrip
