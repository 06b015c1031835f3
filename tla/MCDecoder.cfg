\* A stream, cut anywhere by the device and by the host, which may lose a buffer; it ends with the wire
CHECK_DEADLOCK FALSE
CONSTANTS
  MAX_PACKET_SIZE = 3
  buf_length = 300
  Shifted <- MCShifted
  ClockMod = 16
  Chunk <- MCChunk
  Kinds <- MCKinds
  BusFrames <- MCBusFrames
  MaxPackets = 2
  MaxBusFrames = 1
  FrameSizes <- MCFrameSizes
  ChunkSizes <- MCChunkSizes
  MaxLosses = 1
  MaxFailures = 2
SPECIFICATION StreamFairSpec
INVARIANTS
  NothingHeldBack
  WithinBounds
  TimestampsOrdered
PROPERTIES
  OrderedDelivered
  CallsReturn
