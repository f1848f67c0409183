CONSTANTS
  BYTE = 5
  HEADER <- MCHeader
  TRAILER <- MCTrailer
  MIN_PROTOCOL_TYPE = 1
  V3_LENGTH_INDEX = 4
  V3_HEADER_LEN = 5
  LEGACY_LENGTH_INDEX = 3
  LEGACY_HEADER_LEN = 4
  CRC_LEN = 1
  PROTOCOL = 1
  Payloads <- MCPayloads
  Crcs = {0, 4}
  Noise <- MCNoise
  ChunkSizes = {1, 3, 7}
  MaxFrames = 2
  MaxNoise = 1
  MaxDrops = 1
SPECIFICATION Spec
INVARIANTS
  ChunksDoNotMatter
  BufferIsBounded
  FramesArriveWhole
  LateByOneFrameAtMost
CHECK_DEADLOCK FALSE
