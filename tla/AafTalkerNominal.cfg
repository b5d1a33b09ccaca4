\* Redundant int16 stream, every item stamped, no restart; the AVTP layer
\* passes a buffer of 27 or 28 bytes (one or two payloads fit); tx weakly fair.
CONSTANTS
  Uninit = Uninit
  Channels = 1
  FramesPerPacket = 1
  PackingFactor = 2
  ItemCount = 4
  OffsetSamples = 2
  TalkerFormat = 4
  TalkerRedundant = TRUE
  TalkerSparse = FALSE
  SeqBase = 0
  MaxPackets = 16
  TxBufferSizes = {27, 28}
  InvalidTimestamps = FALSE
  Restarts = FALSE
  AllocFails = FALSE
  ShortItems = FALSE
SPECIFICATION FairSpec
INVARIANT TypeOK SentAsListenerAssumes TimestampOnOwnSamples PacketFitsBuffer
PROPERTY EventuallyDrained
