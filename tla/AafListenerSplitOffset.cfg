\* A redundancy offset of 1 sample with 2 frames per packet: the offset
\* is not a whole number of packets.
CONSTANTS
  Uninit = Uninit
  Channels = 1
  FramesPerPacket = 2
  ListenerFormat = 4
  TalkerFormat = 4
  PackingFactor = 2
  ItemCount = 2
  RedundancyConfigured = TRUE
  OffsetSamples = 1
  ListenerSparse = FALSE
  ReportStats = FALSE
  TalkerRedundant = TRUE
  TalkerSparse = FALSE
  SeqBase = 0
  MaxSlot = 7
  MaxLost = 2
  ConsumerKeepsUp = TRUE
  CorruptPackets = FALSE
  MalformedLengths = FALSE
  Restarts = FALSE
  AllocFails = FALSE
SPECIFICATION Spec
INVARIANT NoNullQueueWrite
