\* A reader that falls behind: rx meets a full media queue.
CONSTANTS
  Uninit = Uninit
  Channels = 1
  FramesPerPacket = 1
  ListenerFormat = 4
  TalkerFormat = 4
  PackingFactor = 2
  ItemCount = 2
  RedundancyConfigured = TRUE
  OffsetSamples = 2
  ListenerSparse = FALSE
  ReportStats = FALSE
  TalkerRedundant = TRUE
  TalkerSparse = FALSE
  SeqBase = 0
  MaxSlot = 7
  MaxLost = 2
  ConsumerKeepsUp = FALSE
  CorruptPackets = FALSE
  MalformedLengths = FALSE
  Restarts = FALSE
  AllocFails = FALSE
SPECIFICATION Spec
INVARIANT ConcealmentAligned
