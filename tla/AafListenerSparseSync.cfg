\* A sparse-mode talker whose first packet (sequence number 5) carries no
\* timestamp.
CONSTANTS
  Uninit = Uninit
  Channels = 1
  FramesPerPacket = 1
  ListenerFormat = 4
  TalkerFormat = 4
  PackingFactor = 2
  ItemCount = 2
  RedundancyConfigured = TRUE
  OffsetSamples = 2
  ListenerSparse = FALSE
  ReportStats = FALSE
  TalkerRedundant = TRUE
  TalkerSparse = TRUE
  SeqBase = 4
  MaxSlot = 7
  MaxLost = 2
  ConsumerKeepsUp = TRUE
  CorruptPackets = FALSE
  MalformedLengths = FALSE
  Restarts = FALSE
  AllocFails = FALSE
SPECIFICATION Spec
PROPERTY NoAudioBeforeSync
