\* Offset of 3 packets; two channels; the talker sends int24, the listener
\* converts to int16 sample by sample; sparse-mode stream starting at
\* sequence number 5; the reader keeps up and no header is corrupt.  Up to 3
\* packets in a row are lost among 11.
CONSTANTS
  Uninit = Uninit
  Channels = 2
  FramesPerPacket = 1
  ListenerFormat = 4
  TalkerFormat = 3
  PackingFactor = 2
  ItemCount = 3
  RedundancyConfigured = TRUE
  OffsetSamples = 3
  ListenerSparse = FALSE
  ReportStats = FALSE
  TalkerRedundant = TRUE
  TalkerSparse = TRUE
  SeqBase = 4
  MaxSlot = 11
  MaxLost = 3
  ConsumerKeepsUp = TRUE
  CorruptPackets = FALSE
  MalformedLengths = FALSE
  Restarts = FALSE
  AllocFails = FALSE
SPECIFICATION Spec
INVARIANT TypeOK ConcealmentAligned NoRedundancyMismatchLogged
