\* Every hazard of the environment at once: a reader that falls behind (the
\* media queue fills), corrupt headers that mute the stream, stream restarts
\* (end, then rx_init), periodic statistics reports and failing mallocs.  Talker and listener
\* both use int16.  Offset of 3 packets; up to 2 packets in a row are lost among 8.
CONSTANTS
  Uninit = Uninit
  Channels = 1
  FramesPerPacket = 1
  ListenerFormat = 4
  TalkerFormat = 4
  PackingFactor = 2
  ItemCount = 2
  RedundancyConfigured = TRUE
  OffsetSamples = 3
  ListenerSparse = FALSE
  ReportStats = TRUE
  TalkerRedundant = TRUE
  TalkerSparse = FALSE
  SeqBase = 0
  MaxSlot = 8
  MaxLost = 2
  ConsumerKeepsUp = FALSE
  CorruptPackets = TRUE
  MalformedLengths = FALSE
  Restarts = TRUE
  AllocFails = TRUE
SPECIFICATION Spec
INVARIANT RedundancyQueuesInStep
