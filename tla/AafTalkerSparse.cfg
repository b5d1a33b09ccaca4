\* Sparse mode with the first packet on sequence number 8, so every eighth
\* packet opens an item; items may carry no valid time; the stream restarts;
\* the malloc of the redundancy queue may fail; items may be short or empty.
CONSTANTS
  Uninit = Uninit
  Channels = 1
  FramesPerPacket = 1
  PackingFactor = 2
  ItemCount = 2
  OffsetSamples = 2
  TalkerFormat = 4
  TalkerRedundant = TRUE
  TalkerSparse = TRUE
  SeqBase = 7
  MaxPackets = 6
  TxBufferSizes = {27, 28}
  InvalidTimestamps = TRUE
  Restarts = TRUE
  AllocFails = TRUE
  ShortItems = TRUE
SPECIFICATION Spec
INVARIANT TalkerQueueInStep
