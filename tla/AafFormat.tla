----------------------------- MODULE AafFormat -----------------------------
(***************************************************************************)
(* What talker and listener of the AAF mapping (openavb_map_aaf_audio.c)   *)
(* agree on: the sample formats, the sizes x_calculateSizes derives from   *)
(* the configuration, and the AVTPDU a talker of this code sends as its    *)
(* n-th packet.  Audio is abstracted to frame ids: every byte of the       *)
(* payload holding the n-th packet's samples is n; 0 is silence.           *)
(***************************************************************************)
EXTENDS Naturals, Sequences

CONSTANTS
  Channels, FramesPerPacket,  \* audioChannels, framesPerPacket
  PackingFactor, ItemCount,   \* map_nv_packing_factor, map_nv_item_count
  OffsetSamples,              \* temporalRedundantOffsetSamples
  TalkerFormat,               \* aaf_format of the talker
  TalkerRedundant,            \* the talker's temporalRedundantOffsetUsec > 0
  TalkerSparse,               \* the talker's map_nv_sparse_mode
  SeqBase                     \* AVTP sequence number before the first packet

(* aaf_sample_format_t *)
FORMAT_UNSPEC == 0
FORMAT_FLOAT_32 == 1
FORMAT_INT_32 == 2
FORMAT_INT_24 == 3
FORMAT_INT_16 == 4
IsIntFormat(f) == f \in FORMAT_INT_32 .. FORMAT_INT_16

ASSUME TalkerFormat \in 1 .. 4 /\ PackingFactor > 0 /\ FramesPerPacket > 0

HeaderSize == 24   \* TOTAL_HEADER_SIZE

(***************************************************************************)
(* Sizes, as x_calculateSizes derives them for a session of format f.      *)
(***************************************************************************)
SampleBytes(f) == IF IsIntFormat(f) THEN 6 - f ELSE 4
SamplesPerPacket == Channels * FramesPerPacket
PayloadSizeOf(f) == SamplesPerPacket * SampleBytes(f)
(* temporalRedundantQueueFrameSize: the largest payload before doubling.   *)
FrameSizeOf(f) == IF IsIntFormat(f) THEN 4 * SamplesPerPacket
                                    ELSE PayloadSizeOf(f)
ItemSizeOf(f) == PackingFactor * PayloadSizeOf(f)
R == OffsetSamples \div FramesPerPacket   \* temporalRedundantOffsetPackets

(***************************************************************************)
(* The stream a talker of this code sends (AafTalker checks that it does). *)
(***************************************************************************)
Payload(id, f) == [k \in 1 .. PayloadSizeOf(f) |-> id]
Frame(id) == IF id > 0 THEN id ELSE 0
(* The AVTP layer numbers the packets it sends; packet n has this number.  *)
SeqNum(n) == (SeqBase + n) % 256
(* Wire packet n.  The talker stamps the packet that opens a media item    *)
(* (one item per PackingFactor packets), in sparse mode only when the low  *)
(* 3 bits of the sequence number are 0; with redundancy the live payload   *)
(* goes second and the one of R packets earlier first.  A corrupt packet   *)
(* has a rate or channel count the listener does not expect.               *)
Packet(n, corrupt) ==
  LET len == PayloadSizeOf(TalkerFormat) IN
  [fmt       |-> TalkerFormat,
   headerOk  |-> ~corrupt,
   len       |-> len,
   dataLen   |-> HeaderSize + (IF TalkerRedundant THEN 2 ELSE 1) * len,
   tv        |-> IF TalkerSparse THEN SeqNum(n) % 8 = 0
                                 ELSE (n - 1) % PackingFactor = 0,
   sp        |-> TalkerSparse,
   primary   |-> IF TalkerRedundant THEN Payload(Frame(n - R), TalkerFormat)
                                    ELSE Payload(n, TalkerFormat),
   redundant |-> IF TalkerRedundant THEN Payload(n, TalkerFormat) ELSE <<>>]
=============================================================================
