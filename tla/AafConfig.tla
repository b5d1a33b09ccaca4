----------------------------- MODULE AafConfig -----------------------------
(***************************************************************************)
(* Configuration of one AAF mapping session (openavb_map_aaf_audio.c):     *)
(* Initialize's defaults, the name/value pairs of the .ini file applied by *)
(* CfgCB, gen_init's size calculation (x_calculateSizes) and its media-    *)
(* and redundancy-queue sizing, the role chosen by tx_init or rx_init, and *)
(* the information callbacks the AVTP layer reads afterwards.             *)
(*                                                                         *)
(* A configuration value is a string only through strtol: it is abstracted *)
(* to the number strtol returns and whether strtol consumed all of it.     *)
(* The audio fields of the public record are set by the interface module   *)
(* before gen_init and are chosen in Init.                                 *)
(***************************************************************************)
EXTENDS Naturals, TLC, AafHeader

CONSTANTS
  AudioRates,     \* audioRate values the interface may configure (Hz)
  AudioTypes,     \* audioType values: "int" or "float"
  AudioBitDepths, \* audioBitDepth values
  AudioChannels,  \* audioChannels values
  CfgTexts        \* key |-> set of values the .ini file may give it

(* A value as strtol sees it: the leading number, and *pEnd == '\0'.       *)
Text == [num : Nat, whole : BOOLEAN]

(* The avb_audio rates x_calculateSizes knows, and their AAF rate codes.   *)
AafRateCode ==
  8000 :> 1 @@ 16000 :> 2 @@ 32000 :> 3 @@ 44100 :> 4 @@ 48000 :> 5 @@
  88200 :> 6 @@ 96000 :> 7 @@ 176400 :> 8 @@ 192000 :> 9 @@ 24000 :> 10

AAF_FORMAT_UNSPEC == 0
AAF_STATIC_CHANNELS_LAYOUT == 0   \* aaf_automotive_channels_layout_t
SparseModes == {"DISABLED", "ENABLED"}   \* avb_audio_sparse_mode_t
IsIntFormat(f) == f \in 2..4   \* AAF_FORMAT_INT_32 .. AAF_FORMAT_INT_16
TOTAL_HEADER_SIZE == 24
AVTP_SUBTYPE_AAF == 2

(* The keys CfgCB stores with a plain strtol, and the field each sets.     *)
CfgField ==
  "map_nv_item_count" :> "itemCount" @@
  "map_nv_packing_factor" :> "packingFactor" @@
  "map_nv_tx_rate" :> "txInterval" @@ "map_nv_tx_interval" :> "txInterval" @@
  "map_nv_audio_mcr" :> "audioMcr" @@
  "map_nv_mcr_timestamp_interval" :> "mcrTimestampInterval" @@
  "map_nv_mcr_recovery_interval" :> "mcrRecoveryInterval" @@
  "map_nv_temporal_redundant_offset" :> "temporalRedundantOffsetUsec" @@
  "map_nv_max_allowed_dropout_time" :> "temporalRedundantOffsetUsec" @@
  "map_nv_report_seconds" :> "report_seconds"

VARIABLES
  phase,     \* "configuring", "generated", "talker", "listener", "crashed"
  pvt,       \* pvt_data_t: the configured and the derived fields
  pub,       \* media_q_pub_map_aaf_audio_info_t
  mediaQ,    \* openavbMediaQSetSize: item count and item size
  divByZero  \* history: gen_init has divided by a txInterval of 0

vars == <<phase, pvt, pub, mediaQ, divByZero>>

(* openavbMapAVTPAudioInitialize: calloc'ed records, then the defaults.    *)
Initialize ==
  /\ pvt = [itemCount |-> 20, txInterval |-> 4000, packingFactor |-> 1,
            sparseMode |-> "DISABLED", audioMcr |-> 0,
            aaf_event_field |-> AAF_STATIC_CHANNELS_LAYOUT,
            mcrTimestampInterval |-> 144, mcrRecoveryInterval |-> 512,
            temporalRedundantOffsetUsec |-> 0, report_seconds |-> 0,
            isTalker |-> FALSE, dataValid |-> FALSE,
            aaf_rate |-> 0, aaf_format |-> AAF_FORMAT_UNSPEC, aaf_bit_depth |-> 0,
            payloadSize |-> 0, payloadSizeMaxTalker |-> 0,
            payloadSizeMaxListener |-> 0, temporalRedundantQueueFrameSize |-> 0,
            temporalRedundantOffsetSamples |-> 0,
            temporalRedundantOffsetPackets |-> 0, trQueueSize |-> 0]
  /\ \E rate \in AudioRates, type \in AudioTypes, depth \in AudioBitDepths,
        ch \in AudioChannels :
       pub = [audioRate |-> rate, audioType |-> type, audioBitDepth |-> depth,
              audioChannels |-> ch, itemSampleSizeBytes |-> 0,
              packetSampleSizeBytes |-> 0, framesPerPacket |-> 0,
              packetFrameSizeBytes |-> 0, packingFactor |-> 0,
              framesPerItem |-> 0, itemFrameSizeBytes |-> 0, itemSize |-> 0]

Init ==
  /\ phase = "configuring"
  /\ Initialize
  /\ mediaQ = [itemCount |-> 0, itemSize |-> 0]
  /\ divByZero = FALSE

(* openavbMapAVTPAudioCfgCB: sparse mode changes only on exactly "0" or    *)
(* "1"; every other key takes strtol's number whatever follows it.         *)
SparseModeOf(v) ==
  IF v.whole /\ v.num = 1 THEN "ENABLED"
  ELSE IF v.whole /\ v.num = 0 THEN "DISABLED"
  ELSE pvt.sparseMode

Cfg(name, v) ==
  /\ phase = "configuring"
  /\ pvt' = IF name = "map_nv_sparse_mode"
              THEN [pvt EXCEPT !.sparseMode = SparseModeOf(v)]
              ELSE [pvt EXCEPT ![CfgField[name]] = v.num]
  /\ UNCHANGED <<phase, pub, mediaQ, divByZero>>

(* The sample widths of the formats x_calculateSizes supports (266-317).  *)
SampleFormat ==
  <<"float", 32>> :> [fmt |-> 1, bytes |-> 4] @@
  <<"int", 32>> :> [fmt |-> 2, bytes |-> 4] @@
  <<"int", 24>> :> [fmt |-> 3, bytes |-> 3] @@
  <<"int", 16>> :> [fmt |-> 4, bytes |-> 2]

(* Frames per packet: the quotient, plus one when the rate is not a       *)
(* multiple of the transmit rate (322-327).                               *)
FramesPerPacketFloor(rate, txInterval) == rate \div txInterval
FramesPerPacket(rate, txInterval) ==
  rate \div txInterval + (IF rate % txInterval # 0 THEN 1 ELSE 0)

(* The same two lines when txInterval is 0 on a target whose division     *)
(* does not trap (ARM udiv): quotient 0, remainder the dividend.           *)
FramesPerPacketByZero(rate) == 0 + (IF rate # 0 THEN 1 ELSE 0)

(* The largest payload a listener may receive before adjustments: four   *)
(* bytes per sample for any integer format (341-345).                     *)
QueueFrameSize(fmt, ch, fpp, payload) ==
  IF IsIntFormat(fmt) THEN 4 * ch * fpp ELSE payload

(* The listener's bound is doubled for a talker that sends redundancy.    *)
ListenerMaxPayloadUndoubled(frame) == frame
ListenerMaxPayload(frame) == 2 * frame

(* openavbMapAVTPAudioGenInitCB from x_calculateSizes on, once the frames *)
(* per packet are known: the rate and format switches (an unknown one      *)
(* leaves the fields it would set as they were), the packet and item      *)
(* sizes, the redundancy adjustments, the media queue's size, and the     *)
(* redundancy queue, left unallocated when the offset splits a packet.    *)
Generate(fpp) ==
  LET rate == pub.audioRate
      ch == pub.audioChannels
      usec == pvt.temporalRedundantOffsetUsec
      known == <<pub.audioType, pub.audioBitDepth>> \in DOMAIN SampleFormat
      fmt == IF known THEN SampleFormat[<<pub.audioType, pub.audioBitDepth>>].fmt
                      ELSE AAF_FORMAT_UNSPEC
      sampleBytes == IF known THEN SampleFormat[<<pub.audioType, pub.audioBitDepth>>].bytes
                              ELSE pub.packetSampleSizeBytes
      samples == IF rate \in DOMAIN AafRateCode THEN (usec * rate) \div 1000000
                                                ELSE pvt.temporalRedundantOffsetSamples
      payload == fpp * sampleBytes * ch
      frame == QueueFrameSize(fmt, ch, fpp, payload)
      packets == IF usec > 0 THEN samples \div fpp
                             ELSE pvt.temporalRedundantOffsetPackets
      itemSize == sampleBytes * ch * (fpp * pvt.packingFactor)
      redundant == usec > 0 /\ samples > 0
      split == redundant /\ samples % fpp # 0
  IN /\ pvt' = [pvt EXCEPT
                  !.aaf_rate = IF rate \in DOMAIN AafRateCode THEN AafRateCode[rate]
                                                              ELSE 0,
                  !.aaf_format = fmt,
                  !.aaf_bit_depth = IF known THEN pub.audioBitDepth ELSE @,
                  !.temporalRedundantOffsetSamples = samples,
                  !.payloadSize = payload,
                  !.payloadSizeMaxTalker = IF usec > 0 THEN 2 * payload ELSE payload,
                  !.payloadSizeMaxListener = ListenerMaxPayload(frame),
                  !.temporalRedundantQueueFrameSize = frame,
                  !.temporalRedundantOffsetPackets = packets,
                  !.trQueueSize = IF redundant /\ ~split THEN frame * (packets + 2) ELSE @,
                  !.dataValid = IF split THEN @ ELSE TRUE]
     /\ pub' = [pub EXCEPT
                  !.itemSampleSizeBytes = sampleBytes,
                  !.packetSampleSizeBytes = sampleBytes,
                  !.framesPerPacket = fpp,
                  !.packetFrameSizeBytes = sampleBytes * ch,
                  !.packingFactor = pvt.packingFactor,
                  !.framesPerItem = fpp * pvt.packingFactor,
                  !.itemFrameSizeBytes = sampleBytes * ch,
                  !.itemSize = itemSize]
     /\ mediaQ' = [itemCount |-> pvt.itemCount, itemSize |-> itemSize]
     /\ phase' = "generated"

(* openavbMapAVTPAudioGenInitCB.  A txInterval of 0 (the key given "0" or *)
(* a value strtol cannot read) is a division by zero at 323: the process  *)
(* traps (x86), or the division yields 0 and the sizes go on from there.  *)
GenInit ==
  /\ phase = "configuring"
  /\ \/ /\ pvt.txInterval # 0
        /\ Generate(FramesPerPacket(pub.audioRate, pvt.txInterval))
        /\ UNCHANGED divByZero
     \/ /\ pvt.txInterval = 0
        /\ divByZero' = TRUE
        /\ \/ /\ phase' = "crashed"
              /\ UNCHANGED <<pvt, pub, mediaQ>>
           \/ Generate(FramesPerPacketByZero(pub.audioRate))

(* openavbMapAVTPAudioTxInitCB and the role part of RxInitCB.              *)
TxInitRoleUnset ==
  /\ phase = "generated"
  /\ phase' = "talker"
  /\ UNCHANGED <<pvt, pub, mediaQ, divByZero>>

TxInit ==
  /\ phase = "generated"
  /\ phase' = "talker"
  /\ pvt' = [pvt EXCEPT !.isTalker = TRUE]
  /\ UNCHANGED <<pub, mediaQ, divByZero>>

RxInit ==
  /\ phase = "generated"
  /\ phase' = "listener"
  /\ pvt' = [pvt EXCEPT !.isTalker = FALSE]
  /\ UNCHANGED <<pub, mediaQ, divByZero>>

Next ==
  \/ \E name \in DOMAIN CfgTexts : \E v \in CfgTexts[name] : Cfg(name, v)
  \/ GenInit
  \/ TxInit
  \/ RxInit

Spec == Init /\ [][Next]_vars

-----------------------------------------------------------------------------
(* The information callbacks.                                              *)
SubtypeCB == AVTP_SUBTYPE_AAF
AvtpVersionCB == 0
TransmitIntervalCB == pvt.txInterval

(* max_data_size: the larger listener bound until the role is known, in a *)
(* U16 return value.                                                       *)
MaxDataSizeCB ==
  ((IF pvt.isTalker THEN pvt.payloadSizeMaxTalker ELSE pvt.payloadSizeMaxListener)
     + TOTAL_HEADER_SIZE) % 65536
-----------------------------------------------------------------------------
Phases == {"configuring", "generated", "talker", "listener", "crashed"}
Generated == phase \in {"generated", "talker", "listener"}

TypeOK ==
  /\ phase \in Phases
  /\ pvt.sparseMode \in SparseModes
  /\ \A f \in DOMAIN pvt \ {"sparseMode", "isTalker", "dataValid"} : pvt[f] \in Nat
  /\ \A f \in DOMAIN pub \ {"audioType"} : pub[f] \in Nat
  /\ pvt.isTalker <=> phase = "talker"
  /\ divByZero \in BOOLEAN

(* Spec 4.C's size calculator, written from the spec: frames per packet  *)
(* is the ceiling of rate / txInterval, the offset in samples is usec x   *)
(* rate / 10^6 and in packets that over the frames per packet.            *)
SpecSampleBytes == <<"float", 32>> :> 4 @@ <<"int", 32>> :> 4 @@
                   <<"int", 24>> :> 3 @@ <<"int", 16>> :> 2
SpecSizes ==
  LET ch == pub.audioChannels
      usec == pvt.temporalRedundantOffsetUsec
      fpp == (pub.audioRate + pvt.txInterval - 1) \div pvt.txInterval
      sb == SpecSampleBytes[<<pub.audioType, pub.audioBitDepth>>]
      payload == fpp * ch * sb
      samples == (usec * pub.audioRate) \div 1000000
  IN [framesPerPacket |-> fpp, payloadSize |-> payload,
      payloadSizeMaxListener |->
        2 * (IF pub.audioType = "int" THEN 4 * ch * fpp ELSE payload),
      payloadSizeMaxTalker |-> IF usec > 0 THEN 2 * payload ELSE payload,
      itemSize |-> fpp * pvt.packingFactor * ch * sb,
      offsetSamples |-> samples,
      offsetPackets |-> IF usec > 0 THEN samples \div fpp ELSE 0]

(* After gen_init with a supported rate and format and a nonzero transmit *)
(* rate, every size x_calculateSizes derived is the one spec 4.C defines: *)
(* the ceiling at 322-327, the widths of 266-317, the listener and talker *)
(* maxima of 341-368 and the offset conversions of 213-264 and 365-367.   *)
SizesAsSpecified ==
  Generated /\ pvt.txInterval # 0 /\ pub.audioRate \in DOMAIN AafRateCode
    /\ <<pub.audioType, pub.audioBitDepth>> \in DOMAIN SampleFormat
  => SpecSizes =
       [framesPerPacket |-> pub.framesPerPacket, payloadSize |-> pvt.payloadSize,
        payloadSizeMaxListener |-> pvt.payloadSizeMaxListener,
        payloadSizeMaxTalker |-> pvt.payloadSizeMaxTalker,
        itemSize |-> pub.itemSize,
        offsetSamples |-> pvt.temporalRedundantOffsetSamples,
        offsetPackets |-> pvt.temporalRedundantOffsetPackets]

(* The payload tx writes (bytesNeeded at 581, twice it with redundancy)    *)
(* and the largest one rx accepts: any integer width with the configured  *)
(* sample count (868-880) and room for a redundant copy (902).            *)
TalkerSends ==
  pub.itemFrameSizeBytes * pub.framesPerPacket
    * (IF pvt.temporalRedundantOffsetUsec > 0 THEN 2 ELSE 1)
ListenerAccepts ==
  2 * (IF IsIntFormat(pvt.aaf_format) THEN 4 ELSE pub.packetSampleSizeBytes)
    * pub.audioChannels * pub.framesPerPacket

(* The frame size max_data_size reports to the AVTP layer, which sizes    *)
(* its buffers by it, holds every AVTPDU of the session's role: before    *)
(* tx_init or rx_init both roles', after tx_init the talker's, after      *)
(* rx_init the largest the listener accepts; in its U16 return value.     *)
MaxDataSizeCovers ==
  Generated =>
    TOTAL_HEADER_SIZE
      + (IF phase = "talker" THEN TalkerSends
         ELSE IF TalkerSends > ListenerAccepts THEN TalkerSends ELSE ListenerAccepts)
      <= MaxDataSizeCB

(* The header a talker writes (tx, 672-689; spec 4.B and 8 invariant 1): *)
(* for a supported format, rx decodes from the two words exactly the       *)
(* session's format, rate code, channels, bit depth, payload size, event   *)
(* field and sparse mode, although the sparse-mode bit and the event field *)
(* share byte 22, and a listener configured like the talker keeps the     *)
(* stream valid (820-890).                                                 *)
HeaderRoundTrip ==
  phase = "talker" /\ pvt.aaf_format # AAF_FORMAT_UNSPEC =>
    LET sparse == pvt.sparseMode = "ENABLED"
        h == DecodeHeader(FormatInfo(pvt.aaf_format, pvt.aaf_rate,
                                     pub.audioChannels, pvt.aaf_bit_depth),
                          PacketWord(pvt.payloadSize, pvt.aaf_event_field, sparse))
    IN /\ h = [format |-> pvt.aaf_format, rate |-> pvt.aaf_rate,
               channels |-> pub.audioChannels, bitDepth |-> pvt.aaf_bit_depth,
               payloadSize |-> pvt.payloadSize,
               eventField |-> pvt.aaf_event_field, sparse |-> sparse]
       /\ RxHeaderValid(h, pvt.aaf_format, pvt.aaf_rate, pub.audioChannels,
                        pvt.payloadSize)

(* rx_lost converts a redundant frame of another integer width through a  *)
(* static 1500-byte buffer, pulling a whole queue frame into it (1114-    *)
(* 1121): a listener with a redundancy queue and an integer format must   *)
(* have queue frames that fit that buffer.                                *)
ScratchBytes == 1500
ScratchHoldsQueueFrame ==
  phase = "listener" /\ pvt.trQueueSize > 0 /\ IsIntFormat(pvt.aaf_format)
    => pvt.temporalRedundantQueueFrameSize <= ScratchBytes

(* gen_init never divides by zero; Initialize defaults txInterval to 4000 *)
(* "to something that wont cause divide by zero", but CfgCB stores       *)
(* whatever strtol returns, 0 included.                                   *)
NoDivisionByZero == ~divByZero
====
