---------------------------- MODULE AafListener ----------------------------
(***************************************************************************)
(* The listener side of the AAF mapping (openavb_map_aaf_audio.c): the     *)
(* gen_init, rx_init, rx, rx_lost and end callbacks of one session, the    *)
(* media queue head they fill, and the temporal-redundancy data queue and  *)
(* entry-type queue through which a lost packet is concealed with the      *)
(* redundant copy a later packet carried.  The remote talker is this code  *)
(* too: wire packet n is AafFormat's Packet(n, corrupt), which carries the *)
(* primary payload n - R (silence for n <= R) and the redundant payload n. *)
(***************************************************************************)
EXTENDS Naturals, Sequences, FiniteSets, CircularQueue, AafFormat

CONSTANTS
  ListenerFormat,             \* aaf_format this listener is configured for
  RedundancyConfigured,       \* map_nv_temporal_redundant_offset > 0
  ListenerSparse,             \* map_nv_sparse_mode
  ReportStats,                \* map_nv_report_seconds > 0
  MaxSlot, MaxLost,           \* bounds: last wire packet, largest numLost
  ConsumerKeepsUp,            \* the media queue is never full at a callback
  CorruptPackets,             \* packets with a mismatching header arrive
  MalformedLengths,           \* a remote talker may declare a length that is
                              \* not a whole number of samples
  Restarts,                   \* the stream stops (end) and restarts (rx_init)
  AllocFails                  \* a malloc of a redundancy queue may return NULL

ASSUME ListenerFormat \in 1 .. 4

(* The listener's sizes (x_calculateSizes for its own format).             *)
PayloadSize == PayloadSizeOf(ListenerFormat)
FrameSize == FrameSizeOf(ListenerFormat)
ItemSize == ItemSizeOf(ListenerFormat)

(* The sample converter: each sample of inLen bytes becomes outLen bytes,  *)
(* copying min(inLen, outLen) and padding with zeros (IEEE 1722 7.3.4) or  *)
(* skipping the low-order rest.                                            *)
ConvertSamples(in, inLen, outLen) ==
  [j \in 1 .. ((Len(in) + inLen - 1) \div inLen) * outLen |->
     LET s == (j - 1) \div outLen
         b == (j - 1) % outLen
     IN IF b < inLen THEN in[s * inLen + b + 1] ELSE 0]

-----------------------------------------------------------------------------
VARIABLES
  phase,             \* "created", "generated", "running", "stopped"
  redundancyOn,      \* temporalRedundantOffsetUsec > 0
  sparseMode,        \* sparseMode = TS_SPARSE_MODE_ENABLED
  dataValid,         \* pPvtData->dataValid: the stream is un-muted
  mediaQItemSyncTS,
  trq,               \* temporalRedundantQueue
  stq,               \* trStatsEntryTypeQueue
  stats,             \* trStatsTotalFrames, ...LostFrames, ...NeededAvailable, ...NotAvailable
  mq,                \* media queue: items pushed and unread, head item dataLen and tv
  lostPending,       \* iterations left of the numLost loop of rx_lost
  slot,              \* next wire packet the network delivers
  arrived,           \* wire packets delivered since rx_init (history)
  heard,             \* a packet arrived since rx_init, so losses are counted
  conceal,           \* last concealed packet: slot, source, payload (history)
  crashed,           \* a callback wrote through a NULL queue pointer
  mismatchLogged     \* history: rx logged "Redundant data does not match"

mapVars == <<phase, redundancyOn, sparseMode, dataValid, mediaQItemSyncTS,
             trq, stq, stats, lostPending>>
envVars == <<slot, arrived, heard, conceal, crashed, mismatchLogged>>
vars == <<mapVars, mq, envVars>>

NoStats == [total |-> 0, lost |-> 0, avail |-> 0, notAvail |-> 0]
NoConceal == [slot |-> 0, src |-> "none", data |-> <<>>]

(* openavbMapAVTPAudioInitialize followed by the cfg callbacks.            *)
Init ==
  /\ phase = "created"
  /\ redundancyOn = RedundancyConfigured
  /\ sparseMode = ListenerSparse
  /\ dataValid = FALSE
  /\ mediaQItemSyncTS = FALSE
  /\ trq = NoQueue /\ stq = NoQueue
  /\ stats = NoStats
  /\ mq = [pushed |-> 0, len |-> 0, tv |-> FALSE]
  /\ lostPending = 0
  /\ slot = 1 /\ arrived = {} /\ heard = FALSE
  /\ conceal = NoConceal /\ crashed = FALSE /\ mismatchLogged = FALSE

(* The outcomes of a malloc.                                              *)
Allocations == IF AllocFails THEN BOOLEAN ELSE {TRUE}

(* Mutant: the data queue is one byte longer than R+2 frames.             *)
DataQueueSizeOffByOne == FrameSize * (R + 2) + 1

(* Bytes of the data queue gen_init allocates (520-521).                  *)
DataQueueSize == FrameSize * (R + 2)

(* openavbMapAVTPAudioGenInitCB: the data queue holds R+2 frames and starts *)
(* with R frames of silence; a split offset leaves it unallocated.         *)
GenInit ==
  /\ phase = "created"
  /\ phase' = "generated"
  /\ IF redundancyOn /\ OffsetSamples > 0
       THEN IF OffsetSamples % FramesPerPacket # 0
              THEN UNCHANGED <<trq, dataValid>>
              ELSE \E ok \in Allocations :
                     IF ok
                     THEN /\ trq' = PushBufferToCircularQueue(
                                      AllocateCircularQueue(DataQueueSize),
                                      Zeros(FrameSize * R))
                          /\ dataValid' = TRUE
                     ELSE \* returns before the prefill and before dataValid
                          /\ trq' = FailedAllocation(DataQueueSize)
                          /\ UNCHANGED dataValid
       ELSE UNCHANGED trq /\ dataValid' = TRUE
  /\ UNCHANGED <<redundancyOn, sparseMode, mediaQItemSyncTS, stq, stats,
                 lostPending, mq, envVars>>

(* openavbMapAVTPAudioRxInitCB: the entry-type queue starts with R entries  *)
(* of FORMAT_UNSPEC, and the statistics are cleared.                       *)
RxInit ==
  /\ phase \in {"generated", "stopped"}
  /\ phase' = "running"
  /\ IF redundancyOn
       THEN \E ok \in Allocations :
              IF ok
              THEN /\ stq' = PushBufferToCircularQueue(
                               AllocateCircularQueue(R + 10), Zeros(R))
                   /\ stats' = NoStats
                   /\ UNCHANGED crashed
              ELSE \* the result is ignored: the prefill writes through NULL
                   /\ stq' = FailedAllocation(R + 10)
                   /\ crashed' = TRUE
                   /\ UNCHANGED stats
       ELSE UNCHANGED <<stq, stats, crashed>>
  /\ arrived' = {} /\ heard' = FALSE /\ conceal' = NoConceal
  /\ UNCHANGED <<redundancyOn, sparseMode, dataValid, mediaQItemSyncTS, trq,
                 lostPending, mq, slot, mismatchLogged>>

-----------------------------------------------------------------------------
(***************************************************************************)
(* openavbMapAVTPAudioRxCB, split by outcome: a header that mutes the      *)
(* stream, a full media queue, and a packet that reaches the media queue.  *)
(***************************************************************************)
Conversion(p) ==
  p.fmt # ListenerFormat /\ IsIntFormat(p.fmt) /\ IsIntFormat(ListenerFormat)

(* The checks that clear dataValid; an event field mismatch is only logged. *)
HeaderValid(p) ==
  /\ p.len <= p.dataLen - HeaderSize
  /\ p.fmt = ListenerFormat \/ Conversion(p)
  /\ p.headerOk
  /\ p.len # PayloadSize =>
        /\ Conversion(p)
        /\ p.len \div (6 - p.fmt) = PayloadSize \div (6 - ListenerFormat)

(* The listener follows the stream's sparse mode, and turns redundancy off *)
(* for good when a frame cannot hold two payloads.                         *)
AdoptStream(p) ==
  /\ sparseMode' = p.sp
  /\ redundancyOn' = (redundancyOn /\ p.dataLen >= HeaderSize + 2 * p.len)

(* Statistics after a frame is counted: a report, when its deadline has    *)
(* passed, logs and clears them.                                           *)
Reported(s) == IF ReportStats THEN {s, NoStats} ELSE {s}

(* Mutant: a redundant copy shorter than a frame is not padded.           *)
FramePadMissing(len) == <<>>

(* Zeros that pad a redundant copy of len bytes to a queue frame.          *)
FramePad(len) == IF len < FrameSize THEN Zeros(FrameSize - len) ELSE <<>>

(* The debug build's check before the oldest copy is aged out (1010-1015): *)
(* when that copy arrived (its entry type is not UNSPEC), compare it with  *)
(* this packet's primary payload, which is the same audio, and log a      *)
(* mismatch.  The caller's memory from pPayload on holds both payloads.    *)
CopyDiffers(q, p, dataFormat) ==
  dataFormat # 0 /\ ~CompareBufferToCircularQueue(q, p.primary \o p.redundant, p.len)

(* Keep the packet's redundant payload, and its format, for R packets:     *)
(* push it (padded to a frame), check the oldest and age it out.           *)
SaveRedundantCopy(p) ==
  IF ~CircularQueueIsValid(stq) \/ ~CircularQueueIsValid(trq)
  THEN crashed' = TRUE /\ UNCHANGED <<trq, stq, stats, mismatchLogged>>
  ELSE LET trq1 == PushBufferToCircularQueue(
                     PushBufferToCircularQueue(trq, p.redundant), FramePad(p.len))
           stq1 == PushBufferToCircularQueue(stq, <<p.fmt>>)
       IN /\ stq' = PullBufferFromCircularQueue(stq1, 1)
          /\ mismatchLogged' = (mismatchLogged \/ CopyDiffers(trq1, p, PulledBytes(stq1, 1)[1]))
          /\ trq' = PullBufferFromCircularQueue(trq1, FrameSize)
          /\ stats' \in Reported([stats EXCEPT !.total = @ + 1])
          /\ UNCHANGED crashed

RxEnabled == phase = "running" /\ lostPending = 0 /\ ~crashed /\ slot <= MaxSlot
QueueFull == mq.pushed = ItemCount

(* Mutant: the head item is pushed only once it has overflowed.            *)
ItemFullPastEnd(len) == len > ItemSize

(* The head item of dataLen len is full and is pushed, else unlocked.      *)
ItemFull(len) == len >= ItemSize

RxMuted(p) ==
  /\ RxEnabled /\ ~HeaderValid(p)
  /\ AdoptStream(p)
  /\ dataValid' = FALSE
  /\ slot' = slot + 1 /\ heard' = TRUE
  /\ UNCHANGED <<phase, mediaQItemSyncTS, trq, stq, stats, lostPending, mq,
                 arrived, conceal, crashed, mismatchLogged>>

RxQueueFull(p) ==
  /\ RxEnabled /\ HeaderValid(p) /\ QueueFull
  /\ AdoptStream(p)
  /\ dataValid' = TRUE
  /\ slot' = slot + 1 /\ heard' = TRUE /\ arrived' = arrived \cup {slot}
  /\ UNCHANGED <<phase, mediaQItemSyncTS, trq, stq, stats, lostPending, mq,
                 conceal, crashed, mismatchLogged>>

(* The head item takes the timestamp of the packet that opens it; until a  *)
(* timestamped packet has opened one, packets are dropped.  The item is    *)
(* pushed once full.                                                       *)
RxAccepted(p) ==
  LET opens == mq.len = 0
      drop == opens /\ ~p.tv /\ ~mediaQItemSyncTS
      len == IF drop THEN mq.len ELSE mq.len + PayloadSize
  IN
  /\ RxEnabled /\ HeaderValid(p) /\ ~QueueFull
  /\ AdoptStream(p)
  /\ dataValid' = TRUE
  /\ mediaQItemSyncTS' = (mediaQItemSyncTS \/ (opens /\ p.tv))
  /\ mq' = IF ItemFull(len)
             THEN [pushed |-> mq.pushed + 1, len |-> 0, tv |-> FALSE]
             ELSE [mq EXCEPT !.len = len, !.tv = IF opens THEN p.tv ELSE @]
  /\ IF redundancyOn' THEN SaveRedundantCopy(p)
                      ELSE UNCHANGED <<trq, stq, stats, crashed, mismatchLogged>>
  /\ slot' = slot + 1 /\ heard' = TRUE /\ arrived' = arrived \cup {slot}
  /\ UNCHANGED <<phase, lostPending, conceal>>

(***************************************************************************)
(* openavbMapAVTPAudioRxLostCB: the transport reports numLost missing      *)
(* packets; when redundancy is on and the stream un-muted, each is         *)
(* concealed in one pass of the loop (ConcealLost), which locks the media  *)
(* queue head and so may interleave with its reader.                       *)
(***************************************************************************)
RxLost(numLost) ==
  /\ phase = "running" /\ lostPending = 0 /\ ~crashed /\ heard
  /\ slot + numLost <= MaxSlot + 1
  /\ lostPending' = IF redundancyOn /\ dataValid THEN numLost ELSE 0
  /\ slot' = slot + numLost
  /\ UNCHANGED <<phase, redundancyOn, sparseMode, dataValid, mediaQItemSyncTS,
                 trq, stq, stats, mq, arrived, heard, conceal, crashed,
                 mismatchLogged>>

(* Mutant: the padding after a payload is not skipped.                    *)
PadSkipMissing == 0

(* Bytes of padding after a payload in a queue frame.                      *)
PadSkip == IF PayloadSize < FrameSize THEN FrameSize - PayloadSize ELSE 0

(* One lost packet: the oldest entry type says whether its redundant copy  *)
(* arrived; that copy (converted if its format differs) or the silence     *)
(* queued in its place fills the head item, and a silent entry of type     *)
(* FORMAT_UNSPEC takes the lost packet's place in both queues.             *)
ConcealLost ==
  LET n == slot - lostPending
      fmt == PulledBytes(stq, 1)[1]
      convert == fmt # FORMAT_UNSPEC /\ fmt # ListenerFormat
                 /\ IsIntFormat(fmt) /\ IsIntFormat(ListenerFormat)
      data == IF convert
              THEN ConvertSamples(SubSeq(PulledBytes(trq, FrameSize), 1,
                                         (6 - fmt) * SamplesPerPacket),
                                  6 - fmt, 6 - ListenerFormat)
              ELSE PulledBytes(trq, PayloadSize)
      trq1 == PullBufferFromCircularQueue(trq,
                IF convert THEN FrameSize ELSE PayloadSize + PadSkip)
      len == mq.len + PayloadSize
  IN
  /\ lostPending > 0 /\ ~crashed
  /\ lostPending' = lostPending - 1
  /\ IF QueueFull
       THEN UNCHANGED <<trq, stq, stats, mq, conceal, crashed>>
     ELSE IF ~CircularQueueIsValid(stq) \/ ~CircularQueueIsValid(trq)
       THEN crashed' = TRUE /\ UNCHANGED <<trq, stq, stats, mq, conceal>>
     ELSE
       /\ stats' = [stats EXCEPT !.total = @ + 1, !.lost = @ + 1,
                       !.avail = @ + (IF fmt # FORMAT_UNSPEC THEN 1 ELSE 0),
                       !.notAvail = @ + (IF fmt = FORMAT_UNSPEC THEN 1 ELSE 0)]
       /\ mq' = IF ItemFull(len)
                THEN [pushed |-> mq.pushed + 1, len |-> 0, tv |-> FALSE]
                ELSE [mq EXCEPT !.len = len, !.tv = FALSE]
       /\ stq' = PushBufferToCircularQueue(PullBufferFromCircularQueue(stq, 1),
                                           <<FORMAT_UNSPEC>>)
       /\ trq' = PushBufferToCircularQueue(trq1, Zeros(FrameSize))
       /\ conceal' = [slot |-> n, data |-> data,
                       src |-> IF fmt = FORMAT_UNSPEC THEN "none" ELSE "redundant"]
       /\ UNCHANGED crashed
  /\ UNCHANGED <<phase, redundancyOn, sparseMode, dataValid, mediaQItemSyncTS,
                 slot, arrived, heard, mismatchLogged>>

(* openavbMapAVTPAudioEndCB: the stream stops.                             *)
End ==
  /\ Restarts /\ phase = "running" /\ lostPending = 0 /\ ~crashed
  /\ phase' = "stopped"
  /\ mediaQItemSyncTS' = FALSE
  /\ UNCHANGED <<redundancyOn, sparseMode, dataValid, trq, stq, stats,
                 lostPending, mq, envVars>>

(* openavbMapAVTPAudioGenEndCB: the session ends and frees both queues.    *)
GenEnd ==
  /\ phase \in {"running", "stopped"} /\ lostPending = 0
  /\ phase' = "ended"
  /\ trq' = FreeCircularQueue(trq) /\ stq' = FreeCircularQueue(stq)
  /\ UNCHANGED <<redundancyOn, sparseMode, dataValid, mediaQItemSyncTS, stats,
                 lostPending, mq, envVars>>

(* The interface reads the oldest full item (the media queue tail).        *)
Consume ==
  /\ mq.pushed > 0
  /\ mq' = [mq EXCEPT !.pushed = @ - 1]
  /\ UNCHANGED <<mapVars, envVars>>

(* After gen_end nothing runs.                                             *)
Ended == phase = "ended" /\ UNCHANGED vars

(* With ConsumerKeepsUp the reader always frees an item before a callback  *)
(* needs one: no callback meets a full media queue.                        *)
KeepsUp == ConsumerKeepsUp => ~QueueFull

(* Wire packet n as a remote talker may send it: this code's Packet(n),   *)
(* or, from a talker that declares extra bytes that are not a whole        *)
(* sample, a stream_data_length and payloads longer by extra bytes.        *)
WirePacket(n, corrupt, extra) ==
  LET p == Packet(n, corrupt)
      tail(id) == [i \in 1 .. extra |-> id]
  IN [p EXCEPT !.len = @ + extra,
               !.dataLen = @ + (IF TalkerRedundant THEN 2 ELSE 1) * extra,
               !.primary = @ \o tail(Frame(n - R)),
               !.redundant = IF TalkerRedundant THEN @ \o tail(n) ELSE @]

(* The packets the network may deliver next.                               *)
Arrivals ==
  {WirePacket(slot, corrupt, extra) :
     corrupt \in {FALSE} \cup (IF CorruptPackets THEN {TRUE} ELSE {}),
     extra \in IF MalformedLengths THEN 0 .. (6 - TalkerFormat) - 1 ELSE {0}}

Next ==
  \/ GenInit \/ RxInit
  \/ \E p \in Arrivals :
        \/ RxMuted(p)
        \/ KeepsUp /\ RxQueueFull(p)
        \/ KeepsUp /\ RxAccepted(p)
  \/ \E k \in 1 .. MaxLost : RxLost(k)
  \/ KeepsUp /\ ConcealLost
  \/ End \/ GenEnd \/ Consume \/ Ended

Spec == Init /\ [][Next]_vars

-----------------------------------------------------------------------------
TypeOK ==
  /\ phase \in {"created", "generated", "running", "stopped", "ended"}
  /\ redundancyOn \in BOOLEAN /\ sparseMode \in BOOLEAN
  /\ dataValid \in BOOLEAN /\ mediaQItemSyncTS \in BOOLEAN
  /\ stats \in [{"total", "lost", "avail", "notAvail"} -> 0 .. MaxSlot]
  /\ mq \in [pushed : 0 .. ItemCount, len : 0 .. ItemSize - 1, tv : BOOLEAN]
  /\ lostPending \in 0 .. MaxLost
  /\ slot \in 1 .. MaxSlot + 1 /\ arrived \subseteq 1 .. MaxSlot
  /\ trq.head \in 0 .. FrameSize * (R + 2) /\ stq.head \in 0 .. R + 10
  /\ mismatchLogged \in BOOLEAN

(* Concealment is aligned (rx_lost loop): the payload that fills in for    *)
(* lost packet n is the redundant copy of packet n - R, i.e. the primary   *)
(* packet n would have carried, taken from the redundancy queue exactly    *)
(* when packet n - R arrived since rx_init; otherwise it is silence.       *)
ConcealmentAligned ==
  conceal.slot > 0 =>
    LET want == conceal.slot - R
        got == {conceal.data[i] : i \in DOMAIN conceal.data} \ {0}
    IN /\ (conceal.src = "redundant") = (want \in arrived)
       /\ got = (IF conceal.src = "redundant" THEN {want} ELSE {})

(* The debug build never logs "Redundant data does not match primary      *)
(* data" (rx, 1010-1015; spec 4.F step 5): whenever a packet arrives R     *)
(* packets after the one whose redundant copy is aged out, the copy read   *)
(* back from the wrapping data queue equals the new primary payload, even  *)
(* when the copy lies across the end of the ring.                          *)
NoRedundancyMismatchLogged == ~mismatchLogged

(* The two redundancy queues move in step (rx, rx_lost): between           *)
(* callbacks each holds exactly R entries, R frames of data and R entry    *)
(* types, so the oldest entry of each belongs to the same packet.          *)
RedundancyQueuesInStep ==
  CircularQueueIsValid(trq) /\ CircularQueueIsValid(stq) =>
    /\ CircularQueueBytesQueued(trq) = FrameSize * R
    /\ CircularQueueBytesQueued(stq) = R

(* No callback writes through a NULL redundancy queue (rx, rx_lost).       *)
NoNullQueueWrite == ~crashed

(* The media queue receives no audio before the listener has seen a        *)
(* timestamped packet (rx, rx_lost): the first item starts on a timestamp. *)
NoAudioBeforeSync ==
  [][(mq'.len > mq.len \/ mq'.pushed > mq.pushed) => mediaQItemSyncTS']_vars
=============================================================================
