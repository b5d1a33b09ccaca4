----------------------------- MODULE AafTalker -----------------------------
(***************************************************************************)
(* The talker side of the AAF mapping (openavb_map_aaf_audio.c): gen_init, *)
(* tx_init, tx, end and gen_end of one session, the media-queue tail that  *)
(* the audio interface fills and tx reads, and the temporal-redundancy     *)
(* queue through which the payload of packet n goes out again as the       *)
(* primary payload of packet n + R.                                        *)
(*                                                                         *)
(* The interface writes the samples of packet i as frame id i (AafFormat); *)
(* an item holds PackingFactor packets' worth and is stamped with the time *)
(* of its first sample, abstracted to the id of that first frame.          *)
(***************************************************************************)
EXTENDS Naturals, Sequences, CircularQueue, AafFormat

CONSTANTS
  MaxPackets,         \* bound: packets' worth of audio the interface writes
  TxBufferSizes,      \* the values of *dataLen the AVTP layer may pass to tx
  InvalidTimestamps,  \* the interface may push an item whose time is invalid
  Restarts,           \* the stream stops (end) and restarts (tx_init)
  AllocFails,         \* the malloc of the redundancy queue may return NULL
  ShortItems          \* the interface may push items shorter than itemSize

(* The talker's sizes (x_calculateSizes for its own format).               *)
TxPayloadSize == PayloadSizeOf(TalkerFormat)
TxFrameSize == FrameSizeOf(TalkerFormat)
TxItemSize == ItemSizeOf(TalkerFormat)

VARIABLES
  tphase,     \* "created", "generated", "running", "stopped", "ended"
  ttrq,       \* temporalRedundantQueue
  items,      \* media-queue items pushed and not yet pulled, oldest first
  produced,   \* packets' worth of audio the interface has written
  txSeq,      \* packets the AVTP layer has sent (its sequence counter)
  sent        \* the packets of the current stream (history)

vars == <<tphase, ttrq, items, produced, txSeq, sent>>

Init ==
  /\ tphase = "created"
  /\ ttrq = NoQueue
  /\ items = <<>> /\ produced = 0 /\ txSeq = 0 /\ sent = <<>>

(* The outcomes of a malloc.                                              *)
Allocations == IF AllocFails THEN BOOLEAN ELSE {TRUE}

(* openavbMapAVTPAudioGenInitCB: the data queue holds R+2 frames and starts *)
(* with R frames of silence; a split offset leaves it unallocated, and a   *)
(* failed malloc leaves it without storage.                                *)
GenInit ==
  /\ tphase = "created"
  /\ tphase' = "generated"
  /\ IF TalkerRedundant /\ OffsetSamples > 0
        /\ OffsetSamples % FramesPerPacket = 0
       THEN \E ok \in Allocations :
              ttrq' = IF ok THEN PushBufferToCircularQueue(
                                   AllocateCircularQueue(TxFrameSize * (R + 2)),
                                   Zeros(TxFrameSize * R))
                            ELSE FailedAllocation(TxFrameSize * (R + 2))
       ELSE UNCHANGED ttrq
  /\ UNCHANGED <<items, produced, txSeq, sent>>

(* openavbMapAVTPAudioTxInitCB: only marks the session a talker; a new    *)
(* stream (history) begins.                                                *)
TxInit ==
  /\ tphase \in {"generated", "stopped"}
  /\ tphase' = "running"
  /\ sent' = <<>>
  /\ UNCHANGED <<ttrq, items, produced, txSeq>>

(* The audio interface pushes an item of PackingFactor packets' worth of   *)
(* time, stamped with its first frame (or, when the clock failed, invalid); *)
(* with ShortItems it may hold fewer bytes than itemSize, even none.       *)
IntfPush ==
  /\ tphase = "running"
  /\ Len(items) < ItemCount
  /\ produced + PackingFactor <= MaxPackets
  /\ \E tsValid \in IF InvalidTimestamps THEN BOOLEAN ELSE {TRUE},
        dataLen \in IF ShortItems THEN 0 .. TxItemSize ELSE {TxItemSize} :
       items' = Append(items,
                  [data    |-> [j \in 1 .. dataLen |->
                                  produced + (j - 1) \div TxPayloadSize + 1],
                   readIdx |-> 0, tsValid |-> tsValid, ts |-> produced + 1])
  /\ produced' = produced + PackingFactor
  /\ UNCHANGED <<tphase, ttrq, txSeq, sent>>

-----------------------------------------------------------------------------
(***************************************************************************)
(* openavbMapAVTPAudioTxCB.  Its early returns (no audio available, buffer *)
(* too small, no redundancy queue) change nothing and are the negation of  *)
(* TxCB's guard.                                                           *)
(***************************************************************************)
TxBytesNeeded == TxPayloadSize   \* itemFrameSizeBytes * framesPerPacket

UnreadBytes ==
  LET RECURSIVE Sum(_)
      Sum(s) == IF s = <<>> THEN 0
                ELSE Len(Head(s).data) - Head(s).readIdx + Sum(Tail(s))
  IN Sum(items)

(* Mutant: the check asks for one byte more than the packet needs.         *)
AvailableStrict == UnreadBytes > TxBytesNeeded

(* openavbMediaQIsAvailableBytes: a packet's worth of audio is queued.     *)
Available == UnreadBytes >= TxBytesNeeded

(* Mutant: the room for the redundant payload is not checked.             *)
BufferFitsOnePayload(dataLen) ==
  \/ dataLen < HeaderSize
  \/ dataLen - HeaderSize >= TxPayloadSize

(* The buffer checks (596-609) on *dataLen - TOTAL_HEADER_SIZE, a U32: a  *)
(* buffer shorter than the header wraps to at least 2^32 - 24, above any   *)
(* payload size, and passes.                                               *)
BufferFits(dataLen) ==
  \/ dataLen < HeaderSize
  \/ /\ dataLen - HeaderSize >= TxPayloadSize
     /\ TalkerRedundant => dataLen - HeaderSize >= 2 * TxPayloadSize

(* Mutant: the timestamp valid flag of the item is not cleared once used.  *)
TimestampKept(item, tv) == item

(* The item's timestamp is consumed by the packet that carries it.         *)
TimestampUsed(item, tv) == [item EXCEPT !.tsValid = @ /\ ~tv]

(* Mutant: the item is pulled only once read past its end.                 *)
ItemDonePastEnd(item) == item.readIdx > Len(item.data)

(* The item has been read to its end and is pulled.                        *)
ItemDone(item) == item.readIdx >= Len(item.data)

(* Mutant: the padding after a payload is not pushed.                      *)
TxPadMissing == 0

(* Bytes of padding after a payload in a queue frame.                      *)
TxPad == IF TxBytesNeeded < TxFrameSize THEN TxFrameSize - TxBytesNeeded ELSE 0

(* Mutant: the padding is pushed but not skipped after the pull.          *)
RedundancyStepNoSkip(q, payload) ==
  LET q1 == PushBufferToCircularQueue(
              PushBufferToCircularQueue(q, payload), Zeros(TxPad))
  IN [primary |-> PulledBytes(q1, TxBytesNeeded),
      queue   |-> PullBufferFromCircularQueue(q1, TxBytesNeeded)]

(* Push the live payload (padded), pull the one of R packets earlier.      *)
RedundancyStep(q, payload) ==
  LET q1 == PushBufferToCircularQueue(
              PushBufferToCircularQueue(q, payload), Zeros(TxPad))
  IN [primary |-> PulledBytes(q1, TxBytesNeeded),
      queue   |-> PullBufferFromCircularQueue(
                    PullBufferFromCircularQueue(q1, TxBytesNeeded), TxPad)]

(* The tail after the loop of tx has pulled the empty items at its front  *)
(* (713).                                                                  *)
RECURSIVE SkipEmpty(_)
SkipEmpty(s) ==
  IF s # <<>> /\ Head(s).data = <<>> THEN SkipEmpty(Tail(s)) ELSE s

TxCB ==
  LET tail == SkipEmpty(items)
      item == Head(tail)
      seq == SeqNum(txSeq + 1)
      skip == TalkerSparse /\ seq % 8 # 0
      tv == ~skip /\ item.tsValid
      stamped == TimestampUsed(item, tv)
      payload == SubSeq(item.data, item.readIdx + 1, item.readIdx + TxBytesNeeded)
      read == [stamped EXCEPT !.readIdx = @ + TxBytesNeeded]
      red == RedundancyStep(ttrq, payload)
  IN
  /\ tphase = "running" /\ Available
  /\ \E dataLen \in TxBufferSizes :
       /\ BufferFits(dataLen)
       /\ TalkerRedundant => CircularQueueIsValid(ttrq)
       /\ IF Len(item.data) - item.readIdx < TxPayloadSize
            THEN \* "This should not happen": the item is tossed, no packet.
                 /\ items' = Tail(tail)
                 /\ UNCHANGED <<ttrq, txSeq, sent>>
            ELSE /\ items' = IF ItemDone(read) THEN Tail(tail)
                             ELSE [tail EXCEPT ![1] = read]
                 /\ ttrq' = IF TalkerRedundant THEN red.queue ELSE ttrq
                 /\ sent' = Append(sent,
                      [seq       |-> seq,
                       tv        |-> tv,
                       ts        |-> IF tv THEN item.ts ELSE 0,
                       primary   |-> IF TalkerRedundant THEN red.primary ELSE payload,
                       redundant |-> IF TalkerRedundant THEN payload ELSE <<>>,
                       room      |-> dataLen])
                 /\ txSeq' = txSeq + 1
  /\ UNCHANGED <<tphase, produced>>

-----------------------------------------------------------------------------
(* openavbMapAVTPAudioEndCB: the stream stops.                             *)
End ==
  /\ Restarts /\ tphase = "running"
  /\ tphase' = "stopped"
  /\ UNCHANGED <<ttrq, items, produced, txSeq, sent>>

(* openavbMapAVTPAudioGenEndCB: the session ends and frees the queue.      *)
GenEnd ==
  /\ tphase \in {"running", "stopped"}
  /\ tphase' = "ended"
  /\ ttrq' = FreeCircularQueue(ttrq)
  /\ UNCHANGED <<items, produced, txSeq, sent>>

(* After gen_end nothing runs.                                             *)
Ended == tphase = "ended" /\ UNCHANGED vars

Next == GenInit \/ TxInit \/ IntfPush \/ TxCB \/ End \/ GenEnd \/ Ended

Spec == Init /\ [][Next]_vars

(* The AVTP layer calls tx once every transmit interval: tx is weakly fair. *)
FairSpec == Spec /\ WF_vars(TxCB)

-----------------------------------------------------------------------------
TypeOK ==
  /\ tphase \in {"created", "generated", "running", "stopped", "ended"}
  /\ Len(items) <= ItemCount
  /\ \A i \in DOMAIN items :
       /\ Len(items[i].data) <= TxItemSize
       /\ items[i].readIdx = 0 \/ items[i].readIdx < Len(items[i].data)
  /\ produced \in 0 .. MaxPackets /\ txSeq \in 0 .. MaxPackets
  /\ Len(sent) <= MaxPackets

(* The payload of a packet that carries its live samples.                  *)
Live(p) == IF TalkerRedundant THEN p.redundant ELSE p.primary

(* Spec 8.2 (tx, gen_init): with redundancy, the primary payload of packet *)
(* k + R of a stream is the redundant payload of its packet k, and its     *)
(* first R primaries are silence.                                          *)
RedundancyPairing ==
  TalkerRedundant =>
    \A k \in DOMAIN sent :
      sent[k].primary = IF k > R THEN sent[k - R].redundant
                                 ELSE Zeros(TxPayloadSize)

(* The talker sends what AafListener assumes of its remote talker (tx):    *)
(* packet k has sequence number SeqNum(k) and the primary payload,         *)
(* redundant payload and timestamp-valid flag of AafFormat's Packet(k).    *)
SentAsListenerAssumes ==
  \A k \in DOMAIN sent :
    LET p == Packet(k, FALSE) IN
    /\ sent[k].seq = SeqNum(k)
    /\ sent[k].primary = p.primary /\ sent[k].redundant = p.redundant
    /\ sent[k].tv = p.tv

(* The talker's redundancy queue holds exactly R frames between calls    *)
(* (gen_init, tx): every packet sent pushes one frame and pulls one, and a *)
(* toss, an early return, a stop or a restart touches none.                *)
TalkerQueueInStep ==
  CircularQueueIsValid(ttrq) => CircularQueueBytesQueued(ttrq) = TxFrameSize * R

(* A packet that carries a timestamp carries the time of its own first     *)
(* sample (tx, 636-670): the item's time goes out only on the packet that  *)
(* starts the item, and is consumed there.                                 *)
TimestampOnOwnSamples ==
  \A k \in DOMAIN sent : sent[k].tv => sent[k].ts = Live(sent[k])[1]

(* Queued audio does not wait forever (tx): from some point on, less than  *)
(* a packet's worth of audio stays in the media queue, unless the stream   *)
(* has stopped or the session ended.  As the interface writes a bounded    *)
(* amount, this says that all it queued is eventually sent.                *)
EventuallyDrained ==
  <>[](UnreadBytes < TxBytesNeeded \/ tphase # "running")

(* Every packet tx reports ready fits the buffer it was given (tx, 596-609, *)
(* 736): the header and the payloads it wrote are at most *dataLen bytes.  *)
PacketFitsBuffer ==
  \A k \in DOMAIN sent :
    HeaderSize + Len(sent[k].primary) + Len(sent[k].redundant) <= sent[k].room
=============================================================================
