# TLA+ models of the AAF audio mapping

This directory holds TLA+ models of the AVTP Audio Format (AAF) mapping module,
`src/lib/avtp_pipeline/map_aaf_audio/openavb_map_aaf_audio.c`, and the TLC
configurations that check them. The focus is temporal redundancy: a talker sends
every payload twice, R packets apart, and a listener uses the late copy to
conceal a lost packet. The other source file in scope,
`src/daemons/gptp/common/gptp_log.cpp`, only formats and prints log lines and is
not modelled.

## The system

The mapping is a set of callbacks that the AVTP transport calls, one session at a
time. No two callbacks of a session run concurrently (spec §5). The callbacks
share a media queue with the audio interface, which is not part of `src/`.

| Part | Code | What it does |
|---|---|---|
| Circular byte queue | `AllocateCircularQueue` … `CompareBufferToCircularQueue` (1285-1407) | A byte ring with a head, a tail and wrap-around. Pushing NULL writes zeros; pulling into NULL discards. |
| Size calculator | `x_calculateSizes` (201-375) | Computes the payload size, item size, queue frame size (`temporalRedundantQueueFrameSize`) and the offset in packets (R). |
| Configuration | `openavbMapAVTPAudioCfgCB` (379-438), `openavbMapAVTPAudioInitialize` (1235-1282) | Sets the defaults and the parsed `map_nv_*` values. |
| Information callbacks | `SubtypeCB`, `AvtpVersionCB`, `MaxDataSizeCB`, `TransmitIntervalCB` (440-497) | Getters the AVTP layer reads after gen_init. `max_data_size` tells it how large a frame buffer to give `tx` and `rx`. |
| Talker | `GenInitCB`, `TxInitCB`, `TxCB` (499-741), `EndCB`, `GenEndCB` | Reads media-queue items from the tail, one payload per call, and writes the header and payloads. It puts the current payload in the redundant slot and the payload from R packets earlier, taken from its own ring, in the primary slot. |
| Listener | `GenInitCB`, `RxInitCB`, `RxCB`, `EndCB`, `GenEndCB` | Validates the header and mutes the stream on a mismatch. Fills media-queue items and synchronises them on a timestamped packet. Saves each packet's redundant copy into the data queue (`temporalRedundantQueue`) and its format into the entry-type queue (`trStatsEntryTypeQueue`). Then ages one entry out of each queue. |
| Loss concealer | `RxLostCB` (1066-1194) | For each lost packet, takes the oldest entry out of both queues. The entry is either a redundant copy (converted if its format differs) or silence. It goes into the media queue, and a silent UNSPEC entry is pushed in its place. |
| Sample converter | loops in `RxCB` and `RxLostCB` | Converts between integer formats by zero-padding or truncating each sample. |

How the parts interact: on the talker the audio interface pushes full items
into the media queue and the transport calls `tx` once per transmit interval.
On the listener, for each delivered packet the transport calls `rx`, and
`rx_lost(numLost)` when sequence numbers are missing. Both lock the media-queue
head, and the audio interface reads full items from the tail. The two
redundancy queues must move in step, so that when packet n is lost the oldest
entry is the copy of packet n, sent inside packet n+R. Packets n+1 … n+R have
already arrived, so the copy is available. Concealment is only right if every
packet, whether it arrived or was lost, advances both queues by exactly one
entry.

## Modules

| Module | Models | State and actions |
|---|---|---|
| `CircularQueue` | the ring operations | Operators only. A queue is a record `[storage, head, tail, size]` of offsets into `queueStorage`, and each C function is an operator from a queue to the next queue. Uninitialised bytes from `malloc` are the model value `Uninit`; a failed `malloc` is `FailedAllocation(n)` (size set, no storage). |
| `FifoQueue` | what a byte queue promises | The abstract spec. `fifo` is a byte sequence, and `req` is the caller's request. A push appends exactly the bytes pushed; a pull of n removes exactly n bytes from the front. |
| `CircularQueueSpec` | a caller of the ring | The variable is `q`. `Push` pushes any 1..(free - Headroom) bytes and `Pull` pulls any 1..queued bytes. It refines `FifoQueue` under `fifo <- Contents(q)`. |
| `MCCircularQueue` | TLC instance | Bytes are `{0, 1}`. |
| `AafFormat` | what both ends agree on | Operators only: the format codes, the sizes `x_calculateSizes` derives for a format (`PayloadSizeOf`, `FrameSizeOf`, `ItemSizeOf`, `R`), and `Packet(n, corrupt)`, the n-th AVTPDU a talker of this code sends. |
| `AafTalker` | the talker | The variables and actions are described below. |
| `MCAafTalker` | TLC instance | One channel and one frame per packet. |
| `AafListener` | the listener and the loss concealer | The variables and actions are described below. |
| `MCAafListener` | TLC instance | One frame per packet, one or two channels. |
| `AafConfig` | configuration, size calculator, information callbacks | The variables and actions are described below. |
| `AafHeader` | the header words the mapping owns | Operators only, using `Bitwise`: `FormatInfo` and `PacketInfo` are tx's words (672-682), and `PacketWord` is the packet-info word as it goes out: line 682 writes bytes 20-23, so byte 22 holds the event field, and `SpByte` then sets or clears its sparse-mode bit (684-689). `DecodeHeader` is rx's field extraction (820-885), and `RxHeaderValid` is rx's checks that clear `dataValid` (835-890). `ShiftL` is a U32 `<<`. |
| `MCAafConfig` | TLC instance | The `.ini` values of each run, written as strtol reads them. |

`AafTalker` and `AafListener` both `EXTENDS CircularQueue, AafFormat`; `AafConfig` `EXTENDS AafHeader`.

### AafTalker

The audio interface writes the samples of packet i as frame id i. An item holds
PackingFactor packets' worth and carries the time of its first sample,
abstracted to the id of that first frame (or no valid time).

| Variable | Code |
|---|---|
| `tphase` | which callbacks have run: gen_init, tx_init, end, gen_end |
| `ttrq` | the talker's `temporalRedundantQueue` |
| `items` | the media-queue items from the tail on: `data`, `readIdx`, and the timestamp (`tsValid`, `ts`) |
| `produced` | packets' worth of audio the interface has written (bounded by `MaxPackets`) |
| `txSeq` | packets sent; the AVTP layer numbers them `SeqNum` |
| `sent` | history: the packets of the current stream, with the buffer size (`room`) each was written into |

| Action | Code |
|---|---|
| `GenInit` | `GenInitCB`: allocates the ring of R+2 frames and prefills R silent frames. A split offset leaves it unallocated; with `AllocFails` the `malloc` may fail. |
| `TxInit` | `TxInitCB`: only sets `isTalker`. The ring is not touched. |
| `IntfPush` | the audio interface (not in `src/`): pushes an item; with `ShortItems` it may be shorter than `itemSize`, or empty |
| `TxCB` | one whole `TxCB` call that sends a packet or tosses a short item. The AVTP layer's `*dataLen` is chosen from `TxBufferSizes`. The steps: `Available` and `BufferFits`; the loop's pull of empty items (`SkipEmpty`) (the unsigned room check); the sparse skip, or the one-time use of the item's timestamp (`TimestampUsed`); the copy; advancing `readIdx`, and pulling the item when `ItemDone`; and `RedundancyStep` (push the payload, push the pad, pull the primary, skip the pad). The early returns change nothing and are the negation of its guard. |
| `End`, `GenEnd` | `EndCB`, `GenEndCB` |

### AafConfig

One session from `Initialize` to the choice of role. The interface module
sets the audio fields of the public record before gen_init, so `Init` chooses
them from `AudioRates`, `AudioTypes`, `AudioBitDepths` and `AudioChannels`,
unsupported values included.

| Variable | Code |
|---|---|
| `phase` | which callbacks have run: `configuring`, `generated`, `talker`, `listener`, or `crashed` after a trapping division |
| `pvt` | `pvt_data_t`: the configured fields, the rate and format codes, the derived sizes, `isTalker`, `dataValid`, and the size of the redundancy queue gen_init allocates (`trQueueSize`) |
| `pub` | `media_q_pub_map_aaf_audio_info_t`: the interface's audio fields and the sizes `x_calculateSizes` writes |
| `mediaQ` | the item count and item size given to `openavbMediaQSetSize` |
| `divByZero` | history: gen_init divided by a `txInterval` of 0 |

| Action | Code |
|---|---|
| `Init` | `Initialize` (1235-1282): calloc'ed records, then the defaults (20 items, 4000 packets/s, packing 1, ...) |
| `Cfg(name, v)` | `CfgCB` (379-438). A value is abstracted to what strtol returns and whether it consumed the string. Sparse mode changes only on exactly "0" or "1"; every other key stores strtol's number, 0 for junk. |
| `GenInit` | `GenInitCB` (499-537) with all of `x_calculateSizes` (201-375) as `Generate`. An unknown rate or format leaves the fields it would set as they were. With `txInterval` 0 the division at 323 either traps (x86) or yields 0 (ARM `udiv`, the remainder is then the rate, so one frame per packet). |
| `TxInit`, `RxInit` | `TxInitCB` (541-556) and the role part of `RxInitCB` (745-754); the rest of those callbacks is in `AafTalker` and `AafListener` |

The information callbacks are operators: `SubtypeCB`, `AvtpVersionCB`,
`TransmitIntervalCB`, and `MaxDataSizeCB`, which returns the talker or the
listener bound plus 24 in a U16.

### AafListener

Audio is reduced to frame ids: every byte of the n-th payload of the remote
talker is n, and 0 is silence. A concealed payload therefore shows which packet
it came from. The remote talker is taken to be this code, so wire packet n
(`Packet(n, corrupt)`; `AafTalker` checks that this is what `tx` sends) has
these fields:
- the primary payload is frame n - R;
- the redundant payload is frame n;
- `tv` is set on the first packet of each item, or in sparse mode on sequence numbers divisible by 8.

With `MalformedLengths` the remote talker may also declare 1 or 2 bytes beyond
whole samples (`WirePacket`), as a talker other than this code could. With
`AllocFails`, each `malloc` of a redundancy queue in `GenInit` and `RxInit` may
fail.

| Variable | Code |
|---|---|
| `phase` | which callbacks have run: gen_init, rx_init, end, gen_end |
| `redundancyOn` | `temporalRedundantOffsetUsec > 0` |
| `sparseMode`, `dataValid`, `mediaQItemSyncTS` | the fields of `pvt_data_t` with these names |
| `trq`, `stq` | the data queue and the entry-type queue |
| `stats` | the four `trStats*` counters |
| `mq` | the media queue: the number of full unread items, the head item's `dataLen` and its timestamp-valid flag |
| `lostPending` | iterations left in the `numLost` loop |
| `slot`, `arrived`, `heard`, `conceal`, `crashed`, `mismatchLogged` | The environment and history. The next wire packet; which packets arrived since rx_init; whether any has; the last concealment (slot, source, bytes); whether a write went through a NULL queue; and whether the debug build has logged "Redundant data does not match primary data". |

| Action | Code |
|---|---|
| `Init` | `Initialize`, then the cfg callbacks (constants) |
| `GenInit` | `GenInitCB`: allocates the data queue and prefills it with R silent frames, or returns early on a non-integral offset or a failed `malloc` (before setting `dataValid`) |
| `RxInit` | `RxInitCB`: the entry-type queue with R UNSPEC entries; the statistics cleared. A failed `malloc` is ignored and the prefill writes through NULL (`crashed`). |
| `RxMuted(p)` | `RxCB` for a packet that fails validation |
| `RxQueueFull(p)` | `RxCB` when `HeadLock` returns NULL |
| `RxAccepted(p)` | `RxCB` for a packet that reaches the media queue: sync or drop, fill, push, then `SaveRedundantCopy` with the statistics and the periodic report. `SaveRedundantCopy` includes the debug build's check (1008-1016): before the oldest copy is aged out, `CopyDiffers` compares it with the new primary payload using `CompareBufferToCircularQueue`, as the code does. |
| `RxLost(k)` | `RxLostCB` entry: starts the loop if redundancy is on and the stream is un-muted |
| `ConcealLost` | one iteration of the loop, with every branch |
| `End`, `GenEnd` | `EndCB`, `GenEndCB` |
| `Consume` | the media-queue reader |
| `Ended` | stuttering after gen_end; the session really stops there |

Each rx action is a whole call of `RxCB`, including the queue pushes and pulls
and the statistics it makes. Each iteration of the `numLost` loop is its own
action because it locks and releases the media-queue head, so the reader can run
between iterations.

## Runs

| Run | cfg | Expect | What it shows |
|---|---|---|---|
| queue_fifo | `CircularQueue.cfg` | pass | On a 5-byte ring (Headroom 1), every interleaving of pushes and pulls of every length and at every offset refines the FIFO (`FifoRefinement`). |
| listener_nominal | `AafListenerNominal.cfg` | pass | `ConcealmentAligned` holds when the reader keeps up and headers are valid. The settings: int24 talker, int16 listener, two channels, sparse stream, R = 3, runs of up to 3 losses among 11 packets. Every loss is concealed with the copy of exactly the packet it stands for, or with silence when that copy never arrived. `NoRedundancyMismatchLogged` also holds: the debug check never logs a mismatch. The (R+2)-frame data queue keeps every copy on a frame boundary, so the wrong offset at line 1401 is never used. The mutant `DataQueueSizeOffByOne` makes the queue one byte longer. A copy then splits unevenly at the end of the ring, and TLC finds the false log. With the correct offset, the same misaligned queue logs nothing (checked once). |
| listener_adverse | `AafListenerAdverse.cfg` | pass | With the reader falling behind, corrupt headers, restarts, reports and failing mallocs all enabled, every valid pair of queues holds exactly R entries between callbacks (`RedundancyQueuesInStep`). |
| listener_stall | `AafListenerStall.cfg` | violation | A packet that meets a full media queue is never saved, so concealment is off by one packet from then on. |
| listener_restart | `AafListenerRestart.cfg` | violation | After end and rx_init, a loss is concealed with the old stream's frame where silence is due. |
| listener_split_offset | `AafListenerSplitOffset.cfg` | violation | With a 1-sample offset and 2 frames per packet, gen_init allocates no queue but redundancy stays on, and rx writes through NULL (`NoNullQueueWrite`). |
| listener_sparse_sync | `AafListenerSparseSync.cfg` | violation | rx_lost puts audio into the media queue before any timestamped packet (`NoAudioBeforeSync`, an action property). |
| talker_nominal | `AafTalkerNominal.cfg` | pass | Over 16 packets of audio, 4 items and buffers of 27 or 28 bytes, `tx` sends exactly the stream `AafListener` assumes (`SentAsListenerAssumes`: sequence numbers, both payloads, `tv`). Each timestamp is the time of its own packet's first sample. No packet exceeds its buffer. Under a fair `tx`, all queued audio is sent (`EventuallyDrained`). |
| config_nominal | `AafConfigNominal.cfg` | pass | Every key of `CfgCB`, junk values for the tx rate and sparse mode, and supported and unsupported rates and bit depths for int and float, on one or two channels. After gen_init every size is the one spec §4.C defines (`SizesAsSpecified`). `max_data_size` covers every AVTPDU of the session's role before and after the role is known (`MaxDataSizeCovers`). `HeaderRoundTrip`: for every supported format, rx decodes the header words a talker writes to exactly the session's format, rate code, channels, bit depth, payload size, event field and sparse mode. The sparse-mode bit and the event field share byte 22, and a listener configured like the talker keeps the stream valid. The mutant `FormatInfoRateAt16` shifts the rate code to bit 16 and breaks it. 239616 states. |
| config_scratch | `AafConfigScratch.cfg` | violation | An eight-channel int16 listener at 192 kHz and the default 4000 packets/s, with one packet of redundancy. Its queue frames are 1536 bytes, and rx_lost pulls them into its static 1500-byte buffer (`ScratchHoldsQueueFrame`). |
| config_zero_interval | `AafConfigZeroInterval.cfg` | violation | `map_nv_tx_interval = 0` is stored as is, and gen_init divides by it (`NoDivisionByZero`). |
| talker_sparse | `AafTalkerSparse.cfg` | pass | Sparse mode, with short and empty items, invalid timestamps, restarts and a failing `malloc`. The ring holds exactly R frames between calls, through tosses and early returns (`TalkerQueueInStep`). |

The two listener pass runs show that the queues stay in step whatever happens:
`RedundancyQueuesInStep` holds in the adverse run. The violation runs show that
in step is not the same as aligned: a packet that arrives but is neither saved
nor reported lost shifts the rings by one. The talker runs close the loop: the packets `tx`
sends are exactly the `Packet(n)` the listener model assumes, so the listener's
results are about a talker of this code and not an idealised one.
`PROJECT.json` lists the findings, and every property of a pass run has a
mutant of the code that breaks it.

The checker keeps at most 12 runs, so these questions were checked once and are not kept as runs:
- **A restarted talker** (`Restarts` TRUE, the former talker_restart). After end and tx_init, the first R primary payloads are the old stream's last frames and not silence, so `RedundancyPairing` fails (spec §8.2). listener_restart shows the listener side of the same defect.
- **A buffer shorter than the header** (the former talker_short_buffer, `TxBufferSizes = {20}`). `*dataLen - TOTAL_HEADER_SIZE` wraps in U32 and passes both room checks, so `tx` writes a 28-byte packet into 20 bytes (`PacketFitsBuffer`).
- **A malformed length** (the former listener_malformed, `MalformedLengths` TRUE). An int24 packet that declares 5 bytes passes the sample-count check (5 div 3 = 2 div 2), and the data queue is left one byte longer than R frames (`RedundancyQueuesInStep`).
- **The payload size in the header's 16 bits** (`map_nv_tx_interval` = 2, 48 kHz stereo int16). The payload is 96000 bytes. `payloadSize << 16` at line 680 keeps 96000 mod 65536, so `HeaderRoundTrip` fails and the listener would mute its own talker. The root cause is the same as the U16 below: nothing bounds frames per packet.
- **`max_data_size` in a U16.** At 192 kHz and 100 packets/s, 8 channels, the listener bound is 122880 bytes. The U16 wraps to 57368, so `MaxDataSizeCovers` fails.
- **An offset of less than one sample** (for example 10 us at 48 kHz). gen_init skips the queue while redundancy stays on, so `NoNullQueueWrite` fails with `OffsetSamples = 0` exactly as with a split offset.
- **`CompareBufferToCircularQueue`'s wrapped second phase** (line 1401). `CompareAgreesWithContents` in `CircularQueueSpec` fails on a 5-byte ring. Spec §9 already records this defect. In the listener, the defect cannot bite while the data queue is a whole number of frames; `NoRedundancyMismatchLogged` in listener_nominal keeps it that way.
- **A muted packet is never saved** (1054). This is the same mechanism as listener_stall.
- **A split offset on the talker** leaves `tx` returning NOT_READY forever, so `EventuallyDrained` fails. This is the same cause as listener_split_offset.

Sparse timestamps were also checked once. When the first sequence number
divisible by 8 falls on the second packet of an item, that packet carries the
item's start time, and `TimestampOnOwnSamples` fails. Spec §8.3 does not say
which time such a packet carries.

## Bounds

- **Circular queue.** A 5-byte ring with bytes `{0, 1}`. Pushes of 1-4 bytes
  reach every split of phase 1 and phase 2 at every head and tail offset.
- **Listener.**
  - One frame per packet keeps payloads small. The int16 payload is half a
    queue frame, so padding and pad-skip both happen.
  - R = 2 (two packets of offset) is the smallest offset where a concealed copy
    and its neighbours can be told apart. The violation runs use it, with one
    channel, 7 wire packets, up to 2 consecutive losses and 2 media-queue
    items, so the queue fills.
  - `listener_adverse` uses R = 3 with 8 wire packets, so every restart,
    mute, stall and failed malloc can happen while the ring is in any of its
    5 frame positions. It has 497775 states and takes about 20 seconds.
  - `listener_nominal` is larger: R = 3, two channels (so conversion works
    sample by sample within a packet), 11 wire packets, up to 3 consecutive
    losses (a whole offset's worth) and 3 items. It has 19539 states and takes
    a few seconds.
  - A packing factor of 2, so items are pushed and rx_lost adds to an item that
    rx opened.
  - With these bounds every misalignment above shows up within 9 states.
- **Talker.**
  - The same sizes and R = 2.
  - 16 packets of audio in items of 2 packets, with up to 4 items queued. The
    ring wraps several times (4 frames of 4 bytes, 2 bytes pushed and pulled
    per packet), and the interface can run ahead of `tx` and block on a full
    queue.
  - The 27- and 28-byte buffers are the two sides of the redundant room check
    (24 + 2 x 2).

- **Configuration.** The values are those a `.ini` file would hold: a default
  and one changed value per key, plus the junk that strtol turns into 0.
  Three of the 10 supported rates plus one unsupported rate, and all
  supported bit depths plus one unsupported. Both int and float, and one or
  two channels. 44.1 kHz at 4000 or 8000 packets/s is not a multiple, so the
  ceiling matters. 125 us is one packet at 48 kHz and 8000 packets/s and
  splits a packet at 44.1 kHz. 10 us rounds to 0 samples. Offsets stay small
  enough that `usec x rate` fits in 32 bits, so the U64 intermediate needs no
  wrap. In `HeaderRoundTrip` the header words stay
  below 2^31, TLC's integer limit. `config_nominal` has 239616 states and
  takes about 20 seconds.

## Fairness

`talker_nominal` uses `FairSpec == Spec /\ WF_vars(TxCB)`. The AVTP layer calls
`tx` once every transmit interval for as long as the stream runs, so a `tx` that
stays enabled is eventually taken. Nothing else is fair: the interface writes
audio when it has it, the transport delivers packets when the network does, and
the media-queue reader runs when the audio interface does. `EventuallyDrained`
only says that queued audio does not wait forever while the stream is running.

## Not modelled

- **The rest of the header's bit layout.** `AafHeader` has the words and bit
  this file owns; talker and listener packets stay records with those fields.
  The tv/tu bits and the timestamp word are record fields. The sequence number
  and `stream_data_length` are written by the AVTP layer, outside `src/`'s
  mapping. htonl/ntohl cancel between tx and rx, so words are kept in host
  order.
- **The listener and talker modules take their sizes as constants.**
  `AafFormat` gives them the sizes of one fixed format; `AafConfig` checks
  that gen_init derives exactly those (`SizesAsSpecified`) for every
  configuration.
- **`Initialize`'s allocation failure, the callback table and `strdup`.**
  The first ends the session before any callback; the others are wiring.
  Fields that only unmodelled code reads (`maxTransitUsec`,
  `aaf_event_field`, `intervalCounter`) are left out of `pvt`.
- **Negative configuration values.** strtol's negative result stored in a
  U32 is a huge value; only non-negative values are enumerated.
- **MCR hardware calls, timestamp values and `intf_rx_translate_cb`.** None of
  them changes state of this module. The talker's timestamp is the id of its
  first frame, which is enough to say which samples it belongs to.
- **A composed talker, channel and listener.** The composition is checked by
  assertion instead: `SentAsListenerAssumes` shows that the talker's output is
  the listener's environment `Packet(n)`. Losses are the listener's `RxLost`.
  A product of the two state spaces would add nothing these two checks do not
  already cover.
- **`gptpLog`.** It is pure string formatting and I/O. Its 1024-byte
  `vsprintf` buffer (gptp_log.cpp:38) overflows on a long message, which is a
  question about string lengths, not about states.

## Plan

1. **Configuration feeding the pipelines.** Instantiate `AafTalker` and
   `AafListener` with the sizes an `AafConfig` state derives, rather than
   fixed constants. Then `AafHeader`'s words would be the packets' header
   fields, not record fields.
2. **Runs for the two restart and width defects now noted under "checked
   once"**, if the run budget allows. They are the talker's stale queue
   after end and tx_init (:552), and the 16-bit payload size (:680).

An abstract stream spec that `AafTalker` refines was considered and left
out. `sent` only grows by appending, and each packet is built from audio
the interface wrote. Both hold by the model's shape, and
`SentAsListenerAssumes` already pins every packet's contents, so such a
refinement would check nothing new.
