----------------------------- MODULE AafHeader -----------------------------
(***************************************************************************)
(* The part of the 24-byte AVTPDU prefix the AAF mapping owns              *)
(* (openavb_map_aaf_audio.c): the format-info and packet-info words tx     *)
(* writes and rx reads, and the sparse-mode bit of byte 22.  Words are the *)
(* host-order values around htonl/ntohl, which cancel out: the packet-info *)
(* word fills bytes 20-23, so byte 22 is its bits 8-15.                    *)
(***************************************************************************)
EXTENDS Naturals, Bitwise

(* x << k in a U32: the bits of x that stay within 32 bits, moved up (TLC *)
(* integers stop at 2^31 - 1, so words must stay below 2^31).             *)
ShiftL(x, k) == (x % 2^(32 - k)) * 2^k
SP_M0_BIT == 16   \* (1 << 4) in byte HIDX_AVTP_HIDE7_SP

(* Mutant: the rate code shifted to bit 16 instead of 20.                *)
FormatInfoRateAt16(format, rate, channels, bitDepth) ==
  ShiftL(format, 24) | ShiftL(rate, 16) | ShiftL(channels, 8) | bitDepth

(* tx, 672-677: format, rate code, channels per frame and bit depth.       *)
FormatInfo(format, rate, channels, bitDepth) ==
  ShiftL(format, 24) | ShiftL(rate, 20) | ShiftL(channels, 8) | bitDepth

(* tx, 679-682: the payload size and the channel-layout event field.       *)
PacketInfo(payloadSize, eventField) ==
  ShiftL(payloadSize, 16) | ShiftL(eventField, 8)

(* (w >> shift) & (2^width - 1): width bits of w from bit shift on.       *)
Field(word, shift, width) == (word \div 2^shift) % 2^width

(* tx, 684-689: set or clear the sparse-mode bit, keeping the others.      *)
SpByte(byte, sparse) ==
  IF sparse THEN byte | SP_M0_BIT ELSE byte & (255 - SP_M0_BIT)

(* tx, 679-689: the packet-info word as it goes out.  Line 682 writes all  *)
(* of bytes 20-23, so byte 22 holds the event field, and 684-689 then set  *)
(* or clear the sparse-mode bit of that byte.                              *)
PacketWord(payloadSize, eventField, sparse) ==
  LET w == PacketInfo(payloadSize, eventField)
      byte22 == Field(w, 8, 8)
  IN w - ShiftL(byte22, 8) + ShiftL(SpByte(byte22, sparse), 8)

(* rx, 820-885: the fields, as rx extracts them from the two words; the   *)
(* sparse-mode bit is read from byte 22 (825).                             *)
DecodeHeader(formatInfo, packetInfo) ==
  [format     |-> Field(formatInfo, 24, 8),
   rate       |-> Field(formatInfo, 20, 4),
   channels   |-> Field(formatInfo, 8, 10),
   bitDepth   |-> Field(formatInfo, 0, 8),
   payloadSize |-> Field(packetInfo, 16, 16),
   eventField |-> Field(packetInfo, 8, 4),
   sparse     |-> (Field(packetInfo, 8, 8) & SP_M0_BIT) # 0]

(* rx, 835-883: the checks that clear dataValid for a listener of format  *)
(* fmt, rate code rate, ch channels and payload size size (the event      *)
(* field is only logged).  Another integer width converts when it carries *)
(* as many samples.                                                        *)
IntFormat(f) == f \in 2 .. 4   \* AAF_FORMAT_INT_32 .. AAF_FORMAT_INT_16
RxHeaderValid(h, fmt, rate, ch, size) ==
  LET convert == h.format # fmt /\ IntFormat(h.format) /\ IntFormat(fmt)
  IN /\ h.format = fmt \/ convert
     /\ h.rate = rate
     /\ h.channels = ch
     /\ h.bitDepth # 0
     /\ h.payloadSize # size =>
          convert /\ h.payloadSize \div (6 - h.format) = size \div (6 - fmt)
=============================================================================
