---------------------------- MODULE MCAafTalker ----------------------------
(* Instances of the AAF talker for TLC.  One channel of one int16 frame    *)
(* per packet (payload 2 bytes, queue frame 4, so padding happens), two    *)
(* packets per item, an offset of two packets and up to sixteen packets of audio.   *)
EXTENDS AafTalker
=============================================================================
