---------------------------- MODULE MCAafConfig ----------------------------
(* Instances of the session configuration for TLC.  A value is written as *)
(* strtol reads it: Num(n) is the string of n, Junk(n) a string that      *)
(* starts with n and goes on with something else ("1x"; "x" is Junk(0)).  *)
EXTENDS AafConfig

Num(n) == [num |-> n, whole |-> TRUE]
Junk(n) == [num |-> n, whole |-> FALSE]

(* The .ini file of the nominal run: every key, a default or a changed    *)
(* value; 125 us is one packet of 48 kHz at 8000 packets/s and splits     *)
(* one of 44.1 kHz; 10 us is under one sample; tx rate 0 and "x" are the  *)
(* values that divide by zero.                                            *)
NominalTexts ==
  "map_nv_item_count" :> {Num(4)} @@
  "map_nv_packing_factor" :> {Num(2)} @@
  "map_nv_tx_interval" :> {Num(8000)} @@
  "map_nv_tx_rate" :> {Junk(0)} @@
  "map_nv_sparse_mode" :> {Num(1), Junk(0)} @@
  "map_nv_audio_mcr" :> {Num(1)} @@
  "map_nv_mcr_timestamp_interval" :> {Num(8)} @@
  "map_nv_mcr_recovery_interval" :> {Num(8)} @@
  "map_nv_temporal_redundant_offset" :> {Num(125)} @@
  "map_nv_max_allowed_dropout_time" :> {Num(10)} @@
  "map_nv_report_seconds" :> {Num(10)}

(* A listener of eight channels at 192 kHz, 4000 packets/s (the default), *)
(* with 250 us of redundancy (one packet).                                 *)
ScratchTexts ==
  "map_nv_temporal_redundant_offset" :> {Num(250)}

(* The nominal file where the transmit rate is only ever given as "0".     *)
ZeroTexts ==
  "map_nv_tx_interval" :> {Num(0)}
====
