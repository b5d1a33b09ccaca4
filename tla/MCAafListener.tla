--------------------------- MODULE MCAafListener ---------------------------
(* Instances of the AAF listener for TLC.  One frame per packet of one or  *)
(* two channels keeps payloads to 2..8 bytes; the sizes still differ       *)
(* between formats (int16 payload half a queue frame), so padding and      *)
(* conversion happen.                                                      *)
EXTENDS AafListener
=============================================================================
