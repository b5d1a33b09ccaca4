-------------------------- MODULE MCCircularQueue --------------------------
(* Model of the circular byte queue on its own: a 5-byte queue (the        *)
(* smallest the AAF code allocates is a 4-byte frame times 3 slots, and 5  *)
(* is enough for every push and pull to wrap at every offset) over the     *)
(* byte values {0, 1}.                                                     *)
EXTENDS CircularQueueSpec

MCBytes == {0, 1}
=============================================================================
