----------------------------- MODULE FifoQueue -----------------------------
(***************************************************************************)
(* What a circular byte queue promises its caller: a first-in first-out    *)
(* sequence of bytes.  req is the caller's latest request: a push of the   *)
(* bytes req.data, or a pull of req.n bytes.  A push appends exactly those *)
(* bytes, a pull removes exactly n bytes from the front, and nothing else  *)
(* changes the sequence.                                                   *)
(***************************************************************************)
EXTENDS Naturals, Sequences

CONSTANTS Bytes

VARIABLES fifo, req

Init == fifo = <<>>

Put == /\ req'.op = "push"
       /\ \A i \in DOMAIN req'.data : req'.data[i] \in Bytes
       /\ fifo' = fifo \o req'.data

Take == /\ req'.op = "pull"
        /\ req'.n \in 1 .. Len(fifo)
        /\ fifo' = SubSeq(fifo, req'.n + 1, Len(fifo))

Next == Put \/ Take

Spec == Init /\ [][Next]_<<fifo, req>>
=============================================================================
