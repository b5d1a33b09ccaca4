------------------------- MODULE CircularQueueSpec -------------------------
(***************************************************************************)
(* A caller of the circular byte queue that pushes and pulls any number of *)
(* bytes while leaving Headroom bytes free, for checking the queue         *)
(* operators on their own: they implement a FIFO of bytes (FifoQueue),     *)
(* and CompareBufferToCircularQueue is checked against the queued bytes.   *)
(***************************************************************************)
EXTENDS Naturals, Sequences, CircularQueue

CONSTANTS
  Bytes,     \* the byte values pushed (0 is the zero byte)
  Cap,       \* queueSize of the queue
  Headroom   \* bytes the caller leaves free after every push

ASSUME 0 \in Bytes /\ Uninit \notin Bytes /\ Cap \in Nat \ {0}

VARIABLES
  q,    \* the circular_queue_t
  req   \* the caller's latest call: [op, data pushed, n pulled]

vars == <<q, req>>

(* The bytes queued, oldest first: what the queue stands for.              *)
Contents(x) == PulledBytes(x, CircularQueueBytesQueued(x))

Init == q = AllocateCircularQueue(Cap) /\ req = [op |-> "none", data |-> <<>>, n |-> 0]

Push ==
  \E n \in 1 .. Cap - Headroom - CircularQueueBytesQueued(q) :
    \E data \in [1 .. n -> Bytes] :
      /\ q' = PushBufferToCircularQueue(q, data)
      /\ req' = [op |-> "push", data |-> data, n |-> n]

Pull ==
  \E n \in 1 .. CircularQueueBytesQueued(q) :
    /\ q' = PullBufferFromCircularQueue(q, n)
    /\ req' = [op |-> "pull", data |-> <<>>, n |-> n]

Next == Push \/ Pull

Spec == Init /\ [][Next]_vars

TypeOK ==
  /\ q.size = Cap
  /\ q.storage \in [0 .. Cap - 1 -> Bytes \cup {Uninit}]
  /\ q.head \in 0 .. Cap - 1
  /\ q.tail \in 0 .. Cap - 1
  /\ req.op \in {"none", "push", "pull"}

(* The queue implements a FIFO of bytes: every push appends exactly the    *)
(* bytes pushed to, and every pull of n removes exactly n bytes from the   *)
(* front of, the byte sequence between tail and head, across every wrap of *)
(* head and tail (PushBufferToCircularQueue, PullBufferFromCircularQueue,  *)
(* CircularQueueBytesQueued).                                              *)
Fifo == INSTANCE FifoQueue WITH fifo <- Contents(q)
FifoRefinement == Fifo!Spec

(* CompareBufferToCircularQueue returns TRUE exactly when the caller's     *)
(* first n bytes equal the next n bytes queued, for every n up to the      *)
(* bytes queued and every caller buffer of 2n bytes.                       *)
CompareAgreesWithContents ==
  \A n \in 0 .. CircularQueueBytesQueued(q) :
    \A mem \in [1 .. 2 * n -> Bytes] :
      CompareBufferToCircularQueue(q, mem, n)
        = (SubSeq(mem, 1, n) = SubSeq(Contents(q), 1, n))
=============================================================================
