--------------------------- MODULE CircularQueue ---------------------------
(***************************************************************************)
(* The byte ring buffer circular_queue_t of openavb_map_aaf_audio.c, used  *)
(* for the temporal redundancy data queue and for the entry-type (stats)   *)
(* queue.  A queue is a record:                                            *)
(*   storage  the malloc'ed bytes, a function 0 .. size-1 -> bytes         *)
(*   head     queueHead - queueStorage (where the next push writes)        *)
(*   tail     queueTail - queueStorage (where the next pull reads)         *)
(*   size     queueSize; 0 for a freed (never allocated) queue             *)
(* The operators below take a queue and return the next one; the modules   *)
(* that use the queue (AafListener, AafTalker) call them inside their      *)
(* actions.  CircularQueueSpec exercises them with a caller that keeps the  *)
(* queue below capacity, and shows that they implement FifoQueue.          *)
(***************************************************************************)
EXTENDS Naturals, Sequences

CONSTANT Uninit  \* content of a byte malloc() returned and nothing has written

(* calloc'ed pvt_data_t: queueStorage NULL, queueSize 0.                   *)
NoQueue == [storage |-> <<>>, head |-> 0, tail |-> 0, size |-> 0]

AllocateCircularQueue(n) ==
  [storage |-> [i \in 0 .. n - 1 |-> Uninit], head |-> 0, tail |-> 0, size |-> n]

(* malloc returned NULL: queueSize is already set, queueStorage is NULL.  *)
FailedAllocation(n) == [NoQueue EXCEPT !.size = n]

FreeCircularQueue(q) == NoQueue

CircularQueueIsValid(q) == q.storage # <<>> /\ q.size > 0

CircularQueueBytesQueued(q) ==
  IF q.tail > q.head THEN q.head + q.size - q.tail ELSE q.head - q.tail

(* The bytes a pull of n would return, read from the tail in two phases:   *)
(* to the end of the storage, then from its start.                         *)
PulledBytes(q, n) == [k \in 1 .. n |-> q.storage[(q.tail + k - 1) % q.size]]

(* Mutant: the second memcpy, to the start of storage, is left out; head  *)
(* still wraps.                                                            *)
PushBufferToCircularQueueOnePhase(q, data) ==
  LET n == Len(data) IN
  [q EXCEPT
     !.storage = [i \in DOMAIN q.storage |->
                    IF i >= q.head /\ i - q.head < n
                    THEN data[i - q.head + 1] ELSE q.storage[i]],
     !.head    = (q.head + n) % q.size]

(* Push data (a pData of NULL is a sequence of zeros): byte k lands at     *)
(* (head + k) % size, and head wraps to the start at the end of storage.   *)
PushBufferToCircularQueue(q, data) ==
  LET n == Len(data) IN
  [q EXCEPT
     !.storage = [i \in DOMAIN q.storage |->
                    IF (i - q.head) % q.size < n
                    THEN data[((i - q.head) % q.size) + 1]
                    ELSE q.storage[i]],
     !.head    = (q.head + n) % q.size]

(* Mutant: the tail is not reset to the start of storage at its end.     *)
PullBufferFromCircularQueueNoWrap(q, n) == [q EXCEPT !.tail = q.tail + n]

(* Pull n bytes; the caller reads PulledBytes(q, n) first when pData is    *)
(* not NULL.                                                               *)
PullBufferFromCircularQueue(q, n) == [q EXCEPT !.tail = (q.tail + n) % q.size]

Zeros(n) == [k \in 1 .. n |-> 0]

(* CompareBufferToCircularQueue(pQueue, pData, n): phase 1 compares        *)
(* pData[0 .. phase1) with the bytes from the tail to the end of storage;  *)
(* phase 2 compares storage[0 .. phase2) with pData + phase2 (sic), where  *)
(* mem is the caller's memory from pData on.                               *)
CompareBufferToCircularQueue(q, mem, n) ==
  LET phase1 == IF q.size - q.tail > n THEN n ELSE q.size - q.tail
      phase2 == n - phase1
  IN /\ \A k \in 0 .. phase1 - 1 : mem[k + 1] = q.storage[q.tail + k]
     /\ \A k \in 0 .. phase2 - 1 : mem[phase2 + k + 1] = q.storage[k]
=============================================================================
