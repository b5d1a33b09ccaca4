\* The queue refines a FIFO when the caller leaves one byte free.
CONSTANTS
  Bytes <- MCBytes
  Uninit = Uninit
  Cap = 5
  Headroom = 1
SPECIFICATION Spec
INVARIANT TypeOK
PROPERTY FifoRefinement
