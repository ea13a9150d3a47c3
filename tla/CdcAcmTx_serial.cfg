\* A ring of 3 (two characters) that wraps, a queue of 2, resets at any moment.
CONSTANTS
  RingSize = 3
  QueueLen = 2
  NChars = 5
  MaxTeardowns = 2
  Allowed <- Racing
SPECIFICATION Spec
INVARIANT TypeOK
INVARIANT NothingIsLost
INVARIANT OncePerConfiguration
PROPERTY IsStream
PROPERTY EveryCharArrives
CHECK_DEADLOCK FALSE
