\* A host that gives a request up before the device answered.
CONSTANTS
  Requests <- Few
  EarlyRequests <- Few
  MPS = 2
  BufferSize = 4
  Allowed <- Hasty
SPECIFICATION Spec
INVARIANT MailboxIsFreeAtPost
CHECK_DEADLOCK FALSE
