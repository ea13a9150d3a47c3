\* A host that abandons and resets whenever it likes; the firmware may stop
\* in an assert, so the system may really stop.
CONSTANTS
  Requests <- Few
  EarlyRequests <- Few
  MPS = 2
  BufferSize = 4
  Allowed <- Anything
SPECIFICATION Spec
INVARIANTS
  MailboxHasOneToken
  AckAssertHolds
CHECK_DEADLOCK FALSE
