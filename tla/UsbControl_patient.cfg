\* A patient host that sends every kind of request, and sometimes too much data.
CONSTANTS
  Requests <- All
  EarlyRequests <- Early
  MPS = 2
  BufferSize = 4
  Allowed <- Liberal
SPECIFICATION FairSpec
INVARIANTS
  TypeOK
  NoAssertFails
  RequestIsIntact
  InPacketIsRight
  AddressesAgree
  RefusedIsNotAcknowledged
PROPERTIES
  SupportedIsServed
  AddressChangesAfterStatus
