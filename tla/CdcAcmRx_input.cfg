\* Packets of up to two characters, resets at any moment.
CONSTANTS
  MPS = 2
  NKeys = 5
  MaxTeardowns = 2
SPECIFICATION Spec
INVARIANT TypeOK
INVARIANT KeysInOrder
INVARIANT KeysAreKept
PROPERTY InputIsServed
CHECK_DEADLOCK FALSE
