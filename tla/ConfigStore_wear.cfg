\* Few sectors, so that they run out, are reclaimed and are erased by command.
CONSTANTS
  NSECTORS = 4
  PAGE_SIZE = 7
  HeaderLen = 2
  Tags <- TwoTags
  RecordLen <- Lengths
  MaxSaves = 7
  Allowed <- Erasing
SPECIFICATION Spec
INVARIANT TypeOK
INVARIANT RoomIsErased
INVARIANT LogIsOrdered
INVARIANT FreePagesAreFree
INVARIANT PagesAreKnown
