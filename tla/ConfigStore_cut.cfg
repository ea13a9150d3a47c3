\* The power may fail at any halfword; at most the first four pages are used.
CONSTANTS
  NSECTORS = 8
  PAGE_SIZE = 7
  HeaderLen = 2
  Tags <- TwoTags
  RecordLen <- Lengths
  MaxSaves = 4
  Allowed <- PowerCuts
SPECIFICATION Spec
INVARIANT OnlyWholeRecords
PROPERTY IsKeyValueStore
PROPERTY OnlyTornStops
