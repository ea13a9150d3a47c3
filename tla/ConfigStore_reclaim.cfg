\* Enough saves to take the last free page after a restart.
CONSTANTS
  NSECTORS = 4
  PAGE_SIZE = 7
  HeaderLen = 2
  Tags <- TwoTags
  RecordLen <- Lengths
  MaxSaves = 6
  Allowed <- Careful
SPECIFICATION Spec
PROPERTY ReclaimKeepsValues
