\* Enough saves to reach sector NSECTORS/2.
CONSTANTS
  NSECTORS = 4
  PAGE_SIZE = 7
  HeaderLen = 2
  Tags <- OneTag
  RecordLen <- OneLength
  MaxSaves = 6
  Allowed <- Erasing
SPECIFICATION Spec
PROPERTY EraseErases
