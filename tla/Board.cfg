\* Up to two commands after the settings are restored, one failed transfer.
CONSTANTS
  MaxDenom = 30
  NBlocks = 3
  QueueLen = 2
  BlocksPerFlag = 2
  Frequencies <- SomeFrequencies
  Powers = {3}
  Volts = {0, 1}
  Stored = {0}
  Noise = Noise
  NoWord = NoWord
  MaxCommands = 2
  MaxFailures = 1
SPECIFICATION Spec
INVARIANT TypeOK
INVARIANT BlocksAreAccounted
INVARIANT AnswerIsOwn
INVARIANT CleanIsProgrammed
INVARIANT CalibratedIsTuned
INVARIANT DacFollows
INVARIANT Bracketed
INVARIANT FractionIsClose
PROPERTY CommandsEnd
CHECK_DEADLOCK FALSE
