\* Windows of two rows and one, two columns wide; a command queue of one.
CONSTANTS
  Height = 2
  Width = 2
  CmdQueueLen = 1
  Scripts <- SomeScripts
SPECIFICATION Spec
INVARIANT TypeOK
INVARIANT ScreenIsBuffer
INVARIANT CommandsInOrder
PROPERTY Settles
CHECK_DEADLOCK FALSE
