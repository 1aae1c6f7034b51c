SPECIFICATION Spec
CONSTANTS
  Commands <- MCCommands
  MaxCmds = 2
INVARIANTS TypeOK ParsedAsSent OffsetExact PanicOnly
PROPERTY EverythingParsed
CHECK_DEADLOCK FALSE
