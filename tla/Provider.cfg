SPECIFICATION StreamSpec
CONSTANTS
  MaxFrames = 6
  MaxBlocks = 2
  InFlight = 1
  Kinds <- AnswerKinds
  Newlines <- NewlineStyles
  MaxChunks = 5
  CallIds <- CallNames
  MaxGrowth = 2
INVARIANTS DeliversTheWire ArgumentsComplete SignaturesKept
PROPERTIES ImplementsProtocol
CHECK_DEADLOCK FALSE
