\* A window of eight tokens, two tool calls a reply, small and large results.
CONSTANTS
  Window = 8
  Headroom = 1
  ThresholdTokens = 0
  ThresholdPercent = 50
  ReserveTokens = 2
  KeepRecent = 3
  ResultSizes = {1, 4}
  ResultCap = 2
  MinMessages = 2
  MaxRetries = 3
  EscalateAfter = 2
  WritesFail = TRUE
  MaxCalls = 2
  MaxMessages = 8
SPECIFICATION WindowSpec
INVARIANTS
  NothingForgotten
  PairsKept
  NewestPromptSent
