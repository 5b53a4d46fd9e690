\* Two callers of any kind, a session whose writes may fail.
CONSTANTS
  Callers = {c1, c2}
  Run = run
  Kinds = {"model"}
  Calls = {"prompt", "continue", "set", "nextTurn", "steer", "abort", "append", "navigate", "compact"}
  Batches = {1, 2}
  Keeps = {0, 2}
  WritesFail = TRUE
  MaxMessages = 5
  MaxSettings = 2
  MaxCalls = 3
  MaxEntries = 7
SPECIFICATION HarnessSpec
SYMMETRY HarnessSymmetry
CHECK_DEADLOCK FALSE
INVARIANTS
  SessionMirrorsAgent
  SettingsConserved
  NoneStranded
PROPERTIES
  NextTurnKept
