SPECIFICATION FairSpec
CONSTANTS
  Compacts = TRUE
  Fails = TRUE
  MaxCommands = 3
  MaxSessions = 4
  MaxHarnesses = 3
  MaxTurns = 2
INVARIANTS
  SpinnerIsBacked
  ArmedRowStays
  SessionInUseIsThere
PROPERTIES
  CommandsServed
CHECK_DEADLOCK FALSE
