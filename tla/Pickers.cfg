SPECIFICATION Spec
CONSTANTS
  Vendors = {v}
  Compat = {q, r}
  MaxCommands = 3
INVARIANTS LoginIsBacked ScreenFollowsWorker
PROPERTIES LoginEnds
CHECK_DEADLOCK FALSE
