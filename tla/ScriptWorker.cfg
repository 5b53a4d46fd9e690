SPECIFICATION Spec
CONSTANTS
  Callers = {c1, c2}
  Scripts = 1
  LoadModals = TRUE
  MaxCalls = 3
  MaxModals = 2
  MaxAnswers = 1
PROPERTIES CallsReturn
CHECK_DEADLOCK FALSE
