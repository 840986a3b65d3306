SPECIFICATION Spec
CONSTANTS
  Callers = {a, b, c}
  Nothing = Nothing
  MaxCalls = 3
  Size = 3
  Shared = TRUE
CHECK_DEADLOCK FALSE
PROPERTY ProbeAcquires
