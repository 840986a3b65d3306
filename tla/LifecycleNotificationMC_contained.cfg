SPECIFICATION Spec
CONSTANTS
  Tasks = {a, b}
  Nobody = Nobody
  Observers = 1
  MaxRequests = 4
  Awaiting <- NoListener
CHECK_DEADLOCK FALSE
PROPERTY FailureReported
