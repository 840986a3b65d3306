SPECIFICATION FairSpec
CONSTANTS
  Tasks = {a, b}
  Nobody = Nobody
  Observers = 1
  MaxRequests = 4
  Awaiting <- EveryListener
CHECK_DEADLOCK FALSE
PROPERTY WaitsEnd
