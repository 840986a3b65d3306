CONSTANTS
  owner = owner
  other = other
  third = third
  NoClient = NoClient
  Clients = {owner, other}
  Calls <- OwnedCalls
  MaxTasks = 2
  Faults = {}
SPECIFICATION FairSpec
PROPERTIES
  ShutdownReturns
\* a Shutdown waits for ever for the mutex of a worker deleted inside Dispatch
CHECK_DEADLOCK FALSE
