CONSTANTS
  owner = owner
  other = other
  third = third
  NoClient = NoClient
  Clients = {owner, other}
  Calls <- TwoShutdowns
  MaxTasks = 2
  Faults = {}
SPECIFICATION FairSpec
PROPERTIES
  OnlyOrphanStopsShutdown
\* the Shutdown that lost the signal waits for ever
CHECK_DEADLOCK FALSE
