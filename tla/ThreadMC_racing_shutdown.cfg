CONSTANTS
  owner = owner
  other = other
  third = third
  NoClient = NoClient
  Clients = {owner, other}
  Calls <- RacingShutdown
  MaxTasks = 2
  Faults = {}
SPECIFICATION Spec
PROPERTIES
  ShutdownMeansStopped
