CONSTANTS
  owner = owner
  other = other
  third = third
  NoClient = NoClient
  Clients = {owner, other}
  Calls <- OwnedCalls
  MaxTasks = 2
  Faults = {"give"}
SPECIFICATION Spec
INVARIANTS
  LiveStateHasTask
