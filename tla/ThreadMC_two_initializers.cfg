CONSTANTS
  owner = owner
  other = other
  third = third
  NoClient = NoClient
  Clients = {owner, other}
  Calls <- TwoInitializers
  MaxTasks = 2
  Faults = {}
SPECIFICATION Spec
INVARIANTS
  OneRecord
\* two initialisations wait for ever for the mutex of a worker deleted inside Dispatch
CHECK_DEADLOCK FALSE
