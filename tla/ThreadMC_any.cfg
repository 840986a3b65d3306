CONSTANTS
  owner = owner
  other = other
  third = third
  NoClient = NoClient
  Clients = {owner, other}
  Calls <- AnyCalls
  MaxTasks = 2
  Faults = {"give", "wait", "send", "ensure"}
SPECIFICATION Spec
INVARIANTS
  CreationIsExclusive
\* a Shutdown waits for ever when the record of the exit is lost
CHECK_DEADLOCK FALSE
