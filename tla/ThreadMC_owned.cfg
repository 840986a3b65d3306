CONSTANTS
  owner = owner
  other = other
  third = third
  NoClient = NoClient
  Clients = {owner, other, third}
  Calls <- OwnedCallsOfThree
  MaxTasks = 2
  Faults = {}
SPECIFICATION FairSpec
INVARIANTS
  TypeOK
  LiveStateHasTask
  NoAccessAfterDestroy
PROPERTIES
  ShutdownMeansStopped
  ImplementsContract
  OnlyOrphanStopsShutdown
  TerminationCompletes
\* a destructor waits for ever for the mutex of a worker deleted inside Dispatch
CHECK_DEADLOCK FALSE
