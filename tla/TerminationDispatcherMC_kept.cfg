CONSTANTS
  a = a
  b = b
  c = c
  Dispatcher = Dispatcher
  NoTask = NoTask
  NoThread = NoThread
  Threads = {a, b, c}
  app = app
  Collectors = {app}
  ReleasedAtFirst = {c}
  Callbacks = {"Release", "Keep", "Shutdown"}
  QueueLength = 2
  Faults = {"create"}
  Outranking = {}
SPECIFICATION Spec
SYMMETRY Symmetry
CHECK_DEADLOCK FALSE
INVARIANTS
  NoDanglingRecord
  NoStrandedWaiter
PROPERTIES
  ImplementsExit
