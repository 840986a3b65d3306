CONSTANTS
  a = a
  b = b
  c = c
  app = app
  Dispatcher = Dispatcher
  NoTask = NoTask
  NoThread = NoThread
  Threads = {a}
  Collectors = {app}
  ReleasedAtFirst = {a}
  Callbacks = {}
  QueueLength = 2
  Faults = {}
  Outranking = {a}
SPECIFICATION Spec
CHECK_DEADLOCK FALSE
PROPERTY
  AllDestroyedOnlyStopped
