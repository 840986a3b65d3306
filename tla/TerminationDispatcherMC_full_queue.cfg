CONSTANTS
  a = a
  b = b
  c = c
  app = app
  Dispatcher = Dispatcher
  NoTask = NoTask
  NoThread = NoThread
  Threads = {a, b, c}
  Collectors = {}
  ReleasedAtFirst = {}
  Callbacks = {"Shutdown"}
  QueueLength = 1
  Faults = {}
  Outranking = {a, b, c}
SPECIFICATION FairSpec
CHECK_DEADLOCK FALSE
PROPERTY
  CallbackReturns
