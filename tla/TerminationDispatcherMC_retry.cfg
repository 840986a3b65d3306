CONSTANTS
  a = a
  b = b
  c = c
  app = app
  Dispatcher = Dispatcher
  NoTask = NoTask
  NoThread = NoThread
  Threads = {a, b}
  Collectors = {}
  ReleasedAtFirst = {}
  Callbacks = {}
  QueueLength = 2
  Faults = {"create"}
  Outranking = {}
SPECIFICATION Spec
CHECK_DEADLOCK FALSE
PROPERTY
  RemainsUnavailable
