CONSTANTS
  a = a
  b = b
  c = c
  app = app
  Dispatcher = Dispatcher
  NoTask = NoTask
  NoThread = NoThread
  Threads = {a, b}
  Collectors = {}
  ReleasedAtFirst = {a, b}
  Callbacks = {}
  QueueLength = 2
  Faults = {}
  Outranking = {a, b}
SPECIFICATION Spec
CHECK_DEADLOCK FALSE
INVARIANTS
  ReclaimedAfterAnnounced
  NoDanglingRecordAtAll
