CONSTANTS
  a = a
  b = b
  c = c
  Dispatcher = Dispatcher
  NoTask = NoTask
  NoThread = NoThread
  Threads = {a, b, c}
  app = app
  Collectors = {app}
  ReleasedAtFirst = {}
  Callbacks = {"Release"}
  QueueLength = 1
  Faults = {}
  Outranking = {a, b, c}
SPECIFICATION FairSpec
PROPERTIES
  ExitsAnnounced
  ReleasedReclaimed
