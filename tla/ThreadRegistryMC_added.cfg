CONSTANTS
  c1 = c1
  c2 = c2
  t1 = t1
  t2 = t2
  t3 = t3
  t4 = t4
  NoThread = NoThread
  NoCaller = NoCaller
  Callers = {c1, c2}
  Threads = {t1}
  Deferred = {t1}
  Calls <- Adding
  MaxCalls = 3
  MaxID = 1
  CoreCount = 2
SPECIFICATION Spec
INVARIANT
  RegistryOfLive
