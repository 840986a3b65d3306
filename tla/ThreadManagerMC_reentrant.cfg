CONSTANTS
  c1 = c1
  c2 = c2
  c3 = c3
  t1 = t1
  t2 = t2
  NoCaller = NoCaller
  Callers = {c1, c2, c3}
  Threads = {t1}
  Calls <- OneOfEach
  MaxCalls = 2
  Faults = {}
  Reentrant = {t1}
SPECIFICATION FairSpec
PROPERTIES
  CleanUpEnds
\* the pass waits for the mutex it holds
CHECK_DEADLOCK FALSE
