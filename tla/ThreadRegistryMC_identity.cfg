CONSTANTS
  c1 = c1
  c2 = c2
  t1 = t1
  t2 = t2
  t3 = t3
  t4 = t4
  NoThread = NoThread
  NoCaller = NoCaller
  Callers = {c1, c2}
  Threads = {t1, t2, t3}
  Deferred = {t1, t2}
  Calls <- AnyCalls
  MaxCalls = 3
  MaxID = 1
  CoreCount = 2
SPECIFICATION Spec
SYMMETRY Symmetry
INVARIANTS
  UniqueRecords
  RunsWhereReported
  OwnRecordsOfLive
  IdentityAgrees
  CoresInTurn
