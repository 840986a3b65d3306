SPECIFICATION FairSpec
CONSTANTS
  owner = owner
  tuner = tuner
  Clients = {owner, tuner}
  Calls <- Split
  MaxCalls = 4
  Periods = {0, 1, 3}
  Top = 3
  Millisecond = 2
CHECK_DEADLOCK FALSE
INVARIANTS TypeOK NoLostWake NoStaleMeasurement
PROPERTIES ImplementsSchedule IterationsContinue
