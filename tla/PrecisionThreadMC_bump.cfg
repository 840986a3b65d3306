SPECIFICATION Spec
CONSTANTS
  owner = owner
  tuner = tuner
  Clients = {owner, tuner}
  Calls <- Bumping
  MaxCalls = 3
  Periods = {1}
  Top = 3
  Millisecond = 2
CHECK_DEADLOCK FALSE
PROPERTY SkippedWereMissed
