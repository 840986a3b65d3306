SPECIFICATION Spec
CONSTANTS
  owner = owner
  tuner = tuner
  Clients = {owner, tuner}
  Calls <- Resuming
  MaxCalls = 3
  Periods = {0}
  Top = 3
  Millisecond = 2
CHECK_DEADLOCK FALSE
PROPERTY ResumeStartsFresh
