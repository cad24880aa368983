\* The first message after a resync.
CONSTANTS
  Connection = {c1}
  Markets = {FALSE}
  MaxEvents = 4
  RestLag = 1
  MaxPending = 2
  MaxAttempts = 1
  MaxReconnects = 1
  MaxFetches = 1
  Failed = Failed
SPECIFICATION Spec
CHECK_DEADLOCK FALSE
PROPERTY ResyncEndsSynced
