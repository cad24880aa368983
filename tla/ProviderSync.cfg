\* One socket, spot and futures: nothing of the stream is missing.
CONSTANTS
  Connection = {c1}
  Markets = {FALSE, TRUE}
  MaxEvents = 4
  RestLag = 3
  MaxPending = 2
  MaxAttempts = 2
  MaxReconnects = 1
  MaxFetches = 2
  Failed = Failed
SPECIFICATION Spec
CHECK_DEADLOCK FALSE
INVARIANTS
  NoUpdateMissing
