\* A snapshot ahead of the stream.
CONSTANTS
  Connection = {c1}
  Markets = {FALSE}
  MaxEvents = 3
  RestLag = 1
  MaxPending = 2
  MaxAttempts = 1
  MaxReconnects = 0
  MaxFetches = 1
  Failed = Failed
SPECIFICATION Spec
CHECK_DEADLOCK FALSE
INVARIANT NothingOld
