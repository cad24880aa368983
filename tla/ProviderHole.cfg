\* Two redundant sockets: a hole among the buffered events.
CONSTANTS
  Connection = {c1, c2}
  Markets = {FALSE}
  MaxEvents = 4
  RestLag = 1
  MaxPending = 4
  MaxAttempts = 2
  MaxReconnects = 0
  MaxFetches = 1
  Failed = Failed
SPECIFICATION Spec
CHECK_DEADLOCK FALSE
INVARIANT NoUpdateMissing
