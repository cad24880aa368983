\* A tick after a reconnection.
CONSTANTS
  Connection = {c1}
  Markets = {FALSE}
  MaxEvents = 1
  RestLag = 1
  MaxPending = 1
  MaxAttempts = 1
  MaxReconnects = 1
  MaxFetches = 1
  Failed = Failed
SPECIFICATION Spec
CHECK_DEADLOCK FALSE
PROPERTY ConnectionNeverClears
