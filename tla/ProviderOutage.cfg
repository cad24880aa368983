\* Two redundant sockets: outages, resyncs and the watchdog.
CONSTANTS
  Connection = {c1, c2}
  Markets = {FALSE}
  MaxEvents = 2
  RestLag = 3
  MaxPending = 1
  MaxAttempts = 1
  MaxReconnects = 1
  MaxFetches = 1
  Failed = Failed
SPECIFICATION Spec
CHECK_DEADLOCK FALSE
INVARIANT OutageIsAnnounced
PROPERTIES
  OutageEndsRun
  SyncEnds
