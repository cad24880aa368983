\* A fetched snapshot is sent with what was buffered, and the announcement of the resync is refused too.
CONSTANTS
  MaxUpdates = 3
  MaxPending = 2
  SendHwm = 2
  QueueCapacity = 2
  MaxExits = 1
  MaxCoreRestarts = 0
  Watched = 1
  Wrong = Wrong
SPECIFICATION Spec
CHECK_DEADLOCK FALSE
INVARIANT HoleNotMerged
