\* A refused verdict, and a venue that is silent afterwards.
CONSTANTS
  MaxUpdates = 2
  MaxPending = 1
  SendHwm = 2
  QueueCapacity = 2
  MaxExits = 1
  MaxCoreRestarts = 1
  Watched = 1
  Wrong = Wrong
SPECIFICATION Spec
CHECK_DEADLOCK FALSE
INVARIANT ResyncLeavesMerge
