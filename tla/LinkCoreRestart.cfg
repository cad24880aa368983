\* md_core is restarted under a provider that runs on.
CONSTANTS
  MaxUpdates = 2
  MaxPending = 1
  SendHwm = 2
  QueueCapacity = 2
  MaxExits = 0
  MaxCoreRestarts = 1
  Watched = 1
  Wrong = Wrong
SPECIFICATION Spec
CHECK_DEADLOCK FALSE
PROPERTY Registers
