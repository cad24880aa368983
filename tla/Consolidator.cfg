\* With and without a store buffer; without one, with and without the timeout.
CONSTANTS
  MaxVenues = 2
  Capacity = 2
  SpinLimit = 1
  MaxDrained = 1
  StoreBuffers = {FALSE, TRUE}
SPECIFICATION Spec
CHECK_DEADLOCK FALSE
INVARIANTS
  NoMissedWakeup
  NothingLeftBehind
PROPERTIES
  MessagesDrained
  StopReturns
