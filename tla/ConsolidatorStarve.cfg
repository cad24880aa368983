\* A queue that is refilled while it is drained.
CONSTANTS
  MaxVenues = 2
  Capacity = 1
  SpinLimit = 1
  MaxDrained = 3
  StoreBuffers = {FALSE}
SPECIFICATION Spec
CHECK_DEADLOCK FALSE
INVARIANT
  PassIsBounded
