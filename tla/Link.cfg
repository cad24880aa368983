\* Both kinds of provider.  One process ends once, sends are refused, Core loses frames.
CONSTANTS
  MaxUpdates = 3
  MaxPending = 1
  SendHwm = 2
  QueueCapacity = 1
  MaxExits = 1
  MaxCoreRestarts = 1
  Watched = 2
  Wrong = Wrong
SPECIFICATION Spec
CONSTRAINT Small
CHECK_DEADLOCK FALSE
INVARIANTS
  NoHole
  BooksAgree
  VerdictsAgree
PROPERTY
  UpdateArrives
