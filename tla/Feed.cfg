\* Two redundant sockets, Bybit and an OKX swap, one restart of the venue.
CONSTANTS
  Connection = {c1, c2}
  Feeds = {"bybit", "okxSwap"}
  FirstId = 7
  MaxSent = 6
  MaxRestarts = 1
  MaxReconnects = 1
  Wrong = Wrong
SPECIFICATION Spec
CHECK_DEADLOCK FALSE
INVARIANTS
  BookIsExact
  CurrentWhenDrained
  ScaleIsKnown
PROPERTIES
  NeverBack
  RecoveryEnds
