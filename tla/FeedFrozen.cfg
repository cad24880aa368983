\* A snapshot of the new numbering meets the mark of the old one.
CONSTANTS
  Connection = {c1, c2}
  Feeds = {"bybit", "okxSwap"}
  FirstId = 7
  MaxSent = 6
  MaxRestarts = 1
  MaxReconnects = 1
  Wrong = Wrong
SPECIFICATION Spec
CHECK_DEADLOCK FALSE
INVARIANT SnapshotsDecide
