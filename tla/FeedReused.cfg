\* Two restarts of the venue: the ids of the first numbering come again.
CONSTANTS
  Connection = {c1, c2}
  Feeds = {"bybit"}
  FirstId = 7
  MaxSent = 8
  MaxRestarts = 2
  MaxReconnects = 0
  Wrong = Wrong
SPECIFICATION Spec
CHECK_DEADLOCK FALSE
INVARIANT BookIsExact
