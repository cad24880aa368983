\* The copies of a restart that the other sockets carry.
CONSTANTS
  Connection = {c1, c2}
  Feeds = {"bybit", "okxSwap"}
  FirstId = 7
  MaxSent = 6
  MaxRestarts = 1
  MaxReconnects = 1
  Wrong = Wrong
SPECIFICATION Spec
CHECK_DEADLOCK FALSE
PROPERTY RestartTakenOnce
