\* Two clients with one feed each, or none.
CONSTANTS
  Session = {s1, s2}
  Instrument = {btc}
  FeedChoice = {{}, {"bbo"}, {"price_bands"}}
  MaxPublishes = 2
  None = None
SPECIFICATION Spec
CHECK_DEADLOCK FALSE
INVARIANTS
  GapsAreConflation
  NewestIsKept
PROPERTIES
  UpdatesReachClients
  SessionsAreReleased
  ServerStopsWithoutClients
