\* A client that stays.
CONSTANTS
  Session = {s1}
  Instrument = {btc}
  FeedChoice = {{"bbo"}}
  MaxPublishes = 1
  None = None
SPECIFICATION Spec
CHECK_DEADLOCK FALSE
PROPERTY
  ServerStops
