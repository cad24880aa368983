\* A client with two feeds.
CONSTANTS
  Session = {s1}
  Instrument = {btc}
  FeedChoice = {{"volume_bands", "price_bands"}}
  MaxPublishes = 2
  None = None
SPECIFICATION Spec
CHECK_DEADLOCK FALSE
INVARIANT
  NewestIsKept
