\* A queue of one message.
CONSTANTS
  Instrument = {btc}
  Foreign = foreign
  MaxVenues = 1
  Level = {l1}
  MaxQty = 1
  MaxPrice = 1
  NoBook = NoBook
  QueueCapacity = 1
  MaxFrames = 5
  UpdateInput <- MCUpdateInput
  QuoteInput <- MCQuoteInput
  HealthInput <- MCHealthInput
  Connection = {c1}
  Venue <- MCVenue
  VenueOf <- MCAlone
  Expected = btc
  None = None
  c1 = c1
  c2 = c2
  c3 = c3
  c4 = c4
  c5 = c5
  v1 = v1
  v2 = v2
  v3 = v3
  other = other
SPECIFICATION IngressSpec
INVARIANT
  BoundIffActive
