\* Providers that come and go, one of them a second time; a registry that fills up and queues that data may fill.
CONSTANTS
  Instrument = {btc}
  Foreign = foreign
  MaxVenues = 2
  Level = {l1}
  MaxQty = 1
  MaxPrice = 1
  NoBook = NoBook
  QueueCapacity = 3
  MaxFrames = 6
  UpdateInput <- MCUpdateInput
  QuoteInput <- MCQuoteInput
  HealthInput <- MCHealthInput
  Connection = {c1, c2, c3, c4, c5}
  Venue <- MCVenue
  VenueOf <- MCVenueOf
  Expected = btc
  None = None
  c1 = c1
  c2 = c2
  c3 = c3
  c4 = c4
  c5 = c5
  v1 = v1
  v2 = v2
  v3 = v3
  other = other
SPECIFICATION OrderlySpec
INVARIANTS
  SlotsAreDistinct
  BoundIffActive
  NothingOfTheGone
PROPERTY
  CoreSpec
