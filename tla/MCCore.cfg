\* Two venues and one stream of one instrument, or one venue with everything.
CONSTANTS
  Instrument = {btc, eth}
  First = btc
  Foreign = foreign
  MaxVenues = 2
  Level = {l1}
  MaxQty = 1
  MaxPrice = 2
  NoBook = NoBook
  QueueCapacity = 1
  HealthSet = {"kLive", "kStale"}
  UpdateInput <- MCUpdateInput
  QuoteInput <- MCQuoteInput
  HealthInput <- MCHealthInput
SPECIFICATION MCSpec
INVARIANTS
  TypeOK
  BookMatchesRebuild
  BboMatchesRescan
  BookIffActive
PROPERTY
  ViewSpec
