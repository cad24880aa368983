\* One venue sends its levels in any order, the other best first.
CONSTANTS
  NameCapacity = 3
  Blank = Blank
  MaxVenues = 2
  PricesOf <- MCPricesOf
  Quantity = {0, 1, 2}
  Unsorted = {0}
  Leftover <- MCLeftover
  OtherMessage <- MCOtherMessage
  Nothing = Nothing
SPECIFICATION Spec
INVARIANTS
  MessagesRoundTrip
  NothingIsMisread
  BookIsExact
  StateIsExact
  ChangesAreTheTransition
