\* A word too small for the widest ask band: 10 + 20 wraps.
CONSTANTS
  Session = {s1, s2}
  Price = {2, 3, 5, 9}
  Quantity = {1, 2}
  Target = {0, 5, 30}
  Bps = {0, 5, 20}
  Scale = 2
  Base = 10
  Word = 16
  MaxDepth = 3
  None = None
  BookInput <- MCBookInput
  RequestInput <- MCRequestInput
  DefaultNotionalBands <- MCNotional
  DefaultBpsBands <- MCBps
SYMMETRY MCSymmetry
SPECIFICATION Spec
INVARIANTS
  PriceBandsCorrect
