\* A ring of four cells whose cursors wrap after eight messages.
CONSTANTS
  Message = {m1, m2}
  Capacity = 4
  Wrap = 8
  Attempts = 2
  Husk = Husk
  Nothing = Nothing
SPECIFICATION Spec
INVARIANTS
  NoDataRace
PROPERTY
  FifoSpec
