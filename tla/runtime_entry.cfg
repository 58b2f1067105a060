SPECIFICATION Spec
CONSTANTS
  Symbols = {A}
  Sizes = {2}
  Cooldown = 1
  MaxFailures = 2
  MaxExposure = 6
  MaxPositions = 2
  MaxSymbol = 6
  Offers = {}
  RecordReturns = FALSE
  MaxOrders = 2
  EndOfTime = 2
INVARIANTS
  EntryFindsFlat
CHECK_DEADLOCK FALSE
