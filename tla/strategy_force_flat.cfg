SPECIFICATION Spec
CONSTANTS
  Prices = {2,3,4}
  Vwap = 4
  MinBars = 2
  MaxTrades = 2
  LossLimit = 4
  MaxTimeInTrade = 2
  FirstEntry = 1
  LastEntry = 3
  Flat = 4
  Close = 4
  MaxBars = 5
  MaxDays = 1
  MaxUnits = 1
INVARIANTS
  ForcedFlat
CHECK_DEADLOCK FALSE
