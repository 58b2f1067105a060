SPECIFICATION MCSpec
CONSTANTS
  Entries = {e1}
  Exits = {}
  ExitsAtOnce = {x1}
  Qty = 2
INVARIANTS
  BookedWithinFills
  LegsMatchTheTrade
PROPERTIES
  CallsReturn
