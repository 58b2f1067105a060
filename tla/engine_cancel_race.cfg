SPECIFICATION Spec
CONSTANTS
  Entries = {e1}
  Exits = {}
  Qty = 2
INVARIANTS
  CancelledIsBooked
