SPECIFICATION Spec
CONSTANTS
  Symbols = {a, b}
  MaxQty = 2
INVARIANTS
  RecoveryResumes
CHECK_DEADLOCK FALSE
