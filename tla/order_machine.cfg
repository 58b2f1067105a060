SPECIFICATION Spec
CONSTANTS
  Orders = {o1, o2, o3}
  Callers = {main, bus}
  Disciplined = TRUE
INVARIANTS
  TableIsLog
PROPERTIES
  ImplementsLifecycle
