SPECIFICATION Spec
CONSTANTS
  Clients = {c1, c2}
  Orders = {o1, o2}
  Workers = {w1}
  MaxOrders = 1
  MaxDay = 1
  MaxQueue = 2
INVARIANTS
  DailyCap
  ApprovalsAreSpentOnce
PROPERTIES
  ClientsReturn
