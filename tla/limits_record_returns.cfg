SPECIFICATION Spec
CONSTANTS
  Threads = {main}
  Amounts = {1}
  DailyLossLimit = 1
  MaxDay = 0
  MaxTrades = 2
PROPERTIES
  RecordReturns
