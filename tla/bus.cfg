SPECIFICATION Spec
CONSTANTS
  Producers = {main, handler}
  Consumers = {k1}
  Capacity = 2
  MaxEvents = 4
INVARIANTS
  EventsFollowLog
PROPERTIES
  EarlyEventsAreDispatched
