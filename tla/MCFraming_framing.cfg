SPECIFICATION FairFramingSpec
CONSTANTS
  Lengths = {4, 5, 7}
  High = 7
  MaxMessages = 4
INVARIANTS
  ClosedAfterReading
PROPERTIES
  EveryMessageDelivered
  ImplementsChannel
CHECK_DEADLOCK FALSE
