SPECIFICATION FairWakeupSpec
CONSTANTS
  Thread = {owner, t1, t2}
  Owner = owner
  NoThread = NoThread
  Capacity = 3
  BufSize = 2
  MaxCalls = 6
INVARIANTS
  StopsPaidFor
PROPERTIES
  WakeupStops
  InterruptStops
  WritersReturn
CHECK_DEADLOCK FALSE
