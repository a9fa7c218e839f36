SPECIFICATION FairSpec
CONSTANTS
  Host = {h1}
  Pc = {p1, p2}
  Bev = {b1, b2}
  NoPc = NoPc
  Interval = 1
  MaxTimers = 2
  MaxWanted = 2
INVARIANTS
  RetryScheduled
  NoDanglingAttempt
  Conserved
PROPERTIES
  ImplementsMembership
  RetriedUntilUp
