SPECIFICATION Spec
CONSTANTS
  Hash <- MCHash
  Ring <- MCRing
  Stray <- MCStray
  Bev = {b1, b2}
  NoBev = NoBev
  HostId <- MCHost
  NoHost = "none"
  Topology <- MCTopology
  Proc <- MCProc
  Key <- MCKey
  MP_INIT_PID = 16383
  NoInvocation = NoInvocation
  m_maxOutstandingRequests = 2
  MaxLosses = 1
SYMMETRY MCSymmetry
INVARIANTS
  FoundOwner
  RingMatchesLeaders
  HashinatorPresent
  RoutedToLeader
  TopologyCurrent
  UpdateUnderWay
CHECK_DEADLOCK FALSE
