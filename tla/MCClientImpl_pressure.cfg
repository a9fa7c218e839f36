CONSTANTS
  Bev = {b1, b2}
  NoBev = NoBev
  Cluster = {c1, c2}
  NoCluster = NoCluster
  MaxOutstanding = 1
  MaxRequests = 4
  MaxUserRequests = 4
  MaxLosses = 2
  UserOutcomes = {"true", "false"}
  ListenerOutcomes = {"false"}
  Sizes = {"small", "large"}
  ApiCalls = {"run", "runOnce", "async", "connect", "pending", "nested"}
SPECIFICATION Spec
SYMMETRY BevSymmetry
CHECK_DEADLOCK FALSE
INVARIANTS
  NoDivisionByZero
  SameCluster
PROPERTIES
  AppRequestsAvoidBackpressure
