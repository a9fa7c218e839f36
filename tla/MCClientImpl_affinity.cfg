CONSTANTS
  Bev = {b1, b2}
  NoBev = NoBev
  Cluster = {c1}
  NoCluster = NoCluster
  MaxOutstanding = 2
  MaxRequests = 6
  MaxUserRequests = 4
  MaxLosses = 1
  UserOutcomes = {"true", "false", "throw"}
  ListenerOutcomes = {"true", "false", "throw"}
  Sizes = {"small", "large"}
  ApiCalls = {"runOnce", "async", "pending", "affinity", "nested"}
SPECIFICATION Spec
SYMMETRY BevSymmetry
CHECK_DEADLOCK FALSE
INVARIANTS
  IndInv
  LimitHolds
  MarkedHasUnsentData
