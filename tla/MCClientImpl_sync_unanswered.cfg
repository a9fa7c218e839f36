CONSTANTS
  Bev = {b1}
  NoBev = NoBev
  Cluster = {c1}
  NoCluster = NoCluster
  MaxOutstanding = 2
  MaxRequests = 2
  MaxUserRequests = 2
  MaxLosses = 0
  UserOutcomes = {"true", "false"}
  ListenerOutcomes = {}
  Sizes = {"small"}
  ApiCalls = {"runOnce", "async", "sync", "pending"}
SPECIFICATION Spec
CHECK_DEADLOCK FALSE
INVARIANTS
  SyncReturnsResponse
