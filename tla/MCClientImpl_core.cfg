CONSTANTS
  Bev = {b1, b2}
  NoBev = NoBev
  Cluster = {c1}
  NoCluster = NoCluster
  MaxOutstanding = 1
  MaxRequests = 4
  MaxUserRequests = 4
  MaxLosses = 2
  UserOutcomes = {"true", "false", "throw"}
  ListenerOutcomes = {}
  Sizes = {"small", "large"}
  ApiCalls = {"runOnce", "drain", "async", "sync", "pending", "nested", "nestedSync", "nestedDrain"}
SPECIFICATION Spec
SYMMETRY BevSymmetry
CHECK_DEADLOCK FALSE
INVARIANTS
  CalledAtMostOnce
  CountDriftsByLosses
PROPERTIES
  ForgottenOnlyAfterCallback
