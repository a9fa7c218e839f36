CONSTANTS
  Bev = {b1, b2}
  NoBev = NoBev
  Cluster = {c1}
  NoCluster = NoCluster
  MaxOutstanding = 2
  MaxRequests = 3
  MaxUserRequests = 3
  MaxLosses = 1
  UserOutcomes = {"true", "false"}
  ListenerOutcomes = {"true", "false"}
  Sizes = {"small", "large"}
  ApiCalls = {"run", "runOnce", "drain", "async", "pending", "nested"}
SPECIFICATION FairSpec
CHECK_DEADLOCK FALSE
PROPERTIES
  WokenUnlessLost
  DrainReturnsUnlessLost
  DrainedUpToLosses
  EveryRequestCalledBack
