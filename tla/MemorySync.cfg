SPECIFICATION Spec
CONSTANTS
  None = None
  Servers = {"s1", "s2"}
  Ids = {"a"}
  Namespaces = {"ns1", "ns2"}
  Texts = {"x"}
  Pulls = {p1}
  DirectionOf <- Follower
  AllowedAt <- Served
  Timed = {"s2"}
  MaxEdits = 2
  MaxManual = 1
  MaxFaults = 1
  MaxClock = 2
INVARIANTS BranchCatchesUp
PROPERTIES PullKeepsNewer PullKeepsNamespace PulledEventually
CHECK_DEADLOCK FALSE
