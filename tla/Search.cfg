SPECIFICATION Spec
CONSTANTS
  None = None
  Ids = {1, 2, 3}
  Namespaces = {"ns1", "ns2", "ns3"}
  Searched = {"ns1", "ns2"}
  Distances = {1, 2}
  Backends = {"sqlite", "postgres"}
  Wanted = 1
  MaxFetch = 3
  MaxWrites = 1
INVARIANTS NearestFound ResultsComparable
PROPERTIES SearchEnds
CHECK_DEADLOCK FALSE
