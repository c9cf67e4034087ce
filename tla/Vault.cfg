SPECIFICATION Spec
CONSTANTS
  None = None
  DataSets = {1, 2}
  ChunkCount <- Chunked
  Content <- ThreeContents
  Stamps = {1}
  Alike = {1}
  PageSize = 1
  MaxClock = 2
  MaxGrants = 1
  Runs = {r1, r2}
  Attempts = 2
  MaxRuns = 3
  MaxRestores = 1
SYMMETRY Swapped
INVARIANTS WholeUnlessRerun RestoredIsNewest
PROPERTIES AcceptedIsWhole
CHECK_DEADLOCK FALSE
