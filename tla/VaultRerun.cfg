SPECIFICATION Spec
CONSTANTS
  None = None
  DataSets = {1, 2}
  ChunkCount <- Chunked
  Content <- ThreeContents
  Stamps = {1, 2}
  Alike = {1}
  PageSize = 1
  MaxClock = 2
  MaxGrants = 0
  Runs = {r1}
  Attempts = 2
  MaxRuns = 2
  MaxRestores = 0
INVARIANTS RerunIsHarmless
CHECK_DEADLOCK FALSE
