SPECIFICATION BackupSpec
CONSTANTS
  Processes = {"s1"}
  Concepts = {"a", "b"}
  Threshold = 2
  Retain = 2
  SameStamp = 2
  MaxChanges = 4
  MaxFailures = 1
INVARIANTS BackupEveryN
PROPERTIES PruningKeepsCoverage FlushesSettle
CHECK_DEADLOCK FALSE
