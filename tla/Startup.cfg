SPECIFICATION Spec
CONSTANTS
  None = None
  Servers = {"s1", "s2"}
  Ids = {1}
  Models = {"m1", "m2"}
  ModelOf <- OwnModel
  Backends = {"sqlite", "postgres"}
  MaxSaves = 2
  MaxCrashes = 2
INVARIANTS TypeOK ServedIsMigrated TokenShared
PROPERTIES MigrationKeepsSaves StartsInTheEnd
CHECK_DEADLOCK FALSE
