SPECIFICATION Spec
CONSTANTS
  None = None
  Ids = {1, 2}
  Texts = {"x", "y"}
  Bundles <- Pairs
  PageSize = 1
  MaxClock = 2
  MaxEdits = 1
  MaxImports = 2
INVARIANTS RestoreConverges UntouchedInBackup
PROPERTIES NewerKept
CHECK_DEADLOCK FALSE
