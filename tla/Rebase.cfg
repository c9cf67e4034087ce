SPECIFICATION Spec
CONSTANTS
  d1 = d1
  d2 = d2
  d3 = d3
  None = None
  Devices = {d1, d2, d3}
  OptionsOf <- TwoPlain
  Ids = {"a"}
  MaxStamp = 2
  Contents = {1, 2}
  CommitIds = {1, 2}
  MaxEdits = 3
  MaxMerges = 1
  MaxFaults = 1
  MaxClock = 3
SYMMETRY Alike
INVARIANTS NothingMissed SettledAgree
PROPERTIES EditsKept
CHECK_DEADLOCK FALSE
