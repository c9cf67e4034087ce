SPECIFICATION ArchivalSpec
CONSTANTS
  NoConcept = NoConcept
  Concepts = {a}
  Calls = {k1, k2, k3}
  MaxChanges = 3
  MaxToolCalls = 1
  MaxFailures = 1
INVARIANTS OneUploadPerVersion RememberedIsConfirmed
PROPERTIES LastVersionArchived
CHECK_DEADLOCK FALSE
