SPECIFICATION Spec
CONSTANTS
  a = a
  b = b
  x = x
  y = y
  ns1 = ns1
  ns2 = ns2
  t1 = t1
  m1 = m1
  m2 = m2
  c1 = c1
  c2 = c2
  None = None
  DefaultNs = ns1
  Namespaces = {ns1, ns2}
  Tags = {t1}
  Texts = {x, y}
  Models = {m1, m2}
  Clients = {c1, c2}
  Render <- SameText
  Ids = {a, b}
  MaxTags = 1
  ModelOf <- OneModel
  Batches <- WriteBatches
  Restores <- WriteRestores
  Conversions <- NoConversions
  MaxAttempts = 2
  MaxOps = 5
  MaxClock = 1
SYMMETRY Symmetric
INVARIANTS ConceptInv VersionNamesRow
PROPERTIES SaveActsAtOnce RestoreIsNewer CallerGuardsHold StoreContract
CHECK_DEADLOCK FALSE
