SPECIFICATION Spec
CONSTANTS
  None = None
  Keep = Keep
  Clean = Clean
  a = a
  b = b
  Ids = {a, b}
  Namespaces = {ns1}
  Vectors = {x}
  Transactions = {t1, t2}
  Batches <- EitherOrder
  MaxCount = 4
INVARIANTS PgInv
PROPERTIES AppliesAtOnce StoreContract TransactionsEnd
CHECK_DEADLOCK FALSE
