SPECIFICATION Spec
CONSTANTS
  c1 = c1
  c2 = c2
  a = a
  b = b
  k = k
  None = None
  Recoverer = Recoverer
  Client = {c1, c2}
  Shard = {a, b, "gone"}
  Registered = {a, b}
  Key = {k}
  OrderlyReopen = TRUE
  MaxTxns = 2
  Budgets <- Mixed
INVARIANTS Agreement SameTimestamp OutcomeIsTrue LocksTraceable
PROPERTIES Implements CallsReturn
CHECK_DEADLOCK FALSE
