\* A write is lost to the redo of an older transaction.
CONSTANTS
  c1 = c1
  c2 = c2
  None = None
  Client <- MCClient
  Key <- MCKey
  HardLimit = 2
  QueueDepth = 2
  Budgets <- Redone

SPECIFICATION Spec

INVARIANT Recovered


\* Clients may have nothing left to do.
CHECK_DEADLOCK FALSE
