\* The passing run: every budget of Mixed.
CONSTANTS
  c1 = c1
  c2 = c2
  None = None
  Client <- MCClient
  Key <- MCKey
  HardLimit = 2
  QueueDepth = 2
  Budgets <- Mixed

SPECIFICATION Spec

INVARIANTS
  CalmSnapshotReads
  FirstCommitterWins
  Recovered
  AllOrNothing
  LevelsDisjoint
  InputsStay

PROPERTY
  CallsReturn

\* Clients may have nothing left to do.
CHECK_DEADLOCK FALSE
