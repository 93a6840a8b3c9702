\* Handlers interleave inside the lock-free windows.
SPECIFICATION Spec
CONSTANTS
  n1 = n1
  n2 = n2
  n3 = n3
  Noop = Noop
  None = None
  Server = {n1, n2, n3}
  Bootstrap = {n1, n2, n3}
  Value = {}
  Changes = {}
  SnapshotThreshold = 0
  MaxBatch = 8
  Overlap = TRUE
  MaxElections = 2
  MaxRounds = 3
  MaxBusy = 1
  MaxRestarts = 0
  MaxFailures = 2
  MaxVoteFailures = 2
  MaxStale = 1
SYMMETRY Symmetry
INVARIANTS
  StateMachineSafety
CHECK_DEADLOCK FALSE
