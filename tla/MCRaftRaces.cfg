\* Static membership; two nodes tick at the same time and handlers interleave
\* inside the lock-free windows.
SPECIFICATION Spec
CONSTANTS
  n1 = n1
  n2 = n2
  n3 = n3
  Noop = Noop
  None = None
  Server = {n1, n2, n3}
  Bootstrap = {n1, n2, n3}
  Value = {}
  Changes = {}
  SnapshotThreshold = 0
  MaxBatch = 8
  Overlap = TRUE
  MaxElections = 3
  MaxRounds = 2
  MaxBusy = 2
  MaxRestarts = 0
  MaxFailures = 0
  MaxVoteFailures = 0
  MaxStale = 0
SYMMETRY Symmetry
INVARIANTS
  ElectionSafety
CHECK_DEADLOCK FALSE
