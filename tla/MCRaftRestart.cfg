\* One restart.
SPECIFICATION Spec
CONSTANTS
  n1 = n1
  n2 = n2
  n3 = n3
  Noop = Noop
  None = None
  Server = {n1, n2, n3}
  Bootstrap = {n1, n2, n3}
  Value = {v1}
  Changes = {}
  SnapshotThreshold = 0
  MaxBatch = 8
  Overlap = FALSE
  MaxElections = 2
  MaxRounds = 3
  MaxBusy = 2
  MaxRestarts = 1
  MaxFailures = 0
  MaxVoteFailures = 0
  MaxStale = 0
SYMMETRY Symmetry
INVARIANTS
  AckedSurvives
CHECK_DEADLOCK FALSE
