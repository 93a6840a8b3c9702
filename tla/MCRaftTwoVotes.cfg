\* A snapshot installed in a term makes a voter forget the vote it gave in it.
SPECIFICATION Spec
CONSTANTS
  n1 = n1
  n2 = n2
  n3 = n3
  Noop = Noop
  None = None
  Server = {n1, n2, n3}
  Bootstrap = {n1, n2, n3}
  Value = {}
  Changes = {}
  SnapshotThreshold = 1
  MaxBatch = 8
  Overlap = FALSE
  MaxElections = 3
  MaxRounds = 4
  MaxBusy = 2
  MaxRestarts = 0
  MaxFailures = 2
  MaxVoteFailures = 0
  MaxStale = 0
SYMMETRY Symmetry
CONSTRAINT LateTrouble
INVARIANT ElectionSafety
CHECK_DEADLOCK FALSE
