\* A follower whose log conflicts rejects the new leader.
SPECIFICATION Spec
CONSTANTS
  n1 = n1
  n2 = n2
  n3 = n3
  Noop = Noop
  None = None
  Server = {n1, n2, n3}
  Bootstrap = {n1, n2, n3}
  Value = {}
  Changes = {}
  SnapshotThreshold = 0
  MaxBatch = 8
  Overlap = FALSE
  MaxElections = 3
  MaxRounds = 3
  MaxBusy = 1
  MaxRestarts = 0
  MaxFailures = 3
  MaxVoteFailures = 3
  MaxStale = 0
SYMMETRY Symmetry
PROPERTIES
  RejectionBacksOff
CHECK_DEADLOCK FALSE
