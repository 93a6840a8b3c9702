\* A request carries one entry, so a follower that is behind is caught up in
\* several requests.
SPECIFICATION Spec
CONSTANTS
  n1 = n1
  n2 = n2
  n3 = n3
  Noop = Noop
  None = None
  Server = {n1, n2, n3}
  Bootstrap = {n1, n2, n3}
  Value = {v1}
  Changes = {}
  SnapshotThreshold = 0
  MaxBatch = 1
  Overlap = FALSE
  MaxElections = 2
  MaxRounds = 4
  MaxBusy = 1
  MaxRestarts = 0
  MaxFailures = 3
  MaxVoteFailures = 0
  MaxStale = 0
SYMMETRY Symmetry
INVARIANTS
  StateMachineSafety
CHECK_DEADLOCK FALSE
