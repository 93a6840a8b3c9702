\* A node joins and a node leaves, the log is compacted, nodes restart.
SPECIFICATION Spec
CONSTANTS
  n1 = n1
  n2 = n2
  n3 = n3
  Noop = Noop
  None = None
  Server = {n1, n2, n3}
  Bootstrap = {n1, n2}
  Value = {}
  Changes <- JoinAndLeave
  SnapshotThreshold = 2
  MaxBatch = 8
  Overlap = FALSE
  MaxElections = 2
  MaxRounds = 4
  MaxBusy = 1
  MaxRestarts = 1
  MaxFailures = 1
  MaxVoteFailures = 1
  MaxStale = 0
CONSTRAINT OneTrouble
INVARIANTS
  AppliedWithinCommit
  SnapshotWithinApplied
  RemovedIsPassive
PROPERTIES
  CommitMonotonic
CHECK_DEADLOCK FALSE
