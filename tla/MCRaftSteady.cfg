\* Static membership, no compaction, no restarts, handlers one at a time; RPCs
\* fail and are delayed.
SPECIFICATION Spec
CONSTANTS
  n1 = n1
  n2 = n2
  n3 = n3
  Noop = Noop
  None = None
  Server = {n1, n2, n3}
  Bootstrap = {n1, n2, n3}
  Value = {v1}
  Changes = {}
  SnapshotThreshold = 0
  MaxBatch = 8
  Overlap = FALSE
  MaxElections = 3
  MaxRounds = 4
  MaxBusy = 1
  MaxRestarts = 0
  MaxFailures = 2
  MaxVoteFailures = 0
  MaxStale = 1
SYMMETRY Symmetry
INVARIANTS
  TypeOK
  StateMachineSafety
  LogMatching
  AckedSurvives
CHECK_DEADLOCK FALSE
