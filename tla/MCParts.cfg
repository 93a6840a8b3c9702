SPECIFICATION Spec
INVARIANTS
  FramesAccounted
  NoWriteLost
  AckedOnce
  NoLostUpdate
  LocksAsGranted
  LocalConfigEnds
  NextvalUnique
  
  OwnedExist
  RowsAsWritten
  IndexMatchesRows
  OperatorExact
  WindowExact
  GatherExact
  KnnSound
  AggregateExact
  PlanExact
CHECK_DEADLOCK FALSE
