CONSTANTS
  p1 = p1
  p2 = p2
  NoPred = NoPred
  LastTimeline = 3
  Internals = {1, 3}
  Preds = {p1, p2}
  Default = p1
  Others <- MCOthers
  MaxTick = 2
SPECIFICATION FairSpec
INVARIANTS TypeOK CommitNeverFails ObservationsTile ExhaustedSearchRestores
PROPERTIES ImplementsHistory SynchronizationEnds
CHECK_DEADLOCK FALSE
