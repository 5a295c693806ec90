CONSTANTS
  r1 = r1
  r2 = r2
  Reactors = {r1, r2}
  Latency <- MCLatency
  FinalTick = 3
  MaxClock = 4
  MaxSteps = 2
SPECIFICATION FairSpec
INVARIANTS TypeOK EachReactorOnce RatiosAreCurrent LateMeansBusy CloserDeadlineFirst
PROPERTIES NoWorkForgotten MissionEnds
CHECK_DEADLOCK FALSE
