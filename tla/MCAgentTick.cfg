CONSTANTS
  Reactors = {r1, r2, r3}
  Timelines = {t1, t2}
  Values = {v}
  Failed = Failed
  NoObs = NoObs
  NoReactor = NoReactor
  OwnerFlags <- MCFlags
  ClientFlags <- MCFlags
  MaxTick = 2
SPECIFICATION TickSpec
INVARIANTS TickTypeOK ServersFirst EveryoneScheduled AbortMeansCycle NothingUnseen
PROPERTY OneObservationPerTick
SYMMETRY Symmetry
CHECK_DEADLOCK FALSE
