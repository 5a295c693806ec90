CONSTANTS
  Reactors = {r1, r2}
  Timelines = {t1, t2}
  Values = {v}
  Failed = Failed
  NoObs = NoObs
  NoReactor = NoReactor
  OwnerFlags <- MCOwnerFlags
  ClientFlags <- MCClientFlags
  MaxTick = 1
SPECIFICATION Spec
INVARIANTS TypeOK RelationsMirrored PlanListenersExact OwnerIsNotClient NoDanglingReference OrphanIsFailed PostedIsScheduled
PROPERTIES ChangesAreDated ImplementsBoard
