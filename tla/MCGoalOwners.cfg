CONSTANTS
  g1 = g1
  g2 = g2
  s1 = s1
  s2 = s2
  Goals = {g1, g2}
  Servers = {s1, s2}
  Nobody = Nobody
  StartLb <- MCTiedLb
  StartUb <- MCTiedUb
  MinDuration <- MCMinDuration
  LookAhead <- MCLookAhead
  ExecLatency <- MCExecLatency
  OtherThread = FALSE
  MaxTick = 3
SPECIFICATION Spec
INVARIANTS PendingSorted OnePlace LastWordHolds
CHECK_DEADLOCK FALSE
