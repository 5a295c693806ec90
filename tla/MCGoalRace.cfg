CONSTANTS
  g1 = g1
  g2 = g2
  s1 = s1
  s2 = s2
  Goals = {g1, g2}
  Servers = {s1}
  Nobody = Nobody
  StartLb <- MCStartLb
  StartUb <- MCStartUb
  MinDuration <- MCMinDuration
  LookAhead <- MCLookAhead
  ExecLatency <- MCExecLatency
  OtherThread = TRUE
  MaxTick = 4
SPECIFICATION Spec
INVARIANT LastWordHolds
CHECK_DEADLOCK FALSE
