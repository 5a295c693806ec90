CONSTANTS
  g1 = g1
  g2 = g2
  c1 = c1
  c2 = c2
  Fact = Fact
  Goals = {g1, g2}
  Commands = {c1, c2}
  Master <- MCMaster
  MaxTick = 1
  MaxOut = 2
  MaxId = 2
SPECIFICATION Spec
PROPERTIES PastKept
CHECK_DEADLOCK FALSE
