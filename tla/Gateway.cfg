SPECIFICATION Spec
CONSTANTS
  x1 = x1
  i1 = i1
  i2 = i2
  s1 = s1
  s2 = s2
  None = None
  Sales = {x1}
  Intents = {i1, i2}
  Slots = {s1, s2}
  MaxFaults = 2
INVARIANTS OneChargeShown StatusAgrees PaidMeansTaken
PROPERTY PaidIsFinal
SYMMETRY Alike
CHECK_DEADLOCK FALSE
