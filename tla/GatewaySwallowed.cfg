SPECIFICATION Spec
CONSTANTS
  x1 = x1
  i1 = i1
  i2 = i2
  s1 = s1
  s2 = s2
  None = None
  Sales = {x1}
  Intents = {i1}
  Slots = {s1, s2}
  MaxFaults = 0
INVARIANT PaidEventIsApplied
CHECK_DEADLOCK FALSE
