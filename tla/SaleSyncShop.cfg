SPECIFICATION Spec
CONSTANTS
  p1 = p1
  p2 = p2
  t1 = t1
  t2 = t2
  b1 = b1
  b2 = b2
  a1 = a1
  a2 = a2
  x1 = x1
  x2 = x2
  x3 = x3
  s1 = s1
  s2 = s2
  s3 = s3
  None = None
  Phones = {p1}
  Tabs = {t1}
  PosTabs = {t1}
  PhoneOf <- OneTab
  Barbers = {b1}
  Assignments = {a1}
  Sales = {x1, x2, x3}
  Slots = {s1, s2}
  Approved = {p1}
  MaxSecret = 1
  MaxFaults = 1
  Legacy <- OldSale
  ChunkSize = 2
  Leavers = {}
  QrphSales = {x1}
  BadSales = {x3}
INVARIANTS RefusedNotBooked
SYMMETRY AlikeButSales
CHECK_DEADLOCK FALSE
