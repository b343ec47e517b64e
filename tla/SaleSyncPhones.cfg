SPECIFICATION Spec
CONSTANTS
  p1 = p1
  p2 = p2
  t1 = t1
  t2 = t2
  b1 = b1
  b2 = b2
  a1 = a1
  a2 = a2
  x1 = x1
  x2 = x2
  x3 = x3
  s1 = s1
  s2 = s2
  s3 = s3
  None = None
  Phones = {p1, p2}
  Tabs = {t1, t2}
  PosTabs = {t1, t2}
  PhoneOf <- TwoPhones
  Barbers = {b1}
  Assignments = {a1, a2}
  Sales = {x1}
  Slots = {s1, s2}
  Approved = {p1, p2}
  MaxSecret = 1
  MaxFaults = 0
  Legacy <- NoLegacy
  ChunkSize = 1
  Leavers = {}
  QrphSales = {}
  BadSales = {}
INVARIANTS OneActiveBinding
PROPERTIES OnlyBindBinds RevokedIsFinal
SYMMETRY PhonesToo
CHECK_DEADLOCK FALSE
