SPECIFICATION PhonePartsSpec
CONSTANTS
  Clients = {c1, c2}
  PerClient = 2
  ShopWide = 3
  Window = 2
  LockTime = 2
  SessionTime = 1
  Requests = {r1, r2}
  NoClient = NoClient
  QrKeys = {k1}
  Images = {i1, i2}
  NoImage = NoImage
  NoPut = NoPut
  MaxChanges = 3
  MaxQrFaults = 1
  Kept = {"/pos"}
  Openings = {o1, o2}
  Backoff = 1
  MaxRelease = 2
  QrSales = {s1, s2}
  NoQrSale = NoQrSale
  Polls = {p1}
  MaxDialogFaults = 1
  Hold = 2
  Asks = {q1}
  NoSale = NoSale
  PageSize = 2
  MaxLog = 3
  MaxSyncs = 2
  Phones = {p1, p2}
  NoPhone = NoPhone
  MaxDeviceCalls = 2
  QrSlots = {k1, k2}
  Pictures = {g1}
  NoPicture = NoPicture
  NoSlot = NoSlot
  MaxQrCalls = 2
  MostSlides = 4
  NoSlide = NoSlide
  Compared = {"last7", "tree", "random_forest", "later"}
  Errors = {1, 2}
  Horizons = {1, 2, 3}
  DayCount = 3
  NoNumber = NoNumber
INVARIANTS
  PhonePartsTypeOK GuessesAreCapped PosOpens PaidShownIsPaid OneSalePerGesture ListsAtRest
PROPERTIES HashIsTheImages CopiesCatchUp BackIsNoticed CopyCatchesUp PaidIsNoticed
CHECK_DEADLOCK FALSE
