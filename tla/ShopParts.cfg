SPECIFICATION ShopPartsSpec
CONSTANTS
  x1 = x1
  b1 = b1
  s1 = s1
  s2 = s2
  None = None
  Sales = {x1}
  Bill <- MCBill
  Methods = {"CASH", "QRPH"}
  Barbers = {b1}
  MaxTime = 1
  TicksPerDay = 1
  StatedTimes = {0, 1}
  Tolerance = 0
  OwnerDays = {0}
  PettyCash = {1}
  Amounts = {2}
  MaxAttempts = 2
  MaxRevisions = 3
  Slots = {s1, s2}
  Mixes <- MCMixes
  StandardPrice <- MCPrice
  Rate = 50
  Staff = {"b1", "b2", "b3"}
  Active = {"b1", "b2"}
  Today = 3
  RangeDays = 3
  PageDates = {2, 3}
  NewSales <- MCSales
  MaxSold = 3
  NewPayouts <- MCPayouts
  MaxPayouts = 1
  NewCounts <- MCCounts
  MaxCounts = 1
  ShownDays = {3}
  ShownSales <- MCShownSales
  MaxShown = 1
  ShownPayouts <- MCShownPayouts
  ShownCounts <- MCShownCounts
  MaxMeanwhile = 1
  Forecasts <- MCForecasts
  Unreachable = Unreachable
  NoFigure = NoFigure
  Rules <- MCRules
  Visits <- MCVisits
  NotLoaded = NotLoaded
  DrawerDays = {"d1", "d2"}
  NoDay = NoDay
  NoSave = NoSave
  MaxLoads = 2
  LedgerDays = {"d1", "d2"}
  LedgerBarbers = {"b1", "b2"}
  NoPayDay = NoPayDay
  LedgerLoads = {l1, l2}
  Owners = {o1, o2}
  LastDay = 1
  RunDays = 2
  MaxRuns = 2
  MaxUpdates = 1
  MaxStarts = 2
  LogDates = {0, 1, 2, 3, 4, 5, 6, 7, 8, 9}
  PostGap = 1
  TestFrom = 8
  BlockDays = 2
  TestWeeks = 2
  LastOpen = 2
  WeekLength = 3
  Edited = {3, 9}
  MaxEdits = 2
  MaxTrainings = 2
  NoFile = NoFile
  Years = {2023, 2024, 2025}
  Links = {n1, n2}
  Addresses = {a1, a2}
  NoAddress = NoAddress
  Gap = 1
  MaxMoves = 1
  MaxQueue = 2
INVARIANTS
  ShopPartsTypeOK EveryChangeIsNoticed PaidAsPosted OwedIsEarned FiguresAreTrue StoryIsTrue NothingAhead
  CountOnItsDay DaysOfTheirRun RunningIsWhole QuestionsAreAnswered
PROPERTIES RevisionsAreALog MoneyStaysOnItsDay TypedAmountsKept
CHECK_DEADLOCK FALSE
