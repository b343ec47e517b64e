----------------------------- MODULE ShopParts -----------------------------
(***************************************************************************)
(* The owner's books and figures, the pages over them, the forecast, and   *)
(* the PC's start-up and local network.  They meet only through the rows   *)
(* of the database, which Books keeps: one of them runs, the others stand  *)
(* still, so that a run explores the sum of their states and not the       *)
(* product.                                                                *)
(***************************************************************************)
EXTENDS Books, Story, Insights, DrawerPage, LedgerPage, Forecast, Training, Startup, LocalNet

CONSTANTS
  ShownSales,     \* bound: sales that may be stored while the insights page is made
  MaxShown,       \* bound: sales stored then
  ShownPayouts,   \* bound: payout rows that may be stored then, one at a time
  ShownCounts     \* bound: counts that may be saved then, one at a time

VARIABLES
  part,
  stored,         \* the insights page's transactions
  handedOut,      \* its daily_payout_ledgers
  saves           \* its shift_reconciliations

(* The insights page over tables of its own: the other figures are summed over all of them
   at once. *)
Page == INSTANCE Insights WITH
  sold <- stored, paidOut <- handedOut, counts <- saves, NewSales <- ShownSales, MaxSold <- MaxShown,
  NewPayouts <- ShownPayouts, MaxPayouts <- 1, NewCounts <- ShownCounts, MaxCounts <- 1

ownPageVars == <<stored, handedOut, saves, pageVars>>

vars == <<part, booksVars, figureVars, ownPageVars, drawerVars, ledgerVars, forecastVars,
          trainingVars, startupVars, netVars>>

ASSUME ShownAssumption == Page!FiguresAssumption /\ Page!InsightsAssumption

ShopPartNames ==
  {"books", "figures", "insights", "drawer page", "ledger page", "forecast", "training", "start", "net"}

(* A part that stands still keeps the values it started with. *)
ShopPartsTypeOK ==
  /\ part \in ShopPartNames
  /\ part = "books" => BooksTypeOK
  /\ part = "figures" => FiguresTypeOK
  /\ part = "insights" => Page!InsightsTypeOK
  /\ part = "drawer page" => DrawerTypeOK
  /\ part = "ledger page" => LedgerTypeOK
  /\ part = "forecast" => ForecastTypeOK
  /\ part = "training" => TrainingTypeOK
  /\ part = "start" => StartupTypeOK
  /\ part = "net" => NetTypeOK

(* A part that stands still has one initial state. *)
OneStart ==
  /\ part # "books" => left = (CHOOSE mix \in Mixes : TRUE)
  /\ part # "drawer page" =>
       /\ recorded = {} /\ day = (CHOOSE d \in DrawerDays : TRUE)
  /\ part # "ledger page" => payDay = (CHOOSE d \in LedgerDays : TRUE)
  /\ part # "net" => \A l \in Links : address[l] = NoAddress

ShopPartsInit ==
  /\ part \in ShopPartNames
  /\ BooksInit /\ FiguresInit /\ Page!InsightsInit /\ DrawerInit /\ LedgerInit
  /\ ForecastInit /\ TrainingInit /\ StartupInit /\ NetInit
  /\ OneStart

StandsStill(p, v) == IF part = p THEN TRUE ELSE UNCHANGED v

Step(p, A) ==
  /\ part = p
  /\ A
  /\ UNCHANGED part
  /\ StandsStill("books", booksVars) /\ StandsStill("figures", figureVars)
  /\ StandsStill("insights", ownPageVars)
  /\ StandsStill("drawer page", drawerVars) /\ StandsStill("ledger page", ledgerVars)
  /\ StandsStill("forecast", forecastVars) /\ StandsStill("training", trainingVars)
  /\ StandsStill("start", startupVars) /\ StandsStill("net", netVars)

ShopPartsNext ==
  \/ Step("books", BooksNext)
  \/ Step("figures", FiguresNext)
  \/ Step("insights", Page!InsightsNext)
  \/ Step("drawer page", DrawerNext)
  \/ Step("ledger page", LedgerNext)
  \/ Step("forecast", ForecastNext)
  \/ Step("training", TrainingNext)
  \/ Step("start", StartupNext)
  \/ Step("net", NetNext)

ShopPartsSpec == ShopPartsInit /\ [][ShopPartsNext]_vars

(* The owner's figures: all pages show sums of the same rows (lib/trends.ts:3), and so does
   the insights page though its rows were read one query after the other
   (app/insights/page.tsx). *)
FiguresAreTrue == FiguresAgree /\ Page!PageIsTrue
=============================================================================
