------------------------------ MODULE Insights ------------------------------
(***************************************************************************)
(* The owner's insights page (app/insights/page.tsx).  loadDay and         *)
(* loadTrends ask the database one query after the other, or several at    *)
(* once, while the phones sync, customers pay and the owner reviews; the   *)
(* cards are then worked out from rows that were not read together.        *)
(***************************************************************************)
EXTENDS Figures

CONSTANTS
  ShownDays,      \* bound: dates the page is asked for
  MaxMeanwhile,   \* bound: writes while a page is made or shown
  Forecasts,      \* what latestForecast may find
  Unreachable,    \* the forecast can't be loaded
  NoFigure        \* the dash shown for a figure that is not defined

VARIABLES
  page,           \* the page: who and what it was asked for, and the queries' rows
  touched,        \* history: sales written since the page was asked for
  meanwhile       \* history: writes since then

pageVars == <<page, touched, meanwhile>>
insightsVars == <<figureVars, pageVars>>

(* "Non-gateway sales are always PAID" (reconciliation.ts). *)
ASSUME InsightsAssumption ==
  /\ ShownDays \subseteq Nat /\ MaxMeanwhile \in Nat /\ NoFigure \notin Int
  /\ \A r \in NewSales : r.status = "PAID" \/ r.method = "QRPH"
  /\ Unreachable \notin Forecasts
  /\ \A f \in Forecasts : f.saved \in BOOLEAN /\ DOMAIN f.days \subseteq Int /\ IsFiniteSet(DOMAIN f.days)

DayReads == {"saved", "sales", "marked", "late", "owed", "rung", "ledger", "held"}
TrendReads == {"period", "before", "waiting"}
Reads == DayReads \cup TrendReads
Loads == {"day", "trends"}
ReadsOf(load) == IF load = "day" THEN DayReads ELSE TrendReads

NoRows == [q \in Reads |-> {}]
NoPage == [open |-> FALSE, day |-> Today, answered |-> {}, failed |-> {}, rows |-> NoRows]

AnyRow == (StoredSale \cup StoredPayout) \cup StoredCount

InsightsTypeOK ==
  /\ FiguresTypeOK
  /\ page \in [open : BOOLEAN, day : ShownDays \cup {Today}, answered : SUBSET Reads,
               failed : SUBSET Loads, rows : [Reads -> SUBSET AnyRow]]
  /\ touched \subseteq Nat /\ meanwhile \in 0 .. MaxMeanwhile

InsightsInit == FiguresInit /\ page = NoPage /\ touched = {} /\ meanwhile = 0

-----------------------------------------------------------------------------
(* The page is asked for. *)

(* The date field and the arrows go no further than today. *)
Offered == {d \in ShownDays : d <= Today}

(* Without the owner's cookie nothing is read. *)
Ask(d, isOwner) ==
  /\ page' = [NoPage EXCEPT !.open = isOwner, !.day = d]
  /\ touched' = {} /\ meanwhile' = 0
  /\ UNCHANGED figureVars

(* What each query finds.  The three counts of computeStaleness are one: the sales of the
   day that a saved count did not see as they are now. *)
Finds ==
  LET d == page.day IN
  [saved |-> IF CountsOf(d) = {} THEN {} ELSE {LatestCount(d)},
   sales |-> OnDay(d), marked |-> {p \in PayoutsOn(d) : p.marked},
   late |-> UNION {OnDay(d) \ c.saw : c \in page.rows.saved},
   owed |-> PaidSales(d), rung |-> PaidSales(d),
   ledger |-> PayoutsOn(d), held |-> Held(d, d),
   period |-> PaidIn(First(d), d), before |-> SalesBefore(d), waiting |-> Held(First(d), d)]

(* latestRevision, computeExpected with its two, then the rest at once. *)
After(q) ==
  IF q \in {"late", "owed", "rung", "ledger", "held"} THEN {"sales", "marked"}
  ELSE IF q \in {"sales", "marked"} THEN {"saved"}
  ELSE {}

Answer(load, q) ==
  /\ page.open /\ load \notin page.failed
  /\ q \in ReadsOf(load) \ page.answered /\ After(q) \subseteq page.answered
  /\ page' = [page EXCEPT !.answered = page.answered \cup {q}, !.rows[q] = Finds[q]]
  /\ UNCHANGED <<figureVars, touched, meanwhile>>

(* loadDaySafely, loadTrendsSafely: one query fails, and that load has nothing to show. *)
Fail(load) ==
  /\ page.open /\ load \notin page.failed
  /\ ~ ReadsOf(load) \subseteq page.answered
  /\ page' = [page EXCEPT !.answered = page.answered \ ReadsOf(load), !.failed = page.failed \cup {load},
                          !.rows = [q \in Reads |-> IF q \in ReadsOf(load) THEN {} ELSE page.rows[q]]]
  /\ UNCHANGED <<figureVars, touched, meanwhile>>

(* The shop goes on. *)
Write ==
  /\ page.open => meanwhile < MaxMeanwhile
  /\ FiguresNext
  /\ IF page.open THEN touched' = touched \cup {r.id : r \in sold' \ sold} /\ meanwhile' = meanwhile + 1
     ELSE UNCHANGED <<touched, meanwhile>>
  /\ UNCHANGED page

InsightsNext ==
  \/ \E d \in Offered, isOwner \in BOOLEAN : Ask(d, isOwner)
  \/ \E load \in Loads : Fail(load) \/ \E q \in Reads : Answer(load, q)
  \/ Write

InsightsSpec == InsightsInit /\ [][InsightsNext]_insightsVars

-----------------------------------------------------------------------------
(* The day's cards, from the rows x. *)

Loaded(load) == page.open /\ ReadsOf(load) \subseteq page.answered

PaidRows(x) == {r \in x.sales : r.status = "PAID"}
PendingRows(x) == {r \in x.sales : r.method = "QRPH" /\ r.status # "PAID"}
PettyOf(x) == IF x.saved = {} THEN 0 ELSE (CHOOSE c \in x.saved : TRUE).petty
ExpectedOf(x) == FiguresOf(PaidRows(x), Handed(x.marked), PettyOf(x))
CardsOf(x) == RowsOf(EarningsOf(x.owed, "LIST_PRICE"), x.rung, x.ledger)
TipsOf(x) == LET totals == EarningsOf(x.owed, "LIST_PRICE") IN Total(DOMAIN totals, LAMBDA b : totals[b].tips)

(* The sales a warning says are not in these figures. *)
LeftOut(x) == x.held \cup PendingRows(x)

(* QR Ph has a line while the gateway is on, or when the day has QR Ph sales. *)
QrphLine(x, gateway) == gateway \/ \E r \in x.sales : r.method = "QRPH"
MixOf(x, gateway) ==
  [m \in {"CASH", "GCASH", "MAYA"} \cup (IF QrphLine(x, gateway) THEN {"QRPH"} ELSE {}) |->
     Total({r \in PaidRows(x) : r.method = m}, AmountOf)]

Average(revenue, n) == IF n > 0 THEN HalfUp(revenue, n) ELSE NoFigure
Share(part, whole) == IF whole > 0 THEN HalfUp(part * 1000, whole) ELSE NoFigure

(* The strip, the bars and the last line of the table. *)
Dashboards(x, gateway) ==
  LET strip == ExpectedOf(x)
      cards == CardsOf(x)
      mix == MixOf(x, gateway)
      Sum(f(_)) == Total(DOMAIN cards, LAMBDA b : f(cards[b])) IN
  [revenue |-> strip.revenue, sales |-> strip.count, average |-> Average(strip.revenue, strip.count),
   tips |-> TipsOf(x), bars |-> [m \in DOMAIN mix |-> Share(mix[m], strip.revenue)],
   table |-> [sales |-> Sum(LAMBDA c : c.sales), revenue |-> Sum(LAMBDA c : c.revenue),
              earned |-> Sum(LAMBDA c : c.earned), paidOut |-> Sum(LAMBDA c : c.paidOut),
              remaining |-> Sum(LAMBDA c : c.remaining)]]

(* A tape: lines added and taken off, and the result under them. *)
Tape(plus, minus, result) == [plus |-> plus, minus |-> minus, result |-> result]
AddsUp(tape) == SumOf(tape.plus) - SumOf(tape.minus) = tape.result

RevenueTape(x, gateway) == Tape(MixOf(x, gateway), <<>>, ExpectedOf(x).revenue)

DrawerTape(x) ==
  LET e == ExpectedOf(x) IN
  Tape([sales |-> e.cash, tips |-> e.cashTips], [payouts |-> Handed(x.marked), petty |-> PettyOf(x)], e.drawer)

(* Two results: what was earned, and what is left of it, with a note if more was paid. *)
EarnedTape(card) == Tape([commission |-> card.commission, tips |-> card.tips], <<>>, card.earned)
RemainingTape(card) == Tape([earned |-> card.earned], [paid |-> card.paidOut], card.remaining)
PaidTooMuch(card) == card.paidOut > card.earned

(* Why a saved count is out of date. *)
StaleReasons(x, c) ==
  {why \in {"drawer", "synced", "confirmed", "reviewed"} :
     CASE why = "drawer" -> ExpectedOf(x).drawer # c.expected
       [] why = "synced" -> \E r \in x.late : ~r.flagged /\ \A s \in c.saw : s.id # r.id
       [] why = "confirmed" -> \E r \in x.late : r.method = "QRPH" /\ r.status = "PAID"
       [] why = "reviewed" -> \E r \in x.late : r.flagged}

SavedCard(x, c) ==
  [status |-> IF c.variance = 0 THEN "balanced" ELSE IF c.variance < 0 THEN "short" ELSE "over",
   reasons |-> StaleReasons(x, c)]

-----------------------------------------------------------------------------
(* The trends. *)

PeriodOf(x) == TrendsOf(x.period, x.before, x.waiting, page.day)

Change(now, before) ==
  LET percent == HalfUp((now - before) * 100, before) IN
  IF before = 0 THEN IF now = 0 THEN "flat" ELSE "up"
  ELSE IF percent = 0 THEN "flat" ELSE IF percent > 0 THEN "up" ELSE "down"

(* Ties: the most recent day, the earliest hour.  QR Ph is shown when its line is, or when
   it took money. *)
TrendStats(t, shown) ==
  LET open == {d \in DOMAIN t.daily : t.daily[d].sales > 0}
      busy == {h \in DOMAIN t.hours : t.hours[h] > 0}
      digital == Total({"GCASH", "MAYA", "QRPH"}, LAMBDA m : t.byMethod[m]) IN
  [revenue |-> Change(t.revenue, t.previous.revenue), sales |-> Change(t.sales, t.previous.sales),
   average |-> Average(t.revenue, t.sales), perOpenDay |-> Average(t.revenue, Cardinality(open)),
   best |-> IF open = {} THEN NoFigure
            ELSE CHOOSE d \in open : \A e \in open :
                   t.daily[e].revenue < t.daily[d].revenue \/ (t.daily[e].revenue = t.daily[d].revenue /\ e <= d),
   peak |-> IF busy = {} THEN NoFigure
            ELSE CHOOSE h \in busy : \A g \in busy : t.hours[g] < t.hours[h] \/ (t.hours[g] = t.hours[h] /\ h <= g),
   digital |-> Share(digital, t.revenue),
   methods |-> {m \in DOMAIN t.byMethod : m # "QRPH" \/ shown \/ t.byMethod[m] > 0}]

-----------------------------------------------------------------------------
(* The forecast's cards, from a forecast f: a run with its days, or none, or Unreachable. *)

Ahead(f, d) == d >= Today /\ f.days[d] # NoFigure

(* The chart: every saved day from today on that has a number. *)
ChartDays(f) == IF f = Unreachable THEN {} ELSE IF ~f.saved THEN {} ELSE {d \in DOMAIN f.days : Ahead(f, d)}

(* The calculation: the first such day of the list, oldest first. *)
WorkedOut(f) ==
  IF f = Unreachable THEN "can't be loaded"
  ELSE IF ~f.saved \/ \A d \in DOMAIN f.days : ~Ahead(f, d) THEN "none covers today"
  ELSE CHOOSE d \in DOMAIN f.days : Ahead(f, d) /\ \A e \in DOMAIN f.days : e < d => ~Ahead(f, e)

(* What each section of a page shows once every load has ended. *)
Sections(f) ==
  [dashboards |-> IF Loaded("day") THEN "figures" ELSE "can't be shown",
   trends |-> IF Loaded("trends") THEN "figures" ELSE "can't be shown",
   calculations |-> IF Loaded("day") THEN {"revenue", "average", "drawer", "earnings", "forecast"} ELSE {"forecast"},
   evaluation |-> IF f = Unreachable THEN "can't be loaded" ELSE IF f.saved THEN "run" ELSE "none saved"]

-----------------------------------------------------------------------------
Ids(rows) == {r.id : r \in rows}

(* A sale nobody wrote since the page was asked for is in the figures of its day and
   period or in a warning beside them, and no sale is in both. *)
NothingIsMissing(x) ==
  \A r \in sold : r.id \notin touched =>
    /\ Loaded("day") =>
         /\ CountedOn(r, page.day) => (r \in PaidRows(x)) # (r \in LeftOut(x))
         /\ r \in Held(page.day, page.day) => r \in LeftOut(x)
    /\ Loaded("trends") /\ CountedIn(r, First(page.day), page.day) /\ r.status = "PAID" => r \in x.period
    /\ Loaded("trends") /\ r \in Held(First(page.day), page.day) => r \in x.waiting

(* The table is read after the strip: it has each of its sales, and besides those only
   what was written meanwhile.  Without such a write the figures are the same. *)
TableFollowsStrip(x) ==
  Loaded("day") => \A shown \in {Dashboards(x, TRUE)} :
    /\ PaidRows(x) \subseteq x.rung \cap x.owed
    /\ Ids((x.rung \cup x.owed) \ PaidRows(x)) \subseteq touched
    /\ Ids(LeftOut(x)) \cap Ids(PaidRows(x)) = {}
    /\ shown.table.revenue >= shown.revenue /\ shown.table.sales >= shown.sales
    /\ touched = {} => shown.table.revenue = shown.revenue /\ shown.table.sales = shown.sales
    /\ Loaded("trends") /\ touched = {} =>
         PeriodOf(x).daily[page.day] = [revenue |-> shown.revenue, sales |-> shown.sales]

(* A count shown without a notice saw just the paid sales the strip counts, and expected
   the cash the drawer's tape ends with. *)
CountsAreFresh(x) ==
  Loaded("day") => \A c \in x.saved :
    SavedCard(x, c).reasons = {} =>
      {r \in c.saw : r.status = "PAID"} = PaidRows(x) /\ c.expected = DrawerTape(x).result

(* Every tape adds up to what it ends with, the line of QR Ph shown or not, and the
   average to half a centavo a sale. *)
TapesAddUp(x) ==
  Loaded("day") =>
    /\ \A gateway \in BOOLEAN : AddsUp(RevenueTape(x, gateway))
    /\ AddsUp(DrawerTape(x))
    /\ \A shown \in {Dashboards(x, TRUE)} :
         shown.sales > 0 => /\ 2 * (shown.average * shown.sales - shown.revenue) <= shown.sales
                            /\ 2 * (shown.revenue - shown.average * shown.sales) <= shown.sales
    /\ \A b \in DOMAIN CardsOf(x) : \A card \in {CardsOf(x)[b]} :
         /\ AddsUp(EarnedTape(card))
         /\ IF PaidTooMuch(card) THEN card.remaining = 0 ELSE AddsUp(RemainingTape(card))

(* An arrow up or down, and the best day, are so. *)
ArrowsAreTrue(x) ==
  Loaded("trends") => \A t \in {PeriodOf(x)}, gateway \in BOOLEAN :
    \A stats \in {TrendStats(t, QrphLine(x, gateway))} :
    /\ stats.revenue = "up" => t.revenue > t.previous.revenue
    /\ stats.revenue = "down" => t.revenue < t.previous.revenue
    /\ Total(stats.methods, LAMBDA m : t.byMethod[m]) = t.revenue
    /\ stats.best # NoFigure => \A d \in DOMAIN t.daily : t.daily[d].revenue <= t.daily[stats.best].revenue

(* The section of a load that did not fail shows its figures, the sections beside it too,
   and the forecast is worked out for the first day of the chart. *)
SectionsStand ==
  \A f \in Forecasts \cup {Unreachable} :
    /\ (\A load \in Loads : load \in page.failed \/ Loaded(load)) =>
         /\ Sections(f).dashboards = "can't be shown" <=> "day" \in page.failed
         /\ Sections(f).trends = "can't be shown" <=> "trends" \in page.failed
    /\ IF ChartDays(f) = {} THEN WorkedOut(f) \in {"can't be loaded", "none covers today"}
       ELSE WorkedOut(f) = Min(ChartDays(f)) /\ Sections(f).evaluation = "run"

(* "From the same numbers as End-of-Day Cash, the Barber Ledger and the forecast"
   (app/insights/page.tsx:924), though not read at the same time: whatever was synced,
   confirmed, reviewed, paid out or counted between the queries, the page leaves out no
   sale without a word, a count it calls current is, and each calculation adds up. *)
PageIsTrue ==
  page.open => LET x == page.rows IN
    /\ NothingIsMissing(x) /\ TableFollowsStrip(x) /\ CountsAreFresh(x)
    /\ TapesAddUp(x) /\ ArrowsAreTrue(x) /\ SectionsStand
=============================================================================
