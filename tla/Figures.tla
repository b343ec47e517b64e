------------------------------ MODULE Figures ------------------------------
(***************************************************************************)
(* The owner's figures: what a sale costs and earns (lib/pricing.ts,       *)
(* lib/commission.ts) and the sums of the stored rows that the pages show  *)
(* side by side: End-of-Day Cash, the ledger with its summary, and the     *)
(* insights.  Books models how the rows come to be and when they are read; *)
(* here they only grow.  Money is counted in centavos.                     *)
(***************************************************************************)
EXTENDS Integers, FiniteSets, FiniteSetsExt, Totals

CONSTANTS
  StandardPrice,  \* catalog: service -> price
  Rate,           \* commissionRate, in percent
  Staff,          \* barbers
  Active,         \* the active ones
  Today,          \* today; days are numbered from 0
  RangeDays,      \* days of the trends and of a summary period
  PageDates,      \* bound: the dates the pages are opened for
  NewSales,       \* bound: sales that may be stored
  MaxSold,        \* bound: sales stored
  NewPayouts,     \* bound: payout rows that may be stored
  MaxPayouts,     \* bound: payout rows stored
  NewCounts,      \* bound: drawer counts that may be saved
  MaxCounts       \* bound: revisions saved

VARIABLES
  sold,           \* transactions
  paidOut,        \* daily_payout_ledgers
  counts          \* shift_reconciliations

figureVars == <<sold, paidOut, counts>>

LoyaltyService == "haircut"
LoyaltyPercent == 50
Unreviewed == -1

Ticket == [service : DOMAIN StandardPrice, custom : Nat, loyalty : BOOLEAN, tip : Nat]

(* legacy: stored before list prices were. *)
StoredSale ==
  [id : Nat, ticket : Ticket, legacy : BOOLEAN, barber : Staff,
   method : {"CASH", "GCASH", "MAYA", "QRPH"}, status : {"PAID", "PENDING"},
   day : 0 .. Today, hour : 0 .. 23, flagged : BOOLEAN, reviewed : -1 .. Today]

StoredPayout == [barber : Staff, day : 0 .. Today, cash : Nat, gcash : Nat, marked : BOOLEAN]

(* saw: the sales that were counted on the day then. *)
StoredCount ==
  [day : 0 .. Today, revision : 1 .. MaxCounts, petty : Nat, variance : Int, expected : Int,
   saw : SUBSET StoredSale]

FiguresTypeOK ==
  /\ sold \subseteq StoredSale /\ Cardinality(sold) <= MaxSold
  /\ paidOut \subseteq StoredPayout
  /\ counts \subseteq StoredCount

ASSUME FiguresAssumption ==
  /\ StandardPrice \in [DOMAIN StandardPrice -> Nat] /\ Rate \in Nat
  /\ IsFiniteSet(Staff) /\ Active \subseteq Staff
  /\ Today \in Nat /\ RangeDays \in Nat \ {0} /\ PageDates \subseteq Nat
  /\ NewSales \subseteq StoredSale /\ NewPayouts \subseteq StoredPayout
  /\ \A c \in NewCounts : c.day \in 0 .. Today /\ c.petty \in Nat /\ c.variance \in Int
  /\ {MaxSold, MaxPayouts, MaxCounts} \subseteq Nat

FiguresInit == sold = {} /\ paidOut = {} /\ counts = {}

HalfUp(n, d) == (2 * n + d) \div (2 * d)
AtLeastZero(n) == IF n < 0 THEN 0 ELSE n

-----------------------------------------------------------------------------
(* One sale. *)

(* A custom amount is its own list price; else the loyalty card takes half off the
   haircut.  Tips are never discounted. *)
PriceSale(t) ==
  LET list == IF t.custom > 0 THEN t.custom ELSE StandardPrice[t.service]
      isLoyalty == t.loyalty /\ t.service = LoyaltyService /\ t.custom = 0
      discount == IF isLoyalty THEN HalfUp(list * LoyaltyPercent, 100) ELSE 0 IN
  [listPrice |-> list, discount |-> discount, amountPaid |-> AtLeastZero(list - discount), tip |-> t.tip]

CommissionFor(base) == HalfUp(base * Rate, 100)

(* amountPaid ?? totalAmount, and listPriceOf with its fallback for a legacy sale. *)
AmountOf(r) == PriceSale(r.ticket).amountPaid
ListPriceOf(r) == IF r.legacy THEN AmountOf(r) ELSE PriceSale(r.ticket).listPrice
TipOf(r) == r.ticket.tip
CommissionOf(r) == CommissionFor(ListPriceOf(r))

-----------------------------------------------------------------------------
(* lib/time-review.ts. *)

CountedDay(r) == IF r.flagged THEN r.reviewed ELSE r.day
CountedOn(r, d) == IF r.flagged THEN r.reviewed = d ELSE r.day = d

(* Mutation of CountedIn: a reviewed sale stays in the range it was stamped in. *)
CountedInStamped(r, first, last) ==
  IF r.flagged THEN r.reviewed # Unreviewed /\ r.day \in first .. last ELSE r.day \in first .. last

CountedIn(r, first, last) ==
  IF r.flagged THEN r.reviewed # Unreviewed /\ r.reviewed \in first .. last ELSE r.day \in first .. last

Held(first, last) == {r \in sold : r.flagged /\ r.reviewed = Unreviewed /\ r.day \in first .. last}

(* listNeedsReview: stated on the day, or received on it. *)
NeedsReview(d) == {r \in sold : r.flagged /\ r.reviewed = Unreviewed /\ d \in {r.day, Today}}

OnDay(d) == {r \in sold : CountedOn(r, d)}
PaidSales(d) == {r \in OnDay(d) : r.status = "PAID"}
Unconfirmed(d) == {r \in OnDay(d) : r.method = "QRPH" /\ r.status # "PAID"}

-----------------------------------------------------------------------------
(* computeExpected, totalsForDate. *)

PayoutsOn(d) == {p \in paidOut : p.day = d}
PaidOutTo(p) == p.cash + p.gcash

(* Of a day's paid sales, the cash handed out and the petty cash. *)
FiguresOf(paid, handed, petty) ==
  LET By(methods) == Total({r \in paid : r.method \in methods}, AmountOf)
      cashTips == Total({r \in paid : r.method = "CASH"}, TipOf) IN
  [cash |-> By({"CASH"}), cashTips |-> cashTips, digital |-> By({"GCASH", "MAYA"}), qrph |-> By({"QRPH"}),
   revenue |-> By({"CASH"}) + By({"GCASH", "MAYA"}) + By({"QRPH"}),
   count |-> Cardinality(paid),
   drawer |-> By({"CASH"}) + cashTips - handed - petty]

Handed(payouts) == Total({p \in payouts : p.marked}, LAMBDA p : p.cash)

DayFigures(d, petty) == FiguresOf(PaidSales(d), Handed(PayoutsOn(d)), petty)

Bases == {"LIST_PRICE", "AMOUNT_PAID"}

(* view: the commission on the base that is looked at. *)
EarningsOf(paid, base) ==
  LET Of(b) == {r \in paid : r.barber = b}
      ViewOf(r) == IF base = "LIST_PRICE" THEN CommissionOf(r) ELSE CommissionFor(AmountOf(r)) IN
  [b \in {r.barber : r \in paid} |->
     [commission |-> Total(Of(b), CommissionOf), view |-> Total(Of(b), ViewOf), tips |-> Total(Of(b), TipOf)]]

TotalsFor(d, base) == EarningsOf(PaidSales(d), base)

-----------------------------------------------------------------------------
(* A saved count. *)

CountsOf(d) == {c \in counts : c.day = d}
LatestCount(d) == CHOOSE c \in CountsOf(d) : \A o \in CountsOf(d) : o.revision <= c.revision
LatestPetty(d) == IF CountsOf(d) = {} THEN 0 ELSE LatestCount(d).petty

(* computeStaleness: the drawer moved, or a sale came to the day since. *)
IsStale(c) == DayFigures(c.day, c.petty).drawer # c.expected \/ OnDay(c.day) # c.saw

-----------------------------------------------------------------------------
(* loadTrends. *)

First(last) == last - (RangeDays - 1)

PaidIn(first, last) == {r \in sold : CountedIn(r, first, last) /\ r.status = "PAID"}

(* Opening hours always show; others only when a sale was rung up then. *)
HoursChart(known) ==
  LET soldAt == {r.hour : r \in known} IN
  [h \in Min(soldAt \cup {10}) .. Max(soldAt \cup {21}) |-> Cardinality({r \in known : r.hour = h})]

TrendsOf(sales, previous, waiting, last) ==
  LET known == {r \in sales : ~r.flagged}
      Of(S) == [revenue |-> Total(S, AmountOf), sales |-> Cardinality(S)] IN
  [daily |-> [d \in First(last) .. last |-> Of({r \in sales : CountedDay(r) = d})],
   hours |-> HoursChart(known),
   hourExcluded |-> Cardinality(sales \ known),
   byBarber |-> [b \in {r.barber : r \in sales} |-> Of({r \in sales : r.barber = b})],
   byService |-> [v \in {r.ticket.service : r \in sales} |-> Cardinality({r \in sales : r.ticket.service = v})],
   byMethod |-> [m \in {"CASH", "GCASH", "MAYA", "QRPH"} |-> Total({r \in sales : r.method = m}, AmountOf)],
   revenue |-> Total(sales, AmountOf), sales |-> Cardinality(sales), tips |-> Total(sales, TipOf),
   previous |-> Of(previous),
   held |-> waiting]

SalesBefore(last) == PaidIn(last - (2 * RangeDays - 1), last - RangeDays)

Trends(last) == TrendsOf(PaidIn(First(last), last), SalesBefore(last), Held(First(last), last), last)

-----------------------------------------------------------------------------
(* reports/ledger-summary: day by day, so an overpaid day cannot hide another's balance. *)

PaidOnDay(d) == Total(PayoutsOn(d), PaidOutTo)

Summary(dates, base) ==
  LET figures == [d \in dates |-> DayFigures(d, 0)]
      earned == [d \in dates |->
        LET totals == TotalsFor(d, base) IN
        [view |-> Total(DOMAIN totals, LAMBDA b : totals[b].view),
         tips |-> Total(DOMAIN totals, LAMBDA b : totals[b].tips)]]
      OwedOn(d) == earned[d].view + earned[d].tips
      revenue == Total(dates, LAMBDA d : figures[d].revenue)
      commissions == Total(dates, LAMBDA d : earned[d].view)
      petty == Total(dates, LatestPetty) IN
  [revenue |-> revenue, count |-> Total(dates, LAMBDA d : figures[d].count),
   commissions |-> commissions, tips |-> Total(dates, LAMBDA d : earned[d].tips),
   petty |-> petty, left |-> revenue - commissions - petty,
   owed |-> Total(dates, OwedOn), paid |-> Total(dates, PaidOnDay),
   remaining |-> Total(dates, LAMBDA d : AtLeastZero(OwedOn(d) - PaidOnDay(d))),
   gap |-> revenue - Total(dates, LAMBDA d : Total(PaidSales(d), ListPriceOf))]

-----------------------------------------------------------------------------
(* insights/page.tsx loadDay: the active barbers and whoever has sales or a payout. *)

RowsOf(totals, paid, payouts) ==
  LET Commission(b) == IF b \in DOMAIN totals THEN totals[b].commission ELSE 0
      Tips(b) == IF b \in DOMAIN totals THEN totals[b].tips ELSE 0
      Earned(b) == Commission(b) + Tips(b)
      Paid(b) == Total({p \in payouts : p.barber = b}, PaidOutTo)
      Rung(b) == {r \in paid : r.barber = b} IN
  [b \in Active \cup DOMAIN totals \cup {p.barber : p \in payouts} |->
     [sales |-> Cardinality(Rung(b)), revenue |-> Total(Rung(b), AmountOf),
      commission |-> Commission(b), tips |-> Tips(b), earned |-> Earned(b), paidOut |-> Paid(b),
      remaining |-> AtLeastZero(Earned(b) - Paid(b)),
      additional |-> Earned(b) > Paid(b) /\ \E p \in payouts : p.barber = b /\ p.marked]]

InsightsRows(d) == RowsOf(TotalsFor(d, "LIST_PRICE"), PaidSales(d), PayoutsOn(d))

-----------------------------------------------------------------------------
(* The rows. *)

Sell(r) ==
  /\ \A s \in sold : s.id # r.id
  /\ Cardinality(sold) < MaxSold
  /\ sold' = sold \cup {r}
  /\ UNCHANGED <<paidOut, counts>>

Changed(r, new) ==
  /\ sold' = (sold \ {r}) \cup {new}
  /\ UNCHANGED <<paidOut, counts>>

ConfirmPaid(r) == r.status = "PENDING" /\ Changed(r, [r EXCEPT !.status = "PAID"])

(* The stated day, or the day the sale was received. *)
ReviewDate(r, d) ==
  /\ r.flagged /\ r.reviewed = Unreviewed
  /\ d \in {r.day, Today}
  /\ Changed(r, [r EXCEPT !.reviewed = d])

PayOut(p) ==
  /\ \A q \in paidOut : <<q.barber, q.day>> # <<p.barber, p.day>>
  /\ Cardinality(paidOut) < MaxPayouts
  /\ paidOut' = paidOut \cup {p}
  /\ UNCHANGED <<sold, counts>>

CountDrawer(c) ==
  /\ Cardinality(counts) < MaxCounts
  /\ counts' = counts \cup
       {[day |-> c.day, revision |-> Cardinality(CountsOf(c.day)) + 1, petty |-> c.petty,
         variance |-> c.variance, expected |-> DayFigures(c.day, c.petty).drawer, saw |-> OnDay(c.day)]}
  /\ UNCHANGED <<sold, paidOut>>

FiguresNext ==
  \/ \E r \in NewSales : Sell(r)
  \/ \E r \in sold : ConfirmPaid(r) \/ \E d \in 0 .. Today : ReviewDate(r, d)
  \/ \E p \in NewPayouts : PayOut(p)
  \/ \E c \in NewCounts : CountDrawer(c)

FiguresSpec == FiguresInit /\ [][FiguresNext]_figureVars

-----------------------------------------------------------------------------
(* What the pages show of the days up to d. *)
RangeTo(d) == AtLeastZero(First(d)) .. d

TrendsAgree(d) ==
  \A t \in {Trends(d)} :
    /\ t.revenue = Total(RangeTo(d), LAMBDA x : DayFigures(x, 0).revenue)
    /\ \A x \in RangeTo(d) : t.daily[x] = [revenue |-> DayFigures(x, 0).revenue, sales |-> DayFigures(x, 0).count]
    /\ Total(DOMAIN t.daily, LAMBDA x : t.daily[x].revenue) = t.revenue
    /\ Total(DOMAIN t.byBarber, LAMBDA b : t.byBarber[b].revenue) = t.revenue
    /\ Total(DOMAIN t.byMethod, LAMBDA m : t.byMethod[m]) = t.revenue
    /\ Total(DOMAIN t.hours, LAMBDA h : t.hours[h]) + t.hourExcluded = t.sales
    /\ d >= RangeDays => t.previous.revenue = Trends(d - RangeDays).revenue

(* Nothing is left but the shop's, the barbers' and the petty cash; a balance hidden in
   the summary is one of a day on which another barber was paid too much. *)
SummaryAgrees(d, base) ==
  \A s \in {Summary(RangeTo(d), base)}, t \in {Trends(d)}, cards \in {[x \in RangeTo(d) |-> InsightsRows(x)]} :
    LET Cards(x) == Total(DOMAIN cards[x], LAMBDA b : cards[x][b].remaining)
        Overpaid(x) == \E p \in PayoutsOn(x) : PaidOutTo(p) > cards[x][p.barber].earned IN
    /\ s.revenue = t.revenue /\ s.count = t.sales /\ s.tips = t.tips
    /\ s.left + s.commissions + s.petty = s.revenue
    /\ s.gap = -Total({r \in PaidIn(First(d), d) : ~r.legacy}, LAMBDA r : PriceSale(r.ticket).discount)
    /\ base = "LIST_PRICE" =>
         /\ s.remaining <= Total(RangeTo(d), Cards)
         /\ (\A x \in RangeTo(d) : ~Overpaid(x)) => s.remaining = Total(RangeTo(d), Cards)

InsightsAgree(d) ==
  \A shown \in {InsightsRows(d)} :
    /\ Total(DOMAIN shown, LAMBDA b : shown[b].revenue) = DayFigures(d, 0).revenue
    /\ Total(DOMAIN shown, LAMBDA b : shown[b].sales) = DayFigures(d, 0).count
    /\ Total(DOMAIN shown, LAMBDA b : shown[b].earned) = Summary({d}, "LIST_PRICE").owed

(* The day a sale counts on, or else the day whose list asks the owner about it. *)
CountedOrAsked(r) ==
  LET days == {d \in 0 .. Today : CountedOn(r, d)} IN
  \/ days = {CountedDay(r)}
  \/ days = {} /\ r \in NeedsReview(r.day) \cap NeedsReview(Today) \cap Held(r.day, r.day)

(* "A sale counts on the same business day as in End-of-Day Cash" (trends.ts:3): the
   trends, the ledger's summary, the insights and the drawer's figures are sums of the
   same sales, each counted once, on one day, however it was split by hour, barber,
   method or service, and whatever was reviewed, confirmed, discounted or paid out; one
   that counts nowhere is asked about on the day it says and on the day it came. *)
FiguresAgree ==
  sold # {} => (\A r \in sold : CountedOrAsked(r)) /\ \A d \in PageDates :
    TrendsAgree(d) /\ InsightsAgree(d) /\ \A base \in Bases : SummaryAgrees(d, base)
=============================================================================
