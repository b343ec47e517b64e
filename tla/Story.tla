------------------------------- MODULE Story -------------------------------
(***************************************************************************)
(* The presentation on the insights page (app/insights/page.tsx storyInput *)
(* and lib/insights-story.ts): slides, with sentences chosen from the      *)
(* figures by fixed rules.  A sentence is what it claims, not its words.   *)
(***************************************************************************)
EXTENDS Figures

CONSTANTS
  Rules,          \* the thresholds, scaled to the few sales of an instance
  Visits,         \* how the page may be opened: the date, the hour, what of it loads, the gateway, the saved forecast
  NotLoaded       \* the database, or the saved forecast, can't be read

(* A catalog price is at least two centavos, so that half of it is money; "others" stands
   for the bar of the rest, and is no barber.  A saved forecast has days in a row from the
   day it was made (ml-service/app.py), or none. *)
ASSUME StoryAssumption ==
  /\ \A s \in DOMAIN StandardPrice : StandardPrice[s] >= 2
  /\ "others" \notin Staff
  /\ {Rules.rounded, Rules.bars, Rules.week} \subseteq Nat \ {0}
  /\ \A v \in Visits :
       /\ v.date \in 0 .. Today /\ v.hour \in 0 .. 23 /\ v.gateway \in BOOLEAN
       /\ {"saved", "days"} \subseteq DOMAIN v.forecast /\ v.forecast.saved \in BOOLEAN
       /\ v.forecast.saved =>
            \E a \in 0 .. Today : \E b \in DOMAIN v.forecast.days \cup {a - 1} :
              DOMAIN v.forecast.days = a .. b

OpenHour == 10
CloseHour == 22
Steady == 5
Notable == 10
StretchHours == 3

Point(tone, about, n) == [tone |-> tone, about |-> about, n |-> n]
When(cond, p) == IF cond THEN {p} ELSE {}
Toward(n) == IF n > 0 THEN "up" ELSE IF n < 0 THEN "down" ELSE "flat"
Size(n) == IF n < 0 THEN -n ELSE n

(* 100 * (n - 1) rounded, for the change from before to now. *)
PercentChange(now, before) == HalfUp((now - before) * 100, before)
PercentOf(n, whole) == IF whole > 0 THEN HalfUp(n * 100, whole) ELSE 0

Delta(now, before) ==
  IF before = 0 THEN IF now = 0 THEN "flat" ELSE "up" ELSE Toward(PercentChange(now, before))

Versus(now, before) ==
  IF before <= 0 THEN Point("flat", "none before", 0)
  ELSE LET change == PercentChange(now, before) IN
       Point(IF Size(change) < Steady THEN "flat" ELSE Toward(change), "versus", change)

-----------------------------------------------------------------------------
(* What the page hands to the story. *)

MethodsOf(d) == [m \in {"CASH", "GCASH", "MAYA", "QRPH"} |-> Total({r \in PaidSales(d) : r.method = m}, AmountOf)]
GatewaySales(d) == {r \in OnDay(d) : r.method = "QRPH"}

(* Mutation of ShowQrph: only while the gateway is on. *)
ShowQrphWhileOn(v, d) == v.gateway

(* QR Ph is shown while the gateway is on, or when the day has QR Ph sales. *)
ShowQrph(v, d) == v.gateway \/ ("day" \in v.loaded /\ GatewaySales(d) # {})

PaymentMethods(d, showQrph) ==
  LET shown == {m \in DOMAIN MethodsOf(d) : m # "QRPH" \/ showQrph} IN [m \in shown |-> MethodsOf(d)[m]]

TrendMethods(t, showQrph) ==
  LET shown == {m \in DOMAIN t.byMethod : m # "QRPH" \/ showQrph \/ t.byMethod[m] > 0} IN [m \in shown |-> t.byMethod[m]]

SavedCount(d) ==
  IF CountsOf(d) = {} THEN [status |-> "none", stale |-> FALSE]
  ELSE [status |-> CASE LatestCount(d).variance = 0 -> "balanced"
                     [] LatestCount(d).variance < 0 -> "short"
                     [] LatestCount(d).variance > 0 -> "over",
        stale |-> IsStale(LatestCount(d))]

DayInput(v, d) ==
  LET x == DayFigures(d, LatestPetty(d)) IN
  [revenue |-> x.revenue, sales |-> x.count, methods |-> PaymentMethods(d, ShowQrph(v, d)),
   drawer |-> SavedCount(d), barbers |-> InsightsRows(d),
   held |-> Cardinality(Held(d, d)), pending |-> Cardinality(Unconfirmed(d))]

TrendsInput(v, d) ==
  LET t == Trends(d) IN [t EXCEPT !.byMethod = TrendMethods(t, ShowQrph(v, d)), !.held = Cardinality(t.held)]

(* Paid digitally, as the page shows it: rounded to a tenth, then to a whole percent. *)
PaidDigitally(t) ==
  HalfUp(HalfUp(Total(DOMAIN t.byMethod \ {"CASH"}, LAMBDA m : t.byMethod[m]) * 1000, t.revenue), 10)

(* The saved days from today on. *)
ForecastInput(f) ==
  LET ahead == {d \in DOMAIN f.days : d >= Today} IN [f EXCEPT !.days = [d \in ahead |-> f.days[d]]]

StoryInput(v, d) ==
  [date |-> d, hour |-> v.hour,
   day |-> IF "day" \in v.loaded THEN DayInput(v, d) ELSE NotLoaded,
   trends |-> IF "trends" \in v.loaded THEN TrendsInput(v, d) ELSE NotLoaded,
   forecast |-> IF "forecast" \in v.loaded THEN ForecastInput(v.forecast) ELSE NotLoaded]

-----------------------------------------------------------------------------
(* The figures of an input i. *)

(* Today before closing: the day's figures are not final yet. *)
InProgress(i) == i.date = Today /\ i.hour < CloseHour

HasTrends(i) == IF i.trends = NotLoaded THEN FALSE ELSE i.trends.sales > 0
Complete(i) ==
  IF i.trends = NotLoaded THEN {} ELSE {d \in DOMAIN i.trends.daily : ~(InProgress(i) /\ d = i.date)}
SalesOf(i, S) == Total(S, LAMBDA d : i.trends.daily[d].sales)
RevenueOf(i, S) == Total(S, LAMBDA d : i.trends.daily[d].revenue)
OpenDays(i) == {d \in Complete(i) : i.trends.daily[d].sales > 0}
HourSales(t, S) == Total(S \cap DOMAIN t.hours, LAMBDA h : t.hours[h])
KnownSales(t) == HourSales(t, DOMAIN t.hours)

(* Days without a paid sale; before the first sale of a shop that had none before, they
   are the time before the app was in use. *)
QuietDays(i) ==
  LET daily == i.trends.daily
      fresh == i.trends.previous.sales = 0
      firstSale == Min({d \in DOMAIN daily : daily[d].sales > 0}) IN
  IF ~HasTrends(i) THEN [start |-> FALSE, gaps |-> {}]
  ELSE [start |-> fresh /\ firstSale > Min(DOMAIN daily),
        gaps |-> {d \in Complete(i) : daily[d].sales = 0 /\ (fresh => d > firstSale)}]

(* The other days made this share of their sales by now: at this pace, where today ends. *)
Pace(i) ==
  LET before == HourSales(i.trends, 0 .. i.hour - 1) - i.day.sales
      total == KnownSales(i.trends) - i.day.sales IN
  IF ~InProgress(i) \/ NotLoaded \in {i.day, i.trends} THEN {}
  ELSE IF i.day.sales = 0 \/ i.hour < OpenHour + 2 \/ total < Rules.paceSales \/ before <= 0
          \/ before * 5 < total \/ before * 10 > total * 9 THEN {}
  ELSE {Point("info", "pace", HalfUp(i.day.revenue * total, before * Rules.rounded) * Rules.rounded)}

(* The later days against the earlier ones; an odd day goes to the earlier half. *)
Momentum(i) ==
  LET n == Cardinality(Complete(i))
      half == n \div 2
      late == {d \in Complete(i) : Cardinality({e \in Complete(i) : e > d}) < half}
      early == Complete(i) \ late
      change == PercentChange(HalfUp(RevenueOf(i, late), half), HalfUp(RevenueOf(i, early), n - half)) IN
  IF RangeDays < Rules.fortnight \/ n < Rules.halves THEN {}
  ELSE IF RevenueOf(i, early) <= 0 THEN {}
  ELSE {Point(IF Size(change) < Notable THEN "flat" ELSE Toward(change), "momentum", change)}

-----------------------------------------------------------------------------
(* Chosen day. *)

(* Against the other complete open days of the period, never against itself. *)
Comparison(i) ==
  LET others == OpenDays(i) \ {i.date}
      n == Cardinality(others)
      reached == HalfUp(i.day.revenue * 100 * n, RevenueOf(i, others))
      gap == PercentChange(i.day.revenue, HalfUp(RevenueOf(i, others), n)) IN
  IF n < Rules.compared \/ RevenueOf(i, others) <= 0 THEN Point("info", "alone", 0)
  ELSE IF InProgress(i) THEN Point(IF reached >= 100 THEN "up" ELSE "info", "of typical", reached)
  ELSE Point(IF Size(gap) < Notable THEN "flat" ELSE Toward(gap), "against typical", gap)

PaidBy(i) ==
  LET methods == i.day.methods
      cash == methods["CASH"]
      digital == {m \in DOMAIN methods \ {"CASH"} : methods[m] > 0} IN
  IF i.day.revenue <= 0 THEN {}
  ELSE {CASE digital = {} -> Point("info", "all cash", 100)
          [] digital # {} /\ cash <= 0 -> Point("info", "no cash", 0)
          [] digital # {} /\ cash > 0 -> Point("info", "cash share", PercentOf(cash, i.day.revenue))}

DrawerPoint(i) ==
  LET drawer == i.day.drawer IN
  IF drawer.stale THEN {Point("warn", "stale", 0)}
  ELSE IF drawer.status = "balanced" THEN {Point("good", "balanced", 0)}
  ELSE IF drawer.status # "none" THEN {Point("warn", drawer.status, 0)}
  ELSE When(i.day.sales > 0, Point(IF InProgress(i) THEN "info" ELSE "warn", "not counted", 0))

NotPaidOut(i) == {b \in DOMAIN i.day.barbers : i.day.barbers[b].remaining > 0}
SomeoneEarned(i) == \E b \in DOMAIN i.day.barbers : i.day.barbers[b].earned > 0

OwedPoint(i) ==
  IF NotPaidOut(i) # {}
  THEN {Point(IF InProgress(i) THEN "info" ELSE "warn", "owed",
              Total(NotPaidOut(i), LAMBDA b : i.day.barbers[b].remaining))}
  ELSE When(SomeoneEarned(i), Point("good", "all paid out", 0))

DaySlide(i) ==
  LET out == i.day.held + i.day.pending
      working == {b \in DOMAIN i.day.barbers : i.day.barbers[b].sales > 0} IN
  IF i.day = NotLoaded THEN [headline |-> Point("info", "unreachable", 0), points |-> {}, highlight |-> {}]
  ELSE LET said == IF i.day.sales > 0 THEN Comparison(i)
                   ELSE Point(IF InProgress(i) THEN "info" ELSE "warn", "no sales", 0) IN
       [headline |-> said, highlight |-> {said},
        points |-> When(out > 0, Point("warn", "left out", out)) \cup Pace(i) \cup PaidBy(i)
                   \cup DrawerPoint(i) \cup OwedPoint(i)
                   \cup When(Cardinality(working) >= 2, Point("info", "by barber", i.day.sales))]

-----------------------------------------------------------------------------
(* Trend. *)

(* The most recent of the best days. *)
BestDay(t) ==
  LET open == {d \in DOMAIN t.daily : t.daily[d].sales > 0} IN
  CHOOSE d \in open : \A e \in open :
    t.daily[e].revenue < t.daily[d].revenue \/ (t.daily[e].revenue = t.daily[d].revenue /\ e <= d)

(* Revenue is sales times the average; the ratio further from one is named.  |log a/b| >= |log c/d|
   is compared as Max(a,b) / Min(a,b) >= Max(c,d) / Min(c,d). *)
Further(a, b, c, d) == Max({a, b}) * Min({c, d}) >= Max({c, d}) * Min({a, b})

Driver(t) ==
  LET p == t.previous
      now == t.revenue * p.sales
      before == p.revenue * t.sales IN
  IF Further(t.sales, p.sales, now, before)
  THEN IF t.sales > p.sales THEN "more sales" ELSE "fewer sales"
  ELSE IF now > before THEN "higher average" ELSE "lower average"

TrendHeadline(t) ==
  LET p == t.previous
      change == PercentChange(t.revenue, p.revenue) IN
  IF p.sales = 0 \/ p.revenue <= 0 THEN Point("info", "nothing to compare", 0)
  ELSE IF t.revenue <= 0 THEN Point("info", "no revenue", 0)
  ELSE IF Size(change) < Steady THEN Point("flat", "steady", change)
  ELSE Point(Toward(change), Driver(t), change)

(* Told unless the headline named the average. *)
AveragePoint(t) ==
  LET p == t.previous
      change == PercentChange(HalfUp(t.revenue, t.sales), HalfUp(p.revenue, p.sales)) IN
  IF p.sales = 0 \/ p.revenue <= 0 \/ t.revenue <= 0
     \/ TrendHeadline(t).about \in {"higher average", "lower average"} THEN {}
  ELSE When(Size(change) >= Steady, Point(Toward(change), "average", change))

TrendSlide(i) ==
  LET t == i.trends
      quiet == QuietDays(i)
      gaps == Cardinality(quiet.gaps) IN
  IF t = NotLoaded THEN [headline |-> Point("info", "unreachable", 0), points |-> {}, highlight |-> {}]
  ELSE IF t.sales = 0 THEN [headline |-> Point("info", "no sales", 0), points |-> {}, highlight |-> {}]
  ELSE [headline |-> TrendHeadline(t), highlight |-> {},
        points |-> {Point("up", "best day", BestDay(t))} \cup Momentum(i) \cup AveragePoint(t)
                   \cup When(quiet.start, Point("info", "started", 0))
                   \cup When(gaps > 0, Point("warn", "gaps", gaps))
                   \cup When(InProgress(i), Point("info", "still open", 0))
                   \cup When(t.held > 0, Point("warn", "held", t.held))]

-----------------------------------------------------------------------------
(* Hours and weekdays. *)

(* The earliest of the busiest stretches, of the busiest hours and of the quietest open ones. *)
Earliest(S, better(_, _)) == CHOOSE h \in S : \A o \in S \ {h} : better(h, o) \/ (~better(o, h) /\ h < o)
Stretch(t) ==
  LET Of(h) == HourSales(t, h .. h + StretchHours - 1) IN
  Earliest({h \in DOMAIN t.hours : h + StretchHours - 1 \in DOMAIN t.hours}, LAMBDA h, o : Of(h) > Of(o))
PeakHour(t) == Earliest(DOMAIN t.hours, LAMBDA h, o : t.hours[h] > t.hours[o])
QuietHour(t) == Earliest(OpenHour .. CloseHour - 1, LAMBDA h, o : t.hours[h] < t.hours[o])

(* Averages over the open days of a weekday, compared without dividing. *)
WeekProfile(i) ==
  LET On(w) == {d \in OpenDays(i) : d % Rules.week = w}
      Busier(w, x) == SalesOf(i, On(w)) * Cardinality(On(x)) > SalesOf(i, On(x)) * Cardinality(On(w))
      seen == {w \in 0 .. Rules.week - 1 : Cardinality(On(w)) >= Rules.seenTwice}
      busiest == Earliest(seen, Busier)
      quietest == Earliest(seen, LAMBDA w, x : Busier(x, w))
      weekend == {d \in OpenDays(i) : d % Rules.week \in Rules.weekend}
      weekdays == OpenDays(i) \ weekend
      Mean(S) == HalfUp(SalesOf(i, S) * 100, Cardinality(S))
      gap == PercentChange(Mean(weekend), Mean(weekdays)) IN
  IF RangeDays < Rules.fortnight \/ Cardinality({w \in 0 .. Rules.week - 1 : On(w) # {}}) < Rules.weekdays
  THEN {}
  ELSE IF Cardinality(seen) < 2 THEN {}
  ELSE IF ~Busier(busiest, quietest) THEN {}
  ELSE IF Cardinality(weekend) >= Rules.seenTwice /\ Cardinality(weekdays) >= Rules.seenTwice
       THEN {Point(IF Size(gap) < Notable THEN "flat" ELSE Toward(gap), "weekend", gap)}
       ELSE {Point("info", "weekdays", busiest)}

HasHours(i) == HasTrends(i) /\ KnownSales(i.trends) > 0

HoursSlide(i) ==
  LET t == i.trends
      known == KnownSales(t)
      from == Stretch(t)
      stretch == from .. from + StretchHours - 1
      part == PercentOf(HourSales(t, stretch), known)
      outside == known - HourSales(t, OpenHour .. CloseHour - 1)
      enough == known >= Rules.enough IN
  [headline |-> Point("info", IF enough THEN "busiest from" ELSE "early read", from),
   points |-> WeekProfile(i) \cup When(~enough, Point("up", "busiest hour", PeakHour(t)))
              \cup When(enough, Point("info", "before four", PercentOf(HourSales(t, 0 .. 15), known)))
              \cup When(outside > 0, Point("info", "outside", outside))
              \cup When(t.hourExcluded > 0, Point("info", "hour unknown", t.hourExcluded))
              \cup When(enough /\ QuietHour(t) \notin stretch, Point("idea", "breaks at", QuietHour(t))),
   highlight |-> When(enough, Point("info", "stretch share", part))]

-----------------------------------------------------------------------------
(* Barbers, services, payments. *)

(* The longest bars; past the limit the others are summed. *)
CapBars(f) ==
  LET n == Cardinality(DOMAIN f)
      longest == CHOOSE S \in SUBSET DOMAIN f :
        Cardinality(S) = Rules.bars - 1 /\ \A a \in S, b \in DOMAIN f \ S : f[a] >= f[b]
      others == Total(DOMAIN f \ longest, LAMBDA x : f[x]) IN
  IF n <= Rules.bars THEN f
  ELSE [x \in longest \cup {"others"} |-> IF x = "others" THEN others ELSE f[x]]

HasMix(i) == HasTrends(i)

MixSlide(i) ==
  LET t == i.trends
      revenue == [b \in DOMAIN t.byBarber |-> t.byBarber[b].revenue]
      n == Cardinality(DOMAIN revenue)
      topShare == PercentOf(Max({revenue[b] : b \in DOMAIN revenue}), t.revenue)
      digital == Total(DOMAIN t.byMethod \ {"CASH"}, LAMBDA m : t.byMethod[m])
      headline == IF n = 1 THEN Point("info", "one barber", 100)
                  ELSE IF n = 2 /\ 2 * topShare - 100 < Steady THEN Point("info", "even", topShare)
                  ELSE Point("info", "top barber", topShare) IN
  [headline |-> headline,
   points |-> When(Cardinality({b \in DOMAIN revenue : t.byBarber[b].sales >= Rules.regular}) >= 2,
                   Point("info", "averages", 0))
              \cup When(n > 1, Point("info", "not a score", 0))
              \cup {IF digital = 0 THEN Point("info", "all cash", 100)
                    ELSE Point("info", "digital share", PercentOf(digital, t.revenue))}
              \cup When(t.tips > 0, Point("info", "tips", PercentOf(t.tips, t.revenue))),
   bars |-> [barbers |-> CapBars(revenue), services |-> CapBars(t.byService), methods |-> t.byMethod],
   highlight |-> When(n > 1, headline)]

-----------------------------------------------------------------------------
(* Forecast. *)

ForecastSlide(i) ==
  LET f == i.forecast
      n == Cardinality(DOMAIN f.days)
      customers == Total(DOMAIN f.days, LAMBDA d : f.days[d])
      open == Cardinality(OpenDays(i))
      recent == SalesOf(i, OpenDays(i))
      gap == HalfUp((customers * open - recent * n) * 100, recent * n)
      busiest == Earliest(DOMAIN f.days, LAMBDA d, e : f.days[d] > f.days[e])
      quietest == Earliest(DOMAIN f.days, LAMBDA d, e : f.days[d] < f.days[e])
      rough == f.won * 2 < f.tested
      Nothing(why) == [headline |-> Point("info", why, 0), points |-> {}, highlight |-> {}] IN
  IF f = NotLoaded THEN Nothing("unreachable")
  ELSE IF ~f.saved THEN Nothing("no forecast")
  ELSE IF DOMAIN f.days = {} THEN Nothing("not today")
  ELSE [headline |-> Point("info", "customers", customers),
        points |-> {Point("info", "busiest day", busiest), Point("info", "quietest day", quietest),
                    Point(IF rough THEN "warn" ELSE "info", "weeks won", f.won)}
                   \cup (IF open < Rules.compared THEN {}
                         ELSE {Point(IF Size(gap) < Notable THEN "flat" ELSE Toward(gap), "against recent", gap)})
                   \cup When(n < Rules.week, Point("idea", "runs out", n)),
        highlight |-> {Point("info", IF rough THEN "rough guide" ELSE "expected", customers)}]

-----------------------------------------------------------------------------
(* Needs attention. *)

Todo(about, who, n) == [about |-> about, who |-> who, n |-> n]

DayTodo(i) ==
  LET day == i.day
      extra == {b \in DOMAIN day.barbers : day.barbers[b].additional}
      unpaid == NotPaidOut(i) \ extra IN
  When(day.held > 0, Todo("confirm dates", "", day.held))
  \cup When(day.pending > 0, Todo("not confirmed paid", "", day.pending))
  \cup (IF day.drawer.stale THEN {Todo("count again", "", 0)}
        ELSE IF day.drawer.status \in {"short", "over"} THEN {Todo("look into the drawer", "", 0)}
        ELSE When(day.drawer.status = "none" /\ ~InProgress(i) /\ day.sales > 0, Todo("count", "", 0)))
  \cup {Todo("extra", b, day.barbers[b].remaining) : b \in extra}
  \cup When(unpaid # {}, Todo("pay out", "", Total(unpaid, LAMBDA b : day.barbers[b].remaining)))

TodoItems(i) ==
  LET dayHeld == IF i.day = NotLoaded THEN 0 ELSE i.day.held
      periodHeld == IF i.trends = NotLoaded THEN 0 ELSE i.trends.held
      gaps == QuietDays(i).gaps IN
  (IF i.day = NotLoaded THEN {} ELSE DayTodo(i))
  \cup When(periodHeld > dayHeld, Todo("more dates", "", periodHeld - dayHeld))
  \cup When(gaps # {}, Todo("gaps", "", Cardinality(gaps)))
  \cup (IF i.forecast = NotLoaded THEN {}
        ELSE When(~i.forecast.saved \/ Cardinality(DOMAIN i.forecast.days) < Rules.week, Todo("forecast", "", 0)))

TodoSlide(i) ==
  LET items == TodoItems(i)
      loaded == NotLoaded \notin {i.day, i.trends}
      Day(cond) == IF i.day = NotLoaded THEN FALSE ELSE cond IN
  [headline |-> IF items # {} THEN Point("warn", "needs attention", Cardinality(items))
                ELSE Point("good", IF loaded THEN "nothing" ELSE "nothing loaded", 0),
   items |-> items,
   points |-> (IF loaded THEN When(i.trends.held = 0 /\ i.day.held = 0, Point("good", "no dates", 0)) ELSE {})
              \cup When(Day(i.day.drawer = [status |-> "balanced", stale |-> FALSE]), Point("good", "balanced", 0))
              \cup When(Day(NotPaidOut(i) = {} /\ SomeoneEarned(i)), Point("good", "all paid out", 0))
              \cup When(HasTrends(i) /\ QuietDays(i).gaps = {}, Point("good", "every day", 0))
              \cup When(~loaded, Point("warn", "incomplete", 0)),
   highlight |-> {Point(IF items = {} THEN "good" ELSE "warn", "to look at", Cardinality(items))}]

-----------------------------------------------------------------------------
(* lib/insights-story.ts buildStory. *)

SummarySlide(i, parts) ==
  [headline |-> IF HasTrends(i) THEN Versus(i.trends.revenue, i.trends.previous.revenue)
                ELSE IF i.trends # NotLoaded THEN Point("info", "no sales", 0)
                ELSE Point("info", IF i.day # NotLoaded THEN "day only" ELSE "unreachable", 0),
   deltas |-> IF i.trends = NotLoaded THEN {}
              ELSE {Delta(i.trends.revenue, i.trends.previous.revenue), Delta(i.trends.sales, i.trends.previous.sales)},
   points |-> UNION {p.highlight : p \in parts}]

StoryIds(i) ==
  {"summary", "day", "trend", "forecast", "todo"}
    \cup When(HasHours(i), "hours") \cup When(HasMix(i), "mix")

StorySlides(i) ==
  LET part == [id \in StoryIds(i) \ {"summary"} |->
                 CASE id = "day" -> DaySlide(i) [] id = "trend" -> TrendSlide(i) [] id = "hours" -> HoursSlide(i)
                   [] id = "mix" -> MixSlide(i) [] id = "forecast" -> ForecastSlide(i) [] id = "todo" -> TodoSlide(i)] IN
  [id \in StoryIds(i) |->
     IF id = "summary" THEN SummarySlide(i, {part[o] : o \in DOMAIN part \ {"trend"}}) ELSE part[id]]

-----------------------------------------------------------------------------
(* What the rows say. *)

EarnedBy(d, b) == Total({r \in PaidSales(d) : r.barber = b}, LAMBDA r : CommissionOf(r) + TipOf(r))
PaidTo(d, b) == Total({p \in PayoutsOn(d) : p.barber = b}, PaidOutTo)
StillOwed(d) == Total(Staff, LAMBDA b : AtLeastZero(EarnedBy(d, b) - PaidTo(d, b)))

DayIsClear(i, d) ==
  /\ Held(d, d) = {} /\ Unconfirmed(d) = {} /\ StillOwed(d) = 0
  /\ IF CountsOf(d) = {} THEN InProgress(i) \/ PaidSales(d) = {}
     ELSE LatestCount(d).variance = 0 /\ ~IsStale(LatestCount(d))

(* A day nobody sold on, when someone sold before it in this period or the one before;
   a period without any sale is told in the headlines. *)
Missed(i, d) ==
  LET finished == First(d) .. (IF InProgress(i) THEN d - 1 ELSE d) IN
  IF PaidIn(First(d), d) = {} THEN {}
  ELSE {x \in finished : PaidSales(x) = {} /\ PaidIn(d - (2 * RangeDays - 1), x - 1) # {}}

AsksForWhatNeedsIt(i, s, d) ==
  LET items == s["todo"].items
      Asked(what) == Total({x \in items : x.about \in what}, LAMBDA x : x.n) IN
  /\ items = {} <=>
       /\ i.day # NotLoaded => DayIsClear(i, d)
       /\ i.trends # NotLoaded => Held(First(d), d) = {} /\ Missed(i, d) = {}
       /\ i.forecast # NotLoaded =>
            IF i.forecast.saved THEN Today .. Today + Rules.week - 1 \subseteq DOMAIN i.forecast.days ELSE FALSE
  /\ i.trends # NotLoaded =>
       /\ Asked({"confirm dates", "more dates"}) = Cardinality(Held(First(d), d))
       /\ Asked({"gaps"}) = Cardinality(Missed(i, d))
  /\ i.day # NotLoaded => Asked({"extra", "pay out"}) = StillOwed(d)

MoneyIsWhereItSays(i, s, d) ==
  LET OnlyBy(S, methods) == \A r \in S : r.method \in methods \/ AmountOf(r) = 0
      Says(id, about) == \E p \in s[id].points : p.about = about IN
  /\ Says("day", "all cash") => OnlyBy(PaidSales(d), {"CASH"})
  /\ Says("day", "no cash") => OnlyBy(PaidSales(d), {"GCASH", "MAYA", "QRPH"})
  /\ i.day # NotLoaded => Total(DOMAIN i.day.methods, LAMBDA m : i.day.methods[m]) = DayFigures(d, 0).revenue
  /\ HasMix(i) =>
       /\ Says("mix", "all cash") => OnlyBy(PaidIn(First(d), d), {"CASH"})
       /\ \A bars \in {s["mix"].bars.barbers, s["mix"].bars.methods} :
            Total(DOMAIN bars, LAMBDA x : bars[x]) = i.trends.revenue
       /\ \A p \in s["mix"].points : p.about = "digital share" => Size(PaidDigitally(i.trends) - p.n) <= 1

ComparesRightly(i, s) ==
  LET trend == s["trend"].headline
      day == s["day"].headline
      others == OpenDays(i) \ {i.date} IN
  /\ trend.about \in {"more sales", "higher average"} => trend.n > 0
  /\ trend.about \in {"fewer sales", "lower average"} => trend.n < 0
  /\ trend.about = "higher average" => i.trends.revenue * i.trends.previous.sales > i.trends.previous.revenue * i.trends.sales
  /\ day.about \in {"of typical", "against typical"} =>
       /\ day.tone = "up" => i.day.revenue * 200 * Cardinality(others) >= 199 * RevenueOf(i, others)
       /\ day.tone = "down" => i.day.revenue * Cardinality(others) < RevenueOf(i, others)
  /\ day.about = "of typical" => InProgress(i) /\ i.date = Today
  /\ \A p \in s["day"].points : p.about = "pace" => p.n >= i.day.revenue - Rules.rounded

HoursAreRight(i, s) ==
  HasHours(i) =>
    LET t == i.trends from == s["hours"].headline.n IN
    /\ \A h \in DOMAIN t.hours :
         HourSales(t, h .. h + StretchHours - 1) <= HourSales(t, from .. from + StretchHours - 1)
    /\ \A p \in s["hours"].points : p.about = "breaks at" => p.n \notin from .. from + StretchHours - 1
    /\ \A p \in s["hours"].highlight : p.n \in 0 .. 100

(* "The figures the sections above show ... the story only compares and words them"
   (insights/page.tsx:1151): however the page is opened, what the slides say holds of the
   rows.  The list of what needs the owner is empty only when nothing does, a sentence
   about cash or a missed day is true, the named cause of a change moved the same way as
   revenue, and no average or share is of nothing. *)
StoryIsTrue ==
  sold # {} => \A v \in Visits : \A i \in {StoryInput(v, v.date)} : \A s \in {StorySlides(i)} :
    /\ AsksForWhatNeedsIt(i, s, v.date)
    /\ MoneyIsWhereItSays(i, s, v.date)
    /\ ComparesRightly(i, s)
    /\ HoursAreRight(i, s)
=============================================================================
