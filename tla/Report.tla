------------------------------- MODULE Report -------------------------------
(***************************************************************************)
(* What the owner sees of a saved forecast: the next days on the home      *)
(* panel (ForecastPanel.tsx, lib/forecast-chart.ts) and how the methods    *)
(* compared (lib/forecast-comparison.ts, app/forecast/page.tsx,            *)
(* MethodComparison.tsx).  The saved rows are Forecast's.                  *)
(***************************************************************************)
EXTENDS Integers, Sequences, FiniteSets, Functions, Totals

CONSTANTS
  Compared,       \* methods a saved run may have compared, known to the panel or not
  Errors,         \* typical misses, as ranks
  Horizons,       \* FORECAST_HORIZONS
  DayCount,       \* days saved with a run
  NoNumber        \* a day saved without customers

VARIABLES
  isOwner,        \* the owner's cookie
  saved,          \* the run loaded, its comparison and its days
  horizon         \* the horizon chosen on the panel

reportVars == <<isOwner, saved, horizon>>

ASSUME ReportAssumption ==
  /\ DayCount \in Nat /\ Errors \subseteq Nat
  /\ Horizons \subseteq Nat \ {0} /\ Horizons # {} /\ IsFiniteSet(Horizons)

(* METHOD_NAMES in display order; GROUPS are places in it. *)
Methods ==
  <<"average", "weekday", "last7", "naive", "linear", "gboost", "tree", "random_forest",
    "random_forest_last7">>
Groups == <<1 .. 4, 5 .. 7, 8 .. 9>>
Known == Range(Methods)

ComparisonOnly == {"linear", "gboost", "tree"}

(* A run saved before comparisons were lacks all methods. *)
Comparisons == UNION {[S -> Errors] : S \in SUBSET Compared}

-----------------------------------------------------------------------------
(* forecast-comparison.ts.  A row is the place of its method, and a table shows its rows
   by their places. *)

(* buildComparisonView: a method without a name is left out, and an empty group. *)
GroupRows(mean, group) == {p \in group : Methods[p] \in DOMAIN mean}
ComparisonView(mean) == {GroupRows(mean, group) : group \in Range(Groups)} \ {{}}

MethodsInTable(mean) == UNION ComparisonView(mean)

(* The elements of a finite set, each after as many as are before it. *)
InOrder(S, before) ==
  [k \in 1 .. Cardinality(S) |-> CHOOSE x \in S : Cardinality({y \in S : <<y, x>> \in before}) = k - 1]

(* The smallest error first; methods with the same error as in the table. *)
Mean(mean, p) == mean[Methods[p]]
Better(mean) ==
  {pair \in MethodsInTable(mean) \X MethodsInTable(mean) :
     \/ Mean(mean, pair[1]) < Mean(mean, pair[2])
     \/ Mean(mean, pair[1]) = Mean(mean, pair[2]) /\ pair[1] < pair[2]}
Ranked(mean) == InOrder(MethodsInTable(mean), Better(mean))

(* The longest bar is the last one. *)
MaxMean(mean) == Max({Mean(mean, p) : p \in Range(Ranked(mean))} \cup {0})

(* RankedBars: a row's marks (used for this forecast, for comparison only) and its bar,
   in percent and never too short to be seen. *)
Marks(run, p) == <<Methods[p] = run.served, Methods[p] \in ComparisonOnly>>
Bar(mean, p) ==
  IF MaxMean(mean) = 0 THEN 2 ELSE Max({(Mean(mean, p) * 100) \div MaxMean(mean), 2})
Bars(mean) == [k \in DOMAIN Ranked(mean) |-> Bar(mean, Ranked(mean)[k])]

(* MethodComparison, on the owner's insights page: groups without a ranking. *)
MethodTable(run) ==
  {{[method |-> Methods[p], served |-> Methods[p] = run.served] : p \in rows} :
     rows \in ComparisonView(run.mean)}

(* EvaluationBody: the basis is named for any comparison, the table needs a known method. *)
Evaluation(run) == [basis |-> DOMAIN run.mean # {}, table |-> MethodTable(run)]

(* WeekTable: its columns; without weekly detail there are none. *)
WeekColumns(run) == IF run.weeks THEN MethodsInTable(run.mean) ELSE {}

(* ForecastPage. *)
Screen ==
  IF ~isOwner THEN "locked"
  ELSE IF saved.found = "unreachable" THEN "unreachable"
  ELSE IF saved.found = "none" THEN "none"
  ELSE IF ComparisonView(saved.mean) = {} THEN "verdict"
  ELSE IF saved.weeks THEN "weeks" ELSE "ranking"

-----------------------------------------------------------------------------
(* The home panel; today is day 1. *)

(* The first days to come, as many as the horizon. *)
DaysShown ==
  LET coming == {d \in DOMAIN saved.days : d >= 1} IN
  {d \in coming : Cardinality({e \in coming : e < d}) < horizon}

Customers(d) == IF saved.days[d] = NoNumber THEN 0 ELSE saved.days[d]
TotalCustomers == SumOf([d \in DaysShown |-> Customers(d)])

LabelEvery(n) == IF n > 14 THEN 5 ELSE IF n > 7 THEN 2 ELSE 1

(* The first of the highest days that have a number; 0 for none. *)
Numbered == {d \in DaysShown : saved.days[d] # NoNumber}
Highest == Max({saved.days[d] : d \in Numbered})
Busiest == IF Numbered = {} THEN 0 ELSE Min({d \in Numbered : saved.days[d] = Highest})

-----------------------------------------------------------------------------

(* A run's days in a row, made yesterday or today. *)
Weeks == UNION {[start .. start + DayCount - 1 -> {NoNumber, 1, 2}] : start \in {0, 1}}

(* The comparison and the days are told apart by different parts of the page: one of
   them is varied at a time. *)
SavedRuns ==
  {[found |-> "run", mean |-> mean, served |-> served, weeks |-> weeks, days |-> << >>] :
     mean \in Comparisons, served \in Compared, weeks \in BOOLEAN}
  \cup
  {[found |-> "run", mean |-> << >>, served |-> CHOOSE m \in Compared : TRUE, weeks |-> FALSE,
    days |-> days] : days \in Weeks}
NoRun(found) ==
  [found |-> found, mean |-> << >>, served |-> CHOOSE m \in Compared : TRUE, weeks |-> FALSE, days |-> << >>]

ReportInit ==
  /\ isOwner \in BOOLEAN
  /\ saved \in SavedRuns \cup {NoRun("none"), NoRun("unreachable")}
  /\ horizon = Min(Horizons)

(* Switching only slices the saved days. *)
PickHorizon(h) ==
  /\ h # horizon
  /\ horizon' = h
  /\ UNCHANGED <<isOwner, saved>>

ReportNext == \E h \in Horizons : PickHorizon(h)

ReportSpec == ReportInit /\ [][ReportNext]_reportVars

(* The known methods compared, each once, the best first and the worst with the longest
   bar. *)
RankingOK(mean) ==
  LET ranked == Ranked(mean)
      bars == Bars(mean) IN
  /\ {Methods[p] : p \in Range(ranked)} = Known \cap DOMAIN mean
  /\ \A i, j \in DOMAIN ranked : i < j => /\ ranked[i] # ranked[j]
                                          /\ Mean(mean, ranked[i]) <= Mean(mean, ranked[j])
                                          /\ bars[i] <= bars[j]
  /\ ranked # << >> => /\ Mean(mean, ranked[Len(ranked)]) = MaxMean(mean)
                       /\ MaxMean(mean) > 0 => bars[Len(ranked)] = 100

(* The owner's other tables list the same methods, each in one group, and mark the same
   one as used. *)
TablesOK(run) ==
  LET shown == Range(Ranked(run.mean))
      rows == UNION MethodTable(run) IN
  /\ {row.method : row \in rows} = {Methods[p] : p \in shown}
  /\ \A a, b \in ComparisonView(run.mean) : a = b \/ a \cap b = {}
  /\ {row.method : row \in {r \in rows : r.served}} = {Methods[p] : p \in {q \in shown : Marks(run, q)[1]}}
  /\ WeekColumns(run) \subseteq shown
  /\ Evaluation(run).table # {} => Evaluation(run).basis

(* The busiest day the chart names has the most customers of the days in the table under
   it, whose total is at least that day's. *)
DaysOK ==
  /\ Cardinality(DaysShown) <= horizon /\ LabelEvery(Cardinality(DaysShown)) \in {1, 2, 5}
  /\ IF Busiest = 0 THEN TotalCustomers = 0
     ELSE /\ Busiest \in DaysShown
          /\ \A d \in DaysShown : Customers(d) <= Customers(Busiest)
          /\ TotalCustomers >= Customers(Busiest)

(* The report is shown to nobody but the owner, and what it says is true of the run. *)
ReportTypeOK ==
  /\ saved.found \in {"unreachable", "none", "run"} /\ horizon \in Horizons
  /\ RankingOK(saved.mean)
  /\ Screen \in {"weeks", "ranking"} => isOwner /\ Range(Ranked(saved.mean)) # {}
  /\ TablesOK(saved)
  /\ DaysOK
=============================================================================
