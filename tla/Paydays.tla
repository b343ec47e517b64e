------------------------------ MODULE Paydays ------------------------------
(***************************************************************************)
(* The payday input of the forecast's model (ml-service/pipeline.py):      *)
(* the days since the shop's latest payday, on the 15th and the 30th, in   *)
(* February on its last day.                                               *)
(***************************************************************************)
EXTENDS Integers, FiniteSets, FiniteSetsExt

CONSTANT
  Years           \* years whose dates are looked at, one after the other

ASSUME YearsAssumption == Years \subseteq Nat \ {0} /\ Years # {} /\ IsFiniteSet(Years)

Leap(y) == y % 4 = 0 /\ (y % 100 # 0 \/ y % 400 = 0)

(* calendar.monthrange. *)
MonthLength(y, m) ==
  IF m = 2 THEN IF Leap(y) THEN 29 ELSE 28 ELSE IF m \in {4, 6, 9, 11} THEN 30 ELSE 31

(* _second_payday. *)
SecondPayday(y, m) == IF m = 2 THEN MonthLength(y, m) ELSE 30

(* _days_since_payday. *)
DaysSincePayday(y, m, d) ==
  LET second == SecondPayday(y, m)
      lastY == IF m > 1 THEN y ELSE y - 1
      lastM == IF m > 1 THEN m - 1 ELSE 12 IN
  CASE d >= second -> d - second
    [] d < second /\ d >= 15 -> d - 15
    [] OTHER -> d + MonthLength(lastY, lastM) - SecondPayday(lastY, lastM)

-----------------------------------------------------------------------------
(* The same by counting days. *)

(* From the year before the first. *)
Months == (Min(Years) - 1 .. Max(Years)) \X (1 .. 12)

Before(month) == {n \in Months : n[1] < month[1] \/ (n[1] = month[1] /\ n[2] < month[2])}

DaysBefore ==
  [month \in Months |-> MapThenSumSet(LAMBDA n : MonthLength(n[1], n[2]), Before(month))]

(* PAYDAY_RULE. *)
Paydays ==
  UNION {{DaysBefore[n] + 15, DaysBefore[n] + SecondPayday(n[1], n[2])} : n \in Months}

(* "Days since the latest payday on or before the date" (pipeline.py:144): so many days
   before every date of these years there was a payday, and none has been since. *)
PaydaysAreLatest ==
  \A month \in Years \X (1 .. 12) : \A d \in 1 .. MonthLength(month[1], month[2]) :
    LET since == DaysSincePayday(month[1], month[2], d)
        date == DaysBefore[month] + d IN
    {k \in 0 .. since : date - k \in Paydays} = {since}
=============================================================================
