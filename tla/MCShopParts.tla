---------------------------- MODULE MCShopParts ----------------------------
(* An instance of ShopParts for TLC. *)
EXTENDS ShopParts, TLC

CONSTANTS x1, b1, s1, s2

MCBill == x1 :> [barber |-> b1, amount |-> 2, tip |-> 0, commission |-> 1]

(* Saves against each other, with and without a sale that is synced meanwhile; a save
   against reviews and against a load; loads against each other and against a review. *)
MCMixes ==
  {[save |-> 3, review |-> 0, load |-> 0, sync |-> 0], [save |-> 2, review |-> 0, load |-> 0, sync |-> 1],
   [save |-> 1, review |-> 2, load |-> 0, sync |-> 1], [save |-> 1, review |-> 0, load |-> 1, sync |-> 1],
   [save |-> 0, review |-> 0, load |-> 2, sync |-> 1], [save |-> 0, review |-> 1, load |-> 1, sync |-> 1]}

MCPrice == "haircut" :> 25 @@ "color" :> 60

Plain == [service |-> "haircut", custom |-> 0, loyalty |-> FALSE, tip |-> 0]
Row(i, t) ==
  [id |-> i, ticket |-> t, legacy |-> FALSE, barber |-> "b1", method |-> "CASH", status |-> "PAID",
   day |-> 1, hour |-> 11, flagged |-> FALSE, reviewed |-> Unreviewed]

(* A plain sale, a loyalty sale, a custom amount with a tip, a flagged sale rung up before
   opening, a pending QR Ph sale after closing, a legacy sale of a barber who left. *)
MCSales ==
  {Row(1, Plain),
   [Row(2, [Plain EXCEPT !.loyalty = TRUE]) EXCEPT !.day = 2, !.hour = 15, !.barber = "b2"],
   [Row(3, [Plain EXCEPT !.custom = 30, !.loyalty = TRUE, !.tip = 20])
      EXCEPT !.method = "GCASH", !.day = 3],
   [Row(4, [Plain EXCEPT !.service = "color", !.tip = 50]) EXCEPT !.day = 0, !.hour = 9, !.flagged = TRUE],
   [Row(5, Plain) EXCEPT !.method = "QRPH", !.status = "PENDING", !.day = 3, !.hour = 22],
   [Row(6, [Plain EXCEPT !.loyalty = TRUE])
      EXCEPT !.legacy = TRUE, !.method = "MAYA", !.day = 0, !.barber = "b3"]}

(* Too little, too much, to one who earned nothing. *)
MCPayouts ==
  {[barber |-> "b1", day |-> 3, cash |-> 13, gcash |-> 6, marked |-> TRUE],
   [barber |-> "b1", day |-> 3, cash |-> 60, gcash |-> 0, marked |-> FALSE],
   [barber |-> "b2", day |-> 3, cash |-> 6, gcash |-> 0, marked |-> TRUE],
   [barber |-> "b3", day |-> 1, cash |-> 0, gcash |-> 6, marked |-> TRUE]}

(* A loyalty sale by QR Ph to be confirmed, one by GCash that waits for its date. *)
MCShownSales ==
  {[Row(7, [Plain EXCEPT !.loyalty = TRUE]) EXCEPT !.method = "QRPH", !.status = "PENDING", !.day = 3],
   [Row(8, [Plain EXCEPT !.tip = 11]) EXCEPT !.method = "GCASH", !.day = 3, !.flagged = TRUE, !.barber = "b2"]}
MCShownPayouts == {[barber |-> "b1", day |-> 3, cash |-> 13, gcash |-> 6, marked |-> TRUE]}
MCShownCounts == {[day |-> 3, petty |-> 5, variance |-> 0]}
MCForecasts ==
  {[saved |-> FALSE, days |-> << >>], [saved |-> TRUE, days |-> 1 :> 2 @@ 2 :> 2],
   [saved |-> TRUE, days |-> 2 :> 4 @@ 3 :> NoFigure @@ 4 :> 2 @@ 5 :> 1]}

(* Thresholds that three sales in three days can reach. *)
MCRules ==
  [paceSales |-> 1, rounded |-> 10, fortnight |-> 2, halves |-> 2, compared |-> 1, enough |-> 2, bars |-> 2,
   week |-> 2, weekend |-> {0}, weekdays |-> 1, seenTwice |-> 1, regular |-> 1]

Saved(days, won) == [saved |-> TRUE, won |-> won, tested |-> 3, days |-> days]
MCVisits ==
  {[date |-> Today, hour |-> 9, loaded |-> {"day", "trends", "forecast"}, gateway |-> TRUE,
    forecast |-> Saved(2 :> 4 @@ 3 :> 5 @@ 4 :> 2, 1)],
   [date |-> Today, hour |-> 13, loaded |-> {"day", "trends", "forecast"}, gateway |-> FALSE,
    forecast |-> Saved(3 :> 1, 2)],
   [date |-> Today - 1, hour |-> 13, loaded |-> {"day", "trends", "forecast"}, gateway |-> FALSE,
    forecast |-> Saved(2 :> 2 @@ 3 :> 3, 3)],
   [date |-> Today, hour |-> 22, loaded |-> {"day", "trends"}, gateway |-> FALSE, forecast |-> Saved(2 :> 1, 2)],
   [date |-> Today, hour |-> 22, loaded |-> {"day", "forecast"}, gateway |-> FALSE,
    forecast |-> [saved |-> FALSE, won |-> 0, tested |-> 0, days |-> <<>>]],
   [date |-> Today, hour |-> 22, loaded |-> {"trends", "forecast"}, gateway |-> TRUE,
    forecast |-> Saved(2 :> 4, 2)]}

MCCounts == {[day |-> 3, petty |-> 5, variance |-> 0], [day |-> 3, petty |-> 0, variance |-> -1]}
=============================================================================
