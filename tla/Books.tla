------------------------------- MODULE Books -------------------------------
(***************************************************************************)
(* The owner's books: which sales count on a day, the saved drawer counts  *)
(* (revisions) and whether they are stale, the payout rows, and the date   *)
(* review of flagged sales.  Sales arrive, are confirmed by the gateway    *)
(* and are reviewed while other handlers read and write, each handler      *)
(* interleaving at its awaits.                                             *)
(***************************************************************************)
EXTENDS Integers, FiniteSets, FiniteSetsExt, Totals

CONSTANTS
  Sales,
  Bill,            \* sale -> [barber, amount, tip, commission]
  Methods,         \* bound: payment methods that occur
  Barbers,         \* active barbers
  MaxTime,         \* bound: the shop PC's clock
  TicksPerDay,     \* clock ticks of a business day
  StatedTimes,     \* bound: times a phone states
  Tolerance,       \* CLOCK_TOLERANCE_MS
  OwnerDays,       \* bound: days the owner saves and loads
  PettyCash,       \* bound: petty cash entered with a count
  Amounts,         \* bound: cash payments entered
  MaxAttempts,     \* MAX_REVISION_ATTEMPTS
  MaxRevisions,    \* bound: revisions of a day
  Slots,           \* bound: handlers running at once
  Mixes,           \* bound: how many handlers of each kind start
  None

VARIABLES
  clock,
  sale,            \* transactions: sale -> row or None
  arriving,        \* sale -> the row of a sync transaction not committed yet, or None
  revision,        \* shift_reconciliations
  payout,          \* daily_payout_ledgers: the rows there are, by <<barber, day>>
  posted,          \* <<barber, day>> -> the payment the owner saved last (history)
  call,            \* slot -> the handler in it, or None
  left             \* kind -> handlers that may still start

booksVars == <<clock, sale, arriving, revision, payout, posted, call, left>>

Time == 0 .. MaxTime
Never == -1

(* parseBusinessDate, manilaToday: the day a time falls in. *)
DayOf(t) == t \div TicksPerDay
Days == {DayOf(t) : t \in Time}

Choice == {"STATED_DATE", "RECEIVED_DATE"}

SaleRow ==
  [method : Methods, stated : StatedTimes, syncedAt : Time, flagged : BOOLEAN,
   status : {"PENDING", "PAID"}, paidAt : Time \cup {Never},
   reviewedAt : Time \cup {Never}, choice : Choice \cup {None},
   reviewedDate : Days \cup {None}]

(* None is no number, barber or row; no bill has a negative part, and no amount entered
   is negative (schemas.ts, payouts/route.ts:24, reconciliation/route.ts:23). *)
ASSUME BooksAssumption ==
  /\ MaxTime \in Nat /\ TicksPerDay \in Nat \ {0}
  /\ StatedTimes \subseteq Time
  /\ OwnerDays \subseteq Days
  /\ None \notin Int
  /\ None \notin Barbers
  /\ None \notin SaleRow
  /\ IsFiniteSet(Sales) /\ IsFiniteSet(Barbers)
  /\ \A x \in Sales : {Bill[x].amount, Bill[x].commission, Bill[x].tip} \subseteq Nat
  /\ PettyCash \subseteq Nat /\ Amounts \subseteq Nat
  /\ MaxAttempts \in Nat \ {0} /\ MaxRevisions \in Nat
  /\ Mixes \subseteq [{"save", "review", "load", "sync"} -> Nat]

(* cashPaid and "paid"; gcashPaid enters no sum here. *)
Payment == [cash : Amounts, marked : BOOLEAN]
Unpaid == [cash |-> 0, marked |-> FALSE]

Revision ==
  [day : Days, number : 1 .. MaxRevisions, expectedCash : Int, pettyCash : PettyCash,
   reconciledAt : Time,
   saw : SUBSET Sales,       \* the sales it was computed from
   open : SUBSET Sales]      \* sales whose write was under way when it was read (history)

-----------------------------------------------------------------------------
(* lib/time-anomaly.ts: a sale is flagged when the phone's clock is off or the sale
   lies in the future. *)
DetectTimeAnomaly(stated, sentAt, serverNow) ==
  \/ sentAt # None /\ (sentAt - serverNow > Tolerance \/ serverNow - sentAt > Tolerance)
  \/ stated - serverNow > Tolerance

(* lib/time-review.ts: the one rule for the day a sale counts on. *)
CountsOnDay(x, d) ==
  /\ sale[x] # None
  /\ IF sale[x].flagged THEN sale[x].reviewedDate = d ELSE DayOf(sale[x].stated) = d

PaidOn(d) == {x \in Sales : CountsOnDay(x, d) /\ sale[x].status = "PAID"}

(* computeExpected's "expectedDrawerCash", from the sales and payments it read. *)
DrawerCash(paid, cashPayouts, pettyCash) ==
  Total({x \in paid : sale[x].method = "CASH"}, LAMBDA x : Bill[x].amount + Bill[x].tip)
    - cashPayouts - pettyCash

CashPayouts(d) ==
  Total({b \in Barbers : <<b, d>> \in DOMAIN payout /\ payout[<<b, d>>].paid.marked},
        LAMBDA b : payout[<<b, d>>].paid.cash)

(* totalsForDate for one barber: commission and tips, from the snapshots. *)
Owed(paid, b) ==
  Total({x \in paid : Bill[x].barber = b}, LAMBDA x : Bill[x].commission + Bill[x].tip)

Revisions(d) == {r \in revision : r.day = d}
LatestNumber(d) == IF Revisions(d) = {} THEN 0 ELSE Max({r.number : r \in Revisions(d)})
LatestOf(d) == CHOOSE r \in Revisions(d) : r.number = LatestNumber(d)

(* computeStaleness of a saved revision: the drawer moved, or a sale was synced,
   confirmed or reviewed onto its day after reconciledAt. *)
Stale(r) ==
  \/ DrawerCash(PaidOn(r.day), CashPayouts(r.day), r.pettyCash) # r.expectedCash
  \/ \E x \in Sales : /\ sale[x] # None /\ ~ sale[x].flagged
                      /\ DayOf(sale[x].stated) = r.day
                      /\ sale[x].syncedAt > r.reconciledAt
  \/ \E x \in Sales : CountsOnDay(x, r.day) /\ sale[x].paidAt > r.reconciledAt
  \/ \E x \in Sales : /\ sale[x] # None /\ sale[x].flagged
                      /\ sale[x].reviewedDate = r.day
                      /\ sale[x].reviewedAt > r.reconciledAt

-----------------------------------------------------------------------------
(* The handlers: POST reconciliation, POST time-review, GET and POST payouts. *)
Save ==
  [kind : {"save"}, day : Days, petty : PettyCash, at : Time, saw : (SUBSET Sales) \cup {None},
   open : SUBSET Sales, cashPayouts : Int \cup {None}, previous : Nat \cup {None},
   attempt : 1 .. MaxAttempts]
Review ==
  [kind : {"review"}, sale : Sales, choice : Choice, at : Time, date : Days \cup {None}]
Load ==
  [kind : {"load"}, day : Days, payer : Barbers \cup {None}, paid : Payment \cup {Unpaid},
   totals : [Barbers -> Int] \cup {None}, todo : SUBSET Barbers]

Keys == Barbers \X Days
PayoutRow == [owed : Int, paid : Payment \cup {Unpaid}]

BooksTypeOK ==
  /\ clock \in Time
  /\ sale \in [Sales -> SaleRow \cup {None}]
  /\ arriving \in [Sales -> SaleRow \cup {None}]
  /\ revision \subseteq Revision
  /\ DOMAIN payout \subseteq Keys
  /\ \A k \in DOMAIN payout : payout[k] \in PayoutRow
  /\ posted \in [Keys -> Payment \cup {Unpaid}]
  /\ call \in [Slots -> Save \cup Review \cup Load \cup {None}]
  /\ left \in [{"save", "review", "load", "sync"} -> Nat]

BooksInit ==
  /\ clock = 0
  /\ sale = [x \in Sales |-> None]
  /\ arriving = [x \in Sales |-> None]
  /\ revision = {}
  /\ payout = [k \in {} |-> None]
  /\ posted = [k \in Keys |-> Unpaid]
  /\ call = [s \in Slots |-> None]
  /\ left \in Mixes

Tick ==
  /\ clock < MaxTime
  /\ clock' = clock + 1
  /\ UNCHANGED <<sale, arriving, revision, payout, posted, call, left>>

(* transactions/sync: the row is stamped and flagged, then its transaction commits
   or fails (the phone sends the sale again). *)
StampSale(x) ==
  /\ left["sync"] > 0
  /\ left' = [left EXCEPT !["sync"] = @ - 1]
  /\ sale[x] = None
  /\ arriving[x] = None
  /\ \E method \in Methods, stated \in StatedTimes, sentAt \in Time \cup {None} :
       arriving' = [arriving EXCEPT ![x] =
         [method |-> method, stated |-> stated, syncedAt |-> clock,
          flagged |-> DetectTimeAnomaly(stated, sentAt, clock),
          status |-> IF method = "QRPH" THEN "PENDING" ELSE "PAID",
          paidAt |-> Never, reviewedAt |-> Never, choice |-> None, reviewedDate |-> None]]
  /\ UNCHANGED <<clock, sale, revision, payout, posted, call>>

CommitSale(x) ==
  /\ arriving[x] # None
  /\ arriving' = [arriving EXCEPT ![x] = None]
  /\ \/ sale' = [sale EXCEPT ![x] = arriving[x]]
     \/ UNCHANGED sale
  /\ UNCHANGED <<clock, revision, payout, posted, call, left>>

(* applyGatewayStatus: PayMongo dates the payment itself (paid_at), however late the
   server hears of it. *)
ConfirmSale(x) ==
  /\ sale[x] # None
  /\ sale[x].status = "PENDING"
  /\ \E t \in sale[x].syncedAt .. clock :
       sale' = [sale EXCEPT ![x].status = "PAID", ![x].paidAt = t]
  /\ UNCHANGED <<clock, arriving, revision, payout, posted, call, left>>

Goto(s, r) == call' = [call EXCEPT ![s] = r]

Done(s) == Goto(s, None)

(* A handler starts in a free slot. *)
Begin(r) ==
  /\ left[r.kind] > 0
  /\ left' = [left EXCEPT ![r.kind] = @ - 1]
  /\ \E s \in Slots : call[s] = None /\ Goto(s, r)

Is(s, kind) == call[s] # None /\ call[s].kind = kind

(* A handler fails (500), or the server restarts under it: what it wrote stays. *)
Abandon(s) ==
  /\ call[s] # None
  /\ Done(s)
  /\ UNCHANGED <<clock, sale, arriving, revision, payout, posted, left>>

-----------------------------------------------------------------------------
(* POST reports/reconciliation *)

UnderWay ==
  {x \in Sales : arriving[x] # None \/ \E s \in Slots : Is(s, "review") /\ call[s].sale = x}

(* A day that has not begun is refused; reconciledAt is taken before anything is read. *)
BeginSave ==
  /\ \E d \in OwnerDays, petty \in PettyCash :
       /\ d <= DayOf(clock)
       /\ Begin([kind |-> "save", day |-> d, petty |-> petty, at |-> clock,
                 saw |-> None, open |-> {}, cashPayouts |-> None,
                 previous |-> None, attempt |-> 1])
  /\ UNCHANGED <<clock, sale, arriving, revision, payout, posted>>

SalesRead(r) == [r EXCEPT !.saw = PaidOn(r.day), !.open = UnderWay]

(* computeExpected: two queries at once, in either order. *)
ReadSales(s) ==
  /\ Is(s, "save") /\ call[s].saw = None
  /\ Goto(s, SalesRead(call[s]))
  /\ UNCHANGED <<clock, sale, arriving, revision, payout, posted, left>>

ReadPayouts(s) ==
  /\ Is(s, "save") /\ call[s].cashPayouts = None
  /\ Goto(s, [call[s] EXCEPT !.cashPayouts = CashPayouts(call[s].day)])
  /\ UNCHANGED <<clock, sale, arriving, revision, payout, posted, left>>

ReadLatest(s) ==
  LET r == call[s] IN
  /\ Is(s, "save") /\ r.saw # None /\ r.cashPayouts # None /\ r.previous = None
  /\ Goto(s, [r EXCEPT !.previous = LatestNumber(r.day)])
  /\ UNCHANGED <<clock, sale, arriving, revision, payout, posted, left>>

(* Mutation of NewRevision: reconciledAt is left to the column's default, now(). *)
NewRevisionDefault(r) ==
  [day |-> r.day, number |-> r.previous + 1, pettyCash |-> r.petty, reconciledAt |-> clock,
   expectedCash |-> DrawerCash(r.saw, r.cashPayouts, r.petty),
   saw |-> r.saw, open |-> r.open]

NewRevision(r) ==
  [day |-> r.day, number |-> r.previous + 1, pettyCash |-> r.petty, reconciledAt |-> r.at,
   expectedCash |-> DrawerCash(r.saw, r.cashPayouts, r.petty),
   saw |-> r.saw, open |-> r.open]

(* Mutation of CreateRevision: an upsert on (date, revision). *)
CreateRevisionUpsert(s) ==
  LET r == call[s] IN
  /\ Is(s, "save") /\ r.previous # None /\ r.previous < MaxRevisions
  /\ revision' = {q \in revision : ~ (q.day = r.day /\ q.number = r.previous + 1)}
                   \cup {NewRevision(r)}
  /\ Done(s)
  /\ UNCHANGED <<clock, sale, arriving, payout, posted, left>>

(* Mutation of CreateRevision: it retries as long as it takes. *)
CreateRevisionRetrying(s) ==
  LET r == call[s]
      taken == \E q \in Revisions(r.day) : q.number = r.previous + 1 IN
  /\ Is(s, "save") /\ r.previous # None /\ r.previous < MaxRevisions
  /\ \/ ~ taken /\ revision' = revision \cup {NewRevision(r)} /\ Done(s)
     \/ taken /\ UNCHANGED revision /\ Goto(s, [r EXCEPT !.previous = None, !.attempt = @ + 1])
  /\ UNCHANGED <<clock, sale, arriving, payout, posted, left>>

(* The unique (date, revision) refuses a number taken meanwhile: read again and
   retry, or 409 after MAX_REVISION_ATTEMPTS. *)
CreateRevision(s) ==
  LET r == call[s]
      taken == \E q \in Revisions(r.day) : q.number = r.previous + 1 IN
  /\ Is(s, "save") /\ r.previous # None /\ r.previous < MaxRevisions
  /\ \/ ~ taken /\ revision' = revision \cup {NewRevision(r)} /\ Done(s)
     \/ /\ taken /\ UNCHANGED revision
        /\ IF r.attempt < MaxAttempts
           THEN Goto(s, [r EXCEPT !.previous = None, !.attempt = @ + 1])
           ELSE Done(s)
  /\ UNCHANGED <<clock, sale, arriving, payout, posted, left>>

-----------------------------------------------------------------------------
(* POST reports/time-review: reviewSaleDate.  Its time is that of the call. *)

BeginReview(x) ==
  /\ \E c \in Choice : Begin([kind |-> "review", sale |-> x, choice |-> c,
                              at |-> clock, date |-> None])
  /\ UNCHANGED <<clock, sale, arriving, revision, payout, posted>>

(* Refused when unknown, not flagged or reviewed already, and while the confirmed
   date lies in the future. *)
ReadReview(s) ==
  LET r == call[s]
      row == sale[r.sale]
      date == DayOf(IF r.choice = "STATED_DATE" THEN row.stated ELSE row.syncedAt) IN
  /\ Is(s, "review") /\ r.date = None
  /\ IF row # None /\ row.flagged /\ row.reviewedAt = Never /\ date <= DayOf(r.at)
     THEN Goto(s, [r EXCEPT !.date = date])
     ELSE Done(s)
  /\ UNCHANGED <<clock, sale, arriving, revision, payout, posted, left>>

Reviewed(row, r) ==
  [row EXCEPT !.reviewedAt = r.at, !.choice = r.choice, !.reviewedDate = r.date]

(* Mutation of WriteReview: not conditional. *)
WriteReviewAnyway(s) ==
  LET r == call[s] IN
  /\ Is(s, "review") /\ r.date # None
  /\ sale' = [sale EXCEPT ![r.sale] = Reviewed(@, r)]
  /\ Done(s)
  /\ UNCHANGED <<clock, arriving, revision, payout, posted, left>>

(* Conditional on "not reviewed yet"; otherwise the other review is answered. *)
WriteReview(s) ==
  LET r == call[s] IN
  /\ Is(s, "review") /\ r.date # None
  /\ sale' = IF sale[r.sale].reviewedAt = Never
             THEN [sale EXCEPT ![r.sale] = Reviewed(@, r)] ELSE sale
  /\ Done(s)
  /\ UNCHANGED <<clock, arriving, revision, payout, posted, left>>

-----------------------------------------------------------------------------
(* reports/payouts: GET, and POST with the payment of one barber (payer). *)

BeginLoad ==
  /\ \E d \in OwnerDays, b \in Barbers \cup {None} :
     \E paid \in IF b = None THEN {Unpaid} ELSE Payment :
       Begin([kind |-> "load", day |-> d, payer |-> b, paid |-> paid,
              totals |-> None, todo |-> {}])
  /\ UNCHANGED <<clock, sale, arriving, revision, payout, posted>>

(* Mutation of TotalsRead: sales not confirmed yet are owed, too. *)
TotalsReadPending(d) == [b \in Barbers |-> Owed({x \in Sales : CountsOnDay(x, d)}, b)]

TotalsRead(d) == [b \in Barbers |-> Owed(PaidOn(d), b)]

ReadTotals(s) ==
  LET r == call[s] IN
  /\ Is(s, "load") /\ r.totals = None
  /\ Goto(s, [r EXCEPT !.totals = TotalsRead(r.day), !.todo = Barbers])
  /\ UNCHANGED <<clock, sale, arriving, revision, payout, posted, left>>

(* Mutation of Refreshed: the payment goes back to what it was at creation. *)
RefreshedWhole(k, owed) == [owed |-> owed, paid |-> Unpaid]

(* The upsert of syncLedgerRows: never the payment fields. *)
Refreshed(k, owed) ==
  IF k \in DOMAIN payout THEN [payout[k] EXCEPT !.owed = owed] ELSE [owed |-> owed, paid |-> Unpaid]

WriteRow(s) ==
  LET r == call[s] IN
  /\ Is(s, "load")
  /\ \E b \in r.todo :
       /\ payout' = [k \in DOMAIN payout \cup {<<b, r.day>>} |->
                       IF k = <<b, r.day>> THEN Refreshed(k, r.totals[b]) ELSE payout[k]]
       /\ Goto(s, [r EXCEPT !.todo = @ \ {b}])
  /\ UNCHANGED <<clock, sale, arriving, revision, posted, left>>

(* All rows are written: GET answers, POST saves its barber's payment. *)
FinishLoad(s) ==
  LET r == call[s] IN
  /\ Is(s, "load") /\ r.totals # None /\ r.todo = {}
  /\ IF r.payer = None THEN UNCHANGED <<payout, posted>>
     ELSE /\ payout' = [payout EXCEPT ![<<r.payer, r.day>>].paid = r.paid]
          /\ posted' = [posted EXCEPT ![<<r.payer, r.day>>] = r.paid]
  /\ Done(s)
  /\ UNCHANGED <<clock, sale, arriving, revision, left>>

BooksNext ==
  \/ Tick
  \/ \E x \in Sales : StampSale(x) \/ CommitSale(x) \/ ConfirmSale(x) \/ BeginReview(x)
  \/ BeginSave \/ BeginLoad
  \/ \E s \in Slots :
       \/ ReadSales(s) \/ ReadPayouts(s) \/ ReadLatest(s) \/ CreateRevision(s)
       \/ ReadReview(s) \/ WriteReview(s)
       \/ ReadTotals(s) \/ WriteRow(s) \/ FinishLoad(s)
       \/ Abandon(s)

BooksSpec == BooksInit /\ [][BooksNext]_booksVars

-----------------------------------------------------------------------------
(* "Earlier revisions are never modified" (reconciliation/route.ts:73): however many
   owners save at once, a day's revisions are numbered 1, 2, 3 ... and only ever
   appended to. *)
DayLog ==
  [d \in Days |-> [n \in 1 .. Cardinality(Revisions(d)) |->
                   CHOOSE r \in Revisions(d) : r.number = n]]

Log == INSTANCE AppendOnlyLog WITH Keys <- Days, log <- DayLog

RevisionsAreALog == Log!Spec

(* "money already counted on a day (and maybe paid out) never moves silently"
   (time-review.ts:116), and each sale counts on at most one day (:11). *)
MoneyStaysOnItsDay ==
  [][\A d \in Days : /\ PaidOn(d) \subseteq PaidOn(d)'
                     /\ \A e \in Days \ {d} : PaidOn(d)' \cap PaidOn(e)' = {}]_booksVars

(* "this reports whether the day has moved on since" (reconciliation.ts:123): a sale
   counted now that the saved count did not see makes it stale, except a sale whose
   write was under way while the count was read or carries the same time as it, and a
   QR payment that PayMongo dates before the save. *)
EveryChangeIsNoticed ==
  \A d \in Days : Revisions(d) # {} =>
    LET r == LatestOf(d) IN
    \A x \in PaidOn(d) \ r.saw :
      \/ Stale(r)
      \/ x \in r.open
      \/ r.reconciledAt \in {sale[x].syncedAt, sale[x].reviewedAt}
      \/ sale[x].method = "QRPH" /\ sale[x].paidAt <= r.reconciledAt

(* "Payment fields are only written by POST" (payouts/route.ts:54): loads that run
   beside it never lose the payment the owner saved last. *)
PaidAsPosted ==
  \A k \in Keys :
    posted[k] = IF k \in DOMAIN payout THEN payout[k].paid ELSE Unpaid

(* Loads overlap and an older one may write last, so a stored row can lag behind the
   day's sales; it never says more is owed than they earned. *)
OwedIsEarned ==
  \A k \in DOMAIN payout : payout[k].owed <= Owed(PaidOn(k[2]), k[1])
=============================================================================
