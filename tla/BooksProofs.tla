---------------------------- MODULE BooksProofs ----------------------------
(***************************************************************************)
(* The properties of Books, for any number of sales, barbers, owners and   *)
(* handlers running at once.  BooksInv says what each handler may rely on  *)
(* at the await it stands at: which sales a save can have missed, that the *)
(* revision number it is about to take is the next one or taken, that a    *)
(* review still finds the sale it read, and which payout rows a load has   *)
(* written.  That no row says more is owed than was earned rests on the   *)
(* lemmas about sums (Sums).                                               *)
(***************************************************************************)
EXTENDS Books, Sums, SequenceTheorems

(* A handler r: the fields of its kind, typed where it matters. *)
SaveCall(r) ==
  r \in [kind : {"save"}, day : Days, petty : {r.petty}, at : Time, saw : {r.saw},
         open : {r.open}, cashPayouts : {r.cashPayouts}, previous : Nat \cup {None},
         attempt : {r.attempt}]

ReviewCall(r) ==
  r \in [kind : {"review"}, sale : Sales, choice : Choice, at : Time,
         date : Days \cup {None}]

LoadCall(r) ==
  r \in [kind : {"load"}, day : Days, payer : Barbers \cup {None}, paid : {r.paid},
         totals : {r.totals}, todo : SUBSET Barbers]

CallShape(r) == SaveCall(r) \/ ReviewCall(r) \/ LoadCall(r)

Shapes ==
  /\ clock \in Time
  /\ sale \in [Sales -> SaleRow \cup {None}]
  /\ arriving \in [Sales -> SaleRow \cup {None}]
  /\ \A q \in revision : q.day \in Days /\ q.number \in Nat /\ q.reconciledAt \in Time
  /\ DOMAIN payout \subseteq Keys
  /\ \A k \in DOMAIN payout : payout[k] = [owed |-> payout[k].owed, paid |-> payout[k].paid]
  /\ DOMAIN posted = Keys
  /\ DOMAIN call = Slots
  /\ \A s \in Slots : call[s] # None => CallShape(call[s])

(* A row that has arrived: confirmed or not waiting for the gateway, reviewed or not. *)
RowFits(row) ==
  /\ row.status = "PENDING" => row.method = "QRPH"
  /\ row.method = "QRPH" /\ row.status = "PAID" => row.paidAt # Never
  /\ row.reviewedAt = Never => row.reviewedDate = None

(* A sale is in one place, and not reviewed on its way in. *)
RowsFit ==
  \A x \in Sales :
    /\ sale[x] # None => RowFits(sale[x])
    /\ arriving[x] # None =>
         sale[x] = None /\ RowFits(arriving[x]) /\ arriving[x].reviewedAt = Never

(* A review that is about to write has found a flagged sale. *)
ReviewsFit ==
  \A s \in Slots :
    Is(s, "review") /\ call[s].date # None => sale[call[s].sale] # None /\ sale[call[s].sale].flagged

(* The revisions of a day are numbered 1 .. N, each number once. *)
Numbered(S) ==
  /\ IsFiniteSet(S)
  /\ \A q \in S : q.number \in 1 .. Cardinality(S)
  /\ \A n \in 1 .. Cardinality(S) : \E q \in S : q.number = n
  /\ \A p, q \in S : p.number = q.number => p = q

AllNumbered == \A d \in Days : Numbered(Revisions(d))

(* A save that has read the latest number has read the sales, and the number is still
   that of a revision. *)
SavesFit ==
  \A s \in Slots, d \in Days :
    Is(s, "save") /\ call[s].previous # None /\ call[s].day = d =>
      /\ call[s].saw # None
      /\ call[s].previous \in 0 .. Cardinality(Revisions(d))

(* What was counted for a day at a time: the sales seen, those whose write was under way,
   and the rows there are now.  A sale that counts now was seen, was under way, or bears
   a time not before the count. *)
Noticed(x, row, d, saw, open, at) ==
  row # None /\ row.status = "PAID" /\ x \notin saw
    /\ (IF row.flagged THEN row.reviewedDate = d ELSE DayOf(row.stated) = d) =>
       \/ x \in open
       \/ ~ row.flagged /\ row.syncedAt >= at
       \/ row.flagged /\ row.reviewedAt >= at
       \/ row.method = "QRPH" /\ row.paidAt # Never

(* No write under way can slip past a count unnoticed. *)
Awaited(open, at) ==
  /\ at <= clock
  /\ \A x \in Sales : arriving[x] # None => x \in open \/ arriving[x].syncedAt >= at
  /\ \A s \in Slots : Is(s, "review") => call[s].sale \in open \/ call[s].at >= at

CountFits(d, saw, open, at) ==
  /\ \A x \in Sales : Noticed(x, sale[x], d, saw, open, at)
  /\ Awaited(open, at)

CountsFit ==
  /\ \A q \in revision : CountFits(q.day, q.saw, q.open, q.reconciledAt)
  /\ \A s \in Slots :
       Is(s, "save") => /\ call[s].at <= clock
                        /\ call[s].saw # None =>
                             CountFits(call[s].day, call[s].saw, call[s].open, call[s].at)

(* A load has written the rows that are not left to do. *)
LoadsFit ==
  \A s \in Slots :
    Is(s, "load") /\ call[s].totals # None =>
      \A b \in Barbers \ call[s].todo : <<b, call[s].day>> \in DOMAIN payout

BooksInv ==
  /\ Shapes /\ RowsFit /\ ReviewsFit /\ AllNumbered /\ SavesFit /\ CountsFit /\ LoadsFit
  /\ PaidAsPosted

-----------------------------------------------------------------------------
(* The business day of a time is one of the days. *)
LEMMA DayOfTime == \A t \in Time : DayOf(t) \in Days
BY DEF Days

(* Times are integers, and a day is none of the marks for "not yet". *)
LEMMA TimesAreInt == Time \subseteq Int /\ Days \subseteq Int /\ Never \notin Time /\ None \notin Days
<1>1. Time \subseteq Int /\ Never \notin Time
  BY BooksAssumption DEF Time, Never
<1>2. Days \subseteq Int
  BY <1>1, BooksAssumption DEF Days, DayOf
<1> QED BY <1>1, <1>2, BooksAssumption

(* The invariant holds in the beginning. *)
LEMMA BooksInvInit == BooksInit => BooksInv
<1> SUFFICES ASSUME BooksInit PROVE BooksInv
  OBVIOUS
<1>1. Shapes
  BY BooksAssumption DEF BooksInit, Shapes, Time, Keys
<1>2. AllNumbered
  <2> SUFFICES ASSUME NEW d \in Days PROVE Numbered(Revisions(d))
    BY DEF AllNumbered
  <2>1. Revisions(d) = {}
    BY DEF Revisions, BooksInit
  <2> QED BY <2>1, FS_EmptySet DEF Numbered
<1>3. RowsFit /\ ReviewsFit /\ SavesFit /\ CountsFit /\ LoadsFit /\ PaidAsPosted
  BY DEF BooksInit, RowsFit, ReviewsFit, SavesFit, CountsFit, LoadsFit, PaidAsPosted, Is
<1> QED BY <1>1, <1>2, <1>3 DEF BooksInv

-----------------------------------------------------------------------------
(* What a step leaves alone keeps its part of the invariant. *)
LEMMA NumberedFrame == AllNumbered /\ UNCHANGED revision => AllNumbered'
BY DEF AllNumbered, Revisions

(* What the rows are made from is left alone. *)
LEMMA RowsFrame == RowsFit /\ UNCHANGED <<sale, arriving>> => RowsFit'
BY DEF RowsFit

(* The same of the payouts. *)
LEMMA PaidFrame == PaidAsPosted /\ UNCHANGED <<payout, posted>> => PaidAsPosted'
BY DEF PaidAsPosted

(* The same of the requests under way. *)
LEMMA CallsFrame ==
  /\ SavesFit /\ UNCHANGED <<call, revision>> => SavesFit'
  /\ LoadsFit /\ UNCHANGED <<call, payout>> => LoadsFit'
  /\ ReviewsFit /\ UNCHANGED <<call, sale>> => ReviewsFit'
BY DEF SavesFit, LoadsFit, ReviewsFit, Is, Revisions

(* A review stands for a sale, a save for a day. *)
LEMMA CallTypes ==
  ASSUME Shapes, NEW s \in Slots
  PROVE  /\ Is(s, "review") => ReviewCall(call[s])
         /\ Is(s, "save") => SaveCall(call[s])
         /\ Is(s, "load") => LoadCall(call[s])
BY DEF Shapes, CallShape, SaveCall, ReviewCall, LoadCall, Is

(* All counts go on fitting if each one does. *)
LEMMA CountsFrame ==
  ASSUME CountsFit, UNCHANGED <<revision, call>>, clock' >= clock, Shapes, clock' \in Int,
         \A saw, open : \A d \in Days, at \in Time :
           CountFits(d, saw, open, at) => CountFits(d, saw, open, at)'
  PROVE  CountsFit'
<1>1. \A q \in revision : CountFits(q.day, q.saw, q.open, q.reconciledAt)'
  BY DEF CountsFit, Shapes
<1>2. ASSUME NEW s \in Slots, Is(s, "save")
      PROVE  /\ call[s].at <= clock'
             /\ call[s].saw # None =>
                  CountFits(call[s].day, call[s].saw, call[s].open, call[s].at)'
  <2>1. call[s].at \in Time /\ call[s].day \in Days
    BY <1>2, CallTypes DEF SaveCall
  <2>2. call[s].at <= clock /\ clock \in Int /\ call[s].at \in Int
    BY <1>2, <2>1, TimesAreInt DEF CountsFit, Shapes
  <2>3. call[s].saw # None => CountFits(call[s].day, call[s].saw, call[s].open, call[s].at)
    BY <1>2 DEF CountsFit
  <2> QED BY <2>1, <2>2, <2>3
<1> QED BY <1>1, <1>2 DEF CountsFit, Is

(* The clock ticks. *)
LEMMA TickStep == BooksInv /\ Tick => BooksInv'
<1> SUFFICES ASSUME BooksInv, Tick PROVE BooksInv'
  OBVIOUS
<1> USE DEF Tick
<1>1. Shapes'
  BY BooksAssumption DEF BooksInv, Shapes, Time
<1>2. CountsFit'
  <2>1. \A saw, open : \A d \in Days, at \in Time :
          CountFits(d, saw, open, at) => CountFits(d, saw, open, at)'
    BY TimesAreInt DEF BooksInv, Shapes, CountFits, Noticed, Awaited, Is
  <2> QED BY <2>1, <1>1, CountsFrame, TimesAreInt DEF BooksInv, Shapes
<1> QED BY <1>1, <1>2, NumberedFrame, RowsFrame, PaidFrame, CallsFrame DEF BooksInv

(* A sale is stamped: it is as late as anything counted so far. *)
LEMMA StampStep == ASSUME BooksInv, NEW x \in Sales, StampSale(x) PROVE BooksInv'
<1> USE DEF StampSale
<1>1. PICK method \in Methods, stated \in StatedTimes, sentAt \in Time \cup {None} :
        arriving' = [arriving EXCEPT ![x] =
         [method |-> method, stated |-> stated, syncedAt |-> clock,
          flagged |-> DetectTimeAnomaly(stated, sentAt, clock),
          status |-> IF method = "QRPH" THEN "PENDING" ELSE "PAID",
          paidAt |-> Never, reviewedAt |-> Never, choice |-> None, reviewedDate |-> None]]
  OBVIOUS
<1>2. DetectTimeAnomaly(stated, sentAt, clock) \in BOOLEAN
  BY DEF DetectTimeAnomaly
<1>3. arriving'[x] \in SaleRow
  BY <1>1, <1>2 DEF BooksInv, Shapes, SaleRow
<1>4. Shapes'
  BY <1>1, <1>3 DEF BooksInv, Shapes
<1>5. RowsFit'
  BY <1>1 DEF BooksInv, Shapes, RowsFit, RowFits
<1>6. CountsFit'
  BY <1>1, TimesAreInt DEF BooksInv, Shapes, CountsFit, CountFits, Noticed, Awaited, Is
<1> QED BY <1>4, <1>5, <1>6, NumberedFrame, PaidFrame, CallsFrame DEF BooksInv

(* A sale's transaction commits or fails. *)
LEMMA CommitStep == ASSUME BooksInv, NEW x \in Sales, CommitSale(x) PROVE BooksInv'
<1> USE DEF CommitSale
<1>1. Shapes'
  BY DEF BooksInv, Shapes
<1>2. RowsFit'
  BY DEF BooksInv, Shapes, RowsFit
<1>3. CountsFit'
  <2>1. ASSUME NEW d \in Days, NEW at \in Time, NEW saw, NEW open, CountFits(d, saw, open, at)
        PROVE  CountFits(d, saw, open, at)'
    <3>1. Noticed(x, arriving[x], d, saw, open, at)
      BY <2>1, TimesAreInt DEF BooksInv, Shapes, RowsFit, RowFits, CountFits, Noticed, Awaited, SaleRow
    <3>2. \A y \in Sales : Noticed(y, sale[y], d, saw, open, at)'
      BY <2>1, <3>1 DEF BooksInv, Shapes, CountFits, Noticed
    <3>3. Awaited(open, at)'
      BY <2>1 DEF BooksInv, Shapes, CountFits, Awaited, Is
    <3> QED BY <3>2, <3>3 DEF CountFits
  <2> QED BY <2>1, CountsFrame, TimesAreInt DEF BooksInv, Shapes
<1>4. ReviewsFit'
  BY CallTypes DEF BooksInv, Shapes, RowsFit, ReviewsFit, ReviewCall, Is
<1> QED BY <1>1, <1>2, <1>3, <1>4, NumberedFrame, PaidFrame, CallsFrame DEF BooksInv

(* A payment of QR Ph is confirmed. *)
LEMMA ConfirmStep == ASSUME BooksInv, NEW x \in Sales, ConfirmSale(x) PROVE BooksInv'
<1> USE DEF ConfirmSale
<1>1. PICK t \in sale[x].syncedAt .. clock :
        sale' = [sale EXCEPT ![x].status = "PAID", ![x].paidAt = t]
  OBVIOUS
<1>2. sale[x] \in SaleRow /\ t \in Time
  BY <1>1, TimesAreInt, BooksAssumption DEF BooksInv, Shapes, SaleRow, Time
<1>3. sale'[x] = [sale[x] EXCEPT !.status = "PAID", !.paidAt = t]
  BY <1>1 DEF BooksInv, Shapes
<1>4. sale'[x] \in SaleRow /\ sale'[x].method = "QRPH" /\ sale'[x].paidAt # Never
  <2>1. sale[x].method = "QRPH"
    BY DEF BooksInv, RowsFit, RowFits
  <2>2. sale'[x] \in SaleRow /\ sale'[x].paidAt = t /\ sale'[x].method = sale[x].method
    BY <1>2, <1>3 DEF SaleRow
  <2> QED BY <2>1, <2>2, <1>2, TimesAreInt
<1>5. Shapes'
  BY <1>1, <1>4 DEF BooksInv, Shapes
<1>6. RowsFit'
  BY <1>1, <1>3, <1>4, <1>2 DEF BooksInv, Shapes, RowsFit, RowFits, SaleRow
<1>7. CountsFit'
  BY <1>1, <1>4 DEF BooksInv, Shapes, CountsFit, CountFits, Noticed, Awaited, Is
<1>8. ReviewsFit'
  <2>1. sale'[x] # None /\ sale'[x].flagged = sale[x].flagged
    BY <1>2, <1>3, <1>4, BooksAssumption DEF SaleRow
  <2> QED BY <1>1, <2>1, CallTypes DEF BooksInv, Shapes, ReviewsFit, Is, ReviewCall
<1> QED BY <1>5, <1>6, <1>7, <1>8, NumberedFrame, PaidFrame, CallsFrame DEF BooksInv

-----------------------------------------------------------------------------
(* What a handler must satisfy when it goes to its next await, given how it stood. *)
Allowed(s, r) ==
  /\ CallShape(r)
  /\ r.kind = "save" =>
       /\ r.at <= clock
       /\ r.previous # None => r.saw # None /\ r.previous \in 0 .. Cardinality(Revisions(r.day))
       /\ r.saw # None => CountFits(r.day, r.saw, r.open, r.at)
  /\ r.kind = "review" =>
       /\ \/ r.at = clock
          \/ Is(s, "review") /\ r.sale = call[s].sale /\ r.at = call[s].at
       /\ r.date # None => sale[r.sale] # None /\ sale[r.sale].flagged
  /\ r.kind = "load" /\ r.totals # None =>
       \A b \in Barbers \ r.todo : <<b, r.day>> \in DOMAIN payout

(* A step that only moves a handler on, or ends it, keeps the invariant. *)
LEMMA HandlerStep ==
  ASSUME BooksInv, NEW s \in Slots, NEW r, call' = [call EXCEPT ![s] = r],
         r # None => Allowed(s, r),
         UNCHANGED <<clock, sale, arriving, revision, payout, posted>>
  PROVE  BooksInv'
<1>1. DOMAIN call = Slots /\ clock \in Int
  BY TimesAreInt DEF BooksInv, Shapes
<1>2. Shapes'
  BY <1>1 DEF BooksInv, Shapes, Allowed
<1>3. ReviewsFit'
  BY <1>1 DEF BooksInv, ReviewsFit, Allowed, Is
<1>4. SavesFit'
  BY <1>1 DEF BooksInv, SavesFit, Allowed, Is, Revisions
<1>5. LoadsFit'
  BY <1>1 DEF BooksInv, LoadsFit, Allowed, Is
<1>6. ASSUME NEW d, NEW saw, NEW open, NEW at, CountFits(d, saw, open, at)
      PROVE  CountFits(d, saw, open, at)'
  <2>1. Awaited(open, at)'
    BY <1>1, <1>6 DEF CountFits, Awaited, Allowed, Is
  <2> QED BY <1>6, <2>1 DEF CountFits, Noticed
<1>7. CountsFit'
  <2>1. \A q \in revision' : CountFits(q.day, q.saw, q.open, q.reconciledAt)'
    BY <1>6 DEF BooksInv, CountsFit
  <2>2. ASSUME NEW t \in Slots, Is(t, "save")'
        PROVE  (/\ call[t].at <= clock
                /\ call[t].saw # None =>
                     CountFits(call[t].day, call[t].saw, call[t].open, call[t].at))'
    <3>1. CASE t = s
      BY <3>1, <2>2, <1>1, <1>6 DEF Allowed, Is
    <3>2. CASE t # s
      BY <3>2, <2>2, <1>1, <1>6 DEF BooksInv, CountsFit, Is
    <3> QED BY <3>1, <3>2
  <2> QED BY <2>1, <2>2 DEF CountsFit
<1> QED BY <1>2, <1>3, <1>4, <1>5, <1>7, NumberedFrame, RowsFrame, PaidFrame DEF BooksInv

(* A handler ends, fails or the server restarts under it. *)
LEMMA AbandonStep == ASSUME BooksInv, NEW s \in Slots, Abandon(s) PROVE BooksInv'
BY HandlerStep DEF Abandon, Done, Goto

(* A handler begins. *)
LEMMA BeginStep ==
  ASSUME BooksInv, NEW r, Begin(r), \A s \in Slots : Allowed(s, r),
         UNCHANGED <<clock, sale, arriving, revision, payout, posted>>
  PROVE  BooksInv'
<1>1. PICK s \in Slots : Goto(s, r)
  BY DEF Begin
<1> QED BY <1>1, HandlerStep DEF Goto

(* A save begins with the time of the call. *)
LEMMA BeginSaveStep == BooksInv /\ BeginSave => BooksInv'
<1> SUFFICES ASSUME BooksInv, BeginSave PROVE BooksInv'
  OBVIOUS
<1>1. PICK d \in OwnerDays, petty \in PettyCash :
        Begin([kind |-> "save", day |-> d, petty |-> petty, at |-> clock,
               saw |-> None, open |-> {}, cashPayouts |-> None,
               previous |-> None, attempt |-> 1])
  BY DEF BeginSave
<1> DEFINE r == [kind |-> "save", day |-> d, petty |-> petty, at |-> clock,
                 saw |-> None, open |-> {}, cashPayouts |-> None,
                 previous |-> None, attempt |-> 1]
<1>2. r.at \in Int /\ d \in Days
  BY BooksAssumption, TimesAreInt DEF BooksInv, Shapes
<1>3. \A s \in Slots : Allowed(s, r)
  BY <1>2 DEF BooksInv, Shapes, Allowed, CallShape, SaveCall
<1> QED BY <1>1, <1>3, BeginStep DEF BeginSave

(* A review begins with the time of the call. *)
LEMMA BeginReviewStep == ASSUME BooksInv, NEW x \in Sales, BeginReview(x) PROVE BooksInv'
<1>1. PICK c \in Choice :
        Begin([kind |-> "review", sale |-> x, choice |-> c, at |-> clock, date |-> None])
  BY DEF BeginReview
<1> DEFINE r == [kind |-> "review", sale |-> x, choice |-> c, at |-> clock, date |-> None]
<1>2. clock \in Time
  BY DEF BooksInv, Shapes
<1>3. ReviewCall(r) /\ r.kind = "review" /\ r.at = clock /\ r.date = None
  BY <1>2 DEF ReviewCall
<1> HIDE DEF r
<1>4. \A s \in Slots : Allowed(s, r)
  BY <1>3 DEF Allowed, CallShape
<1> USE DEF r
<1> QED BY <1>1, <1>4, BeginStep DEF BeginReview

(* A load begins, with or without a payment. *)
LEMMA BeginLoadStep == BooksInv /\ BeginLoad => BooksInv'
<1> SUFFICES ASSUME BooksInv, BeginLoad PROVE BooksInv'
  OBVIOUS
<1>1. PICK d \in OwnerDays, b \in Barbers \cup {None} :
        \E paid \in IF b = None THEN {Unpaid} ELSE Payment :
          Begin([kind |-> "load", day |-> d, payer |-> b, paid |-> paid,
                 totals |-> None, todo |-> {}])
  BY DEF BeginLoad
<1>2. PICK paid : Begin([kind |-> "load", day |-> d, payer |-> b, paid |-> paid,
                         totals |-> None, todo |-> {}])
  BY <1>1
<1> DEFINE r == [kind |-> "load", day |-> d, payer |-> b, paid |-> paid,
                 totals |-> None, todo |-> {}]
<1>3. \A s \in Slots : Allowed(s, r)
  BY BooksAssumption DEF Allowed, CallShape, LoadCall
<1> QED BY <1>2, <1>3, BeginStep DEF BeginLoad

(* A save reads the sales: every one that counts is seen. *)
LEMMA ReadSalesStep == ASSUME BooksInv, NEW s \in Slots, ReadSales(s) PROVE BooksInv'
<1> DEFINE r == SalesRead(call[s])
<1>1. call' = [call EXCEPT ![s] = r] /\ UNCHANGED <<clock, sale, arriving, revision, payout, posted>>
  BY DEF ReadSales, Goto
<1>2. SaveCall(call[s]) /\ call[s].at <= clock /\ call[s].day \in Days
  BY CallTypes DEF ReadSales, BooksInv, CountsFit, SaveCall
<1>3. SaveCall(r) /\ r.saw = PaidOn(r.day) /\ r.open = UnderWay /\ r.at = call[s].at
      /\ r.day = call[s].day /\ r.previous = call[s].previous /\ r.kind = "save"
  <2>1. SaveCall(r)
    BY <1>2 DEF SalesRead, SaveCall
  <2>2. r.saw = PaidOn(call[s].day) /\ r.open = UnderWay
    BY <1>2 DEF SalesRead, SaveCall
  <2>3. /\ r.at = call[s].at /\ r.day = call[s].day /\ r.previous = call[s].previous
        /\ r.kind = "save"
    BY <1>2 DEF SalesRead, SaveCall
  <2> QED BY <2>1, <2>2, <2>3
<1>4. CountFits(r.day, r.saw, r.open, r.at)
  <2>1. \A x \in Sales : Noticed(x, sale[x], r.day, r.saw, r.open, r.at)
    BY <1>3 DEF PaidOn, CountsOnDay, Noticed
  <2>2. Awaited(r.open, r.at)
    BY <1>2, <1>3, CallTypes DEF Awaited, UnderWay, BooksInv, ReviewCall
  <2> QED BY <2>1, <2>2 DEF CountFits
<1>5. Allowed(s, r)
  BY <1>2, <1>3, <1>4 DEF Allowed, CallShape, BooksInv, SavesFit, ReadSales
<1> QED BY <1>1, <1>5, HandlerStep

(* The other reads of a save. *)
LEMMA ReadPayoutsStep == ASSUME BooksInv, NEW s \in Slots, ReadPayouts(s) PROVE BooksInv'
<1> DEFINE r == [call[s] EXCEPT !.cashPayouts = CashPayouts(call[s].day)]
<1>1. call' = [call EXCEPT ![s] = r] /\ UNCHANGED <<clock, sale, arriving, revision, payout, posted>>
  BY DEF ReadPayouts, Goto
<1>2. SaveCall(call[s]) /\ call[s].kind = "save" /\ call[s].day \in Days
  BY CallTypes DEF ReadPayouts, BooksInv, SaveCall
<1>3. SaveCall(r)
  BY <1>2 DEF SaveCall
<1>4. /\ r.kind = "save" /\ r.day = call[s].day /\ r.at = call[s].at /\ r.saw = call[s].saw
      /\ r.open = call[s].open /\ r.previous = call[s].previous
  BY <1>2 DEF SaveCall
<1> HIDE DEF r
<1>5. Allowed(s, r)
  BY <1>2, <1>3, <1>4 DEF Allowed, CallShape, BooksInv, SavesFit, CountsFit, ReadPayouts
<1> QED BY <1>1, <1>5, HandlerStep

(* The greatest of the numbers 1 .. N is N. *)
LEMMA LatestIsLast ==
  ASSUME NEW d \in Days, Numbered(Revisions(d))
  PROVE  LatestNumber(d) = Cardinality(Revisions(d)) /\ LatestNumber(d) \in Nat
<1> DEFINE S == Revisions(d)
           M == {q.number : q \in S}
<1>1. Cardinality(S) \in Nat /\ (S = {} <=> Cardinality(S) = 0)
  BY FS_CardinalityType, FS_EmptySet DEF Numbered
<1>2. CASE S = {}
  BY <1>1, <1>2 DEF LatestNumber
<1>3. CASE S # {}
  <2>1. Cardinality(S) \in 1 .. Cardinality(S)
    BY <1>1, <1>3
  <2>2. Cardinality(S) \in M /\ \A n \in M : n \in 1 .. Cardinality(S)
    BY <2>1 DEF Numbered
  <2>3. Max(M) = Cardinality(S)
    BY <2>2, <1>1 DEF Max
  <2> QED BY <2>3, <1>1, <1>3 DEF LatestNumber
<1> QED BY <1>2, <1>3

(* A save reads the latest number. *)
LEMMA ReadLatestStep == ASSUME BooksInv, NEW s \in Slots, ReadLatest(s) PROVE BooksInv'
<1> DEFINE r == [call[s] EXCEPT !.previous = LatestNumber(call[s].day)]
<1>1. call' = [call EXCEPT ![s] = r] /\ UNCHANGED <<clock, sale, arriving, revision, payout, posted>>
  BY DEF ReadLatest, Goto
<1>2. SaveCall(call[s]) /\ call[s].kind = "save" /\ call[s].day \in Days
  BY CallTypes DEF ReadLatest, BooksInv, SaveCall
<1>3. /\ LatestNumber(call[s].day) = Cardinality(Revisions(call[s].day))
      /\ LatestNumber(call[s].day) \in Nat
  BY <1>2, LatestIsLast DEF BooksInv, AllNumbered
<1>4. SaveCall(r)
  BY <1>2, <1>3 DEF SaveCall
<1>5. /\ r.kind = "save" /\ r.day = call[s].day /\ r.at = call[s].at /\ r.saw = call[s].saw
      /\ r.open = call[s].open /\ r.previous = LatestNumber(call[s].day)
  BY <1>2 DEF SaveCall
<1> HIDE DEF r
<1>6. Allowed(s, r)
  BY <1>2, <1>3, <1>4, <1>5 DEF Allowed, CallShape, BooksInv, CountsFit, ReadLatest
<1> QED BY <1>1, <1>6, HandlerStep

(* A review reads its sale. *)
LEMMA ReadReviewStep == ASSUME BooksInv, NEW s \in Slots, ReadReview(s) PROVE BooksInv'
<1> USE DEF ReadReview, Goto, Done
<1> DEFINE row == sale[call[s].sale]
           date == DayOf(IF call[s].choice = "STATED_DATE" THEN row.stated ELSE row.syncedAt)
           r == [call[s] EXCEPT !.date = date]
<1>1. CASE call' = [call EXCEPT ![s] = None]
  BY <1>1, HandlerStep
<1>2. CASE row # None /\ row.flagged /\ call' = [call EXCEPT ![s] = r]
  <2>1. ReviewCall(call[s])
    BY CallTypes DEF BooksInv
  <2>2. row \in SaleRow
    BY <1>2, <2>1 DEF BooksInv, Shapes, ReviewCall
  <2>3. date \in Days
    BY <2>2, BooksAssumption, DayOfTime DEF SaleRow
  <2> HIDE DEF date
  <2>4. ReviewCall(r) /\ r.kind = "review" /\ r.sale = call[s].sale /\ r.at = call[s].at
    BY <2>1, <2>3 DEF ReviewCall
  <2> HIDE DEF r
  <2>5. Allowed(s, r)
    BY <1>2, <2>4 DEF Allowed, CallShape
  <2> QED BY <1>2, <2>5, HandlerStep
<1> QED BY <1>1, <1>2

(* A load reads the totals; it has written no row yet. *)
LEMMA ReadTotalsStep == ASSUME BooksInv, NEW s \in Slots, ReadTotals(s) PROVE BooksInv'
<1> DEFINE r == [call[s] EXCEPT !.totals = TotalsRead(call[s].day), !.todo = Barbers]
<1>1. call' = [call EXCEPT ![s] = r] /\ UNCHANGED <<clock, sale, arriving, revision, payout, posted>>
  BY DEF ReadTotals, Goto
<1>2. LoadCall(call[s])
  BY CallTypes DEF ReadTotals, BooksInv
<1>3. LoadCall(r) /\ r.kind = "load" /\ r.todo = Barbers
  BY <1>2 DEF LoadCall
<1> HIDE DEF r
<1>4. Allowed(s, r)
  BY <1>3 DEF Allowed, CallShape
<1> QED BY <1>1, <1>4, HandlerStep

-----------------------------------------------------------------------------
(* A number that follows one of 1 .. N and is not taken is N + 1. *)
LEMMA NextNumber ==
  ASSUME NEW d \in Days, Numbered(Revisions(d)), NEW n \in 0 .. Cardinality(Revisions(d)),
         ~ \E q \in Revisions(d) : q.number = n + 1
  PROVE  n = Cardinality(Revisions(d)) /\ n \in Nat
<1>1. Cardinality(Revisions(d)) \in Nat
  BY FS_CardinalityType DEF Numbered
<1>2. CASE n < Cardinality(Revisions(d))
  BY <1>1, <1>2 DEF Numbered
<1> QED BY <1>1, <1>2

(* What a save writes, if the number is free. *)
LEMMA NewNumbered ==
  ASSUME BooksInv, NEW s \in Slots, Is(s, "save"), call[s].previous # None,
         NEW day, day = call[s].day, NEW new, new = NewRevision(call[s]),
         ~ \E q \in Revisions(day) : q.number = call[s].previous + 1,
         revision' = revision \cup {new}
  PROVE  /\ AllNumbered'
         /\ day \in Days /\ new.day = day /\ new.number = Cardinality(Revisions(day)) + 1
         /\ Revisions(day)' = Revisions(day) \cup {new}
         /\ Cardinality(Revisions(day)') = Cardinality(Revisions(day)) + 1
         /\ \A d \in Days \ {day} : Revisions(d)' = Revisions(d)
<1> DEFINE S == Revisions(day)
<1>1. day \in Days
  BY CallTypes DEF BooksInv, SaveCall
<1>2. call[s].previous = Cardinality(S)
  BY <1>1, NextNumber DEF BooksInv, AllNumbered, SavesFit
<1>3. new.day = day /\ new.number = Cardinality(S) + 1
  BY <1>2 DEF NewRevision
<1>4. Revisions(day)' = S \cup {new}
  BY <1>3 DEF Revisions
<1>5. \A d \in Days \ {day} : Revisions(d)' = Revisions(d)
  BY <1>3 DEF Revisions
<1>6. new \notin S
  BY <1>2, <1>3
<1>7. IsFiniteSet(S \cup {new}) /\ Cardinality(S \cup {new}) = Cardinality(S) + 1
  BY <1>1, <1>6, FS_AddElement DEF BooksInv, AllNumbered, Numbered
<1>8. Numbered(S \cup {new})
  <2>1. Numbered(S) /\ Cardinality(S) \in Nat
    BY <1>1, FS_CardinalityType DEF BooksInv, AllNumbered, Numbered
  <2> HIDE DEF S
  <2>2. \A q \in S \cup {new} : q.number \in 1 .. Cardinality(S) + 1
    BY <2>1, <1>3 DEF Numbered
  <2>3. ASSUME NEW n \in 1 .. Cardinality(S) + 1
        PROVE  \E q \in S \cup {new} : q.number = n
    <3>1. CASE n = Cardinality(S) + 1
      BY <3>1, <1>3
    <3>2. CASE n \in 1 .. Cardinality(S)
      BY <3>2, <2>1 DEF Numbered
    <3> QED BY <3>1, <3>2, <2>1
  <2>4. \A p, q \in S \cup {new} : p.number = q.number => p = q
    BY <2>1, <1>3 DEF Numbered
  <2> QED BY <2>2, <2>3, <2>4, <1>7 DEF Numbered
<1>9. AllNumbered'
  BY <1>4, <1>5, <1>8 DEF BooksInv, AllNumbered
<1> QED BY <1>1, <1>3, <1>4, <1>5, <1>7, <1>9

(* A save writes its revision, tries again or gives up. *)
LEMMA CreateRevisionStep == ASSUME BooksInv, NEW s \in Slots, CreateRevision(s) PROVE BooksInv'
<1> USE DEF CreateRevision, Goto, Done
<1> DEFINE r == call[s]
           again == [r EXCEPT !.previous = None, !.attempt = @ + 1]
<1>1. SaveCall(r) /\ r.kind = "save" /\ r.day \in Days /\ r.at \in Time
  BY CallTypes DEF BooksInv, SaveCall
<1>2. CASE UNCHANGED revision /\ call' = [call EXCEPT ![s] = None]
  BY <1>2, HandlerStep
<1>3. CASE UNCHANGED revision /\ call' = [call EXCEPT ![s] = again]
  <2>1. SaveCall(again)
    BY <1>1 DEF SaveCall
  <2>2. /\ again.kind = "save" /\ again.day = r.day /\ again.at = r.at /\ again.saw = r.saw
        /\ again.open = r.open /\ again.previous = None
    BY <1>1 DEF SaveCall
  <2> HIDE DEF again
  <2>3. Allowed(s, again)
    BY <1>1, <2>1, <2>2 DEF Allowed, CallShape, BooksInv, CountsFit
  <2> QED BY <1>3, <2>3, HandlerStep
<1>4. CASE /\ ~ \E q \in Revisions(r.day) : q.number = r.previous + 1
           /\ revision' = revision \cup {NewRevision(r)}
           /\ call' = [call EXCEPT ![s] = None]
  <2>1. PICK today, row : today = r.day /\ row = NewRevision(r)
    OBVIOUS
  <2>2. /\ AllNumbered' /\ row.number = Cardinality(Revisions(today)) + 1
        /\ Cardinality(Revisions(today)') = Cardinality(Revisions(today)) + 1
        /\ \A d \in Days \ {today} : Revisions(d)' = Revisions(d)
    BY <1>4, <2>1, NewNumbered
  <2>3. /\ row.day = r.day /\ row.reconciledAt = r.at /\ row.saw = r.saw /\ row.open = r.open
    BY <2>1 DEF NewRevision
  <2>9. Cardinality(Revisions(today)) \in Nat
    BY <1>1, <2>1, FS_CardinalityType DEF BooksInv, AllNumbered, Numbered
  <2>10. Shapes'
    BY <1>1, <1>4, <2>1, <2>2, <2>3, <2>9 DEF BooksInv, Shapes
  <2>4. SavesFit'
    <3>1. \A d \in Days : /\ Cardinality(Revisions(d)') >= Cardinality(Revisions(d))
                           /\ Cardinality(Revisions(d)') \in Nat /\ Cardinality(Revisions(d)) \in Nat
      BY <2>2, <2>9, FS_CardinalityType DEF BooksInv, AllNumbered, Numbered
    <3>2. \A t \in Slots : Is(t, "save")' => t # s /\ call'[t] = call[t]
      BY <1>4 DEF Is, BooksInv, Shapes
    <3> QED BY <3>1, <3>2 DEF BooksInv, SavesFit, Is
  <2>5. r.saw # None
    BY <1>1 DEF BooksInv, SavesFit
  <2>6. ASSUME NEW d, NEW saw, NEW open, NEW at, CountFits(d, saw, open, at)
        PROVE  CountFits(d, saw, open, at)'
    BY <1>4, <2>6 DEF CountFits, Awaited, Noticed, Is, BooksInv, Shapes
  <2>7. CountsFit'
    BY <1>4, <2>1, <2>3, <2>5, <2>6 DEF CountsFit, BooksInv, Shapes, Is
  <2>8. ReviewsFit' /\ LoadsFit'
    BY <1>4 DEF BooksInv, Shapes, ReviewsFit, LoadsFit, Is
  <2> QED BY <2>2, <2>10, <2>4, <2>7, <2>8, <1>4, RowsFrame, PaidFrame DEF BooksInv
<1> QED BY <1>2, <1>3, <1>4

(* A review is written, unless another was faster. *)
LEMMA WriteReviewStep == ASSUME BooksInv, NEW s \in Slots, WriteReview(s) PROVE BooksInv'
<1> USE DEF WriteReview, Goto, Done
<1>1. CASE UNCHANGED sale
  BY <1>1, HandlerStep
<1>2. CASE /\ sale[call[s].sale].reviewedAt = Never
           /\ sale' = [sale EXCEPT ![call[s].sale] = Reviewed(@, call[s])]
  <2>1. PICK r, x, row, new :
          r = call[s] /\ x = r.sale /\ row = sale[x] /\ new = Reviewed(row, r)
    OBVIOUS
  <2>2. /\ ReviewCall(r) /\ x \in Sales /\ r.date \in Days /\ r.at \in Time
        /\ row \in SaleRow /\ row.flagged /\ row # None
    BY <2>1, CallTypes DEF BooksInv, ReviewsFit, ReviewCall, Shapes
  <2>3. new = [row EXCEPT !.reviewedAt = r.at, !.choice = r.choice, !.reviewedDate = r.date]
    BY <2>1 DEF Reviewed
  <2>4. r.choice \in Choice
    BY <2>1, <2>2 DEF ReviewCall
  <2>5. new \in SaleRow
    BY <2>2, <2>3, <2>4 DEF SaleRow
  <2>6. /\ new.method = row.method /\ new.status = row.status /\ new.paidAt = row.paidAt
        /\ new.flagged = row.flagged /\ new.reviewedAt = r.at /\ new.reviewedDate = r.date
    BY <2>2, <2>3 DEF SaleRow
  <2>7. sale' = [sale EXCEPT ![x] = new] /\ call' = [call EXCEPT ![s] = None]
    BY <1>2, <2>1
  <2>8. new # None
    BY <2>5, BooksAssumption
  <2>9. Shapes'
    BY <2>5, <2>7 DEF BooksInv, Shapes
  <2>10. RowsFit'
    BY <2>1, <2>2, <2>6, <2>7, TimesAreInt DEF BooksInv, Shapes, RowsFit, RowFits
  <2>11. ReviewsFit'
    <3>1. \A y \in Sales : sale[y] # None /\ sale[y].flagged => sale'[y] # None /\ sale'[y].flagged
      BY <2>2, <2>6, <2>7, <2>8 DEF BooksInv, Shapes
    <3>2. \A t \in Slots : Is(t, "review") => call[t].sale \in Sales
      BY CallTypes DEF BooksInv, ReviewCall
    <3> QED BY <2>7, <3>1, <3>2 DEF BooksInv, Shapes, ReviewsFit, Is
  <2>12. SavesFit' /\ LoadsFit'
    BY <2>7 DEF BooksInv, Shapes, SavesFit, LoadsFit, Is, Revisions
  <2>13. ASSUME NEW d \in Days, NEW saw, NEW open, NEW at, CountFits(d, saw, open, at)
         PROVE  CountFits(d, saw, open, at)'
    <3>1. x \in open \/ r.at >= at
      BY <2>1, <2>13 DEF CountFits, Awaited
    <3>2. Noticed(x, new, d, saw, open, at)
      BY <3>1, <2>2, <2>6 DEF Noticed
    <3>3. \A y \in Sales : Noticed(y, sale[y], d, saw, open, at)'
      BY <2>13, <3>2, <2>7 DEF BooksInv, Shapes, CountFits, Noticed
    <3>4. Awaited(open, at)'
      BY <2>13, <2>7 DEF BooksInv, Shapes, CountFits, Awaited, Is
    <3> QED BY <3>3, <3>4 DEF CountFits
  <2>14. CountsFit'
    BY <2>7, <2>13, CallTypes DEF BooksInv, Shapes, CountsFit, Is, SaveCall
  <2> QED BY <2>9, <2>10, <2>11, <2>12, <2>14, NumberedFrame, PaidFrame DEF BooksInv
<1> QED BY <1>1, <1>2

(* A load writes one row: never the payment. *)
LEMMA WriteRowStep == ASSUME BooksInv, NEW s \in Slots, WriteRow(s) PROVE BooksInv'
<1>0. PICK r : r = call[s]
  OBVIOUS
<1>1. PICK b \in r.todo :
        /\ payout' = [k \in DOMAIN payout \cup {<<b, r.day>>} |->
                        IF k = <<b, r.day>> THEN Refreshed(k, r.totals[b]) ELSE payout[k]]
        /\ call' = [call EXCEPT ![s] = [r EXCEPT !.todo = @ \ {b}]]
        /\ UNCHANGED <<clock, sale, arriving, revision, posted>>
  BY <1>0 DEF WriteRow, Goto
<1> DEFINE key == <<b, r.day>>
           next == [r EXCEPT !.todo = @ \ {b}]
<1>2. LoadCall(r) /\ r.kind = "load" /\ key \in Keys
  BY <1>0, <1>1, CallTypes DEF WriteRow, BooksInv, LoadCall, Keys
<1>3. LoadCall(next) /\ next.day = r.day /\ next.totals = r.totals /\ next.kind = "load"
      /\ next.todo = r.todo \ {b}
  BY <1>2 DEF LoadCall
<1> HIDE DEF next
<1>4. payout'[key] = Refreshed(key, r.totals[b])
  BY <1>1
<1>5. payout'[key] = [owed |-> payout'[key].owed, paid |-> payout'[key].paid]
      /\ payout'[key].paid = IF key \in DOMAIN payout THEN payout[key].paid ELSE Unpaid
  BY <1>4 DEF Refreshed, BooksInv, Shapes
<1>6. DOMAIN payout' = DOMAIN payout \cup {key}
      /\ \A k \in DOMAIN payout \ {key} : payout'[k] = payout[k]
  BY <1>1
<1> HIDE DEF key
<1>7. Shapes'
  BY <1>1, <1>2, <1>3, <1>5, <1>6 DEF BooksInv, Shapes, CallShape, next
<1>8. PaidAsPosted'
  BY <1>1, <1>5, <1>6 DEF BooksInv, PaidAsPosted
<1>9. LoadsFit'
  <2>1. DOMAIN call = Slots /\ call' = [call EXCEPT ![s] = next]
    BY <1>1 DEF BooksInv, Shapes, next
  <2>2. next.totals # None => \A c \in Barbers \ next.todo : <<c, next.day>> \in DOMAIN payout'
    <3>1. \A c \in Barbers \ r.todo : r.totals # None => <<c, r.day>> \in DOMAIN payout
      BY <1>0 DEF WriteRow, BooksInv, LoadsFit
    <3> QED BY <3>1, <1>3, <1>6 DEF key
  <2> QED BY <2>1, <2>2, <1>6 DEF BooksInv, LoadsFit, Is
<1>10. SavesFit' /\ ReviewsFit'
  BY <1>1, <1>2, <1>3 DEF BooksInv, Shapes, SavesFit, ReviewsFit, Is, Revisions, next
<1>11. CountsFit'
  BY <1>1, <1>2, <1>3 DEF BooksInv, Shapes, CountsFit, CountFits, Noticed, Awaited, Is, next
<1> QED BY <1>1, <1>7, <1>8, <1>9, <1>10, <1>11, NumberedFrame, RowsFrame DEF BooksInv

(* A load ends; a POST saves its barber's payment in the row it has written. *)
LEMMA FinishLoadStep == ASSUME BooksInv, NEW s \in Slots, FinishLoad(s) PROVE BooksInv'
<1> USE DEF FinishLoad, Goto, Done
<1>1. CASE UNCHANGED <<payout, posted>>
  BY <1>1, HandlerStep
<1>2. CASE /\ call[s].payer # None
           /\ payout' = [payout EXCEPT ![<<call[s].payer, call[s].day>>].paid = call[s].paid]
           /\ posted' = [posted EXCEPT ![<<call[s].payer, call[s].day>>] = call[s].paid]
  <2>1. PICK key, paid : key = <<call[s].payer, call[s].day>> /\ paid = call[s].paid
    OBVIOUS
  <2>2. key \in DOMAIN payout
    BY <1>2, <2>1, CallTypes DEF BooksInv, LoadsFit, LoadCall
  <2>3. /\ payout' = [payout EXCEPT ![key].paid = paid]
        /\ posted' = [posted EXCEPT ![key] = paid]
        /\ call' = [call EXCEPT ![s] = None]
    BY <1>2, <2>1
  <2>4. payout'[key] = [payout[key] EXCEPT !.paid = paid]
    BY <2>2, <2>3
  <2>5. payout'[key].paid = paid /\ payout'[key] = [owed |-> payout'[key].owed, paid |-> payout'[key].paid]
    BY <2>2, <2>4 DEF BooksInv, Shapes
  <2>6. DOMAIN payout' = DOMAIN payout /\ \A k \in DOMAIN payout \ {key} : payout'[k] = payout[k]
    BY <2>3
  <2>7. Shapes'
    BY <2>3, <2>5, <2>6 DEF BooksInv, Shapes
  <2>8. PaidAsPosted'
    BY <2>2, <2>3, <2>5, <2>6 DEF BooksInv, Shapes, PaidAsPosted
  <2>9. LoadsFit' /\ SavesFit' /\ ReviewsFit'
    BY <2>3, <2>6 DEF BooksInv, Shapes, LoadsFit, SavesFit, ReviewsFit, Is, Revisions
  <2>10. CountsFit'
    BY <2>3 DEF BooksInv, Shapes, CountsFit, CountFits, Noticed, Awaited, Is
  <2> QED BY <2>7, <2>8, <2>9, <2>10, NumberedFrame, RowsFrame DEF BooksInv
<1> QED BY <1>1, <1>2

(* Nothing changes. *)
LEMMA StutterStep == BooksInv /\ UNCHANGED booksVars => BooksInv'
<1> SUFFICES ASSUME BooksInv, UNCHANGED booksVars PROVE BooksInv'
  OBVIOUS
<1>1. Shapes' /\ CountsFit'
  BY DEF booksVars, BooksInv, Shapes, CountsFit, CountFits, Noticed, Awaited, Is
<1> QED BY <1>1, NumberedFrame, RowsFrame, PaidFrame, CallsFrame DEF BooksInv, booksVars

(* Every step keeps the invariant. *)
LEMMA BooksInvStep == BooksInv /\ [BooksNext]_booksVars => BooksInv'
<1> SUFFICES ASSUME BooksInv, [BooksNext]_booksVars PROVE BooksInv'
  OBVIOUS
<1>1. CASE Tick \/ BeginSave \/ BeginLoad
  BY <1>1, TickStep, BeginSaveStep, BeginLoadStep
<1>2. ASSUME NEW x \in Sales, StampSale(x) \/ CommitSale(x) \/ ConfirmSale(x) \/ BeginReview(x)
      PROVE  BooksInv'
  BY <1>2, StampStep, CommitStep, ConfirmStep, BeginReviewStep
<1>3. ASSUME NEW s \in Slots, ReadSales(s) \/ ReadPayouts(s) \/ ReadLatest(s) \/ CreateRevision(s)
      PROVE  BooksInv'
  BY <1>3, ReadSalesStep, ReadPayoutsStep, ReadLatestStep, CreateRevisionStep
<1>4. ASSUME NEW s \in Slots,
             ReadReview(s) \/ WriteReview(s) \/ ReadTotals(s) \/ WriteRow(s) \/ FinishLoad(s) \/ Abandon(s)
      PROVE  BooksInv'
  BY <1>4, ReadReviewStep, WriteReviewStep, ReadTotalsStep, WriteRowStep, FinishLoadStep, AbandonStep
<1>5. CASE UNCHANGED booksVars
  BY <1>5, StutterStep
<1> QED BY <1>1, <1>2, <1>3, <1>4, <1>5 DEF BooksNext

(* What every handler relies on holds for good, however the handlers interleave. *)
THEOREM BooksInvariant == BooksSpec => []BooksInv
BY BooksInvInit, BooksInvStep, PTL DEF BooksSpec

-----------------------------------------------------------------------------
(* Loads that run beside it never lose the payment the owner saved last. *)
THEOREM PaymentsAreKept == BooksSpec => []PaidAsPosted
<1>1. BooksInv => PaidAsPosted
  BY DEF BooksInv
<1> QED BY <1>1, BooksInvariant, PTL

(* A sale counted now that the saved count did not see makes it stale, up to the named
   exceptions. *)
THEOREM ChangesAreNoticed == BooksSpec => []EveryChangeIsNoticed
<1>1. BooksInv => EveryChangeIsNoticed
  <2> SUFFICES ASSUME BooksInv, NEW d \in Days, Revisions(d) # {},
                      NEW x \in PaidOn(d) \ LatestOf(d).saw
               PROVE  \/ Stale(LatestOf(d))
                      \/ x \in LatestOf(d).open
                      \/ LatestOf(d).reconciledAt \in {sale[x].syncedAt, sale[x].reviewedAt}
                      \/ sale[x].method = "QRPH" /\ sale[x].paidAt <= LatestOf(d).reconciledAt
    BY DEF EveryChangeIsNoticed
  <2> DEFINE r == LatestOf(d)
  <2>1. r \in Revisions(d)
    <3>1. Cardinality(Revisions(d)) \in Nat \ {0}
      BY FS_CardinalityType, FS_EmptySet DEF BooksInv, AllNumbered, Numbered
    <3>2. \E q \in Revisions(d) : q.number = LatestNumber(d)
      BY <3>1, LatestIsLast DEF BooksInv, AllNumbered, Numbered
    <3> QED BY <3>2 DEF LatestOf
  <2> HIDE DEF r
  <2>2. r \in revision /\ r.day = d /\ r.reconciledAt \in Int
    BY <2>1, TimesAreInt DEF Revisions, BooksInv, Shapes
  <2>3. /\ x \in Sales /\ CountsOnDay(x, d) /\ sale[x] # None /\ sale[x] \in SaleRow
        /\ sale[x].status = "PAID" /\ x \notin r.saw
    BY DEF PaidOn, CountsOnDay, r, BooksInv, Shapes
  <2>4. Noticed(x, sale[x], d, r.saw, r.open, r.reconciledAt)
    BY <2>2, <2>3 DEF BooksInv, CountsFit, CountFits
  <2>5. sale[x].syncedAt \in Int /\ sale[x].reviewedAt \in Int /\ sale[x].paidAt \in Int
        /\ sale[x].flagged \in BOOLEAN
    <3>1. Never \in Int
      BY DEF Never
    <3> QED BY <2>3, <3>1, TimesAreInt DEF SaleRow
  <2>6. CASE ~ sale[x].flagged /\ sale[x].syncedAt >= r.reconciledAt
    BY <2>2, <2>3, <2>5, <2>6 DEF Stale, CountsOnDay, r
  <2>7. CASE sale[x].flagged /\ sale[x].reviewedAt >= r.reconciledAt
    BY <2>2, <2>3, <2>5, <2>7 DEF Stale, CountsOnDay, r
  <2>8. CASE sale[x].method = "QRPH"
    BY <2>2, <2>3, <2>5, <2>8 DEF Stale, r
  <2> QED BY <2>3, <2>4, <2>6, <2>7, <2>8 DEF Noticed, CountsOnDay, r
<1> QED BY <1>1, BooksInvariant, PTL

(* A sale that counts as paid on a day is never written again but to stay there. *)
LEMMA MoneyStep ==
  ASSUME BooksInv, BooksInv', [BooksNext]_booksVars
  PROVE  \A d \in Days : /\ PaidOn(d) \subseteq PaidOn(d)'
                         /\ \A e \in Days \ {d} : PaidOn(d)' \cap PaidOn(e)' = {}
<1>1. ASSUME NEW d \in Days, NEW e \in Days \ {d} PROVE PaidOn(d)' \cap PaidOn(e)' = {}
  BY DEF PaidOn, CountsOnDay
<1>2. ASSUME NEW x \in Sales, sale'[x] # sale[x], NEW d \in Days
      PROVE  x \notin PaidOn(d)
  <2>1. CASE CommitSale(x)
    BY <1>2, <2>1 DEF CommitSale, BooksInv, RowsFit, PaidOn, CountsOnDay
  <2>2. CASE ConfirmSale(x)
    BY <1>2, <2>2 DEF ConfirmSale, PaidOn
  <2>3. CASE \E s \in Slots : WriteReview(s) /\ call[s].sale = x
    <3>1. PICK s \in Slots : WriteReview(s) /\ call[s].sale = x
      BY <2>3
    <3>2. sale[x].reviewedAt = Never
      BY <3>1, <1>2 DEF WriteReview, BooksInv, Shapes
    <3>3. sale[x] # None /\ sale[x].flagged
      BY <3>1 DEF WriteReview, BooksInv, ReviewsFit
    <3> QED BY <3>2, <3>3, TimesAreInt DEF BooksInv, RowsFit, RowFits, PaidOn, CountsOnDay
  <2>4. \/ CommitSale(x) \/ ConfirmSale(x)
        \/ \E s \in Slots : WriteReview(s) /\ call[s].sale = x
    <3>1. CASE \E y \in Sales : CommitSale(y) \/ ConfirmSale(y)
      BY <3>1, <1>2 DEF CommitSale, ConfirmSale, BooksInv, Shapes
    <3>2. CASE \E s \in Slots : WriteReview(s)
      BY <3>2, <1>2 DEF WriteReview, BooksInv, Shapes
    <3>3. CASE UNCHANGED sale
      BY <3>3, <1>2
    <3>4. \A y \in Sales : StampSale(y) \/ BeginReview(y) => UNCHANGED sale
      BY DEF StampSale, BeginReview
    <3>5. ASSUME NEW s \in Slots,
                 \/ ReadSales(s) \/ ReadPayouts(s) \/ ReadLatest(s) \/ CreateRevision(s)
                 \/ ReadReview(s) \/ ReadTotals(s) \/ WriteRow(s) \/ FinishLoad(s) \/ Abandon(s)
          PROVE  UNCHANGED sale
      BY <3>5 DEF ReadSales, ReadPayouts, ReadLatest, CreateRevision, ReadReview, ReadTotals,
             WriteRow, FinishLoad, Abandon
    <3>6. Tick \/ BeginSave \/ BeginLoad \/ UNCHANGED booksVars => UNCHANGED sale
      BY DEF Tick, BeginSave, BeginLoad, booksVars
    <3>7. \/ UNCHANGED sale
          \/ \E y \in Sales : CommitSale(y) \/ ConfirmSale(y)
          \/ \E s \in Slots : WriteReview(s)
      <4>1. CASE BooksNext
        BY <4>1, <3>4, <3>5, <3>6 DEF BooksNext
      <4>2. CASE UNCHANGED booksVars
        BY <4>2, <3>6
      <4> QED BY <4>1, <4>2
    <3> QED BY <3>1, <3>2, <3>3, <3>7
  <2> QED BY <2>1, <2>2, <2>3, <2>4
<1>3. \A d \in Days : PaidOn(d) \subseteq PaidOn(d)'
  BY <1>2 DEF PaidOn, CountsOnDay
<1> QED BY <1>1, <1>3

(* Money already counted on a day never moves, and counts on no second day. *)
THEOREM MoneyStays == BooksSpec => MoneyStaysOnItsDay
<1> DEFINE Stays == \A d \in Days : /\ PaidOn(d) \subseteq PaidOn(d)'
                                    /\ \A e \in Days \ {d} : PaidOn(d)' \cap PaidOn(e)' = {}
<1>1. ASSUME BooksInv, BooksInv', [BooksNext]_booksVars PROVE Stays
  BY <1>1, MoneyStep
<1>2. BooksInv /\ BooksInv' /\ [BooksNext]_booksVars => [Stays]_booksVars
  BY <1>1
<1> QED BY <1>2, BooksInvariant, PTL DEF BooksSpec, MoneyStaysOnItsDay

-----------------------------------------------------------------------------
(* The revisions S of a day as a sequence: the abstract log of the day. *)
InOrder(S) == [n \in 1 .. Cardinality(S) |-> CHOOSE r \in S : r.number = n]

(* The entry of a number is its revision. *)
LEMMA EntryOf ==
  ASSUME NEW S, Numbered(S)
  PROVE  /\ Cardinality(S) \in Nat
         /\ InOrder(S) \in Seq(S) /\ Len(InOrder(S)) = Cardinality(S)
         /\ \A q \in S : InOrder(S)[q.number] = q
<1>1. Cardinality(S) \in Nat
  BY FS_CardinalityType DEF Numbered
<1>2. \A q \in S : (CHOOSE r \in S : r.number = q.number) = q
  BY DEF Numbered
<1>3. \A n \in 1 .. Cardinality(S) : (CHOOSE r \in S : r.number = n) \in S
  BY <1>2 DEF Numbered
<1>4. InOrder(S) \in [1 .. Cardinality(S) -> S]
  BY <1>3 DEF InOrder
<1> QED BY <1>1, <1>2, <1>4 DEF InOrder, Numbered

(* A revision with the next number is appended. *)
LEMMA Appended ==
  ASSUME NEW S, Numbered(S), NEW new, new.number = Cardinality(S) + 1, Numbered(S \cup {new}),
         Cardinality(S \cup {new}) = Cardinality(S) + 1
  PROVE  /\ InOrder(S \cup {new}) = Append(InOrder(S), new)
         /\ InOrder(S \cup {new}) # << >>
         /\ InOrder(S \cup {new})[Len(InOrder(S \cup {new}))] = new
<1> DEFINE T == S \cup {new}
           N == Cardinality(S)
<1>1. /\ N \in Nat
      /\ InOrder(S) \in Seq(T) /\ Len(InOrder(S)) = N
      /\ InOrder(T) \in Seq(T) /\ Len(InOrder(T)) = N + 1
  BY EntryOf, SeqMonotonic
<1>2. /\ Append(InOrder(S), new) \in Seq(T) /\ Append(InOrder(S), new) # << >> /\ Len(Append(InOrder(S), new)) = N + 1
      /\ \A i \in 1 .. N : Append(InOrder(S), new)[i] = InOrder(S)[i]
      /\ Append(InOrder(S), new)[N + 1] = new
  BY <1>1, AppendProperties
<1>3. ASSUME NEW i \in 1 .. N + 1 PROVE InOrder(T)[i] = Append(InOrder(S), new)[i]
  <2>1. CASE i = N + 1
    BY <2>1, <1>2, EntryOf
  <2>2. CASE i \in 1 .. N
    <3>1. PICK q \in S : q.number = i
      BY <2>2 DEF Numbered
    <3> QED BY <3>1, <2>2, <1>2, EntryOf
  <2> QED BY <2>1, <2>2, <1>1
<1>4. InOrder(T) = Append(InOrder(S), new)
  BY <1>1, <1>2, <1>3, SeqEqual
<1> QED BY <1>1, <1>2, <1>4

(* "Earlier revisions are never modified": the revisions implement the abstract log. *)
THEOREM RevisionsImplementLog == BooksSpec => RevisionsAreALog
<1>0. DayLog = [d \in Days |-> InOrder(Revisions(d))]
  BY DEF DayLog, InOrder
<1>1. BooksInit => Log!Init
  <2> SUFFICES ASSUME BooksInit, NEW d \in Days PROVE InOrder(Revisions(d)) = << >>
    BY <1>0 DEF Log!Init
  <2>1. Revisions(d) = {} /\ Numbered(Revisions(d)) /\ Cardinality(Revisions(d)) = 0
    BY FS_EmptySet DEF BooksInit, Revisions, Numbered
  <2> QED BY <2>1, EntryOf, EmptySeq
<1>2. ASSUME BooksInv, BooksInv', [BooksNext]_booksVars PROVE Log!Next \/ DayLog' = DayLog
  <2>1. CASE \E s \in Slots :
            /\ Is(s, "save") /\ call[s].previous # None
            /\ ~ \E q \in Revisions(call[s].day) : q.number = call[s].previous + 1
            /\ revision' = revision \cup {NewRevision(call[s])}
    <3>0. PICK s \in Slots :
            /\ Is(s, "save") /\ call[s].previous # None
            /\ ~ \E q \in Revisions(call[s].day) : q.number = call[s].previous + 1
            /\ revision' = revision \cup {NewRevision(call[s])}
      BY <2>1
    <3>1. PICK day, new : day = call[s].day /\ new = NewRevision(call[s])
      OBVIOUS
    <3>7. /\ ~ \E q \in Revisions(day) : q.number = call[s].previous + 1
          /\ revision' = revision \cup {new}
      BY <3>0, <3>1
    <3>2. /\ day \in Days /\ new.number = Cardinality(Revisions(day)) + 1
          /\ Revisions(day)' = Revisions(day) \cup {new}
          /\ Cardinality(Revisions(day)') = Cardinality(Revisions(day)) + 1
          /\ \A d \in Days \ {day} : Revisions(d)' = Revisions(d)
      BY <1>2, <3>0, <3>1, <3>7, NewNumbered
    <3>3. Numbered(Revisions(day)) /\ Numbered(Revisions(day)')
      BY <1>2, <3>2 DEF BooksInv, AllNumbered
    <3>4. /\ InOrder(Revisions(day)') = Append(InOrder(Revisions(day)), new)
          /\ InOrder(Revisions(day)') # << >>
          /\ InOrder(Revisions(day)')[Len(InOrder(Revisions(day)'))] = new
      BY <3>2, <3>3, Appended
    <3>5. /\ DayLog'[day] = InOrder(Revisions(day)') /\ DayLog[day] = InOrder(Revisions(day))
          /\ \A e \in Days \ {day} : /\ DayLog'[e] = InOrder(Revisions(e)')
                                     /\ DayLog[e] = InOrder(Revisions(e))
      BY <3>2 DEF DayLog, InOrder
    <3>6. Log!Grow(day)
      BY <3>2, <3>4, <3>5 DEF Log!Grow
    <3> QED BY <3>2, <3>6 DEF Log!Next
  <2>2. CASE UNCHANGED revision
    BY <2>2 DEF Revisions, DayLog
  <2>3. UNCHANGED booksVars \/ Tick \/ BeginSave \/ BeginLoad => UNCHANGED revision
    BY DEF booksVars, Tick, BeginSave, BeginLoad
  <2>4. ASSUME NEW x \in Sales, StampSale(x) \/ CommitSale(x) \/ ConfirmSale(x) \/ BeginReview(x)
        PROVE  UNCHANGED revision
    BY <2>4 DEF StampSale, CommitSale, ConfirmSale, BeginReview
  <2>5. ASSUME NEW s \in Slots,
               \/ ReadSales(s) \/ ReadPayouts(s) \/ ReadLatest(s) \/ ReadReview(s)
               \/ WriteReview(s) \/ ReadTotals(s) \/ WriteRow(s) \/ FinishLoad(s) \/ Abandon(s)
        PROVE  UNCHANGED revision
    BY <2>5 DEF ReadSales, ReadPayouts, ReadLatest, ReadReview, WriteReview, ReadTotals,
                WriteRow, FinishLoad, Abandon
  <2>6. ASSUME NEW s \in Slots, CreateRevision(s), revision' # revision
        PROVE  /\ Is(s, "save") /\ call[s].previous # None
               /\ ~ \E q \in Revisions(call[s].day) : q.number = call[s].previous + 1
               /\ revision' = revision \cup {NewRevision(call[s])}
    BY <2>6 DEF CreateRevision
  <2> QED BY <1>2, <2>1, <2>2, <2>3, <2>4, <2>5, <2>6 DEF BooksNext
<1>3. BooksInv /\ BooksInv' /\ [BooksNext]_booksVars => [Log!Next]_DayLog
  BY <1>2
<1> QED BY <1>1, <1>3, BooksInvariant, PTL DEF BooksSpec, RevisionsAreALog, Log!Spec

-----------------------------------------------------------------------------
(* What a barber earns of a sale. *)
Earned == [x \in Sales |-> Bill[x].commission + Bill[x].tip]

(* There are finitely many sales, each with what it earned its barber. *)
LEMMA EarnedIsNat == IsFiniteSet(Sales) /\ Earned \in [Sales -> Nat]
BY BooksAssumption DEF Earned

CutsOf(paid, b) == {x \in paid : Bill[x].barber = b}

(* What is owed to a barber is what those of the sales that are the barber's add up to. *)
LEMMA OwedIsSum ==
  ASSUME NEW h, IsSum(h, Earned, Sales), NEW paid \in SUBSET Sales, NEW b
  PROVE  Owed(paid, b) = h[CutsOf(paid, b)]
<1> DEFINE S == CutsOf(paid, b)
<1>1. S \in SUBSET Sales
  BY DEF CutsOf
<1>2. [x \in S |-> Bill[x].commission + Bill[x].tip] = [x \in S |-> Earned[x]]
  BY <1>1 DEF Earned
<1>3. Owed(paid, b) = Sub(Earned, S)
  BY <1>2 DEF Owed, Total, Sub, CutsOf
<1> HIDE DEF S
<1>4. Sub(Earned, S) = h[S]
  BY <1>1, EarnedIsNat, SubIsSum
<1> QED BY <1>3, <1>4 DEF S

(* Of more sales no less is owed. *)
LEMMA OwedGrows ==
  ASSUME NEW more \in SUBSET Sales, NEW paid \in SUBSET more, NEW b
  PROVE  Owed(paid, b) \in Nat /\ Owed(more, b) \in Nat /\ Owed(paid, b) <= Owed(more, b)
<1> DEFINE S == CutsOf(paid, b)
           T == CutsOf(more, b)
<1>1. PICK h : IsSum(h, Earned, Sales)
  BY EarnedIsNat, SumExists
<1>2. paid \in SUBSET Sales /\ S \in SUBSET T /\ T \in SUBSET Sales /\ S \in SUBSET Sales
  BY DEF CutsOf
<1>3. Owed(paid, b) = h[S] /\ Owed(more, b) = h[T]
  <2>1. Owed(paid, b) = h[S]
    BY <1>1, <1>2, OwedIsSum
  <2>2. Owed(more, b) = h[T]
    BY <1>1, OwedIsSum
  <2> QED BY <2>1, <2>2
<1> HIDE DEF S, T
<1>4. h[S] <= h[T]
  BY <1>1, <1>2, EarnedIsNat, SumOfMore
<1>5. h[S] \in Nat /\ h[T] \in Nat
  BY <1>1, <1>2 DEF IsSum
<1> QED BY <1>3, <1>4, <1>5

(* No more than what the sales of the day earned the barber. *)
AtMost(n, d, b) == n \in Nat /\ n <= Owed(PaidOn(d), b)

(* What a load has yet to write was true when it was read, and what was true stays so:
   a sale that is paid on a day stays there. *)
OwedInv ==
  \A b \in Barbers, d \in Days :
    /\ <<b, d>> \in DOMAIN payout => AtMost(payout[<<b, d>>].owed, d, b)
    /\ \A s \in Slots :
         Is(s, "load") /\ call[s].day = d /\ b \in call[s].todo => AtMost(call[s].totals[b], d, b)

(* A total that was no more than is owed stays so: sales are only added to a day. *)
LEMMA AtMostStays ==
  ASSUME BooksInv, BooksInv', [BooksNext]_booksVars, NEW d \in Days, NEW b, NEW n, AtMost(n, d, b)
  PROVE  AtMost(n, d, b)'
<1>1. PaidOn(d) \subseteq PaidOn(d)' /\ PaidOn(d)' \in SUBSET Sales
  BY MoneyStep DEF PaidOn
<1>2. Owed(PaidOn(d), b)' = Owed(PaidOn(d)', b)
  BY DEF Owed, Total, SumOf, MapThenSumSet, MapThenFoldSet
<1>3. /\ Owed(PaidOn(d), b) \in Nat /\ Owed(PaidOn(d)', b) \in Nat
      /\ Owed(PaidOn(d), b) <= Owed(PaidOn(d)', b)
  BY <1>1, OwedGrows
<1> QED BY <1>2, <1>3 DEF AtMost

(* A row whose amount stays, and a load that goes on as it was or has nothing to write. *)
LEMMA RowStays ==
  ASSUME OwedInv, BooksInv, BooksInv', [BooksNext]_booksVars, NEW b \in Barbers, NEW d \in Days,
         <<b, d>> \in DOMAIN payout, payout'[<<b, d>>].owed = payout[<<b, d>>].owed
  PROVE  AtMost(payout[<<b, d>>].owed, d, b)'
<1>1. PICK n : n = payout[<<b, d>>].owed
  OBVIOUS
<1>2. AtMost(n, d, b)
  BY <1>1 DEF OwedInv
<1>3. AtMost(n, d, b)'
  BY <1>2, AtMostStays
<1> QED BY <1>1, <1>3 DEF AtMost

(* The same for a total that a load has read and not yet posted. *)
LEMMA TotalStays ==
  ASSUME OwedInv, BooksInv, BooksInv', [BooksNext]_booksVars, NEW b \in Barbers, NEW d \in Days,
         NEW s \in Slots, Is(s, "load"), call[s].day = d, b \in call[s].todo,
         call'[s].totals[b] = call[s].totals[b]
  PROVE  AtMost(call[s].totals[b], d, b)'
<1>1. PICK n : n = call[s].totals[b]
  OBVIOUS
<1>2. AtMost(n, d, b)
  BY <1>1 DEF OwedInv
<1>3. AtMost(n, d, b)'
  BY <1>2, AtMostStays
<1> QED BY <1>1, <1>3 DEF AtMost

(* At the start no load is under way. *)
LEMMA OwedInvInit == BooksInit => OwedInv
BY DEF BooksInit, OwedInv, Is

(* Every step keeps what is owed: only a load writes it, and what it writes it has read. *)
LEMMA OwedInvStep == OwedInv /\ BooksInv /\ BooksInv' /\ [BooksNext]_booksVars => OwedInv'
<1> SUFFICES ASSUME OwedInv, BooksInv, BooksInv', [BooksNext]_booksVars,
                    NEW b \in Barbers, NEW d \in Days
             PROVE  /\ <<b, d>> \in DOMAIN payout' => AtMost(payout[<<b, d>>].owed, d, b)'
                    /\ \A s \in Slots :
                         Is(s, "load")' /\ call'[s].day = d /\ b \in call'[s].todo
                           => AtMost(call[s].totals[b], d, b)'
  BY DEF OwedInv
<1>0. DOMAIN call = Slots
  BY DEF BooksInv, Shapes
<1>1. CASE /\ UNCHANGED payout
           /\ \A s \in Slots : call'[s] = call[s] \/ ~ Is(s, "load")' \/ call'[s].todo = {}
  BY <1>1, RowStays, TotalStays DEF Is
<1>2. ASSUME NEW s \in Slots, ReadTotals(s)
      PROVE  /\ UNCHANGED payout /\ \A q \in Slots \ {s} : call'[q] = call[q]
             /\ call'[s].day = call[s].day
             /\ call[s].day = d => call'[s].totals[b] = Owed(PaidOn(d), b)
  BY <1>0, <1>2, CallTypes DEF ReadTotals, TotalsRead, Goto, BooksInv, LoadCall
<1>3. ASSUME NEW s \in Slots, ReadTotals(s), call[s].day = d
      PROVE  AtMost(call[s].totals[b], d, b)'
  <2>1. PICK n : n = Owed(PaidOn(d), b)
    OBVIOUS
  <2>2. n \in Nat
    BY <2>1, OwedGrows DEF PaidOn
  <2>3. AtMost(n, d, b)
    BY <2>1, <2>2 DEF AtMost
  <2>4. AtMost(n, d, b)'
    BY <2>3, AtMostStays
  <2> QED BY <1>2, <1>3, <2>1, <2>4 DEF AtMost
<1>4. CASE \E s \in Slots : ReadTotals(s)
  BY <1>2, <1>3, <1>4, RowStays, TotalStays DEF Is
<1>5. CASE \E s \in Slots : WriteRow(s)
  <2>1. PICK s \in Slots : WriteRow(s)
    BY <1>5
  <2>2. PICK r : r = call[s]
    OBVIOUS
  <2>3. PICK c \in r.todo :
          /\ payout' = [k \in DOMAIN payout \cup {<<c, r.day>>} |->
                          IF k = <<c, r.day>> THEN Refreshed(k, r.totals[c]) ELSE payout[k]]
          /\ call' = [call EXCEPT ![s] = [r EXCEPT !.todo = @ \ {c}]]
          /\ Is(s, "load")
    BY <2>1, <2>2 DEF WriteRow, Goto
  <2>4. LoadCall(r)
    BY <2>2, <2>3, CallTypes DEF BooksInv
  <2>5. /\ call'[s].day = r.day /\ call'[s].totals = r.totals /\ call'[s].todo \subseteq r.todo
        /\ \A q \in Slots \ {s} : call'[q] = call[q]
    BY <1>0, <2>3, <2>4 DEF LoadCall
  <2>6. \A q \in Slots : Is(q, "load")' /\ call'[q].day = d /\ b \in call'[q].todo
                           => AtMost(call[q].totals[b], d, b)'
    BY <2>2, <2>3, <2>5, TotalStays DEF Is
  <2>7. CASE <<b, d>> = <<c, r.day>>
    <3>1. payout'[<<b, d>>] = Refreshed(<<b, d>>, r.totals[b])
      BY <2>3, <2>7
    <3>2. payout'[<<b, d>>].owed = r.totals[b]
      BY <3>1 DEF Refreshed, BooksInv, Shapes
    <3>3. PICK n : n = r.totals[b]
      OBVIOUS
    <3>4. AtMost(n, d, b)
      BY <2>2, <2>3, <2>7, <3>3 DEF OwedInv
    <3>5. AtMost(n, d, b)'
      BY <3>4, AtMostStays
    <3>6. AtMost(payout[<<b, d>>].owed, d, b)'
      BY <3>2, <3>3, <3>5 DEF AtMost
    <3> QED BY <2>6, <3>6
  <2>8. CASE <<b, d>> # <<c, r.day>>
    <3>1. <<b, d>> \in DOMAIN payout' => <<b, d>> \in DOMAIN payout /\ payout'[<<b, d>>] = payout[<<b, d>>]
      BY <2>3, <2>8
    <3> QED BY <2>6, <3>1, RowStays
  <2> QED BY <2>7, <2>8
<1>6. CASE \E s \in Slots : FinishLoad(s)
  <2>1. PICK s \in Slots : FinishLoad(s)
    BY <1>6
  <2>2. PICK key : key = <<call[s].payer, call[s].day>>
    OBVIOUS
  <2>3. /\ call' = [call EXCEPT ![s] = None]
        /\ payout' = payout \/ payout' = [payout EXCEPT ![key].paid = call[s].paid]
    BY <2>1, <2>2 DEF FinishLoad, Done, Goto
  <2>4. DOMAIN payout' = DOMAIN payout
    BY <2>3
  <2>5. <<b, d>> \in DOMAIN payout => payout'[<<b, d>>].owed = payout[<<b, d>>].owed
    BY <2>3 DEF BooksInv, Shapes
  <2>6. \A q \in Slots : call'[q] = call[q] \/ ~ Is(q, "load")'
    BY <1>0, <2>3 DEF Is
  <2> QED BY <2>4, <2>5, <2>6, RowStays, TotalStays DEF Is
<1>7. /\ Tick \/ UNCHANGED booksVars => UNCHANGED <<payout, call>>
      /\ \A x \in Sales : StampSale(x) \/ CommitSale(x) \/ ConfirmSale(x) => UNCHANGED <<payout, call>>
  BY DEF Tick, booksVars, StampSale, CommitSale, ConfirmSale
<1>8. ASSUME BeginSave \/ BeginLoad \/ \E x \in Sales : BeginReview(x)
      PROVE  /\ UNCHANGED payout
             /\ \A s \in Slots : call'[s] = call[s] \/ ~ Is(s, "load")' \/ call'[s].todo = {}
  BY <1>0, <1>8 DEF BeginSave, BeginLoad, BeginReview, Begin, Goto, Is
<1>9. ASSUME NEW s \in Slots,
             \/ ReadSales(s) \/ ReadPayouts(s) \/ ReadLatest(s) \/ CreateRevision(s)
             \/ ReadReview(s) \/ WriteReview(s) \/ Abandon(s)
      PROVE  /\ UNCHANGED payout
             /\ \A q \in Slots : call'[q] = call[q] \/ ~ Is(q, "load")' \/ call'[q].todo = {}
  <2>1. PICK r : r = call[s]
    OBVIOUS
  <2>2. UNCHANGED payout /\ \E next : call' = [call EXCEPT ![s] = next] /\ (next = None \/ next.kind # "load")
    <3>1. CASE \/ ReadSales(s) \/ ReadPayouts(s) \/ ReadLatest(s) \/ CreateRevision(s)
      <4>1. Is(s, "save")
        BY <3>1 DEF ReadSales, ReadPayouts, ReadLatest, CreateRevision
      <4>2. SaveCall(r)
        BY <2>1, <4>1, CallTypes DEF BooksInv
      <4>3. /\ SalesRead(r).kind = "save"
            /\ \A v : [r EXCEPT !.cashPayouts = v].kind = "save" /\ [r EXCEPT !.previous = v].kind = "save"
        BY <4>2 DEF SaveCall, SalesRead
      <4>4. CASE ReadSales(s)
        BY <2>1, <4>3, <4>4 DEF ReadSales, Goto
      <4>5. CASE ReadPayouts(s) \/ ReadLatest(s)
        BY <2>1, <4>3, <4>5 DEF ReadPayouts, ReadLatest, Goto
      <4>6. CASE CreateRevision(s)
        <5>1. /\ UNCHANGED payout
              /\ \/ call' = [call EXCEPT ![s] = None]
                 \/ call' = [call EXCEPT ![s] = [r EXCEPT !.previous = None, !.attempt = @ + 1]]
          BY <2>1, <4>6 DEF CreateRevision, Done, Goto
        <5>2. [r EXCEPT !.previous = None, !.attempt = @ + 1].kind = "save"
          BY <4>2 DEF SaveCall
        <5> QED BY <5>1, <5>2
      <4> QED BY <3>1, <4>4, <4>5, <4>6
    <3>2. CASE ReadReview(s)
      <4>1. ReviewCall(r)
        BY <2>1, <3>2, CallTypes DEF ReadReview, BooksInv
      <4>2. \A v : [r EXCEPT !.date = v].kind = "review"
        BY <4>1 DEF ReviewCall
      <4> QED BY <2>1, <3>2, <4>2 DEF ReadReview, Done, Goto
    <3>3. CASE WriteReview(s) \/ Abandon(s)
      BY <3>3 DEF WriteReview, Abandon, Done, Goto
    <3> QED BY <1>9, <3>1, <3>2, <3>3
  <2> QED BY <1>0, <2>2 DEF Is
<1> QED BY <1>1, <1>4, <1>5, <1>6, <1>7, <1>8, <1>9 DEF BooksNext

(* A stored row may lag behind the day's sales, but never says more is owed than they
   earned: two loads write over each other what they read, and the sales of a day only
   grow (payouts/route.ts, payout-totals.ts). *)
THEOREM RowsNeverOverpay == BooksSpec => []OwedIsEarned
<1>1. OwedInv /\ BooksInv => OwedIsEarned
  <2> SUFFICES ASSUME OwedInv, BooksInv, NEW k \in DOMAIN payout
               PROVE  payout[k].owed <= Owed(PaidOn(k[2]), k[1])
    BY DEF OwedIsEarned
  <2>1. PICK b \in Barbers, d \in Days : k = <<b, d>>
    BY DEF BooksInv, Shapes, Keys
  <2>2. AtMost(payout[k].owed, d, b)
    BY <2>1 DEF OwedInv
  <2> QED BY <2>1, <2>2 DEF AtMost
<1> QED BY <1>1, OwedInvInit, OwedInvStep, BooksInvariant, PTL DEF BooksSpec

-----------------------------------------------------------------------------
(* What a slot may hold, and the kinds of work that may still start. *)
Handlers == Save \cup Review \cup Load \cup {None}
CallKinds == {"save", "review", "load", "sync"}

(* What BooksTypeOK says beyond BooksInv and OwedInv: the fields no other property reads. *)
BooksRest ==
  /\ revision \subseteq Revision
  /\ \A k \in DOMAIN payout : payout[k].paid \in Payment \cup {Unpaid}
  /\ posted \in [Keys -> Payment \cup {Unpaid}]
  /\ call \in [Slots -> Handlers]
  /\ \A s \in Slots : Is(s, "save") /\ call[s].previous # None => call[s].cashPayouts # None
  /\ left \in [CallKinds -> Nat]

(* A handler of a kind is a record of that kind. *)
LEMMA HandlerOfKind ==
  ASSUME BooksRest, NEW s \in Slots
  PROVE  /\ Is(s, "save") => call[s] \in Save
         /\ Is(s, "review") => call[s] \in Review
         /\ Is(s, "load") => call[s] \in Load
<1>1. call[s] \in Handlers
  BY DEF BooksRest
<1>2. (call[s] \in Save => call[s].kind = "save") /\ (call[s] \in Review => call[s].kind = "review")
      /\ (call[s] \in Load => call[s].kind = "load")
  BY DEF Save, Review, Load
<1> QED BY <1>1, <1>2 DEF Handlers, Is

(* The cash paid out on a day is a number. *)
LEMMA CashIsNat ==
  ASSUME BooksRest, NEW d
  PROVE  CashPayouts(d) \in Nat
<1> DEFINE S == {b \in Barbers : <<b, d>> \in DOMAIN payout /\ payout[<<b, d>>].paid.marked}
           g == [b \in S |-> payout[<<b, d>>].paid.cash]
<1>1. IsFiniteSet(S)
  BY BooksAssumption, FS_Subset
<1>2. ASSUME NEW b \in S PROVE payout[<<b, d>>].paid.cash \in Nat
  <2>1. payout[<<b, d>>].paid \in Payment \cup {Unpaid}
    BY DEF BooksRest
  <2>2. payout[<<b, d>>].paid.cash \in Amounts \cup {0}
    BY <2>1 DEF Payment, Unpaid
  <2>3. Amounts \subseteq Nat
    BY BooksAssumption
  <2>4. Amounts \cup {0} \subseteq Nat
    BY <2>3
  <2> QED BY ONLY <2>2, <2>4
<1>3. g \in [S -> Nat]
  BY <1>2
<1>4. SumOf(g) \in Nat
  <2> HIDE DEF g, S
  <2> QED BY <1>1, <1>3, SumIsNat
<1> QED BY <1>4 DEF CashPayouts, Total

(* So is the cash that should be in the drawer, which may fall below zero. *)
LEMMA CashIsInt ==
  ASSUME NEW paid \in SUBSET Sales, NEW out \in Int, NEW petty \in Nat
  PROVE  DrawerCash(paid, out, petty) \in Int
<1> DEFINE S == {x \in paid : sale[x].method = "CASH"}
           g == [x \in S |-> Bill[x].amount + Bill[x].tip]
<1>1. IsFiniteSet(S)
  BY BooksAssumption, FS_Subset
<1>2. g \in [S -> Nat]
  BY BooksAssumption
<1>3. SumOf(g) \in Nat
  <2> HIDE DEF g, S
  <2> QED BY <1>1, <1>2, SumIsNat
<1>4. DrawerCash(paid, out, petty) = (SumOf(g) - out) - petty
  BY DEF DrawerCash, Total
<1> HIDE DEF g
<1> QED BY <1>3, <1>4

(* The types hold in the beginning. *)
LEMMA BooksRestInit == BooksInit => BooksRest
<1> SUFFICES ASSUME BooksInit PROVE BooksRest
  OBVIOUS
<1>1. revision \subseteq Revision /\ posted \in [Keys -> Payment \cup {Unpaid}]
      /\ call \in [Slots -> Handlers]
  BY DEF BooksInit, Handlers
<1>2. left \in [CallKinds -> Nat]
  BY BooksAssumption DEF BooksInit, CallKinds
<1> QED BY <1>1, <1>2 DEF BooksInit, BooksRest, Is

(* A step that only moves a handler on, or ends it, keeps the types. *)
LEMMA HandlerTypes ==
  ASSUME BooksRest, NEW s \in Slots, NEW r \in Handlers,
         r # None /\ r.kind = "save" /\ r.previous # None => r.cashPayouts # None,
         call' = [call EXCEPT ![s] = r],
         UNCHANGED <<revision, payout, posted, left>>
  PROVE  BooksRest'
BY DEF BooksRest, Is

(* So does a handler's beginning. *)
LEMMA BeginTypes ==
  ASSUME BooksRest, NEW r \in Save \cup Review \cup Load, Begin(r),
         r.kind = "save" => r.previous = None,
         UNCHANGED <<revision, payout, posted>>
  PROVE  BooksRest'
<1>1. PICK s \in Slots : call' = [call EXCEPT ![s] = r]
  BY DEF Begin, Goto
<1>2. r.kind \in CallKinds /\ r \in Handlers
  BY DEF Save, Review, Load, CallKinds, Handlers
<1>3. left' \in [CallKinds -> Nat]
  <2>1. left[r.kind] \in Nat /\ left[r.kind] > 0 /\ left' = [left EXCEPT ![r.kind] = left[r.kind] - 1]
    BY <1>2 DEF Begin, BooksRest
  <2> QED BY <1>2, <2>1 DEF BooksRest
<1> QED BY <1>1, <1>2, <1>3 DEF BooksRest, Is

(* A handler begins with nothing read. *)
LEMMA BeginsTyped ==
  ASSUME BooksInv, BooksRest, BeginSave \/ BeginLoad \/ \E x \in Sales : BeginReview(x)
  PROVE  BooksRest'
<1>0. clock \in Time
  BY DEF BooksInv, Shapes
<1>1. CASE BeginSave
  <2>1. PICK d \in OwnerDays, petty \in PettyCash :
          Begin([kind |-> "save", day |-> d, petty |-> petty, at |-> clock,
                 saw |-> None, open |-> {}, cashPayouts |-> None,
                 previous |-> None, attempt |-> 1])
    BY <1>1 DEF BeginSave
  <2>2. d \in Days /\ 1 \in 1 .. MaxAttempts
    BY BooksAssumption
  <2>3. [kind |-> "save", day |-> d, petty |-> petty, at |-> clock,
         saw |-> None, open |-> {}, cashPayouts |-> None,
         previous |-> None, attempt |-> 1] \in Save
    BY <1>0, <2>2 DEF Save
  <2> QED BY <1>1, <2>1, <2>3, BeginTypes DEF BeginSave
<1>2. CASE BeginLoad
  <2>1. PICK d \in OwnerDays, b \in Barbers \cup {None} :
          \E paid \in IF b = None THEN {Unpaid} ELSE Payment :
            Begin([kind |-> "load", day |-> d, payer |-> b, paid |-> paid,
                   totals |-> None, todo |-> {}])
    BY <1>2 DEF BeginLoad
  <2>2. PICK paid \in Payment \cup {Unpaid} :
          Begin([kind |-> "load", day |-> d, payer |-> b, paid |-> paid,
                 totals |-> None, todo |-> {}])
    BY <2>1
  <2>3. [kind |-> "load", day |-> d, payer |-> b, paid |-> paid,
         totals |-> None, todo |-> {}] \in Load
    BY BooksAssumption DEF Load
  <2> QED BY <1>2, <2>2, <2>3, BeginTypes DEF BeginLoad
<1>3. CASE \E x \in Sales : BeginReview(x)
  <2>1. PICK x \in Sales, c \in Choice :
          /\ Begin([kind |-> "review", sale |-> x, choice |-> c, at |-> clock, date |-> None])
          /\ UNCHANGED <<revision, payout, posted>>
    BY <1>3 DEF BeginReview
  <2>2. [kind |-> "review", sale |-> x, choice |-> c, at |-> clock, date |-> None] \in Review
    BY <1>0 DEF Review
  <2> QED BY <2>1, <2>2, BeginTypes
<1> QED BY <1>1, <1>2, <1>3

(* The awaits of a save. *)
LEMMA SavesTyped ==
  ASSUME BooksInv, BooksRest, NEW s \in Slots,
         ReadSales(s) \/ ReadPayouts(s) \/ ReadLatest(s) \/ CreateRevision(s)
  PROVE  BooksRest'
<1>0. PICK r : r = call[s]
  OBVIOUS
<1>1. r \in Save /\ r # None
  BY <1>0, HandlerOfKind DEF Is, ReadSales, ReadPayouts, ReadLatest, CreateRevision
<1>8. r.kind = "save" /\ (r.previous # None => r.cashPayouts # None)
  BY <1>0, <1>1 DEF BooksRest, Save, Is
<1>9. PaidOn(r.day) \in SUBSET Sales /\ UnderWay \in SUBSET Sales
  BY DEF PaidOn, UnderWay
<1>2. CASE ReadSales(s)
  <2>1. SalesRead(r) \in Save
    BY <1>1, <1>9 DEF SalesRead, Save
  <2>2. SalesRead(r).previous = r.previous /\ SalesRead(r).cashPayouts = r.cashPayouts
    BY <1>1 DEF SalesRead, Save
  <2> QED BY <1>0, <1>2, <1>8, <2>1, <2>2, HandlerTypes DEF ReadSales, Goto, Handlers
<1>3. CASE ReadPayouts(s)
  <2>1. CashPayouts(r.day) \in Int
    BY CashIsNat
  <2>2. [r EXCEPT !.cashPayouts = CashPayouts(r.day)] \in Save
    BY <1>1, <2>1 DEF Save
  <2>3. [r EXCEPT !.cashPayouts = CashPayouts(r.day)].cashPayouts # None
    BY <1>1, <2>1, BooksAssumption DEF Save
  <2> QED BY <1>0, <1>3, <2>2, <2>3, HandlerTypes DEF ReadPayouts, Goto, Handlers
<1>4. CASE ReadLatest(s)
  <2>1. LatestNumber(r.day) \in Nat
    BY <1>1, LatestIsLast DEF BooksInv, AllNumbered, Save
  <2>2. [r EXCEPT !.previous = LatestNumber(r.day)] \in Save
    BY <1>1, <2>1 DEF Save
  <2>3. r.cashPayouts # None /\ [r EXCEPT !.previous = LatestNumber(r.day)].cashPayouts = r.cashPayouts
    BY <1>0, <1>1, <1>4 DEF ReadLatest, Save
  <2> QED BY <1>0, <1>4, <2>2, <2>3, HandlerTypes DEF ReadLatest, Goto, Handlers
<1>5. CASE CreateRevision(s)
  <2>1. CASE UNCHANGED revision /\ call' = [call EXCEPT ![s] = None]
    BY <1>5, <2>1, HandlerTypes DEF CreateRevision, Handlers
  <2>2. CASE /\ UNCHANGED revision /\ r.attempt < MaxAttempts
             /\ call' = [call EXCEPT ![s] = [r EXCEPT !.previous = None, !.attempt = @ + 1]]
    <3>1. r.attempt + 1 \in 1 .. MaxAttempts
      BY <1>1, <2>2, BooksAssumption DEF Save
    <3>2. [r EXCEPT !.previous = None, !.attempt = @ + 1] \in Save
      BY <1>1, <3>1 DEF Save
    <3>3. [r EXCEPT !.previous = None, !.attempt = @ + 1].previous = None
      BY <1>1 DEF Save
    <3> QED BY <1>5, <2>2, <3>2, <3>3, HandlerTypes DEF CreateRevision, Handlers
  <2>3. CASE /\ r.previous # None /\ r.previous < MaxRevisions
             /\ revision' = revision \cup {NewRevision(r)} /\ call' = [call EXCEPT ![s] = None]
    <3>1. r.previous + 1 \in 1 .. MaxRevisions
      BY <1>1, <2>3, BooksAssumption DEF Save
    <3>2. r.saw \in SUBSET Sales /\ r.cashPayouts \in Int
      <4>1. r.saw # None /\ r.cashPayouts # None
        BY <1>0, <1>1, <1>5, <2>3 DEF BooksInv, SavesFit, BooksRest, CreateRevision, Save
      <4> QED BY <1>1, <4>1 DEF Save
    <3>3. r.petty \in Nat
      BY <1>1, BooksAssumption DEF Save
    <3>4. DrawerCash(r.saw, r.cashPayouts, r.petty) \in Int
      BY <3>2, <3>3, CashIsInt
    <3>5. NewRevision(r) \in Revision
      BY <1>1, <3>1, <3>2, <3>4 DEF NewRevision, Revision, Save
    <3> QED BY <1>5, <2>3, <3>5 DEF CreateRevision, BooksRest, Handlers, Is
  <2> QED BY <1>0, <1>5, <2>1, <2>2, <2>3 DEF CreateRevision, Done, Goto
<1> QED BY <1>2, <1>3, <1>4, <1>5

(* The awaits of a review and a load, and the end of any handler. *)
LEMMA OthersTyped ==
  ASSUME BooksInv, BooksRest, NEW s \in Slots,
         \/ ReadReview(s) \/ WriteReview(s) \/ ReadTotals(s) \/ WriteRow(s) \/ FinishLoad(s)
         \/ Abandon(s)
  PROVE  BooksRest'
<1>0. PICK r : r = call[s]
  OBVIOUS
<1>1. ASSUME call' = [call EXCEPT ![s] = None], UNCHANGED <<revision, payout, posted, left>>
      PROVE  BooksRest'
  BY <1>1, HandlerTypes DEF Handlers
<1>2. CASE ReadReview(s)
  <2>1. r \in Review /\ r.kind = "review"
    BY <1>0, <1>2, HandlerOfKind DEF ReadReview, Review
  <2> DEFINE date == DayOf(IF r.choice = "STATED_DATE" THEN sale[r.sale].stated ELSE sale[r.sale].syncedAt)
  <2>2. CASE sale[r.sale] # None /\ call' = [call EXCEPT ![s] = [r EXCEPT !.date = date]]
    <3>1. sale[r.sale] \in SaleRow
      BY <2>1, <2>2 DEF BooksInv, Shapes, Review
    <3>2. date \in Days
      BY <3>1, BooksAssumption, DayOfTime DEF SaleRow
    <3> HIDE DEF date
    <3>3. [r EXCEPT !.date = date] \in Review /\ [r EXCEPT !.date = date].kind = "review"
      BY <2>1, <3>2 DEF Review
    <3> QED BY <1>2, <2>2, <3>3, HandlerTypes DEF ReadReview, Handlers
  <2>3. CASE call' = [call EXCEPT ![s] = None]
    BY <1>1, <1>2, <2>3 DEF ReadReview
  <2> QED BY <1>0, <1>2, <2>2, <2>3 DEF ReadReview, Goto, Done
<1>3. CASE WriteReview(s) \/ Abandon(s)
  BY <1>1, <1>3 DEF WriteReview, Abandon, Goto, Done
<1>4. CASE ReadTotals(s)
  <2>1. r \in Load /\ r.kind = "load"
    BY <1>0, <1>4, HandlerOfKind DEF ReadTotals, Load
  <2>2. TotalsRead(r.day) \in [Barbers -> Int]
    <3>1. \A b : Owed(PaidOn(r.day), b) \in Int
      BY OwedGrows DEF PaidOn
    <3> QED BY <3>1 DEF TotalsRead
  <2>3. [r EXCEPT !.totals = TotalsRead(r.day), !.todo = Barbers] \in Load
        /\ [r EXCEPT !.totals = TotalsRead(r.day), !.todo = Barbers].kind = "load"
    BY <2>1, <2>2 DEF Load
  <2> QED BY <1>0, <1>4, <2>3, HandlerTypes DEF ReadTotals, Goto, Handlers
<1>5. CASE WriteRow(s)
  <2>1. r \in Load /\ r.kind = "load"
    BY <1>0, <1>5, HandlerOfKind DEF WriteRow, Load
  <2>2. PICK b \in r.todo :
          /\ payout' = [k \in DOMAIN payout \cup {<<b, r.day>>} |->
                          IF k = <<b, r.day>> THEN Refreshed(k, r.totals[b]) ELSE payout[k]]
          /\ call' = [call EXCEPT ![s] = [r EXCEPT !.todo = @ \ {b}]]
    BY <1>0, <1>5 DEF WriteRow, Goto
  <2>3. [r EXCEPT !.todo = @ \ {b}] \in Load /\ [r EXCEPT !.todo = @ \ {b}].kind = "load"
    BY <2>1 DEF Load
  <2>4. ASSUME NEW k \in DOMAIN payout' PROVE payout'[k].paid \in Payment \cup {Unpaid}
    <3>1. CASE k = <<b, r.day>> /\ k \notin DOMAIN payout
      BY <2>2, <3>1 DEF Refreshed
    <3>2. CASE k \in DOMAIN payout
      <4>1. payout[k].paid \in Payment \cup {Unpaid}
            /\ payout[k] = [owed |-> payout[k].owed, paid |-> payout[k].paid]
        BY <3>2 DEF BooksRest, BooksInv, Shapes
      <4>2. payout'[k].paid = payout[k].paid
        BY <2>2, <3>2, <4>1 DEF Refreshed
      <4> QED BY <4>1, <4>2
    <3> QED BY <2>2, <3>1, <3>2
  <2>5. call' \in [Slots -> Handlers]
        /\ \A q \in Slots : Is(q, "save")' => Is(q, "save") /\ call'[q] = call[q]
    BY <2>2, <2>3 DEF BooksRest, Handlers, Is
  <2> QED BY <1>5, <2>4, <2>5 DEF WriteRow, BooksRest
<1>6. CASE FinishLoad(s)
  <2>1. r \in Load
    BY <1>0, <1>6, HandlerOfKind DEF FinishLoad
  <2>2. CASE UNCHANGED <<payout, posted>>
    BY <1>1, <1>6, <2>2 DEF FinishLoad, Done, Goto
  <2>3. CASE r.payer # None
    <3>1. PICK k : k = <<r.payer, r.day>>
      OBVIOUS
    <3>2. /\ payout' = [payout EXCEPT ![k].paid = r.paid]
          /\ posted' = [posted EXCEPT ![k] = r.paid]
          /\ call' = [call EXCEPT ![s] = None] /\ UNCHANGED <<revision, left>>
      BY <1>0, <1>6, <2>3, <3>1 DEF FinishLoad, Done, Goto
    <3>3. r.paid \in Payment \cup {Unpaid}
      BY <2>1 DEF Load
    <3>4. ASSUME NEW j \in DOMAIN payout' PROVE payout'[j].paid \in Payment \cup {Unpaid}
      <4>1. j \in DOMAIN payout /\ payout[j].paid \in Payment \cup {Unpaid}
            /\ payout[j] = [owed |-> payout[j].owed, paid |-> payout[j].paid]
        BY <3>2 DEF BooksRest, BooksInv, Shapes
      <4>2. payout'[j].paid = IF j = k THEN r.paid ELSE payout[j].paid
        BY <3>2, <4>1
      <4> QED BY <3>3, <4>1, <4>2
    <3>5. posted' \in [Keys -> Payment \cup {Unpaid}]
      BY <3>2, <3>3 DEF BooksRest
    <3>6. call' \in [Slots -> Handlers]
          /\ \A q \in Slots : Is(q, "save")' => Is(q, "save") /\ call'[q] = call[q]
      BY <3>2 DEF BooksRest, Handlers, Is
    <3> QED BY <3>2, <3>4, <3>5, <3>6 DEF BooksRest
  <2> QED BY <1>0, <1>6, <2>2, <2>3 DEF FinishLoad
<1> QED BY <1>2, <1>3, <1>4, <1>5, <1>6

(* Every step keeps the types. *)
LEMMA BooksRestStep == BooksInv /\ BooksRest /\ [BooksNext]_booksVars => BooksRest'
<1> SUFFICES ASSUME BooksInv, BooksRest, [BooksNext]_booksVars PROVE BooksRest'
  OBVIOUS
<1>1. ASSUME NEW x \in Sales, StampSale(x) PROVE BooksRest'
  <2>1. left["sync"] > 0 /\ left' = [left EXCEPT !["sync"] = left["sync"] - 1]
        /\ UNCHANGED <<revision, payout, posted, call>>
    BY <1>1 DEF StampSale
  <2>2. left' \in [CallKinds -> Nat]
    BY <2>1 DEF BooksRest, CallKinds
  <2> QED BY <2>1, <2>2 DEF BooksRest, Is
<1>2. CASE Tick \/ UNCHANGED booksVars \/ \E x \in Sales : CommitSale(x) \/ ConfirmSale(x)
  <2>1. UNCHANGED <<revision, payout, posted, call, left>>
    BY <1>2 DEF Tick, booksVars, CommitSale, ConfirmSale
  <2> QED BY <2>1 DEF BooksRest, Is
<1> QED BY <1>1, <1>2, BeginsTyped, SavesTyped, OthersTyped DEF BooksNext

(* Together with what is already known, these are all the types. *)
LEMMA BooksTyped == BooksInv /\ OwedInv /\ BooksRest => BooksTypeOK
<1> SUFFICES ASSUME BooksInv, OwedInv, BooksRest PROVE BooksTypeOK
  OBVIOUS
<1>1. ASSUME NEW k \in DOMAIN payout PROVE payout[k] \in PayoutRow
  <2>1. PICK b \in Barbers, d \in Days : k = <<b, d>>
    BY DEF BooksInv, Shapes, Keys
  <2>2. payout[k].owed \in Int
    BY <2>1 DEF OwedInv, AtMost
  <2>3. payout[k] = [owed |-> payout[k].owed, paid |-> payout[k].paid] /\ payout[k].paid \in Payment \cup {Unpaid}
    BY DEF BooksInv, Shapes, BooksRest
  <2> QED BY <2>2, <2>3 DEF PayoutRow
<1>2. call \in [Slots -> Save \cup Review \cup Load \cup {None}]
      /\ left \in [{"save", "review", "load", "sync"} -> Nat]
  BY DEF BooksRest, Handlers, CallKinds
<1> QED BY <1>1, <1>2 DEF BooksInv, Shapes, BooksRest, BooksTypeOK

(* Rows, revisions, payments and handlers have their types: amounts owed are numbers, and a
   save never takes a number past the bound. *)
THEOREM BooksTypes == BooksSpec => []BooksTypeOK
<1>1. BooksInit => BooksInv /\ OwedInv /\ BooksRest
  BY BooksInvInit, OwedInvInit, BooksRestInit
<1>2. (BooksInv /\ OwedInv /\ BooksRest) /\ [BooksNext]_booksVars => (BooksInv /\ OwedInv /\ BooksRest)'
  BY BooksInvStep, OwedInvStep, BooksRestStep
<1>3. BooksInv /\ OwedInv /\ BooksRest => BooksTypeOK
  BY BooksTyped
<1> QED BY <1>1, <1>2, <1>3, PTL DEF BooksSpec
=============================================================================
