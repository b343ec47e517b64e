--------------------------- MODULE GatewayProofs ---------------------------
(***************************************************************************)
(* The safety properties of Gateway, for any number of sales, intents,     *)
(* handlers and faults.  None of them is inductive: what a handler is      *)
(* about to write must fit what others have written since it last looked.  *)
(* GatewayInv says what each handler may rely on at the await it stands    *)
(* at, and that only the row lock keeps two handlers from charging one     *)
(* sale.                                                                   *)
(***************************************************************************)
EXTENDS Gateway, TLAPS

(* A sale without a payment row among those of pay. *)
NoPaymentIn(pay, x) == \A i \in Intents : pay[i] # None => pay[i].sale # x

(* What holds of a handler r at its await, given the rows and PayMongo's intents: what it
   has created is not on file yet, a transaction that lives still finds the sale without
   a payment, and what it heard from PayMongo stays true. *)
CallFits(r, pay, pm, sales) ==
  /\ r.kind # "event" => r.sale \in Sales
  /\ r.stage \in {"creating", "attaching", "storing"} => r.kind = "charge"
  /\ r.stage \in {"attaching", "storing"} =>
       r.intent \in Intents /\ pm[r.intent] # "none" /\ pay[r.intent] = None
  /\ r.stage \in {"retrieving", "reading", "applying"} => r.intent \in Intents
  /\ r.stage \in {"retrieving", "applying"} => pay[r.intent] # None
  /\ r.stage \in {"reading", "applying"} =>
       r.told \in Outcome /\ (r.told = "PAID" => pm[r.intent] = "succeeded")
  /\ r.inTx => /\ r.stage \in {"creating", "attaching", "storing"}
               /\ sales[r.sale] = "PENDING"
               /\ NoPaymentIn(pay, r.sale)

CallsFit ==
  \A s \in Slots : call[s] # None => CallFits(call[s], payment, intent, booked)

(* No two transactions hold one sale's row; no two handlers hold one intent. *)
Apart(q, r) ==
  /\ q.inTx /\ r.inTx => q.sale # r.sale
  /\ q.stage \in {"attaching", "storing"} /\ r.stage \in {"attaching", "storing"} =>
       q.intent # r.intent

CallsApart ==
  \A s, t \in Slots : s # t /\ call[s] # None /\ call[t] # None => Apart(call[s], call[t])

(* The rows fit each other and PayMongo's state. *)
PaymentFits(i) ==
  payment[i] # None =>
    /\ intent[i] # "none"
    /\ booked[payment[i].sale] = payment[i].status
    /\ payment[i].status = "PAID" => intent[i] = "succeeded"

OnePayment ==
  \A i, k \in Intents :
    payment[i] # None /\ payment[k] # None /\ payment[i].sale = payment[k].sale => i = k

RowsFit ==
  /\ \A i \in Intents : PaymentFits(i)
  /\ OnePayment
  /\ \A x \in Sales : booked[x] \in Outcome => ~ NoPaymentIn(payment, x)
  /\ \A i \in shown : payment[i] # None
  /\ \A e \in unacked : e.status = "PAID" => intent[e.intent] = "succeeded"
  /\ \A i \in Intents : intent[i] = "succeeded" => payment[i] # None

GatewayInv == TypeOK /\ CallsFit /\ CallsApart /\ RowsFit

-----------------------------------------------------------------------------
(* None is no call and no payment. *)
LEMMA NoneApart == None \notin Call /\ None \notin Payment /\ None \notin Sales /\ None \notin Intents
BY GatewayAssumption

(* A handler that moves on, starts or ends while the rows stand still, to an await whose
   promises hold, keeps every handler's. *)
LEMMA OneMoves ==
  ASSUME TypeOK, CallsFit, CallsApart, NEW s \in Slots, NEW r \in Call \cup {None},
         Goto(s, r), UNCHANGED <<payment, intent, booked>>,
         r # None => CallFits(r, payment, intent, booked),
         \A t \in Slots \ {s} : r # None /\ call[t] # None => Apart(r, call[t])
  PROVE  call' \in [Slots -> Call \cup {None}] /\ CallsFit' /\ CallsApart'
<1>1. /\ call' \in [Slots -> Call \cup {None}] /\ call'[s] = r
      /\ \A t \in Slots \ {s} : call'[t] = call[t]
  BY DEF TypeOK, Goto
<1>2. CallsFit'
  BY <1>1 DEF CallsFit
<1>3. CallsApart'
  <2> SUFFICES ASSUME NEW p \in Slots, NEW t \in Slots, p # t, call'[p] # None, call'[t] # None
               PROVE  Apart(call'[p], call'[t])
    BY DEF CallsApart
  <2>1. CASE p = s
    BY <1>1, <2>1
  <2>2. CASE t = s
    <3>1. Apart(r, call[p])
      BY <1>1, <2>2
    <3> QED BY <3>1, <1>1, <2>2 DEF Apart
  <2>3. CASE p # s /\ t # s
    BY <1>1, <2>3 DEF CallsApart
  <2> QED BY <2>1, <2>2, <2>3
<1> QED BY <1>1, <1>2, <1>3

(* A handler that ends keeps every other's promises. *)
LEMMA OneEnds ==
  ASSUME TypeOK, CallsFit, CallsApart, NEW s \in Slots, Done(s),
         UNCHANGED <<payment, intent, booked>>
  PROVE  call' \in [Slots -> Call \cup {None}] /\ CallsFit' /\ CallsApart'
BY OneMoves DEF Done

(* Handlers that stay apart when some of them end. *)
LEMMA StayApart ==
  ASSUME CallsApart, \A s \in Slots : call'[s] \in {call[s], None}
  PROVE  CallsApart'
BY DEF CallsApart

(* Rows that only grow keep a handler's promises, except those about what is not there
   yet. *)
LEMMA FitsLater ==
  ASSUME NEW r \in Call, CallFits(r, payment, intent, booked),
         NEW pay, NEW pm, NEW sales,
         \A i \in Intents : intent[i] # "none" => pm[i] # "none",
         \A i \in Intents : intent[i] = "succeeded" => pm[i] = "succeeded",
         \A i \in Intents : payment[i] # None => pay[i] # None,
         r.stage \in {"attaching", "storing"} => pay[r.intent] = None,
         r.inTx => sales[r.sale] = "PENDING" /\ NoPaymentIn(pay, r.sale)
  PROVE  CallFits(r, pay, pm, sales)
BY DEF CallFits

(* The rows keep fitting while nothing but handlers moves. *)
LEMMA RowsStand ==
  ASSUME RowsFit, UNCHANGED <<payment, intent, booked, shown>>, unacked' \subseteq unacked
  PROVE  RowsFit'
BY DEF RowsFit, PaymentFits, OnePayment, NoPaymentIn
-----------------------------------------------------------------------------
(* A request or a delivery that starts a handler. *)
LEMMA BeginKeeps ==
  ASSUME GatewayInv, NEW k \in {"charge", "check", "event"}, NEW x \in Sales \cup {None},
         NEW i \in Intents \cup {None}, NEW w \in {"asked", "reading"}, NEW st \in PaymentStatus,
         Begin(k, x, i, w, st), UNCHANGED <<bookVars, paymongoVars, shown, enabled, faults>>,
         k # "event" => x \in Sales,
         w = "reading" => i \in Intents /\ st \in Outcome /\ (st = "PAID" => intent[i] = "succeeded")
  PROVE  GatewayInv'
<1> DEFINE r == [kind |-> k, sale |-> x, intent |-> i, stage |-> w, inTx |-> FALSE,
                 told |-> st, read |-> "PENDING"]
<1> USE DEF GatewayInv, bookVars, paymongoVars
<1>1. PICK s \in Slots : call[s] = None /\ Goto(s, r)
  BY DEF Begin
<1>2. r \in Call
  BY DEF Call, PaymentStatus
<1>3. CallFits(r, payment, intent, booked)
  BY DEF CallFits
<1>4. call' \in [Slots -> Call \cup {None}] /\ CallsFit' /\ CallsApart'
  BY <1>1, <1>2, <1>3, OneMoves DEF Apart
<1>5. RowsFit'
  BY RowsStand
<1> QED BY <1>4, <1>5 DEF TypeOK

(* A new sale is PENDING and has no payment yet. *)
LEMMA SyncSaleKeeps ==
  ASSUME GatewayInv, NEW x \in Sales, SyncSale(x)
  PROVE  GatewayInv'
<1> USE DEF GatewayInv, bookVars, paymongoVars, SyncSale
<1>1. booked' = [booked EXCEPT ![x] = "PENDING"] /\ booked[x] = "none"
  OBVIOUS
<1>2. NoPaymentIn(payment, x)
  <2> SUFFICES ASSUME NEW i \in Intents, payment[i] # None, payment[i].sale = x PROVE FALSE
    BY DEF NoPaymentIn
  <2>1. booked[x] = payment[i].status /\ payment[i].status \in PaymentStatus
    BY DEF RowsFit, PaymentFits, TypeOK, Payment
  <2> QED BY <1>1, <2>1 DEF PaymentStatus, Outcome
<1>3. TypeOK'
  BY DEF TypeOK, PaymentStatus
<1>4. CallsFit'
  BY <1>1 DEF CallsFit, CallFits, TypeOK
<1>5. CallsApart'
  BY DEF CallsApart
<1>6. RowsFit'
  <2>1. \A i \in Intents : PaymentFits(i)'
    BY <1>1, <1>2 DEF RowsFit, PaymentFits, NoPaymentIn, TypeOK
  <2>2. \A y \in Sales : booked'[y] \in Outcome => ~ NoPaymentIn(payment, y)
    BY <1>1 DEF RowsFit, TypeOK, Outcome
  <2> QED BY <2>1, <2>2 DEF RowsFit, OnePayment, NoPaymentIn
<1> QED BY <1>3, <1>4, <1>5, <1>6

(* A transaction begins only where none lives, and finds no payment. *)
LEMMA LockSaleKeeps ==
  ASSUME GatewayInv, NEW s \in Slots, LockSale(s)
  PROVE  GatewayInv'
<1> USE DEF GatewayInv, bookVars, paymongoVars
<1> DEFINE r == call[s]
<1>1. r \in Call /\ r.stage = "asked" /\ r.kind = "charge" /\ r.sale \in Sales /\ ~ r.inTx
  BY NoneApart DEF LockSale, At, TypeOK, CallsFit, CallFits
<1>2. RowsFit'
  BY RowsStand DEF LockSale
<1>3. call' \in [Slots -> Call \cup {None}] /\ CallsFit' /\ CallsApart'
  <2>1. CASE Done(s)
    BY <2>1, OneEnds DEF LockSale
  <2>2. CASE booked[r.sale] # "none" /\ PaymentOf(r.sale) = {}
             /\ Goto(s, [r EXCEPT !.stage = "creating", !.inTx = TRUE])
    <3> DEFINE q == [r EXCEPT !.stage = "creating", !.inTx = TRUE]
    <3>1. q \in Call
      BY <1>1 DEF Call
    <3>2. NoPaymentIn(payment, r.sale)
      BY <2>2 DEF PaymentOf, NoPaymentIn
    <3>3. booked[r.sale] = "PENDING"
      BY <1>1, <2>2, <3>2 DEF TypeOK, RowsFit, PaymentStatus
    <3>4. CallFits(q, payment, intent, booked)
      BY <1>1, <3>2, <3>3 DEF CallFits, Call
    <3>5. \A t \in Slots \ {s} : call[t] # None => Apart(q, call[t])
      BY <1>1 DEF LockSale, Unlocked, Apart, Call
    <3> QED BY <2>2, <3>1, <3>4, <3>5, OneMoves DEF LockSale
  <2>3. CASE \E i \in PaymentOf(r.sale) : Goto(s, [r EXCEPT !.stage = "retrieving", !.intent = i])
    <3>1. PICK i \in PaymentOf(r.sale) : Goto(s, [r EXCEPT !.stage = "retrieving", !.intent = i])
      BY <2>3
    <3> DEFINE q == [r EXCEPT !.stage = "retrieving", !.intent = i]
    <3>2. q \in Call /\ CallFits(q, payment, intent, booked)
      BY <1>1 DEF Call, CallFits, PaymentOf
    <3>3. \A t \in Slots \ {s} : call[t] # None => Apart(q, call[t])
      BY <1>1 DEF Apart, Call
    <3> QED BY <3>1, <3>2, <3>3, OneMoves DEF LockSale
  <2> QED BY <2>1, <2>2, <2>3 DEF LockSale
<1> QED BY <1>2, <1>3 DEF TypeOK, LockSale

(* What PayMongo creates for a handler is new to every other. *)
LEMMA CreateIntentKeeps ==
  ASSUME GatewayInv, NEW s \in Slots, CreateIntent(s)
  PROVE  GatewayInv'
<1> USE DEF GatewayInv, bookVars, paymongoVars
<1> DEFINE r == call[s]
<1>1. r \in Call /\ r.stage = "creating" /\ r.kind = "charge" /\ CallFits(r, payment, intent, booked)
  BY NoneApart DEF CreateIntent, At, TypeOK, CallsFit
<1>2. PICK i \in Intents : /\ intent[i] = "none"
                           /\ intent' = [intent EXCEPT ![i] = "created"]
                           /\ Goto(s, [r EXCEPT !.stage = "attaching", !.intent = i])
  BY DEF CreateIntent
<1> DEFINE q == [r EXCEPT !.stage = "attaching", !.intent = i]
<1>3. q \in Call /\ payment[i] = None /\ i # None
  BY <1>1, <1>2, NoneApart DEF Call, RowsFit, PaymentFits
<1>4. /\ call' \in [Slots -> Call \cup {None}] /\ call'[s] = q
      /\ \A t \in Slots \ {s} : call'[t] = call[t]
  BY <1>2, <1>3 DEF TypeOK, Goto
<1>5. intent'[i] = "created" /\ \A k \in Intents \ {i} : intent'[k] = intent[k]
  BY <1>2 DEF TypeOK
<1>6. CallsFit'
  <2>1. CallFits(q, payment, intent', booked)
    BY <1>1, <1>3, <1>5 DEF CallFits, Call
  <2>2. ASSUME NEW t \in Slots \ {s}, call[t] # None PROVE CallFits(call[t], payment, intent', booked)
    <3>1. call[t] \in Call /\ CallFits(call[t], payment, intent, booked)
      BY <2>2 DEF TypeOK, CallsFit
    <3> QED BY <1>2, <1>5, <3>1 DEF CallFits
  <2> QED BY <1>4, <2>1, <2>2 DEF CallsFit, CreateIntent
<1>7. CallsApart'
  <2>1. ASSUME NEW t \in Slots \ {s}, call[t] # None PROVE Apart(q, call[t]) /\ Apart(call[t], q)
    <3>1. call[t] \in Call /\ Apart(r, call[t]) /\ CallFits(call[t], payment, intent, booked)
      BY <1>1, <2>1, NoneApart DEF TypeOK, CallsFit, CallsApart
    <3> QED BY <1>1, <1>2, <3>1 DEF Apart, CallFits, Call
  <2> QED BY <1>4, <2>1 DEF CallsApart
<1>8. TypeOK'
  BY <1>2, <1>4 DEF TypeOK, CreateIntent
<1>9. RowsFit'
  BY <1>2, <1>3, <1>5 DEF RowsFit, PaymentFits, OnePayment, NoPaymentIn, CreateIntent, TypeOK, Event
<1> QED BY <1>6, <1>7, <1>8, <1>9

(* The QR: the handler that created the intent holds it alone. *)
LEMMA AttachKeeps ==
  ASSUME GatewayInv, NEW s \in Slots, Attach(s)
  PROVE  GatewayInv'
<1> USE DEF GatewayInv, bookVars, paymongoVars
<1> DEFINE r == call[s]
           i == r.intent
           q == [r EXCEPT !.stage = "storing"]
<1>1. r \in Call /\ r.stage = "attaching" /\ CallFits(r, payment, intent, booked)
  BY NoneApart DEF Attach, At, TypeOK, CallsFit
<1>2. i \in Intents /\ intent[i] # "none" /\ payment[i] = None /\ q \in Call
  BY <1>1 DEF CallFits, Call
<1>3. intent' = [intent EXCEPT ![i] = "awaiting"] /\ Goto(s, q)
  BY DEF Attach
<1>4. /\ call' \in [Slots -> Call \cup {None}] /\ call'[s] = q
      /\ \A t \in Slots \ {s} : call'[t] = call[t]
  BY <1>2, <1>3 DEF TypeOK, Goto
<1>5. intent'[i] = "awaiting" /\ \A k \in Intents \ {i} : intent'[k] = intent[k]
  BY <1>2, <1>3 DEF TypeOK
<1>6. CallsFit'
  <2>1. CallFits(q, payment, intent', booked)
    BY <1>1, <1>2, <1>5 DEF CallFits, Call
  <2>2. ASSUME NEW t \in Slots \ {s}, call[t] # None PROVE CallFits(call[t], payment, intent', booked)
    <3>1. call[t] \in Call /\ CallFits(call[t], payment, intent, booked)
      BY <2>2 DEF TypeOK, CallsFit
    <3>2. intent[i] # "succeeded"
      BY <1>2 DEF RowsFit
    <3> QED BY <1>5, <3>1, <3>2 DEF CallFits
  <2> QED BY <1>4, <2>1, <2>2 DEF CallsFit, Attach
<1>7. CallsApart'
  <2>1. ASSUME NEW t \in Slots \ {s}, call[t] # None PROVE Apart(q, call[t]) /\ Apart(call[t], q)
    <3>1. call[t] \in Call /\ Apart(r, call[t]) /\ Apart(call[t], r)
      BY <1>1, <2>1, NoneApart DEF TypeOK, CallsApart
    <3> QED BY <1>1, <3>1 DEF Apart, Call
  <2> QED BY <1>4, <2>1 DEF CallsApart
<1>8. TypeOK'
  BY <1>3, <1>4 DEF TypeOK, Attach
<1>9. RowsFit'
  BY <1>2, <1>5 DEF RowsFit, PaymentFits, OnePayment, NoPaymentIn, Attach, TypeOK, Event
<1> QED BY <1>6, <1>7, <1>8, <1>9

(* The charge is filed only by a live transaction, so no other handler has one for this
   sale and the sale has no other payment. *)
LEMMA StoreChargeKeeps ==
  ASSUME GatewayInv, NEW s \in Slots, StoreCharge(s)
  PROVE  GatewayInv'
<1> USE DEF GatewayInv, bookVars, paymongoVars
<1> DEFINE r == call[s]
           i == r.intent
           new == NewPayment(r.sale)
<1>1. r \in Call /\ r.stage = "storing" /\ CallFits(r, payment, intent, booked)
  BY NoneApart DEF StoreCharge, At, TypeOK, CallsFit
<1>2. i \in Intents /\ r.sale \in Sales /\ payment[i] = None /\ intent[i] # "none"
  BY <1>1 DEF CallFits
<1>3. Done(s)
  BY DEF StoreCharge
<1>4. CASE ~ r.inTx
  <2>1. UNCHANGED <<payment, intent, booked, shown, unacked, overdue, processed, enabled, faults>>
    BY <1>4 DEF StoreCharge
  <2>2. call' \in [Slots -> Call \cup {None}] /\ CallsFit' /\ CallsApart'
    BY <1>3, <2>1, OneEnds
  <2>3. RowsFit'
    BY <2>1, RowsStand
  <2> QED BY <2>1, <2>2, <2>3 DEF TypeOK
<1>5. CASE r.inTx
  <2>1. /\ payment' = [payment EXCEPT ![i] = new]
        /\ shown' \in {shown, shown \cup {i}}
        /\ UNCHANGED <<intent, booked, unacked, overdue, processed, enabled, faults>>
    BY <1>5 DEF StoreCharge, Show
  <2>2. new \in Payment /\ new # None /\ new.sale = r.sale /\ new.status = "PENDING"
    BY <1>2, NoneApart DEF NewPayment, Payment, PaymentStatus
  <2>3. payment'[i] = new /\ \A k \in Intents \ {i} : payment'[k] = payment[k]
    BY <1>2, <2>1 DEF TypeOK
  <2>4. /\ call' \in [Slots -> Call \cup {None}] /\ call'[s] = None
        /\ \A t \in Slots \ {s} : call'[t] = call[t]
    BY <1>3 DEF TypeOK, Done, Goto
  <2>5. booked[r.sale] = "PENDING" /\ NoPaymentIn(payment, r.sale)
    BY <1>1, <1>5 DEF CallFits
  <2>6. TypeOK'
    BY <1>2, <2>1, <2>2, <2>4 DEF TypeOK
  <2>7. CallsApart'
    BY <2>4, StayApart
  <2>8. CallsFit'
    <3>1. ASSUME NEW t \in Slots \ {s}, call[t] # None PROVE CallFits(call[t], payment', intent, booked)
      <4>1. call[t] \in Call /\ CallFits(call[t], payment, intent, booked) /\ Apart(r, call[t])
        BY <1>1, <3>1, NoneApart DEF TypeOK, CallsFit, CallsApart
      <4>2. call[t].stage \in {"attaching", "storing"} => call[t].intent # i
        BY <1>1, <4>1 DEF Apart
      <4>3. call[t].inTx => call[t].sale # r.sale
        BY <1>5, <4>1 DEF Apart
      <4>4. call[t].inTx => NoPaymentIn(payment', call[t].sale)
        BY <2>2, <2>3, <4>1, <4>3 DEF CallFits, NoPaymentIn
      <4> QED BY <2>2, <2>3, <4>1, <4>2, <4>4 DEF CallFits
    <3> QED BY <2>1, <2>4, <3>1 DEF CallsFit
  <2>9. RowsFit'
    <3>1. \A k \in Intents : PaymentFits(k)'
      BY <1>2, <2>1, <2>2, <2>3, <2>5 DEF RowsFit, PaymentFits
    <3>2. OnePayment'
      BY <2>2, <2>3, <2>5 DEF RowsFit, OnePayment, NoPaymentIn
    <3>3. \A x \in Sales : booked'[x] \in Outcome => ~ NoPaymentIn(payment', x)
      BY <1>2, <2>1, <2>3 DEF RowsFit, NoPaymentIn
    <3>4. \A k \in shown' : payment'[k] # None
      BY <2>1, <2>2, <2>3 DEF RowsFit, TypeOK
    <3>5. \A k \in Intents : intent'[k] = "succeeded" => payment'[k] # None
      BY <2>1, <2>2, <2>3 DEF RowsFit
    <3> QED BY <2>1, <3>1, <3>2, <3>3, <3>4, <3>5 DEF RowsFit
  <2> QED BY <2>6, <2>7, <2>8, <2>9
<1> QED BY <1>4, <1>5
(* A transaction that times out leaves its handler holding the intent, without the row. *)
LEMMA TxTimesOutKeeps ==
  ASSUME GatewayInv, NEW s \in Slots, TxTimesOut(s)
  PROVE  GatewayInv'
<1> USE DEF GatewayInv, bookVars, paymongoVars
<1> DEFINE r == call[s]
           q == [r EXCEPT !.inTx = FALSE]
<1>1. r \in Call /\ CallFits(r, payment, intent, booked) /\ Goto(s, q)
  BY NoneApart DEF TxTimesOut, TypeOK, CallsFit
<1>2. q \in Call /\ CallFits(q, payment, intent, booked)
  BY <1>1 DEF CallFits, Call
<1>3. ASSUME NEW t \in Slots \ {s}, call[t] # None PROVE Apart(q, call[t])
  <2>1. call[t] \in Call /\ Apart(r, call[t])
    BY <1>3, NoneApart DEF TypeOK, CallsApart, TxTimesOut
  <2> QED BY <1>1, <2>1 DEF Apart, Call
<1>4. call' \in [Slots -> Call \cup {None}] /\ CallsFit' /\ CallsApart'
  BY <1>1, <1>2, <1>3, OneMoves DEF TxTimesOut
<1>5. RowsFit'
  BY RowsStand DEF TxTimesOut
<1> QED BY <1>4, <1>5, GatewayAssumption DEF TypeOK, TxTimesOut, Fault

(* A handler that fails, or all of them at a restart, leave the rows as they are. *)
LEMMA FailureKeeps ==
  ASSUME GatewayInv, (\E s \in Slots : CallFails(s)) \/ Restart
  PROVE  GatewayInv'
<1> USE DEF GatewayInv, bookVars, paymongoVars
<1> DEFINE Ended == /\ call' \in [Slots -> Call \cup {None}]
                    /\ \A s \in Slots : call'[s] \in {call[s], None}
                    /\ UNCHANGED <<booked, payment, processed, intent, overdue, unacked, shown>>
                    /\ enabled' \in BOOLEAN /\ faults' \in Nat
<1>1. Ended
  <2>1. ASSUME NEW s \in Slots, CallFails(s) PROVE Ended
    BY <2>1 DEF CallFails, Done, Goto, TypeOK, Fault
  <2>2. CASE Restart
    BY <2>2 DEF Restart, TypeOK, Fault
  <2> QED BY <2>1, <2>2
<1>2. TypeOK'
  BY <1>1 DEF TypeOK
<1>3. CallsFit'
  BY <1>1 DEF CallsFit
<1>4. CallsApart'
  BY <1>1, StayApart
<1>5. RowsFit'
  BY <1>1, RowsStand
<1> QED BY <1>2, <1>3, <1>4, <1>5

(* Check status goes to PayMongo only for a payment on file. *)
LEMMA CheckPaymentKeeps ==
  ASSUME GatewayInv, NEW s \in Slots, CheckPayment(s)
  PROVE  GatewayInv'
<1> USE DEF GatewayInv, bookVars, paymongoVars
<1> DEFINE r == call[s]
<1>1. r \in Call /\ r.stage = "asked" /\ r.kind = "check" /\ CallFits(r, payment, intent, booked)
  BY NoneApart DEF CheckPayment, At, TypeOK, CallsFit
<1>2. RowsFit'
  BY RowsStand DEF CheckPayment
<1> DEFINE Kept == call' \in [Slots -> Call \cup {None}] /\ CallsFit' /\ CallsApart'
<1>3. Kept
  <2>1. CASE Done(s)
    BY <2>1, OneEnds DEF CheckPayment
  <2>2. ASSUME NEW i \in PaymentOf(r.sale), Goto(s, [r EXCEPT !.stage = "retrieving", !.intent = i])
        PROVE  Kept
    <3> DEFINE q == [r EXCEPT !.stage = "retrieving", !.intent = i]
    <3>1. q \in Call /\ CallFits(q, payment, intent, booked)
      BY <1>1 DEF Call, CallFits, PaymentOf
    <3>2. \A t \in Slots \ {s} : call[t] # None => Apart(q, call[t])
      BY <1>1, <3>1 DEF Apart, Call, CallFits
    <3> QED BY <2>2, <3>1, <3>2, OneMoves DEF CheckPayment
  <2> QED BY <2>1, <2>2 DEF CheckPayment
<1> QED BY <1>2, <1>3 DEF TypeOK, CheckPayment

(* PayMongo's PAID is an intent that has succeeded; a QR shown again is on file. *)
LEMMA RetrieveKeeps ==
  ASSUME GatewayInv, NEW s \in Slots, Retrieve(s)
  PROVE  GatewayInv'
<1> USE DEF GatewayInv, bookVars, paymongoVars
<1> DEFINE r == call[s]
           live == LiveStatus(r.intent)
<1>1. r \in Call /\ r.stage = "retrieving" /\ r.kind # "event" /\ CallFits(r, payment, intent, booked)
  BY NoneApart DEF Retrieve, At, TypeOK, CallsFit
<1>2. r.intent \in Intents /\ payment[r.intent] # None
  BY <1>1 DEF CallFits
<1>3. UNCHANGED <<booked, payment, processed, intent, overdue, unacked, enabled, faults>>
  BY DEF Retrieve
<1>4. shown' \in {shown, shown \cup {r.intent}}
  BY DEF Retrieve, Show
<1>5. RowsFit'
  BY <1>2, <1>3, <1>4 DEF RowsFit, PaymentFits, OnePayment, NoPaymentIn
<1>6. call' \in [Slots -> Call \cup {None}] /\ CallsFit' /\ CallsApart'
  <2>1. CASE Done(s)
    BY <1>3, <2>1, OneEnds
  <2>2. CASE live # "PENDING" /\ Goto(s, [r EXCEPT !.stage = "reading", !.told = live])
    <3> DEFINE q == [r EXCEPT !.stage = "reading", !.told = live]
    <3>1. live \in Outcome /\ (live = "PAID" => intent[r.intent] = "succeeded")
      BY <2>2 DEF LiveStatus, Outcome
    <3> HIDE DEF live
    <3>2. q \in Call /\ q.told = live /\ q.stage = "reading" /\ q.intent = r.intent
      BY <1>1, <3>1 DEF Call, PaymentStatus
    <3>3. CallFits(q, payment, intent, booked)
      BY <1>1, <1>2, <3>1, <3>2 DEF CallFits, Call
    <3>4. \A t \in Slots \ {s} : call[t] # None => Apart(q, call[t])
      BY <1>1, <3>2 DEF Apart, Call, CallFits
    <3> QED BY <1>3, <2>2, <3>2, <3>3, <3>4, OneMoves
  <2> QED BY <2>1, <2>2 DEF Retrieve
<1> QED BY <1>2, <1>3, <1>4, <1>5, <1>6 DEF TypeOK

(* Acknowledging an event takes nothing but that event from PayMongo's list. *)
LEMMA AckTakes ==
  ASSUME TypeOK, NEW s \in Slots, Ack(s)
  PROVE  unacked' \subseteq unacked /\ faults' \in Nat
BY DEF Ack, TypeOK, Fault

(* The status read may be stale by the next await; the payment stays on file. *)
LEMMA ReadPaymentKeeps ==
  ASSUME GatewayInv, NEW s \in Slots, ReadPayment(s)
  PROVE  GatewayInv'
<1> USE DEF GatewayInv, bookVars, paymongoVars
<1> DEFINE r == call[s]
<1>1. r \in Call /\ r.stage = "reading" /\ CallFits(r, payment, intent, booked)
  BY NoneApart DEF ReadPayment, TypeOK, CallsFit
<1>2. UNCHANGED <<booked, payment, processed, intent, overdue, shown, enabled>>
      /\ unacked' \subseteq unacked /\ faults' \in Nat
  BY AckTakes DEF ReadPayment, TypeOK
<1>3. RowsFit'
  BY <1>2, RowsStand
<1>4. call' \in [Slots -> Call \cup {None}] /\ CallsFit' /\ CallsApart'
  <2>1. CASE Done(s)
    BY <1>2, <2>1, OneEnds
  <2>2. CASE payment[r.intent] # None
             /\ Goto(s, [r EXCEPT !.stage = "applying", !.read = payment[r.intent].status])
    <3> DEFINE q == [r EXCEPT !.stage = "applying", !.read = payment[r.intent].status]
    <3>1. q \in Call /\ CallFits(q, payment, intent, booked)
      BY <1>1, <2>2 DEF CallFits, Call, TypeOK, Payment
    <3>2. \A t \in Slots \ {s} : call[t] # None => Apart(q, call[t])
      BY <1>1 DEF Apart, Call, CallFits
    <3> QED BY <1>2, <2>2, <3>1, <3>2, OneMoves
  <2> QED BY <2>1, <2>2 DEF ReadPayment
<1> QED BY <1>2, <1>3, <1>4 DEF TypeOK
(* PayMongo's word is written only over the status it was compared with, to the payment
   and its sale together. *)
LEMMA ApplyKeeps ==
  ASSUME GatewayInv, NEW s \in Slots, Apply(s)
  PROVE  GatewayInv'
<1> USE DEF GatewayInv, bookVars, paymongoVars
<1> DEFINE r == call[s]
           i == r.intent
           row == payment[i]
           x == row.sale
<1>1. r \in Call /\ r.stage = "applying" /\ CallFits(r, payment, intent, booked)
  BY NoneApart DEF Apply, TypeOK, CallsFit
<1>2. i \in Intents /\ row # None /\ row \in Payment /\ x \in Sales
      /\ r.told \in Outcome /\ (r.told = "PAID" => intent[i] = "succeeded")
  BY <1>1 DEF CallFits, TypeOK, Payment
<1>3. /\ UNCHANGED <<intent, overdue, shown, enabled>>
      /\ unacked' \subseteq unacked /\ faults' \in Nat /\ Done(s)
  BY AckTakes DEF Apply
<1>4. processed' \subseteq Event
  <2>1. EventOf(r) \in Event
    BY <1>2 DEF EventOf, Event
  <2> QED BY <2>1 DEF Apply, TypeOK
<1>5. CASE UNCHANGED <<payment, booked>>
  <2>1. call' \in [Slots -> Call \cup {None}] /\ CallsFit' /\ CallsApart'
    BY <1>3, <1>5, OneEnds
  <2>2. RowsFit'
    BY <1>3, <1>5, RowsStand
  <2> QED BY <1>3, <1>4, <1>5, <2>1, <2>2 DEF TypeOK
<1>6. CASE payment' = [payment EXCEPT ![i].status = r.told] /\ Books(x, r.told)
  <2>1. /\ payment'[i] = [sale |-> x, status |-> r.told]
        /\ \A k \in Intents \ {i} : payment'[k] = payment[k]
        /\ payment' \in [Intents -> Payment \cup {None}]
    BY <1>2, <1>6 DEF TypeOK, Payment, PaymentStatus
  <2>2. /\ booked'[x] = r.told /\ \A y \in Sales \ {x} : booked'[y] = booked[y]
        /\ booked' \in [Sales -> PaymentStatus \cup {"none"}]
    BY <1>2, <1>6 DEF Books, TypeOK, PaymentStatus
  <2>3. payment'[i] # None
    BY <1>2, <2>1, NoneApart DEF Payment, PaymentStatus
  <2>4. /\ call' \in [Slots -> Call \cup {None}] /\ call'[s] = None
        /\ \A t \in Slots \ {s} : call'[t] = call[t]
    BY <1>3 DEF TypeOK, Done, Goto
  <2>5. TypeOK'
    BY <1>3, <1>4, <2>1, <2>2, <2>4 DEF TypeOK
  <2>6. \A y \in Sales : NoPaymentIn(payment, y) => NoPaymentIn(payment', y)
    BY <1>2, <2>1 DEF NoPaymentIn
  <2>7. CallsFit'
    <3>1. ASSUME NEW t \in Slots, call[t] # None PROVE CallFits(call[t], payment', intent', booked')
      <4>1. call[t] \in Call /\ CallFits(call[t], payment, intent, booked)
        BY <3>1 DEF TypeOK, CallsFit
      <4>2. call[t].inTx => call[t].sale \in Sales /\ call[t].sale # x
        BY <1>2, <4>1 DEF CallFits, NoPaymentIn
      <4> QED BY <1>2, <1>3, <2>1, <2>2, <2>3, <2>6, <4>1, <4>2 DEF CallFits
    <3> QED BY <2>4, <3>1 DEF CallsFit
  <2>8. CallsApart'
    BY <2>4, StayApart
  <2>9. RowsFit'
    <3>1. ASSUME NEW k \in Intents PROVE PaymentFits(k)'
      <4>1. CASE k = i
        BY <1>2, <1>3, <2>1, <2>2, <4>1 DEF RowsFit, PaymentFits
      <4>2. CASE k # i /\ payment[k] # None
        <5>1. payment[k].sale # x /\ payment[k].sale \in Sales
          BY <1>2, <4>2 DEF RowsFit, OnePayment, TypeOK, Payment
        <5> QED BY <1>3, <2>1, <2>2, <4>2, <5>1 DEF RowsFit, PaymentFits
      <4>3. CASE k # i /\ payment[k] = None
        BY <2>1, <4>3 DEF PaymentFits
      <4> QED BY <4>1, <4>2, <4>3
    <3>2. OnePayment'
      BY <1>2, <2>1 DEF RowsFit, OnePayment
    <3>3. \A y \in Sales : booked'[y] \in Outcome => ~ NoPaymentIn(payment', y)
      BY <1>2, <2>1, <2>2, <2>3 DEF RowsFit, NoPaymentIn
    <3>4. /\ \A k \in shown' : payment'[k] # None
          /\ \A k \in Intents : intent'[k] = "succeeded" => payment'[k] # None
      BY <1>3, <2>1, <2>3 DEF RowsFit, TypeOK
    <3> QED BY <1>3, <3>1, <3>2, <3>3, <3>4 DEF RowsFit
  <2> QED BY <2>5, <2>7, <2>8, <2>9
<1> QED BY <1>5, <1>6 DEF Apply

(* PayMongo and the customer move an intent on only once it awaits a payment; only a QR
   that is shown, hence on file, can be paid. *)
LEMMA PaymongoKeeps ==
  ASSUME GatewayInv, NEW i \in Intents, Pay(i) \/ Decline(i) \/ Expire(i) \/ RunOut(i)
  PROVE  GatewayInv'
<1> USE DEF GatewayInv, bookVars, paymongoVars
<1>1. UNCHANGED <<booked, payment, processed, shown, call, enabled, faults>>
  BY DEF Pay, Decline, Expire, RunOut
<1>2. CallsApart'
  BY <1>1 DEF CallsApart
<1>3. CASE RunOut(i)
  <2>1. UNCHANGED <<intent, unacked>> /\ overdue' \subseteq Intents
    BY <1>3 DEF RunOut, TypeOK
  <2>2. RowsFit'
    BY <1>1, <2>1, RowsStand
  <2> QED BY <1>1, <1>2, <2>1, <2>2 DEF TypeOK, CallsFit
<1>4. CASE Pay(i) \/ Decline(i) \/ Expire(i)
  <2>1. PICK o \in Outcome : /\ Report(i, o) /\ UNCHANGED overdue
                             /\ intent[i] \notin {"none", "succeeded"}
                             /\ \E v \in {"succeeded", "failed", "expired"} :
                                  /\ intent' = [intent EXCEPT ![i] = v]
                                  /\ o = "PAID" <=> v = "succeeded"
                                  /\ v = "succeeded" => i \in shown
    BY <1>4 DEF Pay, Decline, Expire, Outcome
  <2>2. /\ intent' \in [Intents -> {"none", "created", "awaiting", "succeeded", "expired", "failed"}]
        /\ \A k \in Intents \ {i} : intent'[k] = intent[k]
        /\ intent'[i] # "none" /\ (intent'[i] = "succeeded" <=> o = "PAID")
        /\ intent'[i] = "succeeded" => i \in shown
    BY <2>1 DEF TypeOK
  <2>3. unacked' = unacked \cup {[intent |-> i, status |-> o]}
    BY <2>1 DEF Report
  <2>4. TypeOK'
    <3>1. [intent |-> i, status |-> o] \in Event
      BY DEF Event
    <3> QED BY <1>1, <2>1, <2>2, <2>3, <3>1 DEF TypeOK
  <2>5. CallsFit'
    <3>1. ASSUME NEW t \in Slots, call[t] # None PROVE CallFits(call[t], payment, intent', booked)
      <4>1. call[t] \in Call /\ CallFits(call[t], payment, intent, booked)
        BY <3>1 DEF TypeOK, CallsFit
      <4> QED BY <2>1, <2>2, <4>1 DEF CallFits
    <3> QED BY <1>1, <3>1 DEF CallsFit
  <2>6. RowsFit'
    <3>1. \A k \in Intents : PaymentFits(k)'
      BY <1>1, <2>1, <2>2 DEF RowsFit, PaymentFits
    <3>2. \A e \in unacked' : e.status = "PAID" => intent'[e.intent] = "succeeded"
      <4>1. ASSUME NEW e \in unacked, e.status = "PAID" PROVE intent'[e.intent] = "succeeded"
        BY <2>1, <2>2, <4>1 DEF RowsFit, TypeOK, Event
      <4> QED BY <2>2, <2>3, <4>1
    <3>3. \A k \in Intents : intent'[k] = "succeeded" => payment[k] # None
      BY <2>2 DEF RowsFit
    <3> QED BY <1>1, <3>1, <3>2, <3>3 DEF RowsFit, OnePayment, NoPaymentIn
  <2> QED BY <1>2, <2>4, <2>5, <2>6
<1> QED BY <1>3, <1>4

-----------------------------------------------------------------------------
(* It holds at the start. *)
LEMMA GatewayInvInit == Init => GatewayInv
BY NoneApart DEF Init, GatewayInv, TypeOK, CallsFit, CallsApart, RowsFit, PaymentFits, OnePayment,
   NoPaymentIn, PaymentStatus, Outcome

(* Every step keeps what the handlers rely on. *)
LEMMA GatewayInvStep == GatewayInv /\ [Next]_vars => GatewayInv'
<1> SUFFICES ASSUME GatewayInv, [Next]_vars PROVE GatewayInv'
  OBVIOUS
<1>1. ASSUME NEW x \in Sales, SyncSale(x) PROVE GatewayInv'
  BY <1>1, SyncSaleKeeps
<1>2. ASSUME NEW x \in Sales, AskCharge(x) \/ AskCheck(x) PROVE GatewayInv'
  BY <1>2, BeginKeeps DEF AskCharge, AskCheck, PaymentStatus
<1>3. ASSUME NEW s \in Slots, Handler(s) PROVE GatewayInv'
  BY <1>3, LockSaleKeeps, CreateIntentKeeps, AttachKeeps, StoreChargeKeeps, CheckPaymentKeeps,
     RetrieveKeeps, ReadPaymentKeeps, ApplyKeeps DEF Handler
<1>4. ASSUME NEW s \in Slots, TxTimesOut(s) \/ CallFails(s) PROVE GatewayInv'
  BY <1>4, TxTimesOutKeeps, FailureKeeps
<1>5. ASSUME NEW e \in Event, Deliver(e) PROVE GatewayInv'
  <2>1. /\ e.intent \in Intents /\ e.status \in Outcome
        /\ e.status = "PAID" => intent[e.intent] = "succeeded"
    BY <1>5 DEF Event, Deliver, GatewayInv, RowsFit
  <2> QED BY <1>5, <2>1, BeginKeeps DEF Deliver, PaymentStatus
<1>6. ASSUME NEW i \in Intents, Pay(i) \/ Decline(i) \/ Expire(i) \/ RunOut(i) PROVE GatewayInv'
  BY <1>6, PaymongoKeeps
<1>7. CASE Restart
  BY <1>7, FailureKeeps
<1>8. CASE UNCHANGED vars
  <2>1. UNCHANGED <<booked, payment, processed, intent, overdue, unacked, shown, call, enabled, faults>>
    BY <1>8 DEF vars, bookVars, paymongoVars
  <2>2. RowsFit'
    BY <2>1, RowsStand DEF GatewayInv
  <2> QED BY <2>1, <2>2 DEF GatewayInv, TypeOK, CallsFit, CallsApart
<1> QED BY <1>1, <1>2, <1>3, <1>4, <1>5, <1>6, <1>7, <1>8 DEF Next

(* Whatever fails, times out, restarts or is delivered twice, each handler finds what it
   relies on, and rows and PayMongo fit. *)
THEOREM GatewayInvariant == Spec => []GatewayInv
BY GatewayInvInit, GatewayInvStep, PTL DEF Spec

(* Every variable keeps its type. *)
THEOREM GatewayTypeCorrect == Spec => []TypeOK
<1>1. GatewayInv => TypeOK
  BY DEF GatewayInv
<1> QED BY <1>1, GatewayInvariant, PTL

(* A QR that is put before a customer is on file, and no sale has two on file, though
   transactions time out while PayMongo is still creating a charge. *)
THEOREM OneChargePerSale == Spec => []OneChargeShown
<1>1. GatewayInv => OneChargeShown
  BY NoneApart DEF GatewayInv, RowsFit, OnePayment, OneChargeShown, SaleOf, TypeOK, Payment
<1> QED BY <1>1, GatewayInvariant, PTL

(* A sale says what its payment says. *)
THEOREM StatusIsThePayments == Spec => []StatusAgrees
<1>1. GatewayInv => StatusAgrees
  BY DEF GatewayInv, RowsFit, PaymentFits, StatusAgrees, SaleOf
<1> QED BY <1>1, GatewayInvariant, PTL

(* The books say PAID only of money PayMongo took. *)
THEOREM PaidWasTaken == Spec => []PaidMeansTaken
<1>1. GatewayInv => PaidMeansTaken
  <2> SUFFICES ASSUME GatewayInv, NEW x \in Sales, booked[x] = "PAID"
               PROVE  \E i \in Intents : SaleOf(i) = x /\ intent[i] = "succeeded"
    BY DEF PaidMeansTaken
  <2>1. PICK i \in Intents : payment[i] # None /\ payment[i].sale = x
    BY DEF GatewayInv, RowsFit, NoPaymentIn, Outcome
  <2> QED BY <2>1 DEF GatewayInv, RowsFit, PaymentFits, SaleOf
<1> QED BY <1>1, GatewayInvariant, PTL

(* No event, check or late handler takes PAID back, or a settled sale to PENDING. *)
THEOREM PaidStaysPaid == Spec => PaidIsFinal
<1> DEFINE Final == \A x \in Sales : /\ booked[x] = "PAID" => booked'[x] = "PAID"
                                     /\ booked[x] \in Outcome => booked'[x] \in Outcome
<1>1. GatewayInv /\ [Next]_vars => [Final]_vars
  <2> SUFFICES ASSUME GatewayInv, Next PROVE Final
    OBVIOUS
  <2>1. CASE UNCHANGED booked
    BY <2>1
  <2>2. ASSUME NEW x \in Sales, SyncSale(x) PROVE Final
    BY <2>2 DEF SyncSale, Outcome, GatewayInv, TypeOK
  <2>3. ASSUME NEW s \in Slots, Apply(s) PROVE Final
    <3> DEFINE r == call[s]
               row == payment[r.intent]
    <3>1. r \in Call /\ CallFits(r, payment, intent, booked) /\ r.stage = "applying"
      BY <2>3, NoneApart DEF Apply, GatewayInv, TypeOK, CallsFit
    <3>2. row # None /\ row.sale \in Sales /\ booked[row.sale] = row.status /\ r.told \in Outcome
      BY <3>1 DEF CallFits, GatewayInv, TypeOK, RowsFit, PaymentFits, Payment
    <3>3. CASE Allowed(r) /\ row.status = r.read /\ Books(row.sale, r.told)
      BY <3>2, <3>3 DEF Allowed, Books, GatewayInv, TypeOK
    <3> QED BY <2>1, <2>3, <3>3 DEF Apply
  <2>4. (\E x \in Sales : SyncSale(x)) \/ (\E s \in Slots : Apply(s)) \/ UNCHANGED booked
    BY DEF Next, Handler, AskCharge, AskCheck, LockSale, CreateIntent, Attach, StoreCharge, CheckPayment,
       Retrieve, ReadPayment, TxTimesOut, CallFails, Deliver, Pay, Decline, Expire, RunOut, Restart,
       bookVars, paymongoVars
  <2> QED BY <2>1, <2>2, <2>3, <2>4
<1>2. Spec => [][Final]_vars
  BY <1>1, GatewayInvariant, PTL DEF Spec
<1> QED BY <1>2 DEF PaidIsFinal
=============================================================================
