------------------------------ MODULE Gateway ------------------------------
(***************************************************************************)
(* The QR Ph gateway: how a synced QRPH sale gets its one PayMongo charge  *)
(* (ensureQrphCharge) and how PayMongo's word on it reaches the books      *)
(* (applyGatewayStatus), told by a webhook or asked for by "Check status"  *)
(* and by reopening the QR.  PayMongo itself is external: it is modelled   *)
(* by what lib/gateway.ts sends it and expects of it.                      *)
(***************************************************************************)
EXTENDS Naturals, FiniteSets

CONSTANTS
  Sales,        \* QRPH sales
  Intents,      \* bound: payment intents PayMongo may create
  Slots,        \* bound: handlers running at once
  MaxFaults,    \* bound: failed calls, timed-out transactions, lost answers, restarts
  None

VARIABLES
  booked,       \* transactions.paymentStatus; "none": not synced yet
  payment,      \* gateway_payments: intent -> row or None
  processed,    \* gateway_webhook_events
  intent,       \* PayMongo: intent -> its state
  overdue,      \* intents whose QR has expired by the shop PC's clock
  shown,        \* intents whose QR a POS has shown (history)
  unacked,      \* PayMongo: events it still (re)delivers
  call,         \* slot -> the handler in it, or None
  enabled,      \* gatewayConfig() is not null
  faults

paymongoVars == <<intent, overdue, unacked>>
bookVars == <<booked, payment, processed>>
vars == <<bookVars, paymongoVars, shown, call, enabled, faults>>

Outcome == {"PAID", "EXPIRED", "FAILED"}
PaymentStatus == {"PENDING"} \cup Outcome

Payment == [sale : Sales, status : PaymentStatus]
Event == [intent : Intents, status : Outcome]

(* A request to charge a sale, to check it, or the delivery of an event. *)
Call ==
  [kind   : {"charge", "check", "event"},
   sale   : Sales \cup {None},
   intent : Intents \cup {None},
   stage  : {"asked", "creating", "attaching", "storing",
             "retrieving", "reading", "applying"},
   inTx   : BOOLEAN,               \* a charge's transaction, and row lock, is alive
   told   : PaymentStatus,         \* what PayMongo says
   read   : PaymentStatus]         \* payment.status as applyGatewayStatus read it

ASSUME GatewayAssumption ==
  /\ MaxFaults \in Nat
  /\ None \notin Sales \cup Intents \cup Payment \cup Call

TypeOK ==
  /\ booked \in [Sales -> PaymentStatus \cup {"none"}]
  /\ payment \in [Intents -> Payment \cup {None}]
  /\ processed \subseteq Event
  /\ intent \in [Intents -> {"none", "created", "awaiting", "succeeded", "expired", "failed"}]
  /\ overdue \subseteq Intents
  /\ shown \subseteq Intents
  /\ unacked \subseteq Event
  /\ call \in [Slots -> Call \cup {None}]
  /\ enabled \in BOOLEAN
  /\ faults \in Nat

Init ==
  /\ booked = [x \in Sales |-> "none"]
  /\ payment = [i \in Intents |-> None]
  /\ processed = {}
  /\ intent = [i \in Intents |-> "none"]
  /\ overdue = {}
  /\ shown = {}
  /\ unacked = {}
  /\ call = [s \in Slots |-> None]
  /\ enabled = TRUE
  /\ faults = 0

Fault == faults < MaxFaults /\ faults' = faults + 1

PaymentOf(x) == {i \in Intents : payment[i] # None /\ payment[i].sale = x}

At(s, kinds, stage) ==
  call[s] # None /\ call[s].kind \in kinds /\ call[s].stage = stage

Goto(s, r) == call' = [call EXCEPT ![s] = r]

Done(s) == Goto(s, None)

(* A handler starts: routes answer 404 at once while the gateway is off. *)
Begin(kind, x, i, stage, told) ==
  /\ enabled
  /\ \E s \in Slots :
       /\ call[s] = None
       /\ Goto(s, [kind |-> kind, sale |-> x, intent |-> i, stage |-> stage,
                   inTx |-> FALSE, told |-> told, read |-> "PENDING"])

(* transactions/sync stores a QRPH sale as PENDING, whatever the phone says, and
   rejects it while the gateway is off. *)
SyncSale(x) ==
  /\ enabled
  /\ booked[x] = "none"
  /\ booked' = [booked EXCEPT ![x] = "PENDING"]
  /\ UNCHANGED <<payment, processed, paymongoVars, shown, call, enabled, faults>>

-----------------------------------------------------------------------------
(* POST payments/qrph: ensureQrphCharge. *)

AskCharge(x) ==
  /\ Begin("charge", x, None, "asked", "PENDING")
  /\ UNCHANGED <<bookVars, paymongoVars, shown, enabled, faults>>

(* SELECT ... FOR UPDATE: nobody else's transaction holds the sale's row. *)
Unlocked(x) == \A s \in Slots : call[s] # None => ~ (call[s].sale = x /\ call[s].inTx)

LockSale(s) ==
  LET r == call[s] IN
  /\ At(s, {"charge"}, "asked")
  /\ Unlocked(r.sale)
  /\ IF booked[r.sale] = "none"
     THEN Done(s)
     ELSE IF PaymentOf(r.sale) = {}
     THEN Goto(s, [r EXCEPT !.stage = "creating", !.inTx = TRUE])
     ELSE \E i \in PaymentOf(r.sale) :
            IF payment[i].status = "PENDING"
            THEN Goto(s, [r EXCEPT !.stage = "retrieving", !.intent = i])
            ELSE Done(s)
  /\ UNCHANGED <<bookVars, paymongoVars, shown, enabled, faults>>

(* createQrphCharge: an intent, then (with a payment method) its QR. *)
CreateIntent(s) ==
  /\ At(s, {"charge"}, "creating")
  /\ \E i \in Intents :
       /\ intent[i] = "none"
       /\ intent' = [intent EXCEPT ![i] = "created"]
       /\ Goto(s, [call[s] EXCEPT !.stage = "attaching", !.intent = i])
  /\ UNCHANGED <<bookVars, overdue, unacked, shown, enabled, faults>>

Attach(s) ==
  /\ At(s, {"charge"}, "attaching")
  /\ intent' = [intent EXCEPT ![call[s].intent] = "awaiting"]
  /\ Goto(s, [call[s] EXCEPT !.stage = "storing"])
  /\ UNCHANGED <<bookVars, overdue, unacked, shown, enabled, faults>>

NewPayment(x) == [sale |-> x, status |-> "PENDING"]

(* An answer with a QR reaches a POS that still waits for it, or does not. *)
Show(i) == shown' \in {shown, shown \cup {i}}

(* Mutations of StoreCharge: an upsert that needs no transaction; an answer that
   does not wait for the commit. *)
StoreChargeUpsert(s) ==
  LET r == call[s] IN
  /\ At(s, {"charge"}, "storing")
  /\ payment' = [i \in Intents |->
                   IF i = r.intent THEN NewPayment(r.sale)
                   ELSE IF i \in PaymentOf(r.sale) THEN None ELSE payment[i]]
  /\ Show(r.intent)
  /\ Done(s)
  /\ UNCHANGED <<booked, processed, paymongoVars, enabled, faults>>
StoreChargeUnawaited(s) ==
  LET r == call[s] IN
  /\ At(s, {"charge"}, "storing")
  /\ IF r.inTx THEN payment' = [payment EXCEPT ![r.intent] = NewPayment(r.sale)]
               ELSE UNCHANGED payment
  /\ Show(r.intent)
  /\ Done(s)
  /\ UNCHANGED <<booked, processed, paymongoVars, enabled, faults>>

(* The row is created and the transaction commits, or it has timed out and the
   route answers 502. *)
StoreCharge(s) ==
  LET r == call[s] IN
  /\ At(s, {"charge"}, "storing")
  /\ IF r.inTx
     THEN payment' = [payment EXCEPT ![r.intent] = NewPayment(r.sale)] /\ Show(r.intent)
     ELSE UNCHANGED <<payment, shown>>
  /\ Done(s)
  /\ UNCHANGED <<booked, processed, paymongoVars, enabled, faults>>

(* CHARGE_TRANSACTION_TIMEOUT_MS, which also counts the wait for the lock: the
   transaction is rolled back while PayMongo is still being called. *)
TxTimesOut(s) ==
  /\ call[s] # None
  /\ call[s].inTx
  /\ Fault
  /\ Goto(s, [call[s] EXCEPT !.inTx = FALSE])
  /\ UNCHANGED <<bookVars, paymongoVars, shown, enabled>>

(* A PayMongo or database call of a handler fails: 502 or 500, rolled back.  What
   PayMongo has done stays done, and a failed webhook is delivered again. *)
CallFails(s) ==
  /\ call[s] # None
  /\ Fault
  /\ Done(s)
  /\ UNCHANGED <<bookVars, paymongoVars, shown, enabled>>

-----------------------------------------------------------------------------
(* POST payments/qrph/check, and a charge that exists already. *)

AskCheck(x) ==
  /\ Begin("check", x, None, "asked", "PENDING")
  /\ UNCHANGED <<bookVars, paymongoVars, shown, enabled, faults>>

(* Only a PENDING payment is worth a call to PayMongo. *)
CheckPayment(s) ==
  LET r == call[s] IN
  /\ At(s, {"check"}, "asked")
  /\ IF \E i \in PaymentOf(r.sale) : payment[i].status = "PENDING"
     THEN \E i \in PaymentOf(r.sale) :
            Goto(s, [r EXCEPT !.stage = "retrieving", !.intent = i])
     ELSE Done(s)
  /\ UNCHANGED <<bookVars, paymongoVars, shown, enabled, faults>>

(* Mutation of LiveStatus: the QR is gone, so it was paid. *)
LiveStatusNotAwaiting(i) == IF intent[i] = "awaiting" THEN "PENDING" ELSE "PAID"

(* retrieveIntentStatus *)
LiveStatus(i) ==
  CASE intent[i] = "succeeded" -> "PAID"
    [] intent[i] = "failed" -> "FAILED"
    [] intent[i] \in {"created", "expired"} -> "EXPIRED"
    [] OTHER -> IF i \in overdue THEN "EXPIRED" ELSE "PENDING"

Retrieve(s) ==
  LET r == call[s]
      live == LiveStatus(r.intent) IN
  /\ At(s, {"charge", "check"}, "retrieving")
  /\ IF live # "PENDING"
     THEN Goto(s, [r EXCEPT !.stage = "reading", !.told = live]) /\ UNCHANGED shown
     ELSE Done(s) /\ IF r.kind = "charge" THEN Show(r.intent) ELSE UNCHANGED shown
  /\ UNCHANGED <<bookVars, paymongoVars, enabled, faults>>

-----------------------------------------------------------------------------
(* POST webhooks/paymongo: events come in any order, again and again until one
   delivery is answered 200, and may be delivered twice at once. *)

(* Mutation of Deliver: 200 is answered before the event is applied. *)
DeliverAckAtOnce(e) ==
  /\ e \in unacked
  /\ Begin("event", None, e.intent, "reading", e.status)
  /\ unacked' = unacked \ {e}
  /\ UNCHANGED <<bookVars, intent, overdue, shown, enabled, faults>>

Deliver(e) ==
  /\ e \in unacked
  /\ Begin("event", None, e.intent, "reading", e.status)
  /\ UNCHANGED <<bookVars, paymongoVars, shown, enabled, faults>>

EventOf(r) == [intent |-> r.intent, status |-> r.told]

(* The answer of a webhook is 200 and arrives, or is lost. *)
Ack(s) ==
  IF call[s].kind # "event" THEN UNCHANGED <<unacked, faults>>
  ELSE \/ unacked' = unacked \ {EventOf(call[s])} /\ UNCHANGED faults
       \/ UNCHANGED unacked /\ Fault

(* applyGatewayStatus reads the payment; an unknown intent is only logged. *)
ReadPayment(s) ==
  LET r == call[s] IN
  /\ call[s] # None /\ r.stage = "reading"
  /\ IF payment[r.intent] = None
     THEN Done(s) /\ Ack(s)
     ELSE /\ Goto(s, [r EXCEPT !.stage = "applying", !.read = payment[r.intent].status])
          /\ UNCHANGED <<unacked, faults>>
  /\ UNCHANGED <<bookVars, intent, overdue, shown, enabled>>

(* Mutation of Allowed: a final status may be replaced, too. *)
AllowedAlways(r) == r.told # "PENDING"

Allowed(r) ==
  /\ r.told # "PENDING"
  /\ r.read # "PAID"
  /\ r.read = "PENDING" \/ r.told = "PAID"

(* Mutation of Books: the sale keeps its own status. *)
BooksAlone(x, status) == UNCHANGED booked

Books(x, status) == booked' = [booked EXCEPT ![x] = status]

(* One transaction: the event id, a duplicate of which rolls it back; then, if
   the payment still is as it was read, its status and the sale's. *)
Apply(s) ==
  LET r == call[s]
      row == payment[r.intent]
      duplicate == r.kind = "event" /\ EventOf(r) \in processed IN
  /\ call[s] # None /\ r.stage = "applying"
  /\ processed' = IF r.kind = "event" THEN processed \cup {EventOf(r)} ELSE processed
  /\ IF ~ duplicate /\ Allowed(r) /\ row.status = r.read
     THEN /\ payment' = [payment EXCEPT ![r.intent].status = r.told]
          /\ Books(row.sale, r.told)
     ELSE UNCHANGED <<payment, booked>>
  /\ Done(s)
  /\ Ack(s)
  /\ UNCHANGED <<intent, overdue, shown, enabled>>

-----------------------------------------------------------------------------
(* PayMongo and the customer (external).  A QR can be paid only where it is
   shown, but even after it expired or an attempt failed ("the money was taken",
   gateway.ts:211). *)

Report(i, outcome) == unacked' = unacked \cup {[intent |-> i, status |-> outcome]}

Pay(i) ==
  /\ i \in shown
  /\ intent[i] \in {"awaiting", "expired", "failed"}
  /\ intent' = [intent EXCEPT ![i] = "succeeded"]
  /\ Report(i, "PAID")
  /\ UNCHANGED <<bookVars, overdue, shown, call, enabled, faults>>

Decline(i) ==
  /\ i \in shown
  /\ intent[i] = "awaiting"
  /\ intent' = [intent EXCEPT ![i] = "failed"]
  /\ Report(i, "FAILED")
  /\ UNCHANGED <<bookVars, overdue, shown, call, enabled, faults>>

Expire(i) ==
  /\ intent[i] = "awaiting"
  /\ intent' = [intent EXCEPT ![i] = "expired"]
  /\ Report(i, "EXPIRED")
  /\ UNCHANGED <<bookVars, overdue, shown, call, enabled, faults>>

(* The QR's expiresAt passes on the shop PC's clock. *)
RunOut(i) ==
  /\ intent[i] = "awaiting"
  /\ i \notin overdue
  /\ overdue' = overdue \cup {i}
  /\ UNCHANGED <<bookVars, intent, unacked, shown, call, enabled, faults>>

(* The server restarts, perhaps with PAYMENT_GATEWAY changed. *)
Restart ==
  /\ Fault
  /\ call' = [s \in Slots |-> None]
  /\ enabled' \in BOOLEAN
  /\ UNCHANGED <<bookVars, paymongoVars, shown>>

Handler(s) ==
  \/ LockSale(s) \/ CreateIntent(s) \/ Attach(s) \/ StoreCharge(s)
  \/ CheckPayment(s) \/ Retrieve(s)
  \/ ReadPayment(s) \/ Apply(s)

Next ==
  \/ \E x \in Sales : SyncSale(x) \/ AskCharge(x) \/ AskCheck(x)
  \/ \E s \in Slots : Handler(s) \/ TxTimesOut(s) \/ CallFails(s)
  \/ \E e \in Event : Deliver(e)
  \/ \E i \in Intents : Pay(i) \/ Decline(i) \/ Expire(i) \/ RunOut(i)
  \/ Restart

Spec == Init /\ [][Next]_vars

-----------------------------------------------------------------------------
(* "Exactly one PayMongo charge per sale" (gateway.ts:177): failed and timed-out
   attempts may leave intents behind at PayMongo, but no two QRs of one sale are
   ever put before a customer, so no customer pays twice; and a QR that is shown,
   hence all money PayMongo takes, belongs to a payment the shop has on file. *)
SaleOf(i) == IF payment[i] = None THEN None ELSE payment[i].sale

OneChargeShown ==
  /\ \A i \in shown : payment[i] # None
  /\ \A i, k \in Intents : payment[i] # None /\ SaleOf(i) = SaleOf(k) => i = k

(* "Transaction.paymentStatus is updated with it in the same DB transaction"
   (schema.prisma:276): a sale's status is its payment's, whatever interleaves,
   and PAID only if PayMongo took the money. *)
StatusAgrees ==
  \A i \in Intents : payment[i] # None => booked[SaleOf(i)] = payment[i].status

PaidMeansTaken ==
  \A x \in Sales : booked[x] = "PAID" =>
    \E i \in Intents : SaleOf(i) = x /\ intent[i] = "succeeded"

(* "PAID is final" (gateway.ts:211), and no status ever returns to PENDING. *)
PaidIsFinal ==
  [][\A x \in Sales : /\ booked[x] = "PAID" => booked'[x] = "PAID"
                      /\ booked[x] \in Outcome => booked'[x] \in Outcome]_vars

(* "EXPIRED/FAILED may still become PAID (the money was taken)" (gateway.ts:210-211)
   and "Webhook event ids already applied" (schema.prisma:293): a payment event that
   is on file as processed has made its sale PAID. *)
PaidEventIsApplied ==
  \A e \in processed : e.status = "PAID" => payment[e.intent].status = "PAID"

(* PayMongo redelivers an event until it is acknowledged, running handlers get on;
   nothing is assumed of cashiers, customers or restarts. *)
Fairness ==
  /\ \A s \in Slots : WF_vars(Handler(s))
  /\ \A e \in Event : SF_vars(Deliver(e))

FairSpec == Spec /\ Fairness

(* A sale the customer has paid does not stay PENDING, though the deliveries of
   the news fail, cross each other or find the server restarting. *)
TakenIsSettled ==
  \A i \in Intents :
    intent[i] = "succeeded" ~> ~ enabled \/ (payment[i] # None /\ payment[i].status # "PENDING")
=============================================================================
