----------------------------- MODULE ShopServer -----------------------------
(***************************************************************************)
(* The shop PC's side of binding and syncing: the routes devices/bind,     *)
(* devices/binding, devices/approve, devices/revoke and transactions/sync, *)
(* over the MySQL tables they share.  A database transaction is one step;  *)
(* what a handler reads in one step and uses in a later one may be stale   *)
(* by then.                                                                *)
(***************************************************************************)
EXTENDS TillNet

CONSTANTS
  Leavers,      \* barbers who may be deactivated
  QrphSales,    \* sales paid by QR Ph
  BadSales      \* sales whose own data the database refuses

VARIABLES
  device,       \* devices: phone -> secret (0: no row) and revoked
  row,          \* device_assignments: assignment -> row or None
  sale,         \* transactions: sale -> row or None
  inactive,     \* barbers.isActive = false
  gatewayOn     \* readGatewayStatus().state = "on"

serverVars == <<device, row, sale, inactive, gatewayOn>>

Row == [phone : Phones, barber : Barbers, active : BOOLEAN,
        by : {"bind", "sync"}]      \* by: the route that created it (history)
Receipt == [phone : Phones, barber : Barbers, asg : Assignments \cup {None}]

ASSUME ServerAssumption ==
  /\ Leavers \subseteq Barbers
  /\ QrphSales \subseteq Sales
  /\ BadSales \subseteq Sales
  /\ None \notin Row \cup Receipt

ServerTypeOK ==
  /\ device \in [Phones -> [secret : Secrets, revoked : BOOLEAN]]
  /\ row \in [Assignments -> Row \cup {None}]
  /\ sale \in [Sales -> Receipt \cup {None}]
  /\ inactive \in SUBSET Leavers
  /\ gatewayOn \in BOOLEAN

ServerInit ==
  /\ device = [p \in Phones |-> [secret |-> IF p \in Approved THEN 1 ELSE 0,
                                 revoked |-> FALSE]]
  /\ row = [a \in Assignments |-> None]
  /\ sale = [x \in Sales |-> None]
  /\ inactive = {}
  /\ gatewayOn = TRUE

At(s, kind, stage) == req[s] # None /\ req[s].kind = kind /\ req[s].stage = stage

(* authenticateDevice: the stored hash matches and the device is not revoked. *)
Authentic(r) ==
  /\ r.secret # 0
  /\ device[r.phone].secret = r.secret
  /\ ~ device[r.phone].revoked

(* bind and sync refuse the whole request before reading or writing anything. *)
RefuseUnapproved(s) ==
  /\ At(s, "bind", "sent") \/ At(s, "sync", "sent")
  /\ ~ Authentic(req[s])
  /\ Answer(s, "notApproved")
  /\ UNCHANGED serverVars

-----------------------------------------------------------------------------
(* POST devices/bind.  The lookups come first, the writes in a later step. *)

Sound(r) ==                         \* the row is this phone's binding, still active
  /\ row[r.asg].phone = r.phone
  /\ row[r.asg].barber = minted[r.asg].barber
  /\ row[r.asg].active

(* respondToExisting *)
BindExisting(s) ==
  LET r == req[s] IN
  /\ At(s, "bind", "sent")
  /\ Authentic(r)
  /\ row[r.asg] # None
  /\ Answer(s, IF Sound(r) /\ minted[r.asg].barber \notin inactive
               THEN "ok" ELSE "refused")
  /\ UNCHANGED serverVars

BindLookup(s) ==
  LET r == req[s] IN
  /\ At(s, "bind", "sent")
  /\ Authentic(r)
  /\ row[r.asg] = None
  /\ Handle(s, [r EXCEPT !.stage = IF minted[r.asg].barber \in inactive
                                   THEN "inactive" ELSE "creating"])
  /\ UNCHANGED serverVars

NewRow(a, active, by) ==
  [phone |-> minted[a].phone, barber |-> minted[a].barber, active |-> active, by |-> by]

(* The barber is inactive: the assignment is recorded as already revoked. *)
BindInactive(s) ==
  LET a == req[s].asg IN
  /\ At(s, "bind", "inactive")
  /\ row' = [row EXCEPT ![a] = IF @ = None THEN NewRow(a, FALSE, "bind") ELSE @]
  /\ Answer(s, "refused")
  /\ UNCHANGED <<device, sale, inactive, gatewayOn>>

(* Mutations of Activated: nothing is revoked; every phone's rows are. *)
ActivatedBesides(r) == [row EXCEPT ![r.asg] = NewRow(r.asg, TRUE, "bind")]
ActivatedAlone(r) ==
  [a \in Assignments |->
     IF a = r.asg THEN NewRow(a, TRUE, "bind")
     ELSE IF row[a] # None THEN [row[a] EXCEPT !.active = FALSE] ELSE None]

Activated(r) ==                     \* the rows once r's assignment is bound
  [a \in Assignments |->
     IF a = r.asg THEN NewRow(a, TRUE, "bind")
     ELSE IF row[a] # None /\ row[a].phone = r.phone
     THEN [row[a] EXCEPT !.active = FALSE]
     ELSE row[a]]

(* Revoke the phone's active rows and create this one, in one transaction.  A
   write conflict rolls it back and tries again, which is no step here. *)
BindCreate(s) ==
  LET r == req[s] IN
  /\ At(s, "bind", "creating")
  /\ row[r.asg] = None
  /\ row' = Activated(r)
  /\ Answer(s, "ok")
  /\ UNCHANGED <<device, sale, inactive, gatewayOn>>

(* Mutation of BindLostRace: the existing row is made the active one. *)
BindLostRaceUpsert(s) ==
  LET r == req[s] IN
  /\ At(s, "bind", "creating")
  /\ row[r.asg] # None
  /\ row' = Activated(r)
  /\ Answer(s, "ok")
  /\ UNCHANGED <<device, sale, inactive, gatewayOn>>

(* The id was created since the lookup: unique violation, rolled back, re-read.
   The barber's isActive is the one read at the lookup. *)
BindLostRace(s) ==
  LET r == req[s] IN
  /\ At(s, "bind", "creating")
  /\ row[r.asg] # None
  /\ Answer(s, IF Sound(r) THEN "ok" ELSE "refused")
  /\ UNCHANGED serverVars

-----------------------------------------------------------------------------
(* POST transactions/sync. *)

(* Mutation of Finish: answers before the writes are awaited. *)
FinishUnawaited(r) ==
  [r EXCEPT !.stage = "answered", !.answer = "ok", !.ok = r.sales \ r.bad]

Finish(r) ==                        \* the answer goes out once every sale is decided
  IF r.sales \subseteq r.ok \cup r.bad
  THEN [r EXCEPT !.stage = "answered", !.answer = "ok"]
  ELSE [r EXCEPT !.stage = "recording"]

AssignmentsOf(xs) == {rung[x].asg : x \in xs} \ {None}

(* Mutation of Known: the gateway is asked first, even of sales already stored. *)
KnownUnlessOff(r) ==
  {x \in r.sales : sale[x] # None /\ (x \in QrphSales => gatewayOn)}

Known(r) == {x \in r.sales : sale[x] # None}        \* existingIdSet

NeedsGateway(r) == {x \in (r.sales \cap QrphSales) \ Known(r) : ~ gatewayOn}

(* The prefetch: gateway state, sales already stored, assignments known.  A
   QRPH sale is rejected now when the gateway is off. *)
SyncLoad(s) ==
  LET r == req[s]
      known == Known(r)
      named == AssignmentsOf(r.sales \ known)
      found == {a \in named : row[a] # None}
      loaded == [r EXCEPT !.ok = known, !.bad = NeedsGateway(r), !.found = found] IN
  /\ At(s, "sync", "sent")
  /\ Authentic(r)
  /\ Handle(s, IF named = found THEN Finish(loaded)
               ELSE [loaded EXCEPT !.stage = "loaded"])
  /\ UNCHANGED serverVars

(* createMany with skipDuplicates, then the re-read: an assignment known only
   through its sales is recorded as revoked; an existing row wins. *)
SyncRegister(s) ==
  LET r == req[s]
      named == AssignmentsOf(r.sales \ r.ok) IN
  /\ At(s, "sync", "loaded")
  /\ row' = [a \in Assignments |-> IF a \in named /\ row[a] = None
                                   THEN NewRow(a, FALSE, "sync") ELSE row[a]]
  /\ Handle(s, Finish([r EXCEPT !.found = named]))
  /\ UNCHANGED <<device, sale, inactive, gatewayOn>>

(* What the handler answers for a sale it could not store: "ok" for a unique
   violation (stored by an overlapping request), "bad" for a rejection. *)
Rejected(r, x) ==
  LET a == rung[x].asg IN
  \/ rung[x].phone # r.phone
  \/ a # None /\ (a \notin r.found \/ row[a].phone # rung[x].phone)
  \/ x \in BadSales /\ sale[x] = None

(* Mutation of ReceiptFor: the phone's active binding earns the sale. *)
ReceiptForCurrent(r, x) ==
  LET active == {a \in Assignments : row[a] # None /\ row[a].phone = r.phone /\ row[a].active}
  IN  [phone |-> r.phone, asg |-> rung[x].asg,
       barber |-> IF active = {} THEN rung[x].barber
                  ELSE row[CHOOSE a \in active : TRUE].barber]

(* The barber is the assignment's, or the sale's own from before assignments. *)
ReceiptFor(r, x) ==
  LET a == rung[x].asg IN
  [phone |-> r.phone, asg |-> a,
   barber |-> IF a = None THEN rung[x].barber ELSE row[a].barber]

SyncRecord(s, x) ==
  LET r == req[s] IN
  /\ At(s, "sync", "recording")
  /\ x \in r.sales \ (r.ok \cup r.bad)
  /\ IF Rejected(r, x)
     THEN /\ Handle(s, Finish([r EXCEPT !.bad = @ \cup {x}]))
          /\ UNCHANGED sale
     ELSE /\ Handle(s, Finish([r EXCEPT !.ok = @ \cup {x}]))
          /\ sale' = [sale EXCEPT ![x] = IF @ = None THEN ReceiptFor(r, x) ELSE @]
  /\ UNCHANGED <<device, row, inactive, gatewayOn>>

-----------------------------------------------------------------------------
(* GET devices/binding *)
CheckBinding(s) ==
  LET p == req[s].phone
      active == {a \in Assignments : row[a] # None /\ row[a].phone = p /\ row[a].active} IN
  /\ At(s, "check", "sent")
  /\ \E a \in IF active = {} THEN {None} ELSE active :
       Handle(s, [req[s] EXCEPT
                    !.stage = "answered", !.answer = "ok",
                    !.asg = IF a = None \/ row[a].barber \in inactive THEN None ELSE a])
  /\ UNCHANGED serverVars

(* POST devices/approve with the right PIN: a new secret, and a revoked phone is
   approved again. *)
ApproveDevice(s) ==
  LET r == req[s]
      new == device[r.phone].secret + 1 IN
  /\ At(s, "approve", "sent")
  /\ new <= MaxSecret
  /\ device' = [device EXCEPT ![r.phone] = [secret |-> new, revoked |-> FALSE]]
  /\ Handle(s, [r EXCEPT !.stage = "answered", !.answer = "ok", !.secret = new])
  /\ UNCHANGED <<row, sale, inactive, gatewayOn>>

WrongPin(s) ==
  /\ At(s, "approve", "sent")
  /\ Answer(s, "refused")
  /\ UNCHANGED serverVars

(* POST devices/revoke *)
RevokeDevice(p) ==
  /\ device[p].secret # 0
  /\ ~ device[p].revoked
  /\ device' = [device EXCEPT ![p].revoked = TRUE]
  /\ UNCHANGED <<req, row, sale, inactive, gatewayOn>>

-----------------------------------------------------------------------------
(* A barber leaves the shop: edited in the database, no route does it. *)
Deactivate(b) ==
  /\ b \in Leavers \ inactive
  /\ inactive' = inactive \cup {b}
  /\ UNCHANGED <<req, device, row, sale, gatewayOn>>

(* PAYMENT_GATEWAY is read from the environment: it changes by a restart, which
   neither a running handler nor the connection of a request that was given up
   survives (Lose comes first). *)
SwitchGateway ==
  /\ QrphSales # {}
  /\ \A s \in Slots : req[s] # None =>
       req[s].stage = "answered" \/ (req[s].stage = "sent" /\ req[s].owner # None)
  /\ gatewayOn' = ~ gatewayOn
  /\ UNCHANGED <<req, device, row, sale, inactive>>

Handler(s) ==
  \/ RefuseUnapproved(s)
  \/ BindExisting(s) \/ BindLookup(s) \/ BindInactive(s) \/ BindCreate(s) \/ BindLostRace(s)
  \/ SyncLoad(s) \/ SyncRegister(s) \/ \E x \in Sales : SyncRecord(s, x)
  \/ CheckBinding(s) \/ ApproveDevice(s) \/ WrongPin(s)

Owner ==
  \/ \E p \in Phones : RevokeDevice(p)
  \/ \E b \in Barbers : Deactivate(b)
  \/ SwitchGateway

ServerNext == (\E s \in Slots : Handler(s)) \/ Owner
=============================================================================
