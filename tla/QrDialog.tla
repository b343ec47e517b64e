------------------------------ MODULE QrDialog ------------------------------
(***************************************************************************)
(* The QR Ph dialog (components/QrPhCheckout.tsx): it sends the sale, asks *)
(* for its charge and shows the status the server has stored, polling it   *)
(* while it shows PENDING.  Answers come in any order; Gateway models how  *)
(* the server settles a charge.                                            *)
(***************************************************************************)
EXTENDS Naturals

CONSTANTS
  QrSales,        \* sales rung up for QR Ph
  NoQrSale,
  Polls,          \* bound: polls out at once
  MaxDialogFaults \* bound: answers that do not come

VARIABLES
  charge,         \* server: the status of a sale's charge
  shownSale,      \* transactionId, NoQrSale while the dialog is closed
  phase,          \* "loading", "error" or "charge"
  status,         \* the status shown in phase "charge"
  creating,       \* the active run of the first effect: where it is
  poll,           \* polls out: their sale and the status the server read
  check,          \* the Check status request: out, its sale and status
  dialogFaults,
  swapped         \* history: another sale replaced the one shown

dialogVars == <<charge, shownSale, phase, status, creating, poll, check, dialogFaults, swapped>>

ASSUME DialogAssumption == NoQrSale \notin QrSales /\ MaxDialogFaults \in Nat

ChargeStatuses == {"PENDING", "EXPIRED", "FAILED", "PAID"}
NoPoll == [of |-> NoQrSale, read |-> "none"]
StatusRequest == [of : QrSales \cup {NoQrSale}, read : ChargeStatuses \cup {"none", "absent"}]

DialogTypeOK ==
  /\ charge \in [QrSales -> ChargeStatuses \cup {"none"}]
  /\ shownSale \in QrSales \cup {NoQrSale}
  /\ phase \in {"loading", "error", "charge"}
  /\ status \in ChargeStatuses \cup {"none"}
  /\ creating \in {"no", "syncing", "asking"}
  /\ poll \in [Polls -> StatusRequest] /\ check \in StatusRequest
  /\ dialogFaults \in 0 .. MaxDialogFaults
  /\ swapped \in BOOLEAN

DialogInit ==
  /\ charge = [s \in QrSales |-> "none"]
  /\ shownSale = NoQrSale /\ phase = "loading" /\ status = "none"
  /\ creating = "no"
  /\ poll = [p \in Polls |-> NoPoll] /\ check = NoPoll
  /\ dialogFaults = 0 /\ swapped = FALSE

IsOpen == shownSale # NoQrSale

(* What a webhook or a check makes of a charge: PAID is final, a late payment still
   counts (Gateway). *)
Settles(s, to) ==
  /\ charge[s] # "none" /\ charge[s] # "PAID"
  /\ \/ charge[s] = "PENDING" /\ to \in {"EXPIRED", "FAILED", "PAID"}
     \/ to = "PAID"
  /\ charge' = [charge EXCEPT ![s] = to]
  /\ UNCHANGED <<shownSale, phase, status, creating, poll, check, dialogFaults, swapped>>

(* The POS after ringing up a QR Ph sale, or the shift log's QR payment button.  The
   POS may put another sale under an open dialog: the effect runs again, the phase
   stays. *)
ShowSale(s) ==
  /\ s # shownSale
  /\ shownSale' = s
  /\ creating' = "syncing"
  /\ IF IsOpen
     THEN swapped' = TRUE /\ UNCHANGED <<phase, status, check>>
     ELSE swapped' = FALSE /\ phase' = "loading" /\ status' = "none" /\ check' = NoPoll
  /\ UNCHANGED <<charge, poll, dialogFaults>>

(* Mutation of CloseDialog: a poll that is out is still heeded. *)
CloseDialogHeeding ==
  /\ IsOpen
  /\ shownSale' = NoQrSale /\ phase' = "loading" /\ status' = "none" /\ creating' = "no"
  /\ check' = NoPoll
  /\ swapped' = FALSE
  /\ UNCHANGED <<charge, poll, dialogFaults>>

(* Close and Escape; what is out then is answered to nobody. *)
CloseDialog ==
  /\ IsOpen
  /\ shownSale' = NoQrSale /\ phase' = "loading" /\ status' = "none" /\ creating' = "no"
  /\ poll' = [p \in Polls |-> NoPoll] /\ check' = NoPoll
  /\ swapped' = FALSE
  /\ UNCHANGED <<charge, dialogFaults>>

Fault == dialogFaults < MaxDialogFaults /\ dialogFaults' = dialogFaults + 1

Shows(newPhase, newStatus) == phase' = newPhase /\ status' = newStatus

(* ensureSynced. *)
SaleSynced ==
  /\ creating = "syncing"
  /\ creating' = "asking"
  /\ Shows("loading", "none")
  /\ UNCHANGED <<charge, shownSale, poll, check, dialogFaults, swapped>>

(* Not on the server yet, or no answer to the request for the charge, which may have
   been made. *)
CreateFails ==
  /\ creating # "no"
  /\ Fault
  /\ creating' = "no"
  /\ Shows("error", "none")
  /\ \/ UNCHANGED charge
     \/ creating = "asking" /\ charge[shownSale] = "none"
        /\ charge' = [charge EXCEPT ![shownSale] = "PENDING"]
  /\ UNCHANGED <<shownSale, poll, check, swapped>>

(* The same sale gets the same charge, whatever its status by now. *)
ChargeAnswered ==
  LET found == IF charge[shownSale] = "none" THEN "PENDING" ELSE charge[shownSale] IN
  /\ creating = "asking"
  /\ charge' = [charge EXCEPT ![shownSale] = found]
  /\ Shows("charge", found)
  /\ creating' = "no"
  /\ UNCHANGED <<shownSale, poll, check, dialogFaults, swapped>>

TryAgain ==
  /\ IsOpen /\ phase = "error"
  /\ Shows("loading", "none")
  /\ creating' = "syncing"
  /\ UNCHANGED <<charge, shownSale, poll, check, dialogFaults, swapped>>

(* Mutation of Pending: a poll that got no answer is the last one. *)
PendingOnce == phase = "charge" /\ status = "PENDING" /\ dialogFaults = 0

Pending == phase = "charge" /\ status = "PENDING"

(* Every three seconds; the server's status is read when it answers. *)
PollTick(p) ==
  /\ IsOpen /\ Pending
  /\ poll[p] = NoPoll
  /\ poll' = [poll EXCEPT ![p] = [of |-> shownSale, read |-> "none"]]
  /\ UNCHANGED <<charge, shownSale, phase, status, creating, check, dialogFaults, swapped>>

(* Without a charge the answer is an error, which is ignored. *)
Reads(r) == [r EXCEPT !.read = IF charge[r.of] = "none" THEN "absent" ELSE charge[r.of]]
Unread(r) == r.of # NoQrSale /\ r.read = "none"

PollRead(p) ==
  /\ Unread(poll[p])
  /\ poll' = [poll EXCEPT ![p] = Reads(@)]
  /\ UNCHANGED <<charge, shownSale, phase, status, creating, check, dialogFaults, swapped>>

(* An answer of PENDING changes nothing; others only the status of a shown charge. *)
PollAnswered(p) ==
  /\ poll[p].read # "none"
  /\ status' = IF phase = "charge" /\ poll[p].read \in ChargeStatuses \ {"PENDING"} THEN poll[p].read ELSE status
  /\ poll' = [poll EXCEPT ![p] = NoPoll]
  /\ UNCHANGED <<charge, shownSale, phase, creating, check, dialogFaults, swapped>>

PollLost(p) ==
  /\ poll[p] # NoPoll
  /\ Fault
  /\ poll' = [poll EXCEPT ![p] = NoPoll]
  /\ UNCHANGED <<charge, shownSale, phase, status, creating, check, swapped>>

(* Check status: one at a time.  The server asks PayMongo first (Gateway). *)
CheckStatus ==
  /\ IsOpen /\ Pending
  /\ check = NoPoll
  /\ check' = [of |-> shownSale, read |-> "none"]
  /\ UNCHANGED <<charge, shownSale, phase, status, creating, poll, dialogFaults, swapped>>

CheckRead ==
  /\ Unread(check)
  /\ check' = Reads(check)
  /\ UNCHANGED <<charge, shownSale, phase, status, creating, poll, dialogFaults, swapped>>

(* Any status is shown, an old PENDING too. *)
CheckAnswered ==
  /\ check.read # "none"
  /\ status' = IF phase = "charge" /\ check.read \in ChargeStatuses THEN check.read ELSE status
  /\ check' = NoPoll
  /\ UNCHANGED <<charge, shownSale, phase, creating, poll, dialogFaults, swapped>>

CheckLost ==
  /\ check # NoPoll
  /\ Fault
  /\ check' = NoPoll
  /\ UNCHANGED <<charge, shownSale, phase, status, creating, poll, swapped>>

DialogNext ==
  \/ \E s \in QrSales :
       ShowSale(s) \/ Settles(s, "EXPIRED") \/ Settles(s, "FAILED") \/ Settles(s, "PAID")
  \/ CloseDialog \/ SaleSynced \/ CreateFails \/ ChargeAnswered \/ TryAgain
  \/ \E p \in Polls : PollTick(p) \/ PollRead(p) \/ PollAnswered(p) \/ PollLost(p)
  \/ CheckStatus \/ CheckRead \/ CheckAnswered \/ CheckLost

DialogSpec == DialogInit /\ [][DialogNext]_dialogVars

-----------------------------------------------------------------------------
(* "The client never decides payment status; it only displays it"
   (QrPhCheckout.tsx:9): Paid is shown only for a charge the server has as PAID,
   however late the answers come.  A sale put under an open dialog is not covered. *)
PaidShownIsPaid == status = "PAID" /\ ~swapped => charge[shownSale] = "PAID"

(* A dialog left open on a paid charge does not go on saying PENDING: the poll stops
   only once another status is shown, and a late PENDING from Check status starts it
   again. *)
PaidIsNoticed ==
  \A s \in QrSales :
    <>[](shownSale = s /\ phase = "charge" /\ charge[s] = "PAID") => []<>(status # "PENDING")
=============================================================================
