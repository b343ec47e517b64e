------------------------------ MODULE ShiftLog ------------------------------
(***************************************************************************)
(* A phone's shift log (app/shift-log/page.tsx, lib/paginate.ts): the      *)
(* phone's own sales page by page, the syncs and retries started from it   *)
(* with their one-line result, and a sale's QR payment.  What a sync does  *)
(* to the sales is Till's.                                                 *)
(***************************************************************************)
EXTENDS Integers, Sequences, SequencesExt

CONSTANTS
  PageSize,       \* SHIFT_LOG_PAGE_SIZE
  MaxLog,         \* bound: sales on the phone
  MaxSyncs        \* bound: syncs running, and messages on a timer, at once

VARIABLES
  log,            \* db.transactions, newest first: rejected, synced and to be paid by QR, or other
  page,           \* the page asked for
  online,         \* navigator.onLine
  syncs,          \* syncs and retries under way: the sale retried, 0 for none
  isSyncing,      \* the buttons are off
  feedback,       \* syncFeedback is shown
  clearing,       \* 3 s timers that will take the message away
  qrSale          \* the sale whose QR payment is open, 0 for none

logVars == <<log, page, online, syncs, isSyncing, feedback, clearing, qrSale>>

ASSUME LogAssumption == PageSize \in Nat \ {0} /\ MaxLog \in Nat /\ MaxSyncs \in Nat

LogSale == [id : 1 .. MaxLog, state : {"rejected", "qr", "other"}]

Ceiling(n, d) == (n + d - 1) \div d

(* paginate: a page that does not exist is the nearest that does. *)
PageCount(items) == IF items = << >> THEN 1 ELSE Ceiling(Len(items), PageSize)
PageShown(items, p) == IF p < 1 THEN 1 ELSE IF p > PageCount(items) THEN PageCount(items) ELSE p
ItemsShown(items, p) ==
  LET start == (PageShown(items, p) - 1) * PageSize
      end == IF start + PageSize < Len(items) THEN start + PageSize ELSE Len(items) IN
  SubSeq(items, start + 1, end)

(* The pages one after the other are the whole log. *)
LogTypeOK ==
  /\ \A i \in DOMAIN log : log[i] \in LogSale
  /\ page \in 1 .. PageCount(log) /\ FlattenSeq([p \in 1 .. PageCount(log) |-> ItemsShown(log, p)]) = log
  /\ \A i \in DOMAIN syncs : syncs[i] \in 0 .. MaxLog
  /\ clearing \in 0 .. MaxSyncs /\ qrSale \in 0 .. MaxLog
  /\ {online, isSyncing, feedback} \subseteq BOOLEAN
  /\ feedback => clearing > 0
  /\ isSyncing => syncs # << >>

LogInit ==
  /\ \E n \in 0 .. MaxLog : \E states \in [1 .. n -> {"rejected", "qr", "other"}] :
       log = [i \in 1 .. n |-> [id |-> n + 1 - i, state |-> states[i]]]
  /\ page = 1 /\ online \in BOOLEAN
  /\ syncs = << >> /\ isSyncing = FALSE /\ feedback = FALSE /\ clearing = 0 /\ qrSale = 0

(* Another tab records a sale: it comes first. *)
SaleRecorded ==
  /\ Len(log) < MaxLog
  /\ log' = << [id |-> Len(log) + 1, state |-> "other"] >> \o log
  /\ UNCHANGED <<page, online, syncs, isSyncing, feedback, clearing, qrSale>>

(* The rows under "need attention", with their Retry buttons. *)
IsRejected(sale) == sale.state = "rejected"

Previous == PageShown(log, page) - 1
Following == PageShown(log, page) + 1

TurnPage ==
  /\ PageCount(log) > 1
  /\ page' \in {Previous, Following} \cap 1 .. PageCount(log)
  /\ UNCHANGED <<log, online, syncs, isSyncing, feedback, clearing, qrSale>>

Begins(sale) ==
  /\ online' /\ Len(syncs) < MaxSyncs
  /\ syncs' = Append(syncs, sale)
  /\ isSyncing' = TRUE
  /\ UNCHANGED <<page, feedback, clearing, qrSale>>

(* The button. *)
HandleSync == ~isSyncing /\ online /\ UNCHANGED <<log, online>> /\ Begins(0)

(* Back on the network, the shop PC answers again, the phone is approved: whatever
   is running. *)
AutoSync == online' = TRUE /\ Begins(0) /\ UNCHANGED log

(* retryRejected queues the sale again, then syncs. *)
HandleRetryRejected(i) ==
  /\ ~isSyncing /\ online /\ UNCHANGED online
  /\ IsRejected(log[i])
  /\ log' = [log EXCEPT ![i].state = "other"]
  /\ Begins(log[i].id)

(* A sync settles a sale. *)
SaleSettles(i) ==
  /\ syncs # << >> /\ log[i].state = "other"
  /\ log' \in {[log EXCEPT ![i].state = to] : to \in {"rejected", "qr"}}
  /\ UNCHANGED <<page, online, syncs, isSyncing, feedback, clearing, qrSale>>

HasQr(sale) == \E i \in DOMAIN log : log[i].id = sale /\ log[i].state = "qr"

(* A result or an error is said for 3 s; a retried QR Ph sale that reached the server
   opens its payment.  The buttons come back with the first of two that ends. *)
SyncEnds(i) ==
  /\ clearing < MaxSyncs
  /\ syncs' = RemoveAt(syncs, i)
  /\ isSyncing' = FALSE /\ feedback' = TRUE /\ clearing' = clearing + 1
  /\ qrSale' = IF HasQr(syncs[i]) THEN syncs[i] ELSE qrSale
  /\ UNCHANGED <<log, page, online>>

(* Any timer takes the message of now away. *)
FeedbackGoes ==
  /\ clearing > 0
  /\ clearing' = clearing - 1 /\ feedback' = FALSE
  /\ UNCHANGED <<log, page, online, syncs, isSyncing, qrSale>>

GoesOffline ==
  /\ online
  /\ online' = FALSE
  /\ UNCHANGED <<log, page, syncs, isSyncing, feedback, clearing, qrSale>>

(* The row's "QR payment" button, and the dialog's close. *)
OpenQr(i) ==
  /\ online /\ qrSale = 0 /\ log[i].state = "qr"
  /\ Contains(ItemsShown(log, page), log[i])
  /\ qrSale' = log[i].id
  /\ UNCHANGED <<log, page, online, syncs, isSyncing, feedback, clearing>>

CloseQr ==
  /\ qrSale # 0
  /\ qrSale' = 0
  /\ UNCHANGED <<log, page, online, syncs, isSyncing, feedback, clearing>>

LogNext ==
  \/ SaleRecorded \/ TurnPage \/ HandleSync \/ AutoSync \/ FeedbackGoes \/ GoesOffline \/ CloseQr
  \/ \E i \in DOMAIN log : HandleRetryRejected(i) \/ SaleSettles(i) \/ OpenQr(i)
  \/ \E i \in DOMAIN syncs : SyncEnds(i)

LogSpec == LogInit /\ [][LogNext]_logVars
=============================================================================
