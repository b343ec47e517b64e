------------------------------- MODULE QrPage -------------------------------
(***************************************************************************)
(* The owner's page of payment QRs (app/payment-qr/page.tsx): the images   *)
(* are listed once, then each upload and removal changes its own slot by   *)
(* its answer.  The server's side and the phones' copies are PaymentQr's.  *)
(***************************************************************************)
EXTENDS Naturals, FiniteSets

CONSTANTS
  QrSlots,        \* barber and method
  Pictures,
  NoPicture,
  NoSlot,
  MaxQrCalls      \* bound: requests out at once

VARIABLES
  kept,           \* the server's image of each slot
  qrOpen,         \* unlocked
  shownQrs,       \* qrs
  workingSlot,    \* the slot whose buttons are off
  confirmRemove,  \* the slot whose Remove was tapped once
  qrError,        \* error: the last load failed
  qrCalls,        \* requests out, and what the server has done for them
  qrMixedUp       \* history: calls for the same slot overlapped, or a write's answer was lost,
                  \* and no load went out alone since

qrPageVars == <<kept, qrOpen, shownQrs, workingSlot, confirmRemove, qrError, qrCalls, qrMixedUp>>

ASSUME QrPageAssumption == NoPicture \notin Pictures /\ NoSlot \notin QrSlots /\ MaxQrCalls \in Nat

Maybe == Pictures \cup {NoPicture}
Album == [QrSlots -> Maybe]

(* A removal writes NoPicture. *)
QrCall == [slot : QrSlots \cup {NoSlot}, picture : Maybe, at : {"sent", "done", "refused"}, saw : Album]
NoPictures == [k \in QrSlots |-> NoPicture]
ListAsked == [slot |-> NoSlot, picture |-> NoPicture, at |-> "sent", saw |-> NoPictures]
Write(k, p) == [slot |-> k, picture |-> p, at |-> "sent", saw |-> NoPictures]
IsLoad(c) == c.slot = NoSlot

QrPageTypeOK ==
  /\ kept \in Album /\ shownQrs \in Album
  /\ workingSlot \in QrSlots \cup {NoSlot} /\ confirmRemove \in QrSlots \cup {NoSlot}
  /\ qrCalls \subseteq QrCall /\ Cardinality(qrCalls) <= MaxQrCalls
  /\ {qrOpen, qrError, qrMixedUp} \subseteq BOOLEAN

QrPageInit ==
  /\ kept \in Album
  /\ qrOpen = FALSE /\ shownQrs = NoPictures
  /\ workingSlot = NoSlot /\ confirmRemove = NoSlot
  /\ qrError = FALSE /\ qrCalls = {} /\ qrMixedUp = FALSE

Clash(calls) == \E c, d \in calls : c # d /\ (c.slot = d.slot \/ IsLoad(c)) /\ ~IsLoad(d)

SendQr(call) ==
  /\ call \notin qrCalls /\ Cardinality(qrCalls) < MaxQrCalls
  /\ qrCalls' = qrCalls \cup {call}
  /\ qrMixedUp' = IF IsLoad(call) /\ qrCalls = {} THEN FALSE ELSE qrMixedUp \/ Clash(qrCalls \cup {call})

(* The PIN is right: the effect loads.  The reload button loads again. *)
LoadQrs ==
  /\ SendQr(ListAsked)
  /\ qrOpen' = TRUE /\ qrError' = FALSE
  /\ UNCHANGED <<kept, shownQrs, workingSlot, confirmRemove>>

(* An image of another type or above 1 MB is turned away on the page. *)
Upload(k, p) ==
  /\ qrOpen /\ workingSlot # k
  /\ SendQr(Write(k, p))
  /\ workingSlot' = k /\ confirmRemove' = NoSlot
  /\ UNCHANGED <<kept, qrOpen, shownQrs, qrError>>

TapRemove(k) ==
  /\ qrOpen /\ workingSlot # k /\ shownQrs[k] # NoPicture
  /\ IF confirmRemove # k
     THEN confirmRemove' = k /\ UNCHANGED <<workingSlot, qrCalls, qrMixedUp>>
     ELSE /\ confirmRemove' = NoSlot /\ workingSlot' = k
          /\ SendQr(Write(k, NoPicture))
  /\ UNCHANGED <<kept, qrOpen, shownQrs, qrError>>

(* The server's turn; a write without the owner's cookie is refused. *)
QrServerTurn(c) ==
  /\ c.at = "sent"
  /\ \E at \in IF IsLoad(c) THEN {"done"} ELSE {"done", "refused"} :
       /\ qrCalls' = (qrCalls \ {c}) \cup {[c EXCEPT !.at = at, !.saw = IF IsLoad(c) THEN kept ELSE NoPictures]}
       /\ kept' = IF IsLoad(c) \/ at = "refused" THEN kept ELSE [kept EXCEPT ![c.slot] = c.picture]
  /\ UNCHANGED <<qrOpen, shownQrs, workingSlot, confirmRemove, qrError, qrMixedUp>>

QrListArrives(c) ==
  /\ IsLoad(c) /\ c.at = "done"
  /\ qrCalls' = qrCalls \ {c}
  /\ shownQrs' = c.saw
  /\ UNCHANGED <<kept, qrOpen, workingSlot, confirmRemove, qrError, qrMixedUp>>

(* Mutation of Changed: from the list of the first render, a stale closure. *)
ChangedFromFirst(c) == [k \in QrSlots |-> IF k = c.slot THEN c.picture ELSE NoPicture]

(* Only the slot written, whatever else has changed since. *)
Changed(c) == [shownQrs EXCEPT ![c.slot] = c.picture]

(* The buttons of every slot come back with any answer. *)
WriteArrives(c) ==
  /\ ~IsLoad(c) /\ c.at # "sent"
  /\ qrCalls' = qrCalls \ {c}
  /\ workingSlot' = NoSlot
  /\ shownQrs' = IF c.at = "done" THEN Changed(c) ELSE shownQrs
  /\ qrOpen' = IF c.at = "refused" THEN FALSE ELSE qrOpen
  /\ UNCHANGED <<kept, confirmRemove, qrError, qrMixedUp>>

(* A load's error stays; the message of a write that failed goes after 3 s. *)
QrCallFails(c) ==
  /\ qrCalls' = qrCalls \ {c}
  /\ IF IsLoad(c)
     THEN qrError' = TRUE /\ UNCHANGED <<workingSlot, qrMixedUp>>
     ELSE workingSlot' = NoSlot /\ qrMixedUp' = TRUE /\ UNCHANGED qrError
  /\ UNCHANGED <<kept, qrOpen, shownQrs, confirmRemove>>

QrPageNext ==
  \/ LoadQrs
  \/ \E k \in QrSlots : TapRemove(k) \/ \E p \in Pictures : Upload(k, p)
  \/ \E c \in qrCalls : QrServerTurn(c) \/ QrListArrives(c) \/ WriteArrives(c) \/ QrCallFails(c)

QrPageSpec == QrPageInit /\ [][QrPageNext]_qrPageVars

(* "Per-slot state, so one barber's upload never disables another's buttons"
   (app/payment-qr/page.tsx:34): uploads and removals of different slots overlap, and
   at rest an open page without an error shows the images the server keeps, unless
   calls about one slot crossed or the answer to a write was lost, and the list was not
   loaded by itself since: one reload puts it right.  (A write whose answer was lost is
   taken to have reached the server by then or never.) *)
QrPageAtRest == qrCalls = {} /\ qrOpen /\ ~qrError /\ ~qrMixedUp => shownQrs = kept
=============================================================================
