----------------------------- MODULE PaymentQr -----------------------------
(***************************************************************************)
(* The barbers' GCash and Maya QRs: the owner uploads and removes them     *)
(* (payment-qrs routes, payment-qr/page.tsx), a phone keeps copies to show *)
(* offline (lib/payment-qr-cache.ts, lib/payment-qr-plan.ts).  An image    *)
(* stands for its bytes and its sha256.                                    *)
(***************************************************************************)
EXTENDS Naturals

CONSTANTS
  QrKeys,         \* barber and method
  Images,
  NoImage,
  NoPut,
  MaxChanges,     \* bound: what the owner does
  MaxQrFaults     \* bound: answers the phone does not get

VARIABLES
  stored,         \* BarberPaymentQr: the image, or NoImage
  active,         \* the barber is active
  put,            \* an upload whose barber has been checked, or NoPut
  asked,          \* payment-qr/page: the slot whose Remove was tapped once, or NoPut
  qrCopy,         \* db.paymentQrs: sha256 and image, or NoImage
  refresh,        \* inFlight: where run() is, and what is left of its plan
  changes,
  qrFaults,
  offered,        \* history: the key has been listed at all times since the run began
  replaced        \* history: the image changed since the server's list was taken

qrVars == <<stored, active, put, asked, qrCopy, refresh, changes, qrFaults, offered, replaced>>

Copy == [sha : Images, image : Images]

ASSUME QrAssumption ==
  /\ NoImage \notin Images \cup Copy /\ NoPut \notin QrKeys
  /\ {MaxChanges, MaxQrFaults} \subseteq Nat

Idle == [at |-> "idle", list |-> [k \in QrKeys |-> NoImage], download |-> {}]

QrTypeOK ==
  /\ stored \in [QrKeys -> Images \cup {NoImage}]
  /\ active \in [QrKeys -> BOOLEAN]
  /\ put \in [key : QrKeys, image : Images] \cup {NoPut}
  /\ asked \in QrKeys \cup {NoPut}
  /\ qrCopy \in [QrKeys -> Copy \cup {NoImage}]
  /\ refresh \in [at : {"idle", "listing", "downloading"},
                  list : [QrKeys -> Images \cup {NoImage}], download : SUBSET QrKeys]
  /\ changes \in 0 .. MaxChanges /\ qrFaults \in 0 .. MaxQrFaults
  /\ offered \in [QrKeys -> BOOLEAN] /\ replaced \in [QrKeys -> BOOLEAN]

QrInit ==
  /\ stored = [k \in QrKeys |-> NoImage]
  /\ active = [k \in QrKeys |-> TRUE]
  /\ put = NoPut
  /\ asked = NoPut
  /\ qrCopy = [k \in QrKeys |-> NoImage]
  /\ refresh = Idle
  /\ changes = 0 /\ qrFaults = 0
  /\ offered = [k \in QrKeys |-> FALSE]
  /\ replaced = [k \in QrKeys |-> FALSE]

(* GET payment-qrs: what exists for active barbers. *)
Listing(images, on) == [k \in QrKeys |-> IF on[k] THEN images[k] ELSE NoImage]
Listed == Listing(stored, active)

-----------------------------------------------------------------------------
(* The owner. *)

OwnerActs ==
  /\ changes < MaxChanges
  /\ changes' = changes + 1
  /\ UNCHANGED <<qrCopy, refresh, qrFaults>>

Becomes(images, on) ==
  /\ stored' = images
  /\ active' = on
  /\ offered' = [k \in QrKeys |-> offered[k] /\ Listing(images, on)[k] # NoImage]
  /\ replaced' = [k \in QrKeys |-> replaced[k] \/ images[k] # stored[k]]

(* PUT checks that the barber is active, then reads the image. *)
BeginPut(k, image) ==
  /\ OwnerActs
  /\ put = NoPut /\ active[k]
  /\ put' = [key |-> k, image |-> image]
  /\ asked' = NoPut
  /\ UNCHANGED <<stored, active, offered, replaced>>

FinishPut ==
  /\ put # NoPut
  /\ Becomes([stored EXCEPT ![put.key] = put.image], active)
  /\ put' = NoPut
  /\ UNCHANGED <<asked, qrCopy, refresh, changes, qrFaults>>

(* Too large, not an image, or the connection broke: nothing is stored. *)
PutRefused ==
  /\ put # NoPut
  /\ put' = NoPut
  /\ UNCHANGED <<stored, active, asked, qrCopy, refresh, changes, qrFaults, offered, replaced>>

(* Remove asks for a second tap. *)
RemoveQr(k) ==
  /\ IF asked = k
     THEN /\ OwnerActs
          /\ Becomes([stored EXCEPT ![k] = NoImage], active)
          /\ asked' = NoPut
     ELSE /\ stored[k] # NoImage
          /\ asked' = k
          /\ UNCHANGED <<stored, active, qrCopy, refresh, changes, qrFaults, offered, replaced>>
  /\ UNCHANGED put

SwitchBarber(k) ==
  /\ OwnerActs
  /\ Becomes(stored, [active EXCEPT ![k] = ~@])
  /\ UNCHANGED <<put, asked>>

-----------------------------------------------------------------------------
(* The phone: refreshPaymentQrs, on load, bind and reconnect. *)

(* Overlapping calls share one run. *)
StartRefresh ==
  /\ refresh.at = "idle"
  /\ refresh' = [Idle EXCEPT !.at = "listing"]
  /\ offered' = [k \in QrKeys |-> Listed[k] # NoImage]
  /\ UNCHANGED <<stored, active, put, asked, qrCopy, changes, qrFaults, replaced>>

(* planQrRefresh: fetch what is new or replaced, drop what is not listed. *)
Download(list) == {k \in QrKeys : list[k] # NoImage /\ (qrCopy[k] = NoImage \/ qrCopy[k].sha # list[k])}

Plan(list) ==
  /\ qrCopy' = [k \in QrKeys |-> IF list[k] = NoImage THEN NoImage ELSE qrCopy[k]]
  /\ refresh' = [at |-> "downloading", list |-> list, download |-> Download(list)]

GotList ==
  /\ refresh.at = "listing"
  /\ Plan(Listed)
  /\ replaced' = [k \in QrKeys |-> FALSE]
  /\ UNCHANGED <<stored, active, put, asked, changes, qrFaults, offered>>

Unreachable == refresh' = Idle /\ UNCHANGED qrCopy

NoList ==
  /\ refresh.at = "listing" /\ qrFaults < MaxQrFaults
  /\ Unreachable
  /\ qrFaults' = qrFaults + 1
  /\ UNCHANGED <<stored, active, put, asked, changes, offered, replaced>>

(* The image as it is now, under the hash the list named; a QR no longer served
   keeps the old copy. *)
GotImage(k) ==
  /\ k \in refresh.download
  /\ qrCopy' = IF Listed[k] = NoImage THEN qrCopy
               ELSE [qrCopy EXCEPT ![k] = [sha |-> refresh.list[k], image |-> Listed[k]]]
  /\ refresh' = [refresh EXCEPT !.download = @ \ {k}]
  /\ UNCHANGED <<stored, active, put, asked, changes, qrFaults, offered, replaced>>

(* Mutation of KeptCopy: the entry is written before the image is there. *)
KeptCopyMarked(k) ==
  IF qrCopy[k] = NoImage THEN NoImage ELSE [qrCopy[k] EXCEPT !.sha = refresh.list[k]]

(* The previous copy is kept; the next refresh retries. *)
KeptCopy(k) == qrCopy[k]

NoAnswer(k) ==
  /\ k \in refresh.download /\ qrFaults < MaxQrFaults
  /\ qrCopy' = [qrCopy EXCEPT ![k] = KeptCopy(k)]
  /\ refresh' = [refresh EXCEPT !.download = @ \ {k}]
  /\ qrFaults' = qrFaults + 1
  /\ UNCHANGED <<stored, active, put, asked, changes, offered, replaced>>

(* Mutation of Free: inFlight keeps the finished run. *)
FreeNever == refresh

Free == Idle

EndRefresh ==
  /\ refresh.at = "downloading" /\ refresh.download = {}
  /\ refresh' = Free
  /\ UNCHANGED <<stored, active, put, asked, qrCopy, changes, qrFaults, offered, replaced>>

QrNext ==
  \/ \E k \in QrKeys :
       \/ \E image \in Images : BeginPut(k, image)
       \/ RemoveQr(k) \/ SwitchBarber(k)
       \/ GotImage(k) \/ NoAnswer(k)
  \/ FinishPut \/ PutRefused
  \/ StartRefresh \/ GotList \/ NoList \/ EndRefresh

QrSpec == QrInit /\ [][QrNext]_qrVars

-----------------------------------------------------------------------------

(* "an unreachable server must never empty the cache" (payment-qr-plan.ts:7): a copy is
   dropped only if its QR was missing from the server at some time during the run.  A
   copy that changes carries the hash of its own image, unless the image was replaced
   between the list and the download: a failed download never leaves an old image under
   a new hash, which no later refresh would fetch again. *)
HashIsTheImages ==
  [][\A k \in QrKeys : qrCopy'[k] # qrCopy[k] =>
       IF qrCopy'[k] = NoImage THEN ~offered[k]
       ELSE qrCopy'[k].sha = qrCopy'[k].image \/ replaced[k]]_qrVars

(* Once the owner leaves the QRs alone, a phone that keeps refreshing ends up with
   the hashes the server lists. *)
CopiesCatchUp ==
  <>[](\A k \in QrKeys : Listed[k] = IF qrCopy[k] = NoImage THEN NoImage ELSE qrCopy[k].sha)
=============================================================================
