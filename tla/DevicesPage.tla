---------------------------- MODULE DevicesPage ----------------------------
(***************************************************************************)
(* The owner's list of approved phones (app/devices/page.tsx): loaded, a   *)
(* phone revoked with two taps, the list loaded again.  Answers come in    *)
(* any order; the server's side of a revocation is ShopServer's.           *)
(***************************************************************************)
EXTENDS Naturals, FiniteSets

CONSTANTS
  Phones,
  NoPhone,
  MaxDeviceCalls  \* bound: requests out at once

VARIABLES
  approved,       \* the server: phones with an approval that is not revoked
  view,           \* unlocked: "unknown" until the first load, then "locked" or "open"
  shownApproved,  \* devices without revokedAt
  confirmRevoke,  \* the phone tapped once
  busyDevices,    \* busy
  deviceCalls,    \* requests out, and what the server has answered to them
  deviceError,    \* error
  mixedUp         \* history: a load and a revocation were out at once, and no load went out alone since

devicesVars == <<approved, view, shownApproved, confirmRevoke, busyDevices, deviceCalls,
                 deviceError, mixedUp>>

ASSUME DevicesAssumption == NoPhone \notin Phones /\ MaxDeviceCalls \in Nat \ {0}

(* at: not yet at the server, answered, or refused there for want of the cookie. *)
DeviceCall == [kind : {"load", "unlock", "revoke"}, phone : Phones \cup {NoPhone},
               at : {"sent", "done", "refused"}, saw : SUBSET Phones]
Asked(kind, p) == [kind |-> kind, phone |-> p, at |-> "sent", saw |-> {}]

DevicesTypeOK ==
  /\ approved \subseteq Phones /\ shownApproved \subseteq Phones
  /\ view \in {"unknown", "locked", "open"}
  /\ confirmRevoke \in Phones \cup {NoPhone}
  /\ deviceCalls \subseteq DeviceCall /\ Cardinality(deviceCalls) <= MaxDeviceCalls
  /\ {busyDevices, deviceError, mixedUp} \subseteq BOOLEAN

DevicesInit ==
  /\ approved \in SUBSET Phones
  /\ view = "unknown" /\ shownApproved = {} /\ confirmRevoke = NoPhone
  /\ busyDevices = TRUE
  /\ deviceCalls = {Asked("load", NoPhone)}
  /\ deviceError = FALSE /\ mixedUp = FALSE

Overlap(calls) == \E c, d \in calls : c.kind = "load" /\ d.kind = "revoke"

Send(call, rest) ==
  /\ call \notin rest /\ Cardinality(rest) < MaxDeviceCalls
  /\ deviceCalls' = rest \cup {call}
  /\ mixedUp' = IF call.kind = "load" /\ rest = {} THEN FALSE ELSE mixedUp \/ Overlap(rest \cup {call})
  /\ busyDevices' = TRUE /\ deviceError' = FALSE

(* The reload button is never disabled. *)
ReloadDevices ==
  /\ view = "open"
  /\ Send(Asked("load", NoPhone), deviceCalls)
  /\ UNCHANGED <<approved, view, shownApproved, confirmRevoke>>

UnlockDevices ==
  /\ view = "locked" /\ ~busyDevices
  /\ Send(Asked("unlock", NoPhone), deviceCalls)
  /\ UNCHANGED <<approved, view, shownApproved, confirmRevoke>>

(* The first tap asks, the second on the same phone revokes. *)
TapRevoke(p) ==
  /\ view = "open" /\ ~busyDevices /\ p \in shownApproved
  /\ IF confirmRevoke # p
     THEN confirmRevoke' = p /\ UNCHANGED <<deviceCalls, busyDevices, deviceError, mixedUp>>
     ELSE confirmRevoke' = NoPhone /\ Send(Asked("revoke", p), deviceCalls)
  /\ UNCHANGED <<approved, view, shownApproved>>

(* The server's turn.  The owner's cookie may have ended. *)
ServerTurn(c) ==
  /\ c.at = "sent"
  /\ \E at \in {"done", "refused"} :
       /\ deviceCalls' = (deviceCalls \ {c}) \cup {[c EXCEPT !.at = at, !.saw = IF c.kind = "load" THEN approved ELSE {}]}
       /\ approved' = IF c.kind = "revoke" /\ at = "done" THEN approved \ {c.phone} ELSE approved
  /\ UNCHANGED <<view, shownApproved, confirmRevoke, busyDevices, deviceError, mixedUp>>

LoadArrives(c) ==
  /\ c.kind = "load" /\ c.at # "sent"
  /\ deviceCalls' = deviceCalls \ {c}
  /\ view' = IF c.at = "done" THEN "open" ELSE "locked"
  /\ shownApproved' = IF c.at = "done" THEN c.saw ELSE shownApproved
  /\ busyDevices' = FALSE
  /\ UNCHANGED <<approved, confirmRevoke, deviceError, mixedUp>>

(* Mutation of Loads: the page is not loaded again. *)
LoadsNot(c) ==
  /\ deviceCalls' = deviceCalls \ {c}
  /\ busyDevices' = FALSE
  /\ UNCHANGED <<deviceError, mixedUp>>

(* load() follows a PIN accepted and a phone revoked; the page stays busy. *)
Loads(c) == Send(Asked("load", NoPhone), deviceCalls \ {c})

CallArrives(c) ==
  /\ c.kind \in {"unlock", "revoke"} /\ c.at # "sent"
  /\ IF c.at = "done" THEN Loads(c) /\ UNCHANGED view
     ELSE /\ deviceCalls' = deviceCalls \ {c}
          /\ busyDevices' = FALSE /\ deviceError' = TRUE
          /\ view' = "locked"
          /\ UNCHANGED mixedUp
  /\ UNCHANGED <<approved, shownApproved, confirmRevoke>>

(* No answer, or one that is no JSON: the page keeps its list and shows the error. *)
CallFails(c) ==
  /\ deviceCalls' = deviceCalls \ {c}
  /\ busyDevices' = FALSE
  /\ deviceError' = TRUE
  /\ view' = IF view = "unknown" THEN "locked" ELSE view
  /\ UNCHANGED <<approved, shownApproved, confirmRevoke, mixedUp>>

(* On the phone itself, with the approval PIN. *)
PhoneApproved(p) ==
  /\ p \notin approved
  /\ approved' = approved \cup {p}
  /\ UNCHANGED <<view, shownApproved, confirmRevoke, busyDevices, deviceCalls, deviceError, mixedUp>>

DevicesNext ==
  \/ ReloadDevices \/ UnlockDevices
  \/ \E p \in Phones : TapRevoke(p) \/ PhoneApproved(p)
  \/ \E c \in deviceCalls : ServerTurn(c) \/ LoadArrives(c) \/ CallArrives(c) \/ CallFails(c)

DevicesSpec == DevicesInit /\ [][DevicesNext]_devicesVars

(* "A lost or replaced phone is revoked here; its secret stops working at once"
   (app/devices/page.tsx:8): a page at rest that shows its list and no error lists as
   approved only phones that are, unless a load crossed a revocation and the list was
   not loaded by itself since: one reload puts it right.  (A revocation whose answer was
   lost is taken to have reached the server by then or never.) *)
DevicesAtRest ==
  deviceCalls = {} /\ view = "open" /\ ~deviceError /\ ~mixedUp => shownApproved \subseteq approved
=============================================================================
