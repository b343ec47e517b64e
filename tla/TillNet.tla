------------------------------ MODULE TillNet ------------------------------
(***************************************************************************)
(* What the phones and the shop PC share: the names both sides use and the *)
(* HTTP requests between them.  A request lives in a slot from the fetch   *)
(* that sends it to the moment its answer is consumed or dropped; the slot *)
(* also holds the server handler's local variables, so a handler that is   *)
(* waiting for its database interleaves with every other request.  Slots   *)
(* are served in any order, so requests are reordered freely.  A request   *)
(* names the assignment and the sales in its body: what the phone says of  *)
(* them (minted, rung) never changes, so it is not copied into the slot.   *)
(***************************************************************************)
EXTENDS Naturals, FiniteSets

CONSTANTS
  Phones,       \* device keys (db.ts getOrCreateDeviceKey)
  Tabs,         \* open pages; each has its own JavaScript state
  PhoneOf,      \* the phone a tab is open on
  PosTabs,      \* the tabs showing /pos; the others show /shift-log
  Barbers,
  Assignments,  \* the assignment ids generateUUID() will return
  Sales,        \* the sale ids generateUUID() will return
  Slots,        \* bound: requests outstanding at once, abandoned ones included
  Approved,     \* phones approved before the behaviour starts
  MaxSecret,    \* bound: approvals per phone
  MaxFaults,    \* bound: timeouts, losses and page reloads
  None

VARIABLES
  minted,       \* assignment -> the phone and barber it was generated for
  rung,         \* sale -> what the POS stamped on it, never rewritten
  req,          \* slot -> the request in it, or None
  faults        \* how many faults have happened

Mint == [phone : Phones, barber : Barbers]
Sale == [phone : Phones, barber : Barbers, asg : Assignments \cup {None}]

(* The asynchronous functions a tab can have running. *)
Jobs == Tabs \X {"run", "bind", "check", "approve"}

Secrets == 0 .. MaxSecret          \* 0: no secret yet

Request ==
  [kind   : {"bind", "sync", "check", "approve"},
   phone  : Phones,                \* X-Ruzzco-Device
   secret : Secrets,               \* Authorization: Bearer; of approve, the new one
   owner  : Jobs \cup {None},      \* who awaits the answer; None once it timed out
   asg    : Assignments \cup {None},
   sales  : SUBSET Sales,          \* a sync batch
   stage  : {"sent", "creating", "inactive", "loaded", "recording", "answered"},
   found  : SUBSET Assignments,    \* assignments the sync handler resolved
   ok     : SUBSET Sales,          \* syncedIds so far
   bad    : SUBSET Sales,          \* rejected so far
   answer : {"none", "ok", "refused", "notApproved"}]

ASSUME NetAssumption ==
  /\ PhoneOf \in [Tabs -> Phones]
  /\ PosTabs \subseteq Tabs
  /\ Approved \subseteq Phones
  /\ MaxSecret \in Nat
  /\ Approved # {} => MaxSecret > 0
  /\ MaxFaults \in Nat
  /\ None \notin Mint \cup Sale \cup Request
  /\ None \notin Phones \cup Tabs \cup Barbers \cup Assignments \cup Sales

NetTypeOK ==
  /\ minted \in [Assignments -> Mint \cup {None}]
  /\ rung \in [Sales -> Sale \cup {None}]
  /\ req \in [Slots -> Request \cup {None}]
  /\ faults \in Nat

NetInit ==
  /\ minted = [a \in Assignments |-> None]
  /\ req = [s \in Slots |-> None]
  /\ faults = 0

NewRequest(j, kind, secret) ==
  [kind |-> kind, phone |-> PhoneOf[j[1]], secret |-> secret, owner |-> j,
   asg |-> None, sales |-> {}, stage |-> "sent",
   found |-> {}, ok |-> {}, bad |-> {}, answer |-> "none"]

Send(r) == \E s \in Slots : req[s] = None /\ req' = [req EXCEPT ![s] = r]

Answered(s, j, answer) ==
  /\ req[s] # None
  /\ req[s].owner = j
  /\ req[s].stage = "answered"
  /\ req[s].answer = answer

Consume(s) == req' = [req EXCEPT ![s] = None]

Awaited(j) == \E s \in Slots : req[s] # None /\ req[s].owner = j

(* fetchWithTimeout aborts: the answer will not be looked at, but a request
   already on its way is still handled by the server. *)
Abandon(js) ==
  req' = [s \in Slots |->
            IF req[s] = None \/ req[s].owner \notin js THEN req[s]
            ELSE IF req[s].stage = "answered" THEN None
            ELSE [req[s] EXCEPT !.owner = None]]

(* A job learns that its request failed: at once when the request is gone
   (connection lost, HTTP 500), else by its timeout. *)
GiveUp(j) ==
  /\ Abandon({j})
  /\ IF Awaited(j) THEN faults < MaxFaults /\ faults' = faults + 1
                   ELSE UNCHANGED faults

(* The server's handler for slot s moves on to r; nobody reads the answer of an
   abandoned request. *)
Handle(s, r) ==
  req' = [req EXCEPT ![s] = IF r.stage = "answered" /\ r.owner = None THEN None ELSE r]

Answer(s, answer) ==
  Handle(s, [req[s] EXCEPT !.stage = "answered", !.answer = answer])

(* The request never arrives, its handler dies (crash, HTTP 500) between two of
   its steps, or its answer is lost. *)
Lose(s) ==
  /\ req[s] # None
  /\ faults < MaxFaults
  /\ faults' = faults + 1
  /\ Consume(s)
=============================================================================
