------------------------------ MODULE SaleSync ------------------------------
(***************************************************************************)
(* Phones and shop PC together: the offline-first path of a sale from the  *)
(* POS page to the shop's books.                                           *)
(***************************************************************************)
EXTENDS Till, ShopServer

vars == <<req, faults, tillVars, serverVars>>

Init == NetInit /\ TillInit /\ ServerInit

Phone == TillNext /\ UNCHANGED serverVars

Server == ServerNext /\ UNCHANGED <<tillVars, faults>>

Network == (\E s \in Slots : Lose(s)) /\ UNCHANGED <<tillVars, serverVars>>

Next == Phone \/ Server \/ Network

Spec == Init /\ [][Next]_vars

TypeOK == NetTypeOK /\ TillTypeOK /\ ServerTypeOK

-----------------------------------------------------------------------------
(* A phone marks a sale synced (and never sends it again) only if the shop's
   books hold it, although answers are lost, requests time out and overlap. *)
NoSaleLost == \A x \in Sales : status[x] = "synced" => sale[x] # None

(* The books credit a sale to the barber the POS showed when it was rung up
   (sync/route.ts resolves the barber from the assignment, not from the
   phone's current binding), whatever was bound, revoked or re-bound since. *)
Attribution ==
  \A x \in Sales : sale[x] # None =>
    /\ rung[x] # None
    /\ sale[x].barber = rung[x].barber
    /\ sale[x].phone = rung[x].phone
    /\ sale[x].asg # None => row[sale[x].asg] # None

(* A phone has at most one active assignment, however binds overlap
   (bind/route.ts revokes and creates in one transaction). *)
OneActiveBinding ==
  \A a, b \in Assignments :
    (row[a] # None /\ row[b] # None /\ row[a].active /\ row[b].active
       /\ row[a].phone = row[b].phone) => a = b

(* The server's record of an assignment never disappears, never changes phone
   or barber, and once revoked is never reactivated. *)
RevokedIsFinal ==
  [][\A a \in Assignments : row[a] # None =>
       /\ row'[a] # None
       /\ row'[a].phone = row[a].phone
       /\ row'[a].barber = row[a].barber
       /\ row'[a].active => row[a].active]_vars

ActiveOf(p) == {a \in Assignments : row[a] # None /\ row[a].phone = p /\ row[a].active}

RebindsByBind ==
  \A p \in Phones : ActiveOf(p)' # ActiveOf(p) =>
    \E a \in Assignments : /\ ActiveOf(p)' = {a}
                           /\ row[a] = None
                           /\ row'[a].by = "bind"

(* "sync never creates or disturbs the device's active binding"
   (sync/route.ts:115-116): a phone's active binding changes only to one that a
   bind has just created, and never because of another phone. *)
OnlyBindBinds == [][RebindsByBind]_vars

(* "its sales must not reach the server before its /bind does" (sync.ts): while
   an assignment is the phone's pending bind, no sync has recorded it as
   revoked, so the bind is never refused because of the phone's own sales. *)
HeldUntilBound ==
  \A p \in Phones : pending[p] # None /\ row[pending[p]] # None
                      => row[pending[p]].by = "bind"

-----------------------------------------------------------------------------
(* The inductive invariant behind the properties above, in two parts: who may
   name what, and what the answers under way say about the books. *)

MintedFor(a, p) == a # None => minted[a] # None /\ minted[a].phone = p

RungOn(x, p) == rung[x] # None /\ rung[x].phone = p

(* Every assignment a phone or tab works under was generated on that phone, and
   so was every sale a run is about to send. *)
TabsFit ==
  /\ \A p \in Phones : MintedFor(binding[p], p) /\ MintedFor(pending[p], p)
  /\ \A t \in Tabs : MintedFor(shown[t], PhoneOf[t])
  /\ \A j \in Jobs :
       /\ MintedFor(job[j].asg, PhoneOfJob(j))
       /\ job[j].pc = "saving" => job[j].asg # None
       /\ \A x \in job[j].todo : RungOn(x, PhoneOfJob(j))

(* So are the assignment a bind request names and the sales of a batch. *)
RequestsFit ==
  \A s \in Slots : req[s] # None =>
    /\ req[s].kind = "bind" => req[s].asg # None /\ MintedFor(req[s].asg, req[s].phone)
    /\ \A x \in req[s].sales : RungOn(x, req[s].phone)

(* A sale was rung up for its assignment's barber, on its assignment's phone. *)
SalesFit ==
  \A x \in Sales : rung[x] # None /\ rung[x].asg # None =>
    minted[rung[x].asg] = [phone |-> rung[x].phone, barber |-> rung[x].barber]

(* The server's row of an assignment says what the phone generated. *)
RowsFit ==
  \A a \in Assignments : row[a] # None =>
    minted[a] = [phone |-> row[a].phone, barber |-> row[a].barber]

NamesFit == TabsFit /\ RequestsFit /\ SalesFit /\ RowsFit

(* No answer, not even one that nobody awaits any more, lists a sale as synced
   that the books do not hold. *)
AnswersTrue ==
  \A s \in Slots : req[s] # None =>
    /\ \A x \in req[s].ok : sale[x] # None
    /\ \A a \in req[s].found : row[a] # None
    /\ req[s].ok \cup req[s].bad \subseteq req[s].sales

QueueTrue == \A x \in Sales : status[x] # "unrung" => rung[x] # None

IInv == TypeOK /\ NamesFit /\ AnswersTrue /\ QueueTrue
        /\ NoSaleLost /\ Attribution /\ OneActiveBinding

-----------------------------------------------------------------------------
(* "Never inserted" (sync/route.ts on rejected sales): a sale shown to the user
   as refused is not in the books. *)
RefusedNotBooked == \A x \in Sales : status[x] = "rejected" => sale[x] = None

(* "make the device's current assignment active" (sync.ts, step A): once the
   server accepted the phone's bind and no other bind is on its way, the
   binding the phone works under is the active one. *)
Settled(p) ==
  /\ pending[p] = None
  /\ \A s \in Slots : req[s] = None \/ req[s].phone # p
  /\ \A j \in Jobs : PhoneOfJob(j) = p => job[j].pc = "idle"

BoundMeansActive ==
  \A p \in Phones : Settled(p) /\ binding[p] # None
                      => row[binding[p]] # None /\ row[binding[p]].active

(* "Whatever is still pending is the current assignment, and its sales must not
   reach the server before its /bind does" (sync.ts:389-390), asked of the
   assignment in Dexie, which is the one the phone works under. *)
CurrentHeldUntilBound ==
  \A p \in Phones : binding[p] # None /\ row[binding[p]] # None
                      => row[binding[p]].by = "bind"

Ledger ==
  INSTANCE SaleLedger WITH
    rungFor <- [x \in Sales |-> IF rung[x] = None THEN None ELSE rung[x].barber],
    bookedFor <- [x \in Sales |-> IF sale[x] = None THEN None ELSE sale[x].barber],
    settled <- {x \in Sales : status[x] = "synced"}

(* Phones and shop PC implement the ledger: a sale is booked at most once, for
   the barber it was rung up for, and settled only after that. *)
KeepsLedger == Ledger!Spec

-----------------------------------------------------------------------------
(* Fairness.  What a started function or handler does next is certain: its
   awaits settle, a request that is gone is noticed, the database answers.  A
   run is started again and again: every minute while the page is visible and
   something waits (AUTO_RETRY_MS).  Nothing is assumed of users or owner. *)
PhoneStep(A) == A /\ UNCHANGED serverVars

Fairness ==
  /\ \A s \in Slots : WF_vars(Handler(s) /\ UNCHANGED <<tillVars, faults>>)
  /\ \A j \in Jobs : WF_vars(PhoneStep(DropBinding(j)))
  /\ \A j \in Jobs, s \in Slots : WF_vars(PhoneStep(JobStep(j, s)))
  /\ \A t \in Tabs :
       /\ \A s \in Slots : WF_vars(PhoneStep(TabStep(t, s)))
       /\ WF_vars(PhoneStep(TabFails(t) /\ UNCHANGED faults))
       /\ WF_vars(PhoneStep(SavePending(t)))
       /\ SF_vars(PhoneStep(StartRun(t)))
       /\ SF_vars(PhoneStep(Collect(t)))

FairSpec == Spec /\ Fairness

(* The server accepts what the phone signs with the secret it holds now. *)
Accepted(p) ==
  /\ secret[p] # 0
  /\ device[p].secret = secret[p]
  /\ ~ device[p].revoked

(* A queued sale is booked or shown to the user as refused, unless the owner
   has revoked the phone: no held bind, lost answer or timeout parks it. *)
QueuedSaleSettles ==
  \A x \in Sales : status[x] = "queued" ~>
     \/ status[x] \in {"synced", "rejected"}
     \/ rung[x] # None /\ ~ Accepted(rung[x].phone)
=============================================================================
