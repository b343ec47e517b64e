-------------------------------- MODULE Till --------------------------------
(***************************************************************************)
(* The phone: the sync lifecycle of lib/sync.ts and the binding and sale   *)
(* handlers of the POS page that drive it.  What a phone keeps in Dexie    *)
(* and localStorage (binding, pending bind, secret, sales) is shared by    *)
(* its tabs; jobs and the binding a POS tab displays belong to one tab.    *)
(* Each action is the code between two awaits of one asynchronous          *)
(* function.                                                               *)
(***************************************************************************)
EXTENDS TillNet

CONSTANTS
  Legacy,       \* sales queued before assignment ids existed: sale -> sale record
  ChunkSize     \* SYNC_CHUNK_SIZE

ASSUME TillAssumption ==
  /\ DOMAIN Legacy \subseteq Sales
  /\ \A x \in DOMAIN Legacy : Legacy[x] \in Sale /\ Legacy[x].asg = None
  /\ ChunkSize \in Nat \ {0}

VARIABLES
  status,       \* sale -> its synced / syncError columns in Dexie
  binding,      \* phone -> Dexie deviceBindings
  pending,      \* phone -> localStorage ruzzco_pending_bind
  secret,       \* phone -> localStorage ruzzco_device_secret
  refused,      \* phone -> localStorage ruzzco_device_not_approved
  shown,        \* tab -> the binding in the POS page's React state
  job           \* job -> its program counter and locals

storage == <<minted, rung, status, binding, pending, secret, refused>>
tillVars == <<storage, shown, job>>

Job ==
  [pc : {"idle", "saving", "binding", "dropping", "collect", "sending",
         "checking", "approving"},
   asg : Assignments \cup {None},  \* the assignment being registered or checked
   todo : SUBSET Sales,            \* of a run: sales still to send
   secret : Secrets,               \* of a run: read once, used for every chunk
   cleared : BOOLEAN]              \* of a run: outcome.bind.bindingCleared

Idle == [pc |-> "idle", asg |-> None, todo |-> {}, secret |-> 0, cleared |-> FALSE]

TillTypeOK ==
  /\ status \in [Sales -> {"unrung", "queued", "rejected", "synced"}]
  /\ binding \in [Phones -> Assignments \cup {None}]
  /\ pending \in [Phones -> Assignments \cup {None}]
  /\ secret \in [Phones -> Secrets]
  /\ refused \in [Phones -> BOOLEAN]
  /\ shown \in [Tabs -> Assignments \cup {None}]
  /\ job \in [Jobs -> Job]

TillInit ==
  /\ rung = [x \in Sales |-> IF x \in DOMAIN Legacy THEN Legacy[x] ELSE None]
  /\ status = [x \in Sales |-> IF x \in DOMAIN Legacy THEN "queued" ELSE "unrung"]
  /\ binding = [p \in Phones |-> None]
  /\ pending = [p \in Phones |-> None]
  /\ secret = [p \in Phones |-> IF p \in Approved THEN 1 ELSE 0]
  /\ refused = [p \in Phones |-> FALSE]
  /\ shown = [t \in Tabs |-> None]
  /\ job = [j \in Jobs |-> Idle]

PhoneOfJob(j) == PhoneOf[j[1]]
Set(j, r) == job' = [job EXCEPT ![j] = r]
MarkAccepted(p) == refused' = [refused EXCEPT ![p] = FALSE]
MarkNotApproved(p) == refused' = [refused EXCEPT ![p] = TRUE]

-----------------------------------------------------------------------------
(* Approval: the PIN is typed on the phone and the answer carries a secret. *)

StartApproval(t) ==
  LET j == <<t, "approve">> IN
  /\ job[j].pc = "idle"
  /\ Send(NewRequest(j, "approve", 0))
  /\ Set(j, [Idle EXCEPT !.pc = "approving"])
  /\ UNCHANGED <<storage, shown, faults>>

ApprovalAnswered(t, s) ==
  LET j == <<t, "approve">> IN
  /\ job[j].pc = "approving"
  /\ Answered(s, j, "ok")
  /\ secret' = [secret EXCEPT ![PhoneOf[t]] = req[s].secret]
  /\ MarkAccepted(PhoneOf[t])
  /\ Consume(s)
  /\ Set(j, Idle)
  /\ UNCHANGED <<minted, rung, status, binding, pending, shown, faults>>

ApprovalRefused(t, s) ==
  LET j == <<t, "approve">> IN
  /\ job[j].pc = "approving"
  /\ Answered(s, j, "refused")
  /\ Consume(s)
  /\ Set(j, Idle)
  /\ UNCHANGED <<storage, shown, faults>>

ApprovalFails(t) ==
  LET j == <<t, "approve">> IN
  /\ job[j].pc = "approving"
  /\ GiveUp(j)
  /\ Set(j, Idle)
  /\ UNCHANGED <<storage, shown>>

-----------------------------------------------------------------------------
(* Binding: handleBindDevice -> createLocalAssignment, in two awaits. *)

ChooseBarber(t, b) ==
  LET j == <<t, "bind">> IN
  /\ job[j].pc = "idle"
  /\ \E a \in Assignments :
       /\ minted[a] = None
       /\ minted' = [minted EXCEPT ![a] = [phone |-> PhoneOf[t], barber |-> b]]
       /\ binding' = [binding EXCEPT ![PhoneOf[t]] = a]
       /\ Set(j, [Idle EXCEPT !.pc = "saving", !.asg = a])
  /\ UNCHANGED <<rung, status, pending, secret, refused, shown, req, faults>>

RegisterRequest(j, a) ==
  [NewRequest(j, "bind", secret[PhoneOfJob(j)]) EXCEPT !.asg = a]

(* writePendingBind, setBinding and, when online with a secret, the first half
   of registerPendingAssignment.  This call does not go through syncNow. *)
SavePending(t) ==
  LET j == <<t, "bind">>
      p == PhoneOf[t]
      a == job[j].asg IN
  /\ job[j].pc = "saving"
  /\ pending' = [pending EXCEPT ![p] = a]
  /\ shown' = [shown EXCEPT ![t] = a]
  /\ \/ /\ secret[p] # 0
        /\ Send(RegisterRequest(j, a))
        /\ Set(j, [job[j] EXCEPT !.pc = "binding"])
     \/ /\ Set(j, Idle)
        /\ UNCHANGED req
  /\ UNCHANGED <<minted, rung, status, binding, secret, refused, faults>>

(* Where registerPendingAssignment returns to. *)
AfterBind(j) ==
  IF j[2] = "run" THEN [job[j] EXCEPT !.pc = "collect", !.asg = None] ELSE Idle

ClearPendingIfSame(p, a) ==
  pending' = [pending EXCEPT ![p] = IF @ = a THEN None ELSE @]

BindAccepted(j, s) ==
  /\ job[j].pc = "binding"
  /\ Answered(s, j, "ok")
  /\ MarkAccepted(PhoneOfJob(j))
  /\ ClearPendingIfSame(PhoneOfJob(j), job[j].asg)
  /\ Consume(s)
  /\ Set(j, AfterBind(j))
  /\ UNCHANGED <<minted, rung, status, binding, secret, shown, faults>>

(* 401 DEVICE_NOT_APPROVED: everything is kept, a run ends as "waiting". *)
BindNotApproved(j, s) ==
  /\ job[j].pc = "binding"
  /\ Answered(s, j, "notApproved")
  /\ MarkNotApproved(PhoneOfJob(j))
  /\ Consume(s)
  /\ Set(j, Idle)
  /\ UNCHANGED <<minted, rung, status, binding, pending, secret, shown, faults>>

(* Any other 4xx: clearLocalBindingIfSame reads the binding here and deletes
   it, whatever it is by then, in DropBinding. *)
BindRefused(j, s) ==
  /\ job[j].pc = "binding"
  /\ Answered(s, j, "refused")
  /\ ClearPendingIfSame(PhoneOfJob(j), job[j].asg)
  /\ Consume(s)
  /\ Set(j, IF binding[PhoneOfJob(j)] = job[j].asg
            THEN [job[j] EXCEPT !.pc = "dropping"] ELSE AfterBind(j))
  /\ UNCHANGED <<minted, rung, status, binding, secret, refused, shown, faults>>

DropBinding(j) ==
  /\ job[j].pc = "dropping"
  /\ binding' = [binding EXCEPT ![PhoneOfJob(j)] = None]
  /\ IF j[2] = "run"
     THEN Set(j, [AfterBind(j) EXCEPT !.cleared = TRUE]) /\ UNCHANGED shown
     ELSE Set(j, Idle) /\ shown' = [shown EXCEPT ![j[1]] = None]
  /\ UNCHANGED <<minted, rung, status, pending, secret, refused, req, faults>>

BindFails(j) ==
  /\ job[j].pc = "binding"
  /\ GiveUp(j)
  /\ Set(j, AfterBind(j))
  /\ UNCHANGED <<storage, shown>>

-----------------------------------------------------------------------------
(* Sales. *)

(* createSale: the stamp comes from the tab's React state, not from Dexie. *)
Ring(t, x) ==
  LET a == shown[t] IN
  /\ a # None
  /\ rung[x] = None
  /\ rung' = [rung EXCEPT ![x] = [phone |-> PhoneOf[t], barber |-> minted[a].barber,
                                  asg |-> a]]
  /\ status' = [status EXCEPT ![x] = "queued"]
  /\ UNCHANGED <<minted, binding, pending, secret, refused, shown, job, req, faults>>

(* Mutation of ClearRejection: a sale already synced is queued again. *)
ClearAnything(x) ==
  /\ status[x] \in {"rejected", "synced"}
  /\ status' = [status EXCEPT ![x] = "queued"]
  /\ UNCHANGED <<minted, rung, binding, pending, secret, refused, shown, job, req, faults>>

(* retryRejected's first step; the syncNow it awaits next is a StartRun. *)
ClearRejection(x) ==
  /\ status[x] = "rejected"
  /\ status' = [status EXCEPT ![x] = "queued"]
  /\ UNCHANGED <<minted, rung, binding, pending, secret, refused, shown, job, req, faults>>

-----------------------------------------------------------------------------
(* runSync: register, collect, send in chunks.  One run per tab (syncNow). *)

(* Mutation of StartRun: step A, registering the pending bind, is skipped. *)
StartRunUnbound(t) ==
  LET j == <<t, "run">> IN
  /\ job[j].pc = "idle"
  /\ secret[PhoneOf[t]] # 0
  /\ Set(j, [Idle EXCEPT !.pc = "collect"])
  /\ UNCHANGED <<storage, shown, req, faults>>

(* With no secret a run changes nothing, so it is not started. *)
StartRun(t) ==
  LET j == <<t, "run">>
      a == pending[PhoneOf[t]] IN
  /\ job[j].pc = "idle"
  /\ secret[PhoneOf[t]] # 0
  /\ IF a = None
     THEN Set(j, [Idle EXCEPT !.pc = "collect"]) /\ UNCHANGED req
     ELSE Set(j, [Idle EXCEPT !.pc = "binding", !.asg = a]) /\ Send(RegisterRequest(j, a))
  /\ UNCHANGED <<storage, shown, faults>>

(* Mutation of ToSend: nothing is held back. *)
ToSendUnheld(p) == {x \in Sales : status[x] = "queued" /\ rung[x].phone = p}

(* The queue of a phone, without the sales held for a bind not yet accepted. *)
ToSend(p) ==
  {x \in Sales : /\ status[x] = "queued"
                 /\ rung[x].phone = p
                 /\ ~ (pending[p] # None /\ rung[x].asg = pending[p])}

Chunks(todo) ==
  {c \in SUBSET todo : Cardinality(c) = IF Cardinality(todo) < ChunkSize
                                        THEN Cardinality(todo) ELSE ChunkSize}

SyncRequest(j, c, sec) == [NewRequest(j, "sync", sec) EXCEPT !.sales = c]

EndRun(t) ==
  /\ Set(<<t, "run">>, Idle)
  /\ shown' = [shown EXCEPT ![t] = IF job[<<t, "run">>].cleared THEN None ELSE @]

(* The pending bind is re-read and the queue's snapshot opened without an await
   in between; IndexedDB orders the snapshot before any later write. *)
Collect(t) ==
  LET j == <<t, "run">>
      p == PhoneOf[t]
      todo == ToSend(p) IN
  /\ job[j].pc = "collect"
  /\ \/ todo = {} /\ EndRun(t) /\ UNCHANGED req
     \/ /\ todo # {}
        /\ \E c \in Chunks(todo) : Send(SyncRequest(j, c, secret[p]))
        /\ Set(j, [job[j] EXCEPT !.pc = "sending", !.todo = todo, !.secret = secret[p]])
        /\ UNCHANGED shown
  /\ UNCHANGED <<storage, faults>>

(* Mutation of Applied: every queued sale, not just the batch, is marked. *)
AppliedToQueue(r) ==
  [x \in Sales |-> IF x \in r.bad THEN "rejected"
                   ELSE IF status[x] = "queued" /\ rung[x].phone = r.phone THEN "synced"
                   ELSE status[x]]

(* The per-sale results, applied in one Dexie transaction. *)
Applied(r) ==
  [x \in Sales |-> IF x \in r.ok THEN "synced"
                   ELSE IF x \in r.bad /\ status[x] # "synced" THEN "rejected"
                   ELSE status[x]]

ChunkAnswered(t, s) ==
  LET j == <<t, "run">>
      todo == job[j].todo \ req[s].sales IN
  /\ job[j].pc = "sending"
  /\ Answered(s, j, "ok")
  /\ MarkAccepted(PhoneOf[t])
  /\ status' = Applied(req[s])
  /\ \/ todo = {} /\ EndRun(t) /\ Consume(s)
     \/ /\ todo # {}
        /\ \E c \in Chunks(todo) :
             req' = [req EXCEPT ![s] = SyncRequest(j, c, job[j].secret)]
        /\ Set(j, [job[j] EXCEPT !.todo = todo])
        /\ UNCHANGED shown
  /\ UNCHANGED <<minted, rung, binding, pending, secret, faults>>

ChunkNotApproved(t, s) ==
  /\ job[<<t, "run">>].pc = "sending"
  /\ Answered(s, <<t, "run">>, "notApproved")
  /\ MarkNotApproved(PhoneOf[t])
  /\ Consume(s)
  /\ EndRun(t)
  /\ UNCHANGED <<minted, rung, status, binding, pending, secret, faults>>

ChunkFails(t) ==
  /\ job[<<t, "run">>].pc = "sending"
  /\ GiveUp(<<t, "run">>)
  /\ EndRun(t)
  /\ UNCHANGED storage

-----------------------------------------------------------------------------
(* verifyCurrentAssignment: the binding read before the request decides. *)

StartCheck(t) ==
  LET j == <<t, "check">>
      a == binding[PhoneOf[t]] IN
  /\ job[j].pc = "idle"
  /\ a # None
  /\ pending[PhoneOf[t]] # a
  /\ Send(NewRequest(j, "check", 0))
  /\ Set(j, [Idle EXCEPT !.pc = "checking", !.asg = a])
  /\ UNCHANGED <<storage, shown, faults>>

CheckAnswered(t, s) ==
  LET j == <<t, "check">>
      a == job[j].asg IN
  /\ job[j].pc = "checking"
  /\ Answered(s, j, "ok")
  /\ Consume(s)
  /\ Set(j, IF req[s].asg # a /\ binding[PhoneOf[t]] = a
            THEN [job[j] EXCEPT !.pc = "dropping"] ELSE Idle)
  /\ UNCHANGED <<storage, shown, faults>>

CheckFails(t) ==
  /\ job[<<t, "check">>].pc = "checking"
  /\ GiveUp(<<t, "check">>)
  /\ Set(<<t, "check">>, Idle)
  /\ UNCHANGED <<storage, shown>>

-----------------------------------------------------------------------------
(* The page is closed or reloaded: its JavaScript state is gone and its
   requests are abandoned; /pos then reads its binding from Dexie. *)
Reload(t) ==
  LET mine == {t} \X {"run", "bind", "check", "approve"} IN
  /\ faults < MaxFaults
  /\ faults' = faults + 1
  /\ job' = [j \in Jobs |-> IF j \in mine THEN Idle ELSE job[j]]
  /\ Abandon(mine)
  /\ shown' = [shown EXCEPT ![t] = IF t \in PosTabs THEN binding[PhoneOf[t]] ELSE None]
  /\ UNCHANGED storage

(* Steps the program takes by itself once started. *)
JobStep(j, s) ==
  \/ BindAccepted(j, s)
  \/ BindNotApproved(j, s)
  \/ BindRefused(j, s)

TabStep(t, s) ==
  \/ ApprovalAnswered(t, s)
  \/ ApprovalRefused(t, s)
  \/ ChunkAnswered(t, s)
  \/ ChunkNotApproved(t, s)
  \/ CheckAnswered(t, s)

TabFails(t) ==
  \/ ApprovalFails(t)
  \/ BindFails(<<t, "run">>)
  \/ BindFails(<<t, "bind">>)
  \/ ChunkFails(t)
  \/ CheckFails(t)

TillNext ==
  \/ \E j \in Jobs : DropBinding(j) \/ \E s \in Slots : JobStep(j, s)
  \/ \E t \in Tabs :
       \/ StartApproval(t) \/ StartRun(t) \/ Collect(t) \/ TabFails(t) \/ Reload(t)
       \/ \E s \in Slots : TabStep(t, s)
  \/ \E t \in PosTabs :
       \/ SavePending(t) \/ StartCheck(t)
       \/ \E b \in Barbers : ChooseBarber(t, b)
       \/ \E x \in Sales : Ring(t, x)
  \/ \E x \in Sales : ClearRejection(x)
=============================================================================
