------------------------- MODULE SaleSyncHeldProofs -------------------------
(***************************************************************************)
(* What holds of SaleSync only because a phone has few pages: the sales of *)
(* a pending bind are held back as long as no second POS page is open on   *)
(* the phone, and a sale shown as refused is not in the books as long as   *)
(* the phone has one page.  Phones, sales, requests and faults are any     *)
(* number.                                                                 *)
(***************************************************************************)
EXTENDS SaleSyncProofs

(* One POS page to a phone; shift logs may be open beside it. *)
OnePos == \A t, u \in PosTabs : PhoneOf[t] = PhoneOf[u] => t = u

(* One page to a phone. *)
OnePage == \A t, u \in Tabs : PhoneOf[t] = PhoneOf[u] => t = u

-----------------------------------------------------------------------------
(* How the phones' variables move. *)

(* A run's list of sales is only shortened, or collected anew. *)
TodoMoves ==
  \A j \in Jobs : \A x \in job'[j].todo :
    \/ x \in job[j].todo
    \/ \E t \in Tabs : j = <<t, "run">> /\ Collect(t) /\ x \in ToSend(PhoneOf[t])

(* A batch is sent from such a list. *)
SalesMove ==
  \A s \in Slots : req'[s] # None => \A x \in req'[s].sales :
    \/ req[s] # None /\ x \in req[s].sales
    \/ \E j \in Jobs : x \in job[j].todo
    \/ \E t \in Tabs : Collect(t) /\ x \in ToSend(PhoneOf[t])

(* A pending bind is written by SavePending alone. *)
PendingMoves ==
  \A p \in Phones :
    \/ pending'[p] \in {pending[p], None}
    \/ \E t \in PosTabs : /\ SavePending(t) /\ p = PhoneOf[t]
                          /\ pending'[p] = job[<<t, "bind">>].asg

(* A POS page shows another binding after SavePending or a reload. *)
ShownMoves ==
  \A t \in Tabs :
    \/ shown'[t] \in {shown[t], None}
    \/ t \in PosTabs /\ SavePending(t) /\ shown'[t] = job[<<t, "bind">>].asg
    \/ t \in PosTabs /\ Reload(t) /\ shown'[t] = binding[PhoneOf[t]]

(* A bind starts with ChooseBarber. *)
SavingMoves ==
  \A j \in Jobs : job'[j].pc = "saving" =>
    \/ job[j].pc = "saving" /\ job'[j].asg = job[j].asg
    \/ \E t \in PosTabs, b \in Barbers : j = <<t, "bind">> /\ ChooseBarber(t, b)

Moves == TodoMoves /\ SalesMove /\ PendingMoves /\ ShownMoves /\ SavingMoves

(* No step but the phone's own moves what a phone keeps. *)
LEMMA StillMoves ==
  ASSUME TypeOK, UNCHANGED tillVars,
         \A s \in Slots : req'[s] # None => req[s] # None /\ req'[s].sales = req[s].sales
  PROVE  Moves
BY DEF Moves, TodoMoves, SalesMove, PendingMoves, ShownMoves, SavingMoves, tillVars, storage,
       TypeOK, TillTypeOK

(* An idle job has nothing to do. *)
LEMMA IdleHasNone == Idle.todo = {} /\ Idle.pc = "idle" /\ Idle.asg = None
BY DEF Idle

(* Giving up requests sends no sale. *)
LEMMA AbandonSales ==
  ASSUME TypeOK, NEW js, Abandon(js)
  PROVE  \A s \in Slots : req'[s] # None => req[s] # None /\ req'[s].sales = req[s].sales
<1> SUFFICES ASSUME NEW s \in Slots, req'[s] # None
             PROVE  req[s] # None /\ req'[s].sales = req[s].sales
  OBVIOUS
<1>1. req[s] # None => req[s] \in Request
  BY DEF TypeOK, NetTypeOK
<1> QED BY <1>1 DEF Abandon, Request

(* Nor does consuming an answer, or moving a handler on. *)
LEMMA ConsumeSales ==
  ASSUME TypeOK, NEW u \in Slots, Consume(u)
  PROVE  \A s \in Slots : req'[s] # None => req[s] # None /\ req'[s].sales = req[s].sales
BY DEF Consume, TypeOK, NetTypeOK

(* A handler keeps the batch of its request. *)
LEMMA HandleSales ==
  ASSUME TypeOK, NEW u \in Slots, NEW r, req[u] # None, r.sales = req[u].sales, Handle(u, r)
  PROVE  \A s \in Slots : req'[s] # None => req[s] # None /\ req'[s].sales = req[s].sales
BY DEF Handle, TypeOK, NetTypeOK

(* A request that names no sales, or only some that are given. *)
LEMMA SendSales ==
  ASSUME TypeOK, NEW r, Send(r)
  PROVE  \A s \in Slots : req'[s] # None =>
           \/ req[s] # None /\ req'[s].sales = req[s].sales
           \/ req'[s].sales = r.sales
BY DEF Send, TypeOK, NetTypeOK

(* The first request of a job names no sale. *)
LEMMA NewNamesNone ==
  \A j, k, z : NewRequest(j, k, z).sales = {}
BY DEF NewRequest

(* Setting a job that does not start a bind, nor adds to its list. *)
LEMMA SetMoves ==
  ASSUME TypeOK, NEW j \in Jobs, NEW r, Set(j, r), r.todo \subseteq job[j].todo, r.pc # "saving"
  PROVE  TodoMoves /\ SavingMoves
BY DEF Set, TodoMoves, SavingMoves, TypeOK, TillTypeOK

(* The same where the batches are kept. *)
LEMMA KeptSales ==
  ASSUME \A s \in Slots : req'[s] # None => req[s] # None /\ req'[s].sales = req[s].sales
  PROVE  SalesMove
BY DEF SalesMove

(* Or one without sales is sent. *)
LEMMA SentNone ==
  ASSUME TypeOK, NEW r, Send(r), r.sales = {}
  PROVE  SalesMove
BY SendSales DEF SalesMove

(* Consuming keeps them. *)
LEMMA ConsumedSales ==
  ASSUME TypeOK, NEW s \in Slots, Consume(s)
  PROVE  SalesMove
BY ConsumeSales, KeptSales

(* Where the pending bind and the page's binding are not written. *)
LEMMA KeptBindings ==
  ASSUME TypeOK, \A p \in Phones : pending'[p] \in {pending[p], None},
         \A t \in Tabs : shown'[t] \in {shown[t], None}
  PROVE  PendingMoves /\ ShownMoves
BY DEF PendingMoves, ShownMoves

(* The answers to a bind, and the dropping of a binding. *)
LEMMA BindMoves ==
  ASSUME TypeOK, NEW j \in Jobs,
         DropBinding(j) \/ (\E s \in Slots : JobStep(j, s)) \/ BindFails(j)
  PROVE  Moves
<1> DEFINE after == AfterBind(j)
           dropping == [job[j] EXCEPT !.pc = "dropping"]
<1> USE DEF TypeOK, TillTypeOK, storage
<1>1. job[j] \in Job
  OBVIOUS
<1>2. /\ after.todo \subseteq job[j].todo /\ after.pc # "saving"
      /\ after \in Job
      /\ dropping.todo \subseteq job[j].todo /\ dropping.pc # "saving"
  BY <1>1, IdleHasNone, IdleType, NetAssumption DEF AfterBind, Job
<1>3. \A c : [after EXCEPT !.cleared = c].todo \subseteq job[j].todo /\ [after EXCEPT !.cleared = c].pc # "saving"
  BY <1>2 DEF Job
<1>4. Idle.todo \subseteq job[j].todo /\ Idle.pc # "saving"
  BY IdleHasNone
<1>5. CASE DropBinding(j)
  <2>1. TodoMoves /\ SavingMoves
    BY <1>3, <1>4, <1>5, SetMoves DEF DropBinding
  <2>2. SalesMove
    BY <1>5, KeptSales DEF DropBinding
  <2>3. PendingMoves /\ ShownMoves
    BY <1>5, KeptBindings DEF DropBinding, Jobs
  <2> QED BY <2>1, <2>2, <2>3 DEF Moves
<1>6. ASSUME NEW s \in Slots, JobStep(j, s) PROVE Moves
  <2>1. TodoMoves /\ SavingMoves
    <3>1. CASE BindAccepted(j, s)
      BY <1>2, <3>1, SetMoves DEF BindAccepted
    <3>2. CASE BindNotApproved(j, s)
      BY <1>4, <3>2, SetMoves DEF BindNotApproved
    <3>3. CASE BindRefused(j, s)
      BY <1>2, <3>3, SetMoves DEF BindRefused
    <3> QED BY <1>6, <3>1, <3>2, <3>3 DEF JobStep
  <2>2. SalesMove
    BY <1>6, ConsumedSales DEF JobStep, BindAccepted, BindNotApproved, BindRefused
  <2>3. PendingMoves /\ ShownMoves
    BY <1>6, KeptBindings
    DEF JobStep, BindAccepted, BindNotApproved, BindRefused, ClearPendingIfSame
  <2> QED BY <2>1, <2>2, <2>3 DEF Moves
<1>7. CASE BindFails(j)
  <2>1. TodoMoves /\ SavingMoves
    BY <1>2, <1>7, SetMoves DEF BindFails
  <2>2. SalesMove
    BY <1>7, AbandonSales, KeptSales DEF BindFails, GiveUp
  <2>3. PendingMoves /\ ShownMoves
    BY <1>7, KeptBindings DEF BindFails
  <2> QED BY <2>1, <2>2, <2>3 DEF Moves
<1> QED BY <1>5, <1>6, <1>7

(* Approvals and binding checks. *)
LEMMA AskMoves ==
  ASSUME TypeOK, NEW t \in Tabs,
         \/ StartApproval(t) \/ ApprovalFails(t) \/ StartCheck(t) \/ CheckFails(t)
         \/ \E s \in Slots : ApprovalAnswered(t, s) \/ ApprovalRefused(t, s) \/ CheckAnswered(t, s)
  PROVE  Moves
<1> USE JobsOfTab DEF TypeOK, TillTypeOK, storage
<1>1. \A j \in Jobs : job[j] \in Job
  OBVIOUS
<1>2. /\ \A j \in Jobs : Idle.todo \subseteq job[j].todo /\ Idle.pc # "saving"
      /\ \A j \in Jobs : [job[j] EXCEPT !.pc = "dropping"].todo \subseteq job[j].todo
                         /\ [job[j] EXCEPT !.pc = "dropping"].pc # "saving"
  BY <1>1 DEF Idle, Job
<1>3. \A j \in Jobs, pc \in {"approving", "checking"} : \A a :
        /\ [Idle EXCEPT !.pc = pc].todo \subseteq job[j].todo /\ [Idle EXCEPT !.pc = pc].pc # "saving"
        /\ [Idle EXCEPT !.pc = pc, !.asg = a].todo \subseteq job[j].todo
        /\ [Idle EXCEPT !.pc = pc, !.asg = a].pc # "saving"
  BY DEF Idle
<1>4. TodoMoves /\ SavingMoves
  <2>1. CASE StartApproval(t)
    BY <1>3, <2>1, SetMoves DEF StartApproval
  <2>2. CASE StartCheck(t)
    BY <1>3, <2>2, SetMoves DEF StartCheck
  <2>3. CASE ApprovalFails(t) \/ CheckFails(t)
    BY <1>2, <2>3, SetMoves DEF ApprovalFails, CheckFails
  <2>4. CASE \E s \in Slots : ApprovalAnswered(t, s) \/ ApprovalRefused(t, s)
    BY <1>2, <2>4, SetMoves DEF ApprovalAnswered, ApprovalRefused
  <2>5. CASE \E s \in Slots : CheckAnswered(t, s)
    BY <1>2, <2>5, SetMoves DEF CheckAnswered
  <2> QED BY <2>1, <2>2, <2>3, <2>4, <2>5
<1>5. SalesMove
  <2>1. CASE StartApproval(t) \/ StartCheck(t)
    BY <2>1, NewNamesNone, SentNone DEF StartApproval, StartCheck
  <2>2. CASE ApprovalFails(t) \/ CheckFails(t)
    BY <2>2, AbandonSales, KeptSales DEF ApprovalFails, CheckFails, GiveUp
  <2>3. CASE \E s \in Slots : ApprovalAnswered(t, s) \/ ApprovalRefused(t, s) \/ CheckAnswered(t, s)
    BY <2>3, ConsumedSales DEF ApprovalAnswered, ApprovalRefused, CheckAnswered
  <2> QED BY <2>1, <2>2, <2>3
<1>6. UNCHANGED <<pending, shown>>
  BY DEF StartApproval, ApprovalFails, StartCheck, CheckFails, ApprovalAnswered, ApprovalRefused,
         CheckAnswered
<1>7. PendingMoves /\ ShownMoves
  BY <1>6, KeptBindings
<1> QED BY <1>4, <1>5, <1>7 DEF Moves

(* A run: register, collect, send in batches. *)
LEMMA RunMoves ==
  ASSUME TypeOK, NEW t \in Tabs,
         \/ StartRun(t) \/ Collect(t) \/ ChunkFails(t)
         \/ \E s \in Slots : ChunkAnswered(t, s) \/ ChunkNotApproved(t, s)
  PROVE  Moves
<1> DEFINE j == <<t, "run">>
           p == PhoneOf[t]
<1> USE DEF TypeOK, TillTypeOK, storage
<1>0. j \in Jobs /\ job[j] \in Job
  BY JobsOfTab
<1>1. \A z : Idle.todo \subseteq z /\ Idle.pc # "saving"
  BY DEF Idle
<1>2. CASE StartRun(t)
  <2>1. \A pc \in {"collect", "binding"} : \A a, z :
          /\ [Idle EXCEPT !.pc = pc].todo \subseteq z /\ [Idle EXCEPT !.pc = pc].pc # "saving"
          /\ [Idle EXCEPT !.pc = pc, !.asg = a].todo \subseteq z
          /\ [Idle EXCEPT !.pc = pc, !.asg = a].pc # "saving"
    BY DEF Idle
  <2>2. TodoMoves /\ SavingMoves
    <3>1. CASE pending[p] = None
      BY <1>0, <1>2, <2>1, <3>1, SetMoves DEF StartRun
    <3>2. CASE pending[p] # None
      <4> DEFINE r == [Idle EXCEPT !.pc = "binding", !.asg = pending[p]]
      <4>1. Set(j, r)
        BY <1>2, <3>2 DEF StartRun
      <4>2. r.todo \subseteq job[j].todo /\ r.pc # "saving"
        BY <2>1
      <4> HIDE DEF r
      <4> QED BY <1>0, <4>1, <4>2, SetMoves
    <3> QED BY <3>1, <3>2
  <2>3. \A a : RegisterRequest(j, a).sales = {}
    BY DEF RegisterRequest, NewRequest
  <2>4. SalesMove
    BY <1>2, <2>3, SentNone, KeptSales DEF StartRun
  <2>5. PendingMoves /\ ShownMoves
    BY <1>2, KeptBindings DEF StartRun
  <2> QED BY <2>2, <2>4, <2>5 DEF Moves
<1>3. CASE Collect(t)
  <2> DEFINE todo == ToSend(p)
             r == [job[j] EXCEPT !.pc = "sending", !.todo = todo, !.secret = secret[p]]
  <2>1. r.todo = todo /\ r.pc # "saving"
    BY <1>0 DEF Job
  <2>2. CASE EndRun(t) /\ UNCHANGED req
    <3>1. TodoMoves /\ SavingMoves
      BY <1>0, <1>1, <2>2, SetMoves DEF EndRun
    <3> QED BY <1>3, <2>2, <3>1, KeptSales, KeptBindings DEF Moves, EndRun, Collect
  <2>3. CASE (\E c \in Chunks(todo) : Send(SyncRequest(j, c, secret[p]))) /\ Set(j, r) /\ UNCHANGED shown
    <3>1. PICK c \in Chunks(todo) : Send(SyncRequest(j, c, secret[p]))
      BY <2>3
    <3>2. SyncRequest(j, c, secret[p]).sales = c /\ c \subseteq todo
      BY <3>1 DEF SyncRequest, NewRequest, Chunks
    <3>3. SalesMove
      BY <1>3, <3>1, <3>2, SendSales DEF SalesMove
    <3>4. TodoMoves /\ SavingMoves
      BY <1>0, <1>3, <2>1, <2>3 DEF TodoMoves, SavingMoves, Set
    <3>5. PendingMoves /\ ShownMoves
      BY <1>3, <2>3, KeptBindings DEF Collect
    <3> QED BY <3>3, <3>4, <3>5 DEF Moves
  <2> QED BY <1>3, <2>2, <2>3 DEF Collect
<1>4. CASE ChunkFails(t)
  <2>1. TodoMoves /\ SavingMoves
    BY <1>0, <1>1, <1>4, SetMoves DEF ChunkFails, EndRun
  <2>2. SalesMove
    BY <1>4, AbandonSales, KeptSales DEF ChunkFails, GiveUp
  <2>3. PendingMoves /\ ShownMoves
    BY <1>4, KeptBindings DEF ChunkFails, EndRun
  <2> QED BY <2>1, <2>2, <2>3 DEF Moves
<1>5. ASSUME NEW s \in Slots, ChunkNotApproved(t, s) PROVE Moves
  <2>1. TodoMoves /\ SavingMoves
    BY <1>0, <1>1, <1>5, SetMoves DEF ChunkNotApproved, EndRun
  <2>2. SalesMove
    BY <1>5, ConsumedSales DEF ChunkNotApproved
  <2>3. PendingMoves /\ ShownMoves
    BY <1>5, KeptBindings DEF ChunkNotApproved, EndRun
  <2> QED BY <2>1, <2>2, <2>3 DEF Moves
<1>6. ASSUME NEW s \in Slots, ChunkAnswered(t, s) PROVE Moves
  <2> DEFINE todo == job[j].todo \ req[s].sales
             r == [job[j] EXCEPT !.todo = todo]
  <2>1. r.todo = todo /\ r.pc = job[j].pc /\ job[j].pc # "saving"
    BY <1>0, <1>6 DEF Job, ChunkAnswered
  <2>2. CASE EndRun(t) /\ Consume(s)
    <3>1. TodoMoves /\ SavingMoves
      BY <1>0, <1>1, <2>2, SetMoves DEF EndRun
    <3>2. SalesMove
      BY <2>2, ConsumedSales
    <3> QED BY <1>6, <2>2, <3>1, <3>2, KeptBindings DEF Moves, EndRun, ChunkAnswered
  <2>3. CASE (\E c \in Chunks(todo) : req' = [req EXCEPT ![s] = SyncRequest(j, c, job[j].secret)])
             /\ Set(j, r) /\ UNCHANGED shown
    <3>1. PICK c \in Chunks(todo) : req' = [req EXCEPT ![s] = SyncRequest(j, c, job[j].secret)]
      BY <2>3
    <3>2. SyncRequest(j, c, job[j].secret).sales = c /\ c \subseteq todo
      BY <3>1 DEF SyncRequest, NewRequest, Chunks
    <3>3. SalesMove
      BY <1>0, <3>1, <3>2 DEF SalesMove, NetTypeOK
    <3>4. TodoMoves /\ SavingMoves
      BY <1>0, <2>1, <2>3, SetMoves
    <3>5. PendingMoves /\ ShownMoves
      BY <1>6, <2>3, KeptBindings DEF ChunkAnswered
    <3> QED BY <3>3, <3>4, <3>5 DEF Moves
  <2> QED BY <1>6, <2>2, <2>3 DEF ChunkAnswered
<1> QED BY <1>2, <1>3, <1>4, <1>5, <1>6

(* The POS page's own: choosing a barber, ringing up; and a reload. *)
LEMMA PageMoves ==
  ASSUME TypeOK, NEW t \in Tabs,
         \/ Reload(t)
         \/ t \in PosTabs /\ SavePending(t)
         \/ t \in PosTabs /\ \E b \in Barbers : ChooseBarber(t, b)
         \/ \E x \in Sales : Ring(t, x)
  PROVE  Moves
<1> DEFINE j == <<t, "bind">>
           p == PhoneOf[t]
<1> USE DEF TypeOK, TillTypeOK, storage
<1>0. j \in Jobs /\ job[j] \in Job
  BY JobsOfTab
<1>1. Idle.todo = {} /\ Idle.pc # "saving"
  BY DEF Idle
<1>2. CASE Reload(t)
  <2>1. TodoMoves /\ SavingMoves
    BY <1>1, <1>2 DEF TodoMoves, SavingMoves, Reload
  <2>2. SalesMove
    BY <1>2, AbandonSales, KeptSales DEF Reload
  <2>3. PendingMoves
    BY <1>2 DEF PendingMoves, Reload
  <2>4. ShownMoves
    BY <1>2 DEF ShownMoves, Reload
  <2> QED BY <2>1, <2>2, <2>3, <2>4 DEF Moves
<1>3. CASE t \in PosTabs /\ SavePending(t)
  <2>1. [job[j] EXCEPT !.pc = "binding"].todo = job[j].todo
        /\ [job[j] EXCEPT !.pc = "binding"].pc # "saving"
    BY <1>0 DEF Job
  <2>2. TodoMoves /\ SavingMoves
    BY <1>0, <1>1, <1>3, <2>1, SetMoves DEF SavePending
  <2>3. \A a : RegisterRequest(j, a).sales = {}
    BY DEF RegisterRequest, NewRequest
  <2>4. SalesMove
    BY <1>3, <2>3, SentNone, KeptSales DEF SavePending
  <2>5. PendingMoves
    BY <1>3 DEF PendingMoves, SavePending
  <2>6. ShownMoves
    BY <1>3 DEF ShownMoves, SavePending
  <2> QED BY <2>2, <2>4, <2>5, <2>6 DEF Moves
<1>4. ASSUME t \in PosTabs, NEW b \in Barbers, ChooseBarber(t, b) PROVE Moves
  <2>1. \A a : [Idle EXCEPT !.pc = "saving", !.asg = a].todo = {}
    BY DEF Idle
  <2>2. TodoMoves
    BY <1>0, <1>4, <2>1 DEF TodoMoves, ChooseBarber, Set
  <2>3. SavingMoves
    <3>1. \A k \in Jobs : k # j => job'[k] = job[k]
      BY <1>4 DEF ChooseBarber, Set
    <3> QED BY <1>4, <3>1 DEF SavingMoves
  <2>4. SalesMove
    BY <1>4, KeptSales DEF ChooseBarber
  <2>5. PendingMoves /\ ShownMoves
    BY <1>4, KeptBindings DEF ChooseBarber
  <2> QED BY <2>2, <2>3, <2>4, <2>5 DEF Moves
<1>5. ASSUME NEW x \in Sales, Ring(t, x) PROVE Moves
  <2>1. UNCHANGED <<pending, shown, job, req>>
    BY <1>5 DEF Ring
  <2> QED BY <2>1, KeptSales, KeptBindings DEF Moves, TodoMoves, SavingMoves
<1> QED BY <1>2, <1>3, <1>4, <1>5

(* A handler moves its own request on, which stays what was asked. *)
SameRequest(r, q) ==
  r.kind = q.kind /\ r.phone = q.phone /\ r.owner = q.owner /\ r.sales = q.sales

(* Finishing does not change what was asked. *)
LEMMA FinishSame ==
  ASSUME NEW q \in Request
  PROVE  SameRequest(Finish(q), q) /\ Finish(q).ok = q.ok /\ Finish(q).bad = q.bad
         /\ Finish(q).found = q.found
         /\ Finish(q).stage = (IF q.sales \subseteq q.ok \cup q.bad THEN "answered" ELSE "recording")
<1>1. CASE q.sales \subseteq q.ok \cup q.bad
  BY <1>1 DEF Request, SameRequest, Finish
<1>2. CASE ~(q.sales \subseteq q.ok \cup q.bad)
  BY <1>2 DEF Request, SameRequest, Finish
<1> QED BY <1>1, <1>2

(* The sales of a batch are rung up, so what they name are assignments. *)
LEMMA BatchNames ==
  ASSUME TypeOK, NamesFit, NEW s \in Slots, req[s] # None, NEW xs \in SUBSET req[s].sales
  PROVE  AssignmentsOf(xs) \in SUBSET Assignments
<1>1. req[s] \in Request
  BY DEF TypeOK, NetTypeOK
<1>2. \A x \in xs : rung[x] # None /\ rung[x] \in Sale
  BY <1>1 DEF NamesFit, RequestsFit, RungOn, TypeOK, NetTypeOK, Request
<1> QED BY <1>2 DEF AssignmentsOf, Sale

(* What a handler makes of its request. *)
LEMMA HandlerMoves ==
  ASSUME TypeOK, NamesFit, NEW u \in Slots, Handler(u)
  PROVE  /\ req[u] \in Request /\ req[u] # None
         /\ \E r : SameRequest(r, req[u]) /\ Handle(u, r)
<1> DEFINE q == req[u]
           Good == \E r : SameRequest(r, req[u]) /\ Handle(u, r)
<1>1. q # None
  BY DEF Handler, RefuseUnapproved, BindExisting, BindLookup, BindInactive, BindCreate,
         BindLostRace, SyncLoad, SyncRegister, SyncRecord, CheckBinding, ApproveDevice, WrongPin, At
<1>2. q \in Request
  BY <1>1 DEF TypeOK, NetTypeOK
<1>g. SUFFICES Good
  BY <1>1, <1>2
<1>w. ASSUME NEW r, SameRequest(r, q), Handle(u, r) PROVE Good
  BY <1>w
<1> HIDE DEF Good
<1>3. ASSUME NEW a, Answer(u, a) PROVE Good
  <2>1. SameRequest([q EXCEPT !.stage = "answered", !.answer = a], q)
    BY <1>2 DEF Request, SameRequest
  <2> QED BY <1>3, <1>w, <2>1 DEF Answer
<1>4. CASE RefuseUnapproved(u) \/ BindExisting(u) \/ BindInactive(u) \/ BindCreate(u)
           \/ BindLostRace(u) \/ WrongPin(u)
  <2>1. \E a : Answer(u, a)
    BY <1>4 DEF RefuseUnapproved, BindExisting, BindInactive, BindCreate, BindLostRace, WrongPin
  <2> QED BY <1>3, <2>1
<1>5. CASE BindLookup(u)
  <2>1. \A f : SameRequest([q EXCEPT !.stage = f], q)
    BY <1>2 DEF Request, SameRequest
  <2>2. \E f : Handle(u, [q EXCEPT !.stage = f])
    BY <1>5 DEF BindLookup
  <2> QED BY <1>w, <2>1, <2>2
<1>6. CASE SyncLoad(u)
  <2> DEFINE named == AssignmentsOf(q.sales \ Known(q))
             found == {a \in named : row[a] # None}
             loaded == [q EXCEPT !.ok = Known(q), !.bad = NeedsGateway(q), !.found = found]
  <2>0. found \in SUBSET Assignments
    BY <1>1, BatchNames
  <2>1. loaded \in Request
    BY <1>2, <2>0 DEF Request, Known, NeedsGateway
  <2>2. SameRequest(loaded, q) /\ SameRequest([loaded EXCEPT !.stage = "loaded"], q)
    BY <1>2 DEF Request, SameRequest
  <2>3. SameRequest(Finish(loaded), q)
    BY <2>1, <2>2, FinishSame DEF SameRequest
  <2>4. Handle(u, Finish(loaded)) \/ Handle(u, [loaded EXCEPT !.stage = "loaded"])
    BY <1>6 DEF SyncLoad
  <2> QED BY <1>w, <2>2, <2>3, <2>4
<1>7. CASE SyncRegister(u)
  <2> DEFINE named == AssignmentsOf(q.sales \ q.ok)
             r == [q EXCEPT !.found = named]
  <2>0. named \in SUBSET Assignments
    BY <1>1, BatchNames
  <2>1. r \in Request
    BY <1>2, <2>0 DEF Request
  <2>2. SameRequest(r, q)
    BY <1>2 DEF Request, SameRequest
  <2>3. SameRequest(Finish(r), q)
    BY <2>1, <2>2, FinishSame DEF SameRequest
  <2>4. Handle(u, Finish(r))
    BY <1>7 DEF SyncRegister
  <2> QED BY <1>w, <2>3, <2>4
<1>8. ASSUME NEW x \in Sales, SyncRecord(u, x) PROVE Good
  <2> DEFINE b == [q EXCEPT !.bad = @ \cup {x}]
             k == [q EXCEPT !.ok = @ \cup {x}]
  <2>1. b \in Request /\ k \in Request /\ SameRequest(b, q) /\ SameRequest(k, q)
    BY <1>2 DEF Request, SameRequest
  <2>2. SameRequest(Finish(b), q) /\ SameRequest(Finish(k), q)
    BY <2>1, FinishSame DEF SameRequest
  <2>3. Handle(u, Finish(b)) \/ Handle(u, Finish(k))
    BY <1>8 DEF SyncRecord
  <2> QED BY <1>w, <2>2, <2>3
<1>9. CASE CheckBinding(u)
  <2>1. \A o : SameRequest([q EXCEPT !.stage = "answered", !.answer = "ok", !.asg = o], q)
    BY <1>2 DEF Request, SameRequest
  <2>2. \E o : Handle(u, [q EXCEPT !.stage = "answered", !.answer = "ok", !.asg = o])
    BY <1>9 DEF CheckBinding
  <2> QED BY <1>w, <2>1, <2>2
<1>10. CASE ApproveDevice(u)
  <2>1. \A o : SameRequest([q EXCEPT !.stage = "answered", !.answer = "ok", !.secret = o], q)
    BY <1>2 DEF Request, SameRequest
  <2>2. \E o : Handle(u, [q EXCEPT !.stage = "answered", !.answer = "ok", !.secret = o])
    BY <1>10 DEF ApproveDevice
  <2> QED BY <1>w, <2>1, <2>2
<1> QED BY <1>4, <1>5, <1>6, <1>7, <1>8, <1>9, <1>10 DEF Handler

(* Every step moves them so. *)
LEMMA StepMoves ==
  ASSUME TypeOK, NamesFit, [Next]_vars
  PROVE  Moves
<1>1. CASE UNCHANGED vars
  <2>1. \A s \in Slots : req'[s] # None => req[s] # None /\ req'[s].sales = req[s].sales
    BY <1>1 DEF vars
  <2> QED BY <1>1, <2>1, StillMoves DEF vars
<1>2. CASE Network
  BY <1>2, ConsumeSales, StillMoves DEF Network, Lose
<1>3. ASSUME Server PROVE Moves
  <2>1. \A s \in Slots : req'[s] # None => req[s] # None /\ req'[s].sales = req[s].sales
    <3>1. ASSUME NEW u \in Slots, Handler(u)
          PROVE  \A s \in Slots : req'[s] # None => req[s] # None /\ req'[s].sales = req[s].sales
      BY <3>1, HandlerMoves, HandleSales DEF SameRequest
    <3>2. ASSUME Owner PROVE UNCHANGED req
      BY <3>2 DEF Owner, RevokeDevice, Deactivate, SwitchGateway
    <3> QED BY <1>3, <3>1, <3>2 DEF Server, ServerNext
  <2> QED BY <1>3, <2>1, StillMoves DEF Server, tillVars
<1>4. ASSUME Phone PROVE Moves
  <2>1. PosTabs \subseteq Tabs
    BY NetAssumption
  <2>2. CASE \E j \in Jobs : DropBinding(j) \/ \E s \in Slots : JobStep(j, s)
    BY <2>2, BindMoves
  <2>3. ASSUME NEW t \in Tabs, TabFails(t) PROVE Moves
    BY <2>3, JobsOfTab, BindMoves, AskMoves, RunMoves DEF TabFails
  <2>4. ASSUME NEW t \in Tabs, NEW s \in Slots, TabStep(t, s) PROVE Moves
    BY <2>4, AskMoves, RunMoves DEF TabStep
  <2>5. ASSUME NEW t \in Tabs, StartApproval(t) \/ StartRun(t) \/ Collect(t) \/ Reload(t) PROVE Moves
    BY <2>5, AskMoves, RunMoves, PageMoves
  <2>6. ASSUME NEW t \in PosTabs,
               \/ SavePending(t) \/ StartCheck(t)
               \/ \E b \in Barbers : ChooseBarber(t, b)
               \/ \E x \in Sales : Ring(t, x)
        PROVE Moves
    BY <2>1, <2>6, AskMoves, PageMoves
  <2>7. ASSUME NEW x \in Sales, ClearRejection(x) PROVE Moves
    <3>1. UNCHANGED <<pending, shown, job, req>>
      BY <2>7 DEF ClearRejection
    <3> QED BY <3>1, KeptSales, KeptBindings
            DEF Moves, TodoMoves, SavingMoves, TypeOK, TillTypeOK
  <2> QED BY <1>4, <2>2, <2>3, <2>4, <2>5, <2>6, <2>7 DEF Phone, TillNext
<1> QED BY <1>1, <1>2, <1>3, <1>4 DEF Next

-----------------------------------------------------------------------------
(* The pending bind. *)

BoundByBind(a) == row[a] # None => row[a].by = "bind"

(* No request and no run carries a sale of a. *)
Held(a) ==
  /\ BoundByBind(a)
  /\ \A s \in Slots : req[s] # None => \A x \in req[s].sales : rung[x].asg # a
  /\ \A j \in Jobs : \A x \in job[j].todo : rung[x].asg # a

(* a has just been generated: no page shows it and no sale is rung up for it. *)
Untold(a) ==
  /\ BoundByBind(a)
  /\ \A t \in Tabs : shown[t] # a
  /\ \A x \in Sales : rung[x] # None => rung[x].asg # a

BarePages == \A t \in Tabs \ PosTabs : shown[t] = None

SavingUntold ==
  \A j \in Jobs : job[j].pc = "saving" =>
    j[2] = "bind" /\ j[1] \in PosTabs /\ Untold(job[j].asg)

PendingHeld == \A p \in Phones : pending[p] # None => Held(pending[p])

HeldInv == BarePages /\ SavingUntold /\ PendingHeld

(* A row created by a sync is one a sale of its batch names. *)
LEMMA RowMoves ==
  ASSUME TypeOK, [Next]_vars, NEW a \in Assignments, BoundByBind(a)
  PROVE  \/ BoundByBind(a)'
         \/ \E s \in Slots : req[s] # None /\ \E x \in req[s].sales : rung[x].asg = a
<1> DEFINE Good == \/ BoundByBind(a)'
                   \/ \E s \in Slots : req[s] # None /\ \E x \in req[s].sales : rung[x].asg = a
<1> USE DEF TypeOK, ServerTypeOK
<1>1. ASSUME UNCHANGED row PROVE Good
  BY <1>1 DEF BoundByBind
<1>2. ASSUME NEW s \in Slots, BindInactive(s) PROVE Good
  BY <1>2 DEF BindInactive, NewRow, BoundByBind
<1>3. ASSUME NEW s \in Slots, BindCreate(s) PROVE Good
  <2>1. row[a] # None => row[a] \in Row
    OBVIOUS
  <2>2. row[a] # None => [row[a] EXCEPT !.active = FALSE].by = row[a].by
    BY <2>1 DEF Row
  <2> QED BY <1>3, <2>2 DEF BindCreate, Activated, NewRow, BoundByBind
<1>4. ASSUME NEW s \in Slots, SyncRegister(s) PROVE Good
  <2>1. CASE a \in AssignmentsOf(req[s].sales \ req[s].ok)
    BY <1>4, <2>1 DEF SyncRegister, At, AssignmentsOf
  <2>2. CASE a \notin AssignmentsOf(req[s].sales \ req[s].ok)
    BY <1>4, <2>2 DEF SyncRegister, BoundByBind
  <2> QED BY <2>1, <2>2
<1>5. CASE UNCHANGED vars
  BY <1>1, <1>5 DEF vars, serverVars
<1>6. CASE Server
  BY <1>1, <1>2, <1>3, <1>4, <1>6, ServerBooks
<1>7. CASE Phone \/ Network
  BY <1>1, <1>7 DEF Phone, Network, serverVars
<1> QED BY <1>5, <1>6, <1>7 DEF Next

(* Only ringing up adds a sale, and for the assignment the page shows. *)
LEMMA RungMoves ==
  ASSUME TypeOK, [Next]_vars, NEW x \in Sales, rung'[x] # None
  PROVE  rung'[x] = rung[x] \/ \E t \in PosTabs : rung'[x].asg = shown[t]
<1>1. UNCHANGED rung \/ \E t \in PosTabs, y \in Sales : Ring(t, y)
  BY PhoneNames, ServerBooks DEF Next, Network, vars, tillVars, storage
<1>2. ASSUME NEW t \in PosTabs, NEW y \in Sales, Ring(t, y)
      PROVE  rung'[x] = rung[x] \/ rung'[x].asg = shown[t]
  BY <1>2 DEF Ring, TypeOK, NetTypeOK
<1> QED BY <1>1, <1>2

(* Held survives every step while a is the pending bind of its phone. *)
LEMMA HeldStep ==
  ASSUME IInv, [Next]_vars, NEW p \in Phones, pending[p] # None, Held(pending[p])
  PROVE  Held(pending[p])'  \/ pending'[p] # pending[p]
<1> DEFINE a == pending[p]
<1> SUFFICES ASSUME pending'[p] = a PROVE Held(pending[p])'
  OBVIOUS
<1> USE DEF IInv
<1>0. Moves /\ Grows
  BY StepMoves, Growth
<1>1. a \in Assignments /\ minted[a] # None /\ minted[a].phone = p
  BY DEF TypeOK, TillTypeOK, NamesFit, TabsFit, MintedFor
<1>2. BoundByBind(a)'
  BY <1>1, RowMoves DEF Held
<1>3. \A x \in Sales : rung[x] # None /\ rung[x].asg # a => rung'[x].asg # a
  BY <1>0 DEF Grows
<1>4. \A s \in Slots : req[s] # None => \A x \in req[s].sales : x \in Sales /\ rung[x] # None
  BY DEF NamesFit, RequestsFit, RungOn, TypeOK, NetTypeOK, Request
<1>5. \A j \in Jobs : \A x \in job[j].todo : x \in Sales /\ rung[x] # None
  BY DEF NamesFit, TabsFit, RungOn, TypeOK, TillTypeOK, Job
<1>6. ASSUME NEW t \in Tabs, NEW x \in ToSend(PhoneOf[t])
      PROVE  x \in Sales /\ rung[x] # None /\ rung[x].asg # a
  <2>1. x \in Sales /\ rung[x] # None /\ rung[x].phone = PhoneOf[t]
    BY DEF ToSend, QueueTrue
  <2>2. CASE PhoneOf[t] = p
    BY <2>1, <2>2 DEF ToSend
  <2>3. CASE PhoneOf[t] # p
    <3>1. rung[x].asg = a => minted[a].phone = rung[x].phone
      <4> SUFFICES ASSUME rung[x].asg = a PROVE minted[a].phone = rung[x].phone
        OBVIOUS
      <4>1. minted[a] = [phone |-> rung[x].phone, barber |-> rung[x].barber]
        BY <2>1 DEF NamesFit, SalesFit
      <4> QED BY <4>1
    <3> QED BY <1>1, <2>1, <2>3, <3>1
  <2> QED BY <2>1, <2>2, <2>3
<1>7. ASSUME NEW s \in Slots, req'[s] # None, NEW x \in req'[s].sales
      PROVE  rung'[x].asg # a
  <2>1. \/ req[s] # None /\ x \in req[s].sales
        \/ \E j \in Jobs : x \in job[j].todo
        \/ \E t \in Tabs : x \in ToSend(PhoneOf[t])
    BY <1>0, <1>7 DEF Moves, SalesMove
  <2>2. x \in Sales /\ rung[x] # None /\ rung[x].asg # a
    BY <1>4, <1>5, <1>6, <2>1 DEF Held
  <2> QED BY <1>3, <2>2
<1>8. ASSUME NEW j \in Jobs, NEW x \in job'[j].todo
      PROVE  rung'[x].asg # a
  <2>1. x \in job[j].todo \/ \E t \in Tabs : x \in ToSend(PhoneOf[t])
    BY <1>0, <1>8 DEF Moves, TodoMoves
  <2>2. x \in Sales /\ rung[x] # None /\ rung[x].asg # a
    BY <1>5, <1>6, <2>1 DEF Held
  <2> QED BY <1>3, <2>2
<1> QED BY <1>2, <1>7, <1>8 DEF Held, BoundByBind

(* A page that is saving a binding has just generated it, and its phone has no
   other POS page that could have made it known. *)
LEMMA UntoldStep ==
  ASSUME OnePos, IInv, [Next]_vars, SavingUntold, NEW j \in Jobs, job'[j].pc = "saving"
  PROVE  j[2] = "bind" /\ j[1] \in PosTabs /\ Untold(job[j].asg)'
<1> USE DEF IInv
<1>0. Moves /\ Grows
  BY StepMoves, Growth
<1>1. CASE job[j].pc = "saving" /\ job'[j].asg = job[j].asg
  <2> DEFINE t == j[1]
  <2>0. job[j].asg \in Assignments /\ job[j].asg # None
    BY <1>1 DEF TypeOK, TillTypeOK, Job, NamesFit, TabsFit
  <2> PICK a \in Assignments : a = job[j].asg
    BY <2>0
  <2>1. j[2] = "bind" /\ t \in PosTabs /\ t \in Tabs /\ j = <<t, "bind">> /\ Untold(a)
    BY <1>1, NetAssumption DEF SavingUntold, Jobs
  <2>2. a # None /\ minted[a] # None /\ minted[a].phone = PhoneOf[t]
    BY <2>0 DEF NamesFit, TabsFit, MintedFor, PhoneOfJob
  <2>3. \A s \in Slots : req[s] # None => \A x \in req[s].sales : x \in Sales /\ rung[x] # None
    BY DEF NamesFit, RequestsFit, RungOn, TypeOK, NetTypeOK, Request
  <2>4. BoundByBind(a)'
    BY <2>1, <2>2, <2>3, RowMoves DEF Untold
  <2>5. ASSUME NEW u \in Tabs PROVE shown'[u] # a
    <3>1. CASE shown'[u] \in {shown[u], None}
      BY <2>1, <2>2, <3>1 DEF Untold
    <3>2. CASE u \in PosTabs /\ SavePending(u) /\ shown'[u] = job[<<u, "bind">>].asg
      <4>1. u # t
        <5>1. CASE SavePending(t)
          <6>1. job[j] \in Job /\ [job[j] EXCEPT !.pc = "binding"].pc # "saving"
                /\ Idle.pc # "saving"
            BY DEF TypeOK, TillTypeOK, Job, Idle
          <6>2. Set(j, [job[j] EXCEPT !.pc = "binding"]) \/ Set(j, Idle)
            BY <2>1, <5>1 DEF SavePending
          <6> QED BY <6>1, <6>2 DEF Set, TypeOK, TillTypeOK
        <5> QED BY <3>2, <5>1
      <4>2. PhoneOf[u] # PhoneOf[t]
        BY <2>1, <3>2, <4>1 DEF OnePos
      <4>3. MintedFor(job[<<u, "bind">>].asg, PhoneOf[u])
        BY JobsOfTab DEF NamesFit, TabsFit, PhoneOfJob
      <4> QED BY <2>2, <3>2, <4>2, <4>3 DEF MintedFor
    <3>3. CASE u \in PosTabs /\ Reload(u) /\ shown'[u] = binding[PhoneOf[u]]
      <4>1. u # t
        BY <1>1, <2>1, <3>3 DEF Reload, Idle
      <4>2. PhoneOf[u] # PhoneOf[t] /\ PhoneOf[u] \in Phones
        BY <2>1, <3>3, <4>1, NetAssumption DEF OnePos
      <4>3. MintedFor(binding[PhoneOf[u]], PhoneOf[u])
        BY <4>2 DEF NamesFit, TabsFit
      <4> QED BY <2>2, <3>3, <4>2, <4>3 DEF MintedFor
    <3> QED BY <1>0, <3>1, <3>2, <3>3 DEF Moves, ShownMoves
  <2>6. ASSUME NEW x \in Sales, rung'[x] # None PROVE rung'[x].asg # a
    <3>1. rung'[x] = rung[x] \/ \E u \in PosTabs : rung'[x].asg = shown[u]
      BY <2>6, RungMoves
    <3> QED BY <2>1, <2>6, <3>1, NetAssumption DEF Untold
  <2> QED BY <1>1, <2>1, <2>4, <2>5, <2>6 DEF Untold, BoundByBind
<1>2. ASSUME NEW t \in PosTabs, NEW b \in Barbers, j = <<t, "bind">>, ChooseBarber(t, b)
      PROVE  j[2] = "bind" /\ j[1] \in PosTabs /\ Untold(job[j].asg)'
  <2>0. UNCHANGED <<rung, shown>> /\ UNCHANGED row
    <3>1. UNCHANGED <<rung, shown>>
      BY <1>2 DEF ChooseBarber
    <3>2. minted' # minted
      BY <1>2, NetAssumption, NoneIsNothing DEF ChooseBarber, TypeOK, NetTypeOK, Mint
    <3>3. UNCHANGED row
      BY <3>2, ServerBooks DEF Next, Phone, Network, vars, tillVars, storage, serverVars
    <3> QED BY <3>1, <3>3
  <2>1. PICK a \in Assignments : minted[a] = None /\ Set(j, [Idle EXCEPT !.pc = "saving", !.asg = a])
    BY <1>2 DEF ChooseBarber
  <2>2. job'[j].asg = a /\ a # None
    BY <2>1, NetAssumption DEF Set, Idle, TypeOK, TillTypeOK
  <2>3. row[a] = None
    BY <2>1, NoneIsNothing DEF NamesFit, RowsFit, TypeOK, ServerTypeOK, Row, Mint
  <2>4. \A u \in Tabs : shown[u] # a
    BY <2>1, <2>2 DEF NamesFit, TabsFit, MintedFor
  <2>5. ASSUME NEW x \in Sales, rung[x] # None PROVE rung[x].asg # a
    <3> SUFFICES ASSUME rung[x].asg = a PROVE FALSE
      OBVIOUS
    <3>1. minted[a] = [phone |-> rung[x].phone, barber |-> rung[x].barber] /\ rung[x] \in Sale
      BY <2>2, <2>5 DEF NamesFit, SalesFit, TypeOK, NetTypeOK
    <3> QED BY <2>1, <3>1, NoneIsNothing DEF Mint, Sale
  <2> QED BY <1>2, <2>0, <2>2, <2>3, <2>4, <2>5 DEF Untold, BoundByBind
<1> QED BY <1>0, <1>1, <1>2 DEF Moves, SavingMoves

(* A binding that becomes the pending one is still untold. *)
LEMMA SavedHeld ==
  ASSUME IInv, IInv', [Next]_vars, SavingUntold, NEW t \in PosTabs, SavePending(t),
         NEW a \in Assignments, a = job[<<t, "bind">>].asg
  PROVE  Held(a)'
<1> DEFINE j == <<t, "bind">>
<1> USE DEF IInv
<1>0. j \in Jobs /\ job[j].pc = "saving"
  BY NetAssumption, JobsOfTab DEF SavePending
<1>1. Untold(a)
  BY <1>0 DEF SavingUntold
<1>2. \A x \in Sales : rung'[x] # None => rung'[x].asg # a
  BY <1>1 DEF SavePending, Untold
<1>3. BoundByBind(a)'
  <2>1. \A s \in Slots : req[s] # None => \A x \in req[s].sales : x \in Sales /\ rung[x] # None
    BY DEF NamesFit, RequestsFit, RungOn, TypeOK, NetTypeOK, Request
  <2> QED BY <1>1, <2>1, RowMoves DEF Untold
<1>4. \A s \in Slots : req'[s] # None => \A x \in req'[s].sales : x \in Sales /\ rung'[x] # None
  BY DEF NamesFit, RequestsFit, RungOn, TypeOK, NetTypeOK, Request
<1>5. \A i \in Jobs : \A x \in job'[i].todo : x \in Sales /\ rung'[x] # None
  BY DEF NamesFit, TabsFit, RungOn, TypeOK, TillTypeOK, Job
<1> QED BY <1>2, <1>3, <1>4, <1>5 DEF Held, BoundByBind

(* Every step keeps pending bindings held. *)
LEMMA HeldInvStep ==
  ASSUME OnePos, IInv, IInv', HeldInv, [Next]_vars
  PROVE  HeldInv'
<1>0. Moves
  BY StepMoves DEF IInv
<1>1. BarePages'
  BY <1>0 DEF HeldInv, BarePages, Moves, ShownMoves
<1>2. SavingUntold'
  BY UntoldStep DEF HeldInv, SavingUntold
<1>3. ASSUME NEW p \in Phones, pending'[p] # None PROVE Held(pending[p])'
  <2>1. CASE pending'[p] = pending[p]
    BY <1>3, <2>1, HeldStep DEF HeldInv, PendingHeld
  <2>2. ASSUME NEW t \in PosTabs, SavePending(t), pending'[p] = job[<<t, "bind">>].asg
        PROVE  Held(pending[p])'
    <3>0. pending'[p] \in Assignments
      BY <1>3 DEF IInv, TypeOK, TillTypeOK
    <3> PICK a \in Assignments : a = pending'[p]
      BY <3>0
    <3>1. Held(a)'
      BY <2>2, SavedHeld DEF HeldInv
    <3> QED BY <3>1 DEF Held, BoundByBind
  <2> QED BY <1>0, <1>3, <2>1, <2>2 DEF Moves, PendingMoves
<1> QED BY <1>1, <1>2, <1>3 DEF HeldInv, PendingHeld

(* The sales of a pending bind stay on their phone until the shop's books know
   the binding through /bind, whatever runs, requests and reloads overlap: on a
   phone with one POS page, for any number of phones, sales and faults. *)
THEOREM PendingIsHeld ==
  ASSUME OnePos
  PROVE  Spec => []HeldUntilBound
<1>1. Init => HeldInv
  BY DEF Init, NetInit, TillInit, ServerInit, Idle, HeldInv, BarePages, SavingUntold, PendingHeld
<1>2. (IInv /\ HeldInv) /\ IInv' /\ [Next]_vars => HeldInv'
  BY HeldInvStep
<1>3. HeldInv => HeldUntilBound
  BY DEF HeldInv, PendingHeld, Held, BoundByBind, HeldUntilBound
<1>4. Spec => []IInv
  BY Invariant
<1> QED BY <1>1, <1>2, <1>3, <1>4, PTL DEF Spec

-----------------------------------------------------------------------------
(* Requests and those who await them. *)

Awaiting == [bind |-> "binding", sync |-> "sending", check |-> "checking", approve |-> "approving"]

AwaitingPcs == {"binding", "sending", "checking", "approving"}

(* An answer that nobody awaits is gone. *)
Orphaned == \A s \in Slots : req[s] # None /\ req[s].owner = None => req[s].stage # "answered"

(* Only runs carry sales. *)
Batches ==
  /\ \A s \in Slots : req[s] # None /\ req[s].sales # {} => req[s].kind = "sync"
  /\ \A j \in Jobs : job[j].todo # {} => j[2] = "run"

(* A request is awaited by the job that sent it. *)
AwaitedBy(r, j) ==
  /\ job[j].pc = Awaiting[r.kind]
  /\ r.phone = PhoneOfJob(j)
  /\ r.kind = "sync" => j[2] = "run" /\ r.sales \subseteq job[j].todo

Owners ==
  \A s \in Slots : req[s] # None /\ req[s].owner # None => AwaitedBy(req[s], req[s].owner)

(* A job awaits one request at a time. *)
OneEach ==
  \A s, u \in Slots : req[s] # None /\ req[u] # None /\ req[s].owner # None
                        /\ req[s].owner = req[u].owner => s = u

AwaitsFit == Orphaned /\ Batches /\ Owners /\ OneEach

(* How a phone's step moves requests and jobs together: it sends one, ... *)
Fresh(r, j) ==
  /\ r.owner = j /\ r.phone = PhoneOfJob(j) /\ r.stage = "sent"
  /\ r.kind \in {"bind", "sync", "check", "approve"}
  /\ r.ok = {} /\ r.bad = {}

Sends(j, r, q) ==
  /\ Send(r) /\ Set(j, q) /\ Fresh(r, j)
  /\ job[j].pc \notin AwaitingPcs
  /\ q.pc = Awaiting[r.kind]
  /\ r.sales # {} => r.kind = "sync"
  /\ r.kind = "sync" => /\ Collect(j[1]) /\ j[2] = "run"
                         /\ r.sales \subseteq q.todo /\ q.todo = ToSend(PhoneOf[j[1]])

(* ... consumes an answer, ... *)
Consumes(j, s, q) == Consume(s) /\ Set(j, q) /\ req[s] # None /\ req[s].owner = j

(* ... consumes one and sends the next batch, ... *)
SendsNext(t, s, c) ==
  LET j == <<t, "run">> IN
  /\ ChunkAnswered(t, s)
  /\ c \subseteq job[j].todo \ req[s].sales
  /\ req' = [req EXCEPT ![s] = SyncRequest(j, c, job[j].secret)]
  /\ Set(j, [job[j] EXCEPT !.todo = @ \ req[s].sales])

(* ... gives requests up, ... *)
GivesUp(js) == Abandon(js) /\ \A k \in Jobs \ js : job'[k] = job[k]

(* ... or none of these. *)
GoesOn(j) == UNCHANGED req /\ job[j].pc \notin AwaitingPcs /\ \A k \in Jobs \ {j} : job'[k] = job[k]

PhoneMoves ==
  \/ UNCHANGED <<req, job>>
  \/ \E j \in Jobs : GoesOn(j)
  \/ \E j \in Jobs, r \in Request, q \in Job : Sends(j, r, q)
  \/ \E j \in Jobs, s \in Slots, q \in Job : Consumes(j, s, q)
  \/ \E t \in Tabs, s \in Slots, c \in SUBSET Sales : SendsNext(t, s, c)
  \/ \E js \in SUBSET Jobs : GivesUp(js)

(* The first request of a job. *)
LEMMA NewIsFresh ==
  ASSUME NEW j, NEW k \in {"bind", "sync", "check", "approve"}, NEW z
  PROVE  Fresh(NewRequest(j, k, z), j) /\ NewRequest(j, k, z).kind = k
         /\ NewRequest(j, k, z).sales = {}
BY DEF Fresh, NewRequest, PhoneOfJob

(* A bind request. *)
LEMMA RegisterIsFresh ==
  ASSUME NEW j, NEW a
  PROVE  Fresh(RegisterRequest(j, a), j) /\ RegisterRequest(j, a).kind = "bind"
         /\ RegisterRequest(j, a).sales = {}
BY DEF Fresh, NewRequest, RegisterRequest, PhoneOfJob

(* A batch. *)
LEMMA BatchIsFresh ==
  ASSUME NEW j, NEW c, NEW z
  PROVE  Fresh(SyncRequest(j, c, z), j) /\ SyncRequest(j, c, z).kind = "sync"
         /\ SyncRequest(j, c, z).sales = c
BY DEF Fresh, NewRequest, SyncRequest, PhoneOfJob

(* Setting one job leaves the others. *)
LEMMA SetOthers ==
  ASSUME TypeOK, NEW j \in Jobs, NEW q, Set(j, q)
  PROVE  /\ job'[j] = q
         /\ \A k \in Jobs \ {j} : job'[k] = job[k]
BY DEF Set, TypeOK, TillTypeOK

(* Which of these each step of a phone is. *)
LEMMA AskPhoneMoves ==
  ASSUME TypeOK, NEW t \in Tabs,
         \/ StartApproval(t) \/ ApprovalFails(t) \/ StartCheck(t) \/ CheckFails(t)
         \/ \E s \in Slots : ApprovalAnswered(t, s) \/ ApprovalRefused(t, s) \/ CheckAnswered(t, s)
  PROVE  PhoneMoves
<1> USE JobsOfTab, IdleType
<1>1. CASE StartApproval(t)
  <2> DEFINE j == <<t, "approve">>
             r == NewRequest(j, "approve", 0)
             q == [Idle EXCEPT !.pc = "approving"]
  <2>1. r \in Request /\ Fresh(r, j) /\ r.kind = "approve" /\ r.sales = {}
    BY NewRequestType, NoSecret, NewIsFresh
  <2>2. q \in Job /\ q.pc = "approving"
    BY DEF Idle, Job
  <2>3. Send(r) /\ Set(j, q) /\ job[j].pc = "idle"
    BY <1>1 DEF StartApproval
  <2>4. Sends(j, r, q)
    BY <2>1, <2>2, <2>3 DEF Sends, Awaiting, AwaitingPcs
  <2> QED BY <2>1, <2>2, <2>4 DEF PhoneMoves
<1>2. CASE StartCheck(t)
  <2> DEFINE j == <<t, "check">>
             r == NewRequest(j, "check", 0)
             q == [Idle EXCEPT !.pc = "checking", !.asg = binding[PhoneOf[t]]]
  <2>1. r \in Request /\ Fresh(r, j) /\ r.kind = "check" /\ r.sales = {}
    BY NewRequestType, NoSecret, NewIsFresh
  <2>2. q \in Job /\ q.pc = "checking"
    BY NetAssumption DEF Idle, Job, TypeOK, TillTypeOK
  <2>3. Send(r) /\ Set(j, q) /\ job[j].pc = "idle"
    BY <1>2 DEF StartCheck
  <2>4. Sends(j, r, q)
    BY <2>1, <2>2, <2>3 DEF Sends, Awaiting, AwaitingPcs
  <2> QED BY <2>1, <2>2, <2>4 DEF PhoneMoves
<1>3. CASE ApprovalFails(t) \/ CheckFails(t)
  <2>1. PICK j \in Jobs : Abandon({j}) /\ Set(j, Idle)
    BY <1>3 DEF ApprovalFails, CheckFails, GiveUp
  <2>2. GivesUp({j})
    BY <2>1, SetOthers DEF GivesUp
  <2> QED BY <2>2 DEF PhoneMoves
<1>4. ASSUME NEW s \in Slots, ApprovalAnswered(t, s) \/ ApprovalRefused(t, s) \/ CheckAnswered(t, s)
      PROVE  PhoneMoves
  <2>1. CASE ApprovalAnswered(t, s) \/ ApprovalRefused(t, s)
    BY <2>1 DEF ApprovalAnswered, ApprovalRefused, Answered, Consumes, PhoneMoves
  <2>2. CASE CheckAnswered(t, s)
    <3> DEFINE j == <<t, "check">>
    <3>1. [job[j] EXCEPT !.pc = "dropping"] \in Job
      BY DEF TypeOK, TillTypeOK, Job
    <3>2. \E q \in Job : Set(j, q)
      BY <2>2, <3>1 DEF CheckAnswered
    <3> QED BY <2>2, <3>2 DEF CheckAnswered, Answered, Consumes, PhoneMoves
  <2> QED BY <1>4, <2>1, <2>2
<1> QED BY <1>1, <1>2, <1>3, <1>4

(* Registering a binding. *)
LEMMA BindPhoneMoves ==
  ASSUME TypeOK, NEW j \in Jobs,
         DropBinding(j) \/ (\E s \in Slots : JobStep(j, s)) \/ BindFails(j)
  PROVE  PhoneMoves
<1>0. AfterBind(j) \in Job /\ [job[j] EXCEPT !.pc = "dropping"] \in Job
  BY IdleType, NetAssumption DEF AfterBind, Job, TypeOK, TillTypeOK
<1>1. CASE DropBinding(j)
  <2>1. \E q : Set(j, q)
    BY <1>1 DEF DropBinding
  <2> QED BY <1>1, <2>1, SetOthers DEF DropBinding, GoesOn, AwaitingPcs, PhoneMoves
<1>2. ASSUME NEW s \in Slots, JobStep(j, s) PROVE PhoneMoves
  <2>1. Consume(s) /\ req[s] # None /\ req[s].owner = j
    BY <1>2 DEF JobStep, BindAccepted, BindNotApproved, BindRefused, Answered
  <2>2. \E q \in Job : Set(j, q)
    BY <1>0, <1>2, IdleType DEF JobStep, BindAccepted, BindNotApproved, BindRefused
  <2> QED BY <2>1, <2>2 DEF Consumes, PhoneMoves
<1>3. CASE BindFails(j)
  <2>1. GivesUp({j})
    BY <1>3, SetOthers DEF BindFails, GiveUp, GivesUp
  <2> QED BY <2>1 DEF PhoneMoves
<1> QED BY <1>1, <1>2, <1>3

(* A run. *)
LEMMA RunPhoneMoves ==
  ASSUME TypeOK, NEW t \in Tabs,
         \/ StartRun(t) \/ Collect(t) \/ ChunkFails(t)
         \/ \E s \in Slots : ChunkAnswered(t, s) \/ ChunkNotApproved(t, s)
  PROVE  PhoneMoves
<1> DEFINE j == <<t, "run">>
           p == PhoneOf[t]
<1> USE JobsOfTab, IdleType
<1>0. job[j] \in Job /\ p \in Phones
  BY NetAssumption DEF TypeOK, TillTypeOK
<1>1. CASE StartRun(t)
  <2>1. CASE UNCHANGED req /\ Set(j, [Idle EXCEPT !.pc = "collect"])
    BY <1>1, <2>1, SetOthers DEF StartRun, GoesOn, AwaitingPcs, PhoneMoves
  <2>2. CASE pending[p] # None /\ Send(RegisterRequest(j, pending[p]))
             /\ Set(j, [Idle EXCEPT !.pc = "binding", !.asg = pending[p]])
    <3> DEFINE r == RegisterRequest(j, pending[p])
               q == [Idle EXCEPT !.pc = "binding", !.asg = pending[p]]
    <3>1. pending[p] \in Assignments
      BY <1>0, <2>2 DEF TypeOK, TillTypeOK
    <3>2. r \in Request /\ Fresh(r, j) /\ r.kind = "bind" /\ r.sales = {}
      BY <3>1, RegisterType, RegisterIsFresh
    <3>3. q \in Job /\ q.pc = "binding"
      BY <3>1 DEF Idle, Job
    <3>4. Sends(j, r, q)
      BY <1>1, <2>2, <3>2, <3>3 DEF Sends, Awaiting, AwaitingPcs, StartRun
    <3> QED BY <3>2, <3>3, <3>4 DEF PhoneMoves
  <2> QED BY <1>1, <2>1, <2>2 DEF StartRun
<1>2. CASE Collect(t)
  <2> DEFINE todo == ToSend(p)
             q == [job[j] EXCEPT !.pc = "sending", !.todo = todo, !.secret = secret[p]]
  <2>0. job[j].pc = "collect"
    BY <1>2 DEF Collect
  <2>1. CASE EndRun(t) /\ UNCHANGED req
    BY <2>0, <2>1, SetOthers DEF EndRun, GoesOn, AwaitingPcs, PhoneMoves
  <2>2. CASE (\E c \in Chunks(todo) : Send(SyncRequest(j, c, secret[p]))) /\ Set(j, q)
    <3>1. PICK c \in SUBSET todo : Send(SyncRequest(j, c, secret[p]))
      BY <2>2 DEF Chunks
    <3> DEFINE r == SyncRequest(j, c, secret[p])
    <3>2. todo \in SUBSET Sales /\ secret[p] \in Secrets
      BY <1>0 DEF ToSend, TypeOK, TillTypeOK
    <3>3. r \in Request /\ Fresh(r, j) /\ r.kind = "sync" /\ r.sales = c
      <4>1. c \in SUBSET Sales
        BY <3>2
      <4>2. r \in Request
        BY <3>2, <4>1, SyncRequestType
      <4> QED BY <4>2, BatchIsFresh
    <3>4. q \in Job /\ q.pc = "sending" /\ q.todo = todo
      BY <1>0, <3>2 DEF Job
    <3>5. Sends(j, r, q)
      BY <1>2, <2>0, <2>2, <3>1, <3>3, <3>4 DEF Sends, Awaiting, AwaitingPcs
    <3> QED BY <3>3, <3>4, <3>5 DEF PhoneMoves
  <2> QED BY <1>2, <2>1, <2>2 DEF Collect
<1>3. CASE ChunkFails(t)
  <2>1. GivesUp({j})
    BY <1>3, SetOthers DEF ChunkFails, GiveUp, GivesUp, EndRun
  <2> QED BY <2>1 DEF PhoneMoves
<1>4. ASSUME NEW s \in Slots, ChunkNotApproved(t, s) PROVE PhoneMoves
  <2>1. Consumes(j, s, Idle)
    BY <1>4 DEF ChunkNotApproved, Answered, EndRun, Consumes
  <2> QED BY <2>1 DEF PhoneMoves
<1>5. ASSUME NEW s \in Slots, ChunkAnswered(t, s) PROVE PhoneMoves
  <2> DEFINE todo == job[j].todo \ req[s].sales
  <2>1. CASE EndRun(t) /\ Consume(s)
    <3>1. Consumes(j, s, Idle)
      BY <1>5, <2>1 DEF ChunkAnswered, Answered, EndRun, Consumes
    <3> QED BY <3>1 DEF PhoneMoves
  <2>2. CASE (\E c \in Chunks(todo) : req' = [req EXCEPT ![s] = SyncRequest(j, c, job[j].secret)])
             /\ Set(j, [job[j] EXCEPT !.todo = todo])
    <3>1. PICK c \in SUBSET todo : req' = [req EXCEPT ![s] = SyncRequest(j, c, job[j].secret)]
      BY <2>2 DEF Chunks
    <3>2. c \in SUBSET Sales
      BY <1>0 DEF Job
    <3>3. SendsNext(t, s, c)
      BY <1>5, <2>2, <3>1 DEF SendsNext
    <3> QED BY <3>2, <3>3 DEF PhoneMoves
  <2> QED BY <1>5, <2>1, <2>2 DEF ChunkAnswered
<1> QED BY <1>1, <1>2, <1>3, <1>4, <1>5

(* What the POS page does by itself, and a reload. *)
LEMMA PagePhoneMoves ==
  ASSUME TypeOK, NamesFit, NEW t \in Tabs,
         \/ Reload(t)
         \/ SavePending(t)
         \/ \E b \in Barbers : ChooseBarber(t, b)
         \/ \E x \in Sales : Ring(t, x)
  PROVE  PhoneMoves
<1> DEFINE j == <<t, "bind">>
<1> USE JobsOfTab, IdleType
<1>0. job[j] \in Job
  BY DEF TypeOK, TillTypeOK
<1>1. CASE Reload(t)
  <2> DEFINE js == {t} \X {"run", "bind", "check", "approve"}
  <2>1. js \in SUBSET Jobs
    BY DEF Jobs
  <2>2. GivesUp(js)
    BY <1>1 DEF Reload, GivesUp
  <2> QED BY <2>1, <2>2 DEF PhoneMoves
<1>2. CASE SavePending(t)
  <2>1. CASE UNCHANGED req /\ Set(j, Idle)
    BY <1>2, <2>1, SetOthers DEF SavePending, GoesOn, AwaitingPcs, PhoneMoves
  <2>2. CASE Send(RegisterRequest(j, job[j].asg)) /\ Set(j, [job[j] EXCEPT !.pc = "binding"])
    <3> DEFINE r == RegisterRequest(j, job[j].asg)
               q == [job[j] EXCEPT !.pc = "binding"]
    <3>1. job[j].asg \in Assignments
      BY <1>0, <1>2 DEF SavePending, NamesFit, TabsFit, Job
    <3>2. r \in Request /\ Fresh(r, j) /\ r.kind = "bind" /\ r.sales = {}
      BY <3>1, RegisterType, RegisterIsFresh
    <3>3. q \in Job /\ q.pc = "binding"
      BY <1>0 DEF Job
    <3>4. Sends(j, r, q)
      BY <1>2, <2>2, <3>2, <3>3 DEF Sends, Awaiting, AwaitingPcs, SavePending
    <3> QED BY <3>2, <3>3, <3>4 DEF PhoneMoves
  <2> QED BY <1>2, <2>1, <2>2 DEF SavePending
<1>3. ASSUME NEW b \in Barbers, ChooseBarber(t, b) PROVE PhoneMoves
  <2>1. \E q : Set(j, q)
    BY <1>3 DEF ChooseBarber
  <2> QED BY <1>3, <2>1, SetOthers DEF ChooseBarber, GoesOn, AwaitingPcs, PhoneMoves
<1>4. ASSUME NEW x \in Sales, Ring(t, x) PROVE PhoneMoves
  BY <1>4 DEF Ring, PhoneMoves
<1> QED BY <1>1, <1>2, <1>3, <1>4

(* So is every step of a phone. *)
LEMMA PhoneStepMoves ==
  ASSUME TypeOK, NamesFit, Phone
  PROVE  PhoneMoves
<1>1. PosTabs \subseteq Tabs
  BY NetAssumption
<1>2. CASE \E j \in Jobs : DropBinding(j) \/ \E s \in Slots : JobStep(j, s)
  BY <1>2, BindPhoneMoves
<1>3. ASSUME NEW t \in Tabs, TabFails(t) PROVE PhoneMoves
  BY <1>3, JobsOfTab, BindPhoneMoves, AskPhoneMoves, RunPhoneMoves DEF TabFails
<1>4. ASSUME NEW t \in Tabs, NEW s \in Slots, TabStep(t, s) PROVE PhoneMoves
  BY <1>4, AskPhoneMoves, RunPhoneMoves DEF TabStep
<1>5. ASSUME NEW t \in Tabs, StartApproval(t) \/ StartRun(t) \/ Collect(t) \/ Reload(t)
      PROVE  PhoneMoves
  BY <1>5, AskPhoneMoves, RunPhoneMoves, PagePhoneMoves
<1>6. ASSUME NEW t \in PosTabs,
             \/ SavePending(t) \/ StartCheck(t)
             \/ \E b \in Barbers : ChooseBarber(t, b)
             \/ \E x \in Sales : Ring(t, x)
      PROVE PhoneMoves
  BY <1>1, <1>6, AskPhoneMoves, PagePhoneMoves
<1>7. ASSUME NEW x \in Sales, ClearRejection(x) PROVE PhoneMoves
  BY <1>7 DEF ClearRejection, PhoneMoves
<1> QED BY <1>2, <1>3, <1>4, <1>5, <1>6, <1>7 DEF Phone, TillNext

(* Nobody awaits what has been answered and consumed, or given up. *)
LEMMA AwaitsPhone ==
  ASSUME TypeOK, NamesFit, AwaitsFit, Phone, Batches'
  PROVE  Orphaned' /\ Owners' /\ OneEach'
<1> USE DEF AwaitsFit, TypeOK, NetTypeOK, TillTypeOK
<1>0. \A s \in Slots : req[s] # None => req[s] \in Request
  OBVIOUS
<1>1. CASE UNCHANGED <<req, job>>
  BY <1>1 DEF Orphaned, Owners, OneEach, AwaitedBy
<1>2. ASSUME NEW j \in Jobs, GoesOn(j) PROVE Orphaned' /\ Owners' /\ OneEach'
  <2>1. ASSUME NEW s \in Slots, req[s] # None, req[s].owner # None
        PROVE  req[s].owner # j /\ req[s].owner \in Jobs
    BY <1>0, <1>2, <2>1 DEF GoesOn, Owners, AwaitedBy, Awaiting, AwaitingPcs, Request
  <2> QED BY <1>2, <2>1 DEF GoesOn, Orphaned, Owners, OneEach, AwaitedBy
<1>3. ASSUME NEW j \in Jobs, NEW r \in Request, NEW q \in Job, Sends(j, r, q)
      PROVE  Orphaned' /\ Owners' /\ OneEach'
  <2>1. ASSUME NEW s \in Slots, req[s] # None, req[s].owner # None
        PROVE  req[s].owner # j /\ req[s].owner \in Jobs
    BY <1>0, <1>3, <2>1 DEF Sends, Owners, AwaitedBy, Awaiting, AwaitingPcs, Request
  <2>2. job'[j] = q /\ \A k \in Jobs \ {j} : job'[k] = job[k]
    BY <1>3, SetOthers DEF Sends
  <2>3. PICK u \in Slots : req[u] = None /\ req' = [req EXCEPT ![u] = r]
    BY <1>3 DEF Sends, Send
  <2>4. req'[u] = r /\ \A s \in Slots \ {u} : req'[s] = req[s]
    BY <2>3
  <2>5. r.owner = j /\ r.stage # "answered" /\ AwaitedBy(r, j)'
    BY <1>3, <2>2 DEF Sends, Fresh, AwaitedBy
  <2>6. ASSUME NEW s \in Slots \ {u}, req'[s] # None, req'[s].owner # None
        PROVE  AwaitedBy(req[s], req[s].owner)'
    BY <2>1, <2>2, <2>4, <2>6 DEF Owners, AwaitedBy
  <2>7. Orphaned'
    BY <2>4, <2>5 DEF Orphaned
  <2>8. Owners'
    BY <2>4, <2>5, <2>6 DEF Owners, AwaitedBy
  <2>9. OneEach'
    BY <2>1, <2>4, <2>5 DEF OneEach
  <2> QED BY <2>7, <2>8, <2>9
<1>4. ASSUME NEW j \in Jobs, NEW u \in Slots, NEW q \in Job, Consumes(j, u, q)
      PROVE  Orphaned' /\ Owners' /\ OneEach'
  <2>1. \A k \in Jobs \ {j} : job'[k] = job[k]
    BY <1>4, SetOthers DEF Consumes
  <2>2. req'[u] = None /\ \A s \in Slots \ {u} : req'[s] = req[s]
    BY <1>4 DEF Consumes, Consume
  <2>3. ASSUME NEW s \in Slots \ {u}, req[s] # None, req[s].owner # None
        PROVE  req[s].owner \in Jobs \ {j}
    BY <1>0, <1>4, <2>3 DEF Consumes, OneEach, Request
  <2> QED BY <2>1, <2>2, <2>3 DEF Orphaned, Owners, OneEach, AwaitedBy
<1>5. ASSUME NEW t \in Tabs, NEW u \in Slots, NEW c \in SUBSET Sales, SendsNext(t, u, c)
      PROVE  Orphaned' /\ Owners' /\ OneEach'
  <2>i. PICK j \in Jobs : j = <<t, "run">>
    BY JobsOfTab
  <2>0. req[u] # None /\ req[u].owner = j /\ job[j].pc = "sending"
    BY <1>5, <2>i DEF SendsNext, ChunkAnswered, Answered
  <2>1. /\ job'[j] = [job[j] EXCEPT !.todo = @ \ req[u].sales]
        /\ \A k \in Jobs \ {j} : job'[k] = job[k]
    BY <1>5, <2>0, <2>i, SetOthers DEF SendsNext
  <2>2. job'[j].pc = "sending" /\ c \subseteq job'[j].todo
    <3>1. job[j] \in Job
      BY <2>0
    <3> QED BY <1>5, <2>0, <2>1, <2>i, <3>1 DEF Job, SendsNext
  <2>a. SyncRequest(j, c, job[j].secret) \in Request
    BY <2>0, SyncRequestType DEF Job
  <2>q. PICK r \in Request : r = SyncRequest(j, c, job[j].secret)
    BY <2>a
  <2>3. req'[u] = r /\ \A s \in Slots \ {u} : req'[s] = req[s]
    BY <1>5, <2>i, <2>q DEF SendsNext
  <2>4. Fresh(r, j) /\ r.kind = "sync" /\ r.sales = c
    BY <2>q, BatchIsFresh
  <2>5. r.owner = j /\ r.stage # "answered" /\ AwaitedBy(r, j)'
    <3>1. j[2] = "run" /\ Awaiting["sync"] = "sending"
      BY <2>i DEF Awaiting
    <3> QED BY <2>2, <2>4, <3>1 DEF Fresh, AwaitedBy
  <2>6. ASSUME NEW s \in Slots \ {u}, req[s] # None, req[s].owner # None
        PROVE  req[s].owner \in Jobs \ {j}
    BY <1>0, <2>0, <2>6 DEF OneEach, Request
  <2>b. ASSUME NEW s \in Slots \ {u}, req'[s] # None, req'[s].owner # None
        PROVE  AwaitedBy(req[s], req[s].owner)'
    BY <2>1, <2>3, <2>6, <2>b DEF Owners, AwaitedBy
  <2>7. Orphaned'
    BY <2>3, <2>5 DEF Orphaned
  <2>8. Owners'
    BY <2>3, <2>5, <2>b DEF Owners, AwaitedBy
  <2>9. OneEach'
    BY <2>3, <2>5, <2>6 DEF OneEach
  <2> QED BY <2>7, <2>8, <2>9
<1>6. ASSUME NEW js \in SUBSET Jobs, GivesUp(js)
      PROVE  Orphaned' /\ Owners' /\ OneEach'
  <2>1. ASSUME NEW s \in Slots, req'[s] # None
        PROVE  /\ req[s] # None /\ req[s] \in Request
               /\ \/ req[s].owner \notin js /\ req'[s] = req[s]
                  \/ /\ req[s].owner \in js /\ req[s].stage # "answered"
                     /\ req'[s] = [req[s] EXCEPT !.owner = None]
    BY <1>0, <1>6, <2>1 DEF GivesUp, Abandon
  <2>2. ASSUME NEW s \in Slots, req'[s] # None, req[s].owner \in js
        PROVE  req'[s].owner = None /\ req'[s].stage # "answered"
    BY <2>1, <2>2 DEF Request
  <2>3. Orphaned'
    BY <2>1, <2>2 DEF Orphaned
  <2>4. ASSUME NEW s \in Slots, req'[s] # None, req'[s].owner # None
        PROVE  req'[s] = req[s] /\ req[s].owner \in Jobs \ js
    BY <2>1, <2>2, <2>4 DEF Request
  <2>5. Owners'
    BY <1>6, <2>1, <2>4 DEF Owners, AwaitedBy, GivesUp
  <2>6. OneEach'
    BY <2>1, <2>4 DEF OneEach
  <2> QED BY <2>3, <2>5, <2>6
<1> QED BY <1>1, <1>2, <1>3, <1>4, <1>5, <1>6, PhoneStepMoves DEF PhoneMoves

(* A batch names sales of a run. *)
LEMMA BatchesStep ==
  ASSUME TypeOK, NamesFit, Batches, [Next]_vars
  PROVE  Batches'
<1> USE DEF TypeOK, NetTypeOK, TillTypeOK
<1>1. \A j \in Jobs : job'[j].todo # {} => j[2] = "run"
  <2>1. Moves
    BY StepMoves
  <2> QED BY <2>1 DEF Moves, TodoMoves, Batches
<1>2. \A s \in Slots : req[s] # None => req[s] \in Request
  OBVIOUS
<1> DEFINE Good == \A s \in Slots : req'[s] # None /\ req'[s].sales # {} => req'[s].kind = "sync"
<1>3. ASSUME UNCHANGED req PROVE Good
  BY <1>3 DEF Batches
<1>4. ASSUME Phone PROVE Good
  <2>1. ASSUME NEW j \in Jobs, NEW r \in Request, NEW q \in Job, Sends(j, r, q) PROVE Good
    BY <2>1 DEF Sends, Send, Batches
  <2>2. ASSUME NEW u \in Slots, Consume(u) PROVE Good
    BY <2>2 DEF Consume, Batches
  <2>3. ASSUME NEW t \in Tabs, NEW u \in Slots, NEW c \in SUBSET Sales, SendsNext(t, u, c)
        PROVE  Good
    BY <2>3, BatchIsFresh DEF SendsNext, Batches
  <2>4. ASSUME NEW js \in SUBSET Jobs, Abandon(js) PROVE Good
    <3> SUFFICES ASSUME NEW s \in Slots, req'[s] # None, req'[s].sales # {}
                 PROVE  req'[s].kind = "sync"
      OBVIOUS
    <3> QED BY <1>2, <2>4 DEF Abandon, Batches, Request
  <2> QED BY <1>3, <1>4, <2>1, <2>2, <2>3, <2>4, PhoneStepMoves
          DEF PhoneMoves, GoesOn, Consumes, GivesUp
<1>5. ASSUME Server PROVE Good
  <2>1. ASSUME NEW u \in Slots, Handler(u) PROVE Good
    <3>1. PICK r : SameRequest(r, req[u]) /\ Handle(u, r) /\ req[u] # None
      BY <2>1, HandlerMoves
    <3> QED BY <3>1 DEF Handle, SameRequest, Batches
  <2> QED BY <1>3, <1>5, <2>1 DEF Server, ServerNext, Owner, RevokeDevice, Deactivate, SwitchGateway
<1>6. ASSUME Network PROVE Good
  BY <1>6 DEF Network, Lose, Consume, Batches
<1>7. Good
  BY <1>3, <1>4, <1>5, <1>6 DEF Next, vars
<1> QED BY <1>1, <1>7 DEF Batches

(* Every step keeps who awaits what. *)
LEMMA AwaitsStep ==
  ASSUME TypeOK, NamesFit, AwaitsFit, [Next]_vars
  PROVE  AwaitsFit'
<1> DEFINE Good == Orphaned' /\ Owners' /\ OneEach'
<1> USE DEF AwaitsFit, TypeOK, NetTypeOK
<1>0. Batches'
  BY BatchesStep
<1>1. ASSUME UNCHANGED <<req, job>> PROVE Good
  BY <1>1 DEF Orphaned, Owners, OneEach, AwaitedBy
<1>2. ASSUME NEW u \in Slots, Handler(u), UNCHANGED job PROVE Good
  <2>1. PICK r : SameRequest(r, req[u]) /\ Handle(u, r) /\ req[u] # None
    BY <1>2, HandlerMoves
  <2>2. req'[u] = (IF r.stage = "answered" /\ r.owner = None THEN None ELSE r)
        /\ \A s \in Slots \ {u} : req'[s] = req[s]
    BY <2>1 DEF Handle
  <2>3. Orphaned'
    BY <2>2 DEF Orphaned
  <2>4. ASSUME NEW s \in Slots, req'[s] # None
        PROVE  req[s] # None /\ SameRequest(req'[s], req[s])
    BY <2>1, <2>2, <2>4 DEF SameRequest
  <2>5. Owners'
    BY <1>2, <2>4 DEF Owners, AwaitedBy, SameRequest
  <2>6. OneEach'
    BY <2>4 DEF OneEach, SameRequest
  <2> QED BY <2>3, <2>5, <2>6
<1>3. ASSUME NEW u \in Slots, Consume(u), UNCHANGED job PROVE Good
  BY <1>3 DEF Consume, Orphaned, Owners, OneEach, AwaitedBy
<1>4. CASE UNCHANGED vars
  BY <1>0, <1>1, <1>4 DEF vars, tillVars
<1>5. CASE Phone
  BY <1>0, <1>5, AwaitsPhone
<1>6. CASE Server
  BY <1>0, <1>1, <1>2, <1>6
  DEF Server, ServerNext, Owner, RevokeDevice, Deactivate, SwitchGateway, tillVars
<1>7. CASE Network
  BY <1>0, <1>3, <1>7 DEF Network, Lose, tillVars
<1> QED BY <1>4, <1>5, <1>6, <1>7 DEF Next

-----------------------------------------------------------------------------
(* What a sync handler decides. *)

(* Only a sale whose own data the database refuses is rejected while it is
   recorded: phones, rows and sales fit together. *)
LEMMA RejectedIsBad ==
  ASSUME TypeOK, NamesFit, AnswersTrue, NEW s \in Slots, req[s] # None,
         NEW x \in req[s].sales, rung[x].asg = None \/ rung[x].asg \in req[s].found
  PROVE  Rejected(req[s], x) <=> x \in BadSales /\ sale[x] = None
<1>1. req[s] \in Request /\ x \in Sales
  BY DEF TypeOK, NetTypeOK, Request
<1>2. rung[x] # None /\ rung[x].phone = req[s].phone /\ rung[x] \in Sale
  BY <1>1 DEF NamesFit, RequestsFit, RungOn, TypeOK, NetTypeOK
<1>3. ASSUME rung[x].asg # None PROVE row[rung[x].asg].phone = rung[x].phone
  <2>1. rung[x].asg \in Assignments /\ row[rung[x].asg] # None
    BY <1>1, <1>2, <1>3 DEF Sale, AnswersTrue
  <2>2. minted[rung[x].asg] = [phone |-> rung[x].phone, barber |-> rung[x].barber]
    BY <1>1, <1>2, <1>3 DEF NamesFit, SalesFit
  <2>3. minted[rung[x].asg] = [phone |-> row[rung[x].asg].phone, barber |-> row[rung[x].asg].barber]
    BY <2>1 DEF NamesFit, RowsFit
  <2>4. minted[rung[x].asg].phone = rung[x].phone
    BY <2>2
  <2>5. minted[rung[x].asg].phone = row[rung[x].asg].phone
    BY <2>3
  <2> QED BY <2>4, <2>5
<1> QED BY <1>2, <1>3 DEF Rejected

(* The request after a step of its handler: loaded, moved on, or one more of its
   sales decided. *)
Loads(q, r) ==
  /\ q.stage = "sent" /\ UNCHANGED sale
  /\ r.ok = Known(q) /\ r.bad = NeedsGateway(q)
  /\ r.stage = "recording" => AssignmentsOf(q.sales \ r.ok) \subseteq r.found

Passes(q, r) ==
  /\ r.ok = q.ok /\ r.bad = q.bad /\ UNCHANGED sale /\ q.stage # "answered"
  /\ q.stage = "sent" => r.stage = "answered"
  /\ r.stage = "recording" => AssignmentsOf(q.sales \ r.ok) \subseteq r.found

Records(q, r, x) ==
  /\ q.stage = "recording" /\ x \in q.sales \ (q.ok \cup q.bad) /\ r.found = q.found
  /\ \/ Rejected(q, x) /\ r.ok = q.ok /\ r.bad = q.bad \cup {x} /\ UNCHANGED sale
     \/ /\ ~ Rejected(q, x) /\ r.ok = q.ok \cup {x} /\ r.bad = q.bad
        /\ \A y \in Sales \ {x} : sale'[y] = sale[y]
        /\ sale[x] # None => sale'[x] = sale[x]

SyncMoves(q, r) == SameRequest(r, q) /\ r.stage # "sent"
                   /\ (Loads(q, r) \/ Passes(q, r) \/ \E x \in Sales : Records(q, r, x))

(* Every handler of a batch moves so, and the gateway stays as it is. *)
LEMMA SyncHandlerMoves ==
  ASSUME TypeOK, NamesFit, NEW u \in Slots, Handler(u), req[u].kind = "sync"
  PROVE  UNCHANGED gatewayOn /\ \E r : Handle(u, r) /\ SyncMoves(req[u], r)
<1> DEFINE q == req[u]
           Good == \E r : Handle(u, r) /\ SyncMoves(req[u], r)
<1>1. q \in Request /\ q # None
  BY HandlerMoves
<1>w. ASSUME NEW r, Handle(u, r), SameRequest(r, q), r.stage # "sent",
             Loads(q, r) \/ Passes(q, r) \/ \E x \in Sales : Records(q, r, x)
      PROVE  Good
  BY <1>w DEF SyncMoves
<1> HIDE DEF Good
<1>2. CASE RefuseUnapproved(u)
  <2> DEFINE r == [q EXCEPT !.stage = "answered", !.answer = "notApproved"]
  <2>1. SameRequest(r, q) /\ r.ok = q.ok /\ r.bad = q.bad /\ r.stage = "answered"
    BY <1>1 DEF Request, SameRequest
  <2>2. Handle(u, r) /\ UNCHANGED <<sale, gatewayOn>> /\ q.stage # "answered"
    BY <1>2 DEF RefuseUnapproved, Answer, serverVars, At
  <2>3. Passes(q, r)
    BY <2>1, <2>2 DEF Passes
  <2> HIDE DEF r
  <2> QED BY <1>w, <2>1, <2>2, <2>3 DEF Good
<1>3. CASE SyncLoad(u)
  <2> DEFINE named == AssignmentsOf(q.sales \ Known(q))
             found == {a \in named : row[a] # None}
             loaded == [q EXCEPT !.ok = Known(q), !.bad = NeedsGateway(q), !.found = found]
  <2>0. found \in SUBSET Assignments
    BY <1>1, BatchNames
  <2>1. loaded \in Request
    BY <1>1, <2>0 DEF Request, Known, NeedsGateway
  <2>2. SameRequest(loaded, q) /\ loaded.ok = Known(q) /\ loaded.bad = NeedsGateway(q)
        /\ loaded.found = found
    BY <1>1 DEF Request, SameRequest
  <2>3. q.stage = "sent" /\ UNCHANGED <<sale, gatewayOn>>
    BY <1>3 DEF SyncLoad, At, serverVars
  <2>4. PICK r : /\ Handle(u, r)
                 /\ \/ r = Finish(loaded) /\ named = found
                    \/ r = [loaded EXCEPT !.stage = "loaded"]
    BY <1>3 DEF SyncLoad
  <2> HIDE DEF loaded
  <2>5. CASE r = Finish(loaded) /\ named = found
    <3>1. SameRequest(r, q) /\ r.ok = Known(q) /\ r.bad = NeedsGateway(q) /\ r.found = named
          /\ r.stage # "sent"
      BY <2>1, <2>2, <2>5, FinishSame DEF SameRequest
    <3>2. Loads(q, r)
      BY <2>3, <3>1 DEF Loads
    <3> QED BY <1>w, <2>3, <2>4, <3>1, <3>2 DEF Good
  <2>6. CASE r = [loaded EXCEPT !.stage = "loaded"]
    <3>1. SameRequest(r, q) /\ r.ok = Known(q) /\ r.bad = NeedsGateway(q) /\ r.stage = "loaded"
      BY <2>1, <2>2, <2>6 DEF SameRequest, Request
    <3>2. Loads(q, r)
      BY <2>3, <3>1 DEF Loads
    <3> QED BY <1>w, <2>3, <2>4, <3>1, <3>2 DEF Good
  <2> QED BY <2>4, <2>5, <2>6
<1>4. CASE SyncRegister(u)
  <2> DEFINE named == AssignmentsOf(q.sales \ q.ok)
             moved == [q EXCEPT !.found = named]
  <2>0. named \in SUBSET Assignments
    BY <1>1, BatchNames
  <2>1. moved \in Request /\ SameRequest(moved, q) /\ moved.ok = q.ok /\ moved.bad = q.bad
        /\ moved.found = named
    BY <1>1, <2>0 DEF Request, SameRequest
  <2>2. Handle(u, Finish(moved)) /\ UNCHANGED <<sale, gatewayOn>> /\ q.stage = "loaded"
    BY <1>4 DEF SyncRegister, At
  <2> HIDE DEF moved
  <2> DEFINE r == Finish(moved)
  <2>3. SameRequest(r, q) /\ r.ok = q.ok /\ r.bad = q.bad /\ r.found = named /\ r.stage # "sent"
    BY <2>1, FinishSame DEF SameRequest
  <2> HIDE DEF r
  <2>4. Passes(q, r)
    BY <2>2, <2>3 DEF Passes
  <2>5. Handle(u, r)
    BY <2>2 DEF r
  <2> QED BY <1>w, <2>2, <2>3, <2>4, <2>5 DEF Good
<1>5. ASSUME NEW x \in Sales, SyncRecord(u, x) PROVE UNCHANGED gatewayOn /\ Good
  <2> DEFINE b == [q EXCEPT !.bad = @ \cup {x}]
             k == [q EXCEPT !.ok = @ \cup {x}]
  <2>1. /\ b \in Request /\ SameRequest(b, q) /\ b.ok = q.ok /\ b.bad = q.bad \cup {x} /\ b.found = q.found
        /\ k \in Request /\ SameRequest(k, q) /\ k.bad = q.bad /\ k.ok = q.ok \cup {x} /\ k.found = q.found
    BY <1>1 DEF Request, SameRequest
  <2>2. UNCHANGED gatewayOn /\ q.stage = "recording" /\ x \in q.sales \ (q.ok \cup q.bad)
    BY <1>5 DEF SyncRecord, At
  <2>3. \/ Rejected(q, x) /\ Handle(u, Finish(b)) /\ UNCHANGED sale
        \/ /\ ~ Rejected(q, x) /\ Handle(u, Finish(k))
           /\ \A y \in Sales \ {x} : sale'[y] = sale[y]
           /\ sale[x] # None => sale'[x] = sale[x]
    BY <1>5 DEF SyncRecord, TypeOK, ServerTypeOK
  <2> HIDE DEF b, k
  <2>4. CASE Rejected(q, x) /\ Handle(u, Finish(b)) /\ UNCHANGED sale
    <3> DEFINE r == Finish(b)
    <3>1. SameRequest(r, q) /\ r.ok = q.ok /\ r.bad = q.bad \cup {x} /\ r.found = q.found
          /\ r.stage # "sent"
      BY <2>1, FinishSame DEF SameRequest
    <3> HIDE DEF r
    <3>2. Records(q, r, x)
      BY <2>2, <2>4, <3>1 DEF Records
    <3>3. Handle(u, r)
      BY <2>4 DEF r
    <3> QED BY <1>w, <2>2, <3>1, <3>2, <3>3
  <2>5. CASE ~ Rejected(q, x) /\ Handle(u, Finish(k))
             /\ (\A y \in Sales \ {x} : sale'[y] = sale[y])
             /\ (sale[x] # None => sale'[x] = sale[x])
    <3> DEFINE r == Finish(k)
    <3>1. SameRequest(r, q) /\ r.bad = q.bad /\ r.ok = q.ok \cup {x} /\ r.found = q.found
          /\ r.stage # "sent"
      BY <2>1, FinishSame DEF SameRequest
    <3> HIDE DEF r
    <3>2. Records(q, r, x)
      BY <2>2, <2>5, <3>1 DEF Records
    <3>3. Handle(u, r)
      BY <2>5 DEF r
    <3> QED BY <1>w, <2>2, <3>1, <3>2, <3>3
  <2> QED BY <2>3, <2>4, <2>5
<1>6. RefuseUnapproved(u) \/ SyncLoad(u) \/ SyncRegister(u) \/ \E x \in Sales : SyncRecord(u, x)
  BY DEF Handler, BindExisting, BindLookup, BindInactive, BindCreate, BindLostRace,
         CheckBinding, ApproveDevice, WrongPin, At
<1> QED BY <1>2, <1>3, <1>4, <1>5, <1>6 DEF Good

-----------------------------------------------------------------------------
(* What the requests under way say, once their batch is being recorded. *)
Decided(r) ==
  /\ r.stage = "sent" => r.bad = {}
  /\ r.stage = "recording" => AssignmentsOf(r.sales \ (r.ok \cup r.bad)) \subseteq r.found
  /\ r.stage \notin {"sent", "answered"} /\ ~ gatewayOn
       => r.sales \cap QrphSales \subseteq r.ok \cup r.bad
  /\ r.bad \subseteq BadSales \cup QrphSales

RecordsFit == \A s \in Slots : req[s] # None /\ req[s].kind = "sync" => Decided(req[s])

(* A request as it was, though perhaps no longer awaited. *)
Kept(r, q) ==
  /\ r.kind = q.kind /\ r.phone = q.phone /\ r.sales = q.sales /\ r.stage = q.stage
  /\ r.ok = q.ok /\ r.bad = q.bad /\ r.found = q.found
  /\ r.owner \in {q.owner, None}

(* A batch is sent anew by a run that has just collected it, or by one that has
   consumed the answer in the same slot. *)
NewBatch(s, x) ==
  \/ \E t \in Tabs : Collect(t) /\ x \in ToSend(PhoneOf[t])
  \/ \E t \in Tabs : ChunkAnswered(t, s) /\ x \in job[<<t, "run">>].todo \ req[s].sales

NewIn(s) ==
  /\ Fresh(req'[s], req'[s].owner)
  /\ req[s] = None \/ \E t \in Tabs : ChunkAnswered(t, s)
  /\ \A x \in req'[s].sales : NewBatch(s, x)

(* A phone's step leaves a request as it was, or it is new. *)
LEMMA PhoneSlots ==
  ASSUME TypeOK, NamesFit, Phone, NEW s \in Slots, req'[s] # None
  PROVE  (req[s] # None /\ Kept(req'[s], req[s])) \/ NewIn(s)
<1> DEFINE Good == (req[s] # None /\ Kept(req'[s], req[s])) \/ NewIn(s)
<1> USE DEF TypeOK, NetTypeOK
<1>1. ASSUME req'[s] = req[s] PROVE Good
  BY <1>1 DEF Kept
<1>2. ASSUME NEW j \in Jobs, NEW r \in Request, NEW q \in Job, Sends(j, r, q) PROVE Good
  <2>1. Fresh(r, r.owner)
    BY <1>2 DEF Sends, Fresh
  <2>2. (req[s] = None /\ req'[s] = r) \/ req'[s] = req[s]
    BY <1>2 DEF Sends, Send
  <2>3. \A x \in r.sales : NewBatch(s, x)
    BY <1>2 DEF Sends, NewBatch, Jobs
  <2>4. CASE req[s] = None /\ req'[s] = r
    BY <2>1, <2>3, <2>4 DEF NewIn
  <2> QED BY <1>1, <2>2, <2>4
<1>3. ASSUME NEW u \in Slots, Consume(u) PROVE Good
  BY <1>1, <1>3 DEF Consume
<1>4. ASSUME NEW t \in Tabs, NEW u \in Slots, NEW c \in SUBSET Sales, SendsNext(t, u, c)
      PROVE  Good
  <2> DEFINE r == SyncRequest(<<t, "run">>, c, job[<<t, "run">>].secret)
  <2>1. Fresh(r, r.owner) /\ r.sales = c
    BY BatchIsFresh DEF Fresh
  <2>2. (s = u /\ req'[s] = r) \/ req'[s] = req[s]
    BY <1>4 DEF SendsNext
  <2>3. ChunkAnswered(t, u) /\ c \subseteq job[<<t, "run">>].todo \ req[u].sales
    BY <1>4 DEF SendsNext
  <2> HIDE DEF r
  <2>4. CASE s = u /\ req'[s] = r
    BY <2>1, <2>3, <2>4 DEF NewIn, NewBatch
  <2> QED BY <1>1, <2>2, <2>4
<1>5. ASSUME NEW js \in SUBSET Jobs, GivesUp(js) PROVE Good
  <2>1. req[s] # None /\ req[s] \in Request
    BY <1>5 DEF GivesUp, Abandon
  <2>2. req'[s] = req[s] \/ req'[s] = [req[s] EXCEPT !.owner = None]
    BY <1>5 DEF GivesUp, Abandon
  <2> QED BY <2>1, <2>2 DEF Kept, Request
<1> QED BY <1>1, <1>2, <1>3, <1>4, <1>5, PhoneStepMoves DEF PhoneMoves, GoesOn, Consumes

(* What a batch names stays the same. *)
LEMMA NamesStay ==
  ASSUME TypeOK, NamesFit, Grows, NEW s \in Slots, req[s] # None, NEW xs \in SUBSET req[s].sales
  PROVE  AssignmentsOf(xs)' = AssignmentsOf(xs)
<1>1. \A x \in xs : rung'[x] = rung[x]
  BY DEF NamesFit, RequestsFit, RungOn, TypeOK, NetTypeOK, Request, Grows
<1> QED BY <1>1 DEF AssignmentsOf

(* A request kept as it was stays decided, while the gateway is as it was or
   the request is none that a restart cuts off. *)
LEMMA KeptDecided ==
  ASSUME TypeOK, NamesFit, Grows, NEW s \in Slots, req[s] # None, Decided(req[s]),
         NEW r, Kept(r, req[s]),
         gatewayOn' = gatewayOn \/ req[s].stage \in {"sent", "answered"}
  PROVE  Decided(r)'
<1>1. req[s].sales \ (req[s].ok \cup req[s].bad) \in SUBSET req[s].sales
  OBVIOUS
<1>2. PICK xs \in SUBSET req[s].sales : xs = req[s].sales \ (req[s].ok \cup req[s].bad)
  BY <1>1
<1>3. AssignmentsOf(xs)' = AssignmentsOf(xs)
  BY NamesStay
<1> QED BY <1>2, <1>3 DEF Kept, Decided

(* Recording a sale leaves what was said of the others. *)
LEMMA SyncDecided ==
  ASSUME IInv, NEW u \in Slots, req[u] # None, req[u].kind = "sync", Decided(req[u]), Grows,
         NEW r, SyncMoves(req[u], r), UNCHANGED gatewayOn
  PROVE  Decided(r)'
<1> DEFINE q == req[u]
<1> USE DEF IInv
<1>0. q \in Request /\ q.ok \cup q.bad \subseteq q.sales /\ r.sales = q.sales
  BY DEF TypeOK, NetTypeOK, AnswersTrue, SyncMoves, SameRequest
<1>a. ASSUME NEW xs \in SUBSET q.sales PROVE AssignmentsOf(xs)' = AssignmentsOf(xs)
  BY <1>a, NamesStay
<1>b. \A xs, ys : xs \subseteq ys => AssignmentsOf(xs) \subseteq AssignmentsOf(ys)
  BY DEF AssignmentsOf
<1>1. r.sales \ (r.ok \cup r.bad) \in SUBSET q.sales
  BY <1>0
<1>2. PICK xs \in SUBSET q.sales : xs = r.sales \ (r.ok \cup r.bad)
  BY <1>1
<1>3. r.stage = "recording" => AssignmentsOf(xs) \subseteq r.found
  <2>1. CASE Loads(q, r) \/ Passes(q, r)
    BY <1>0, <1>b, <1>2, <2>1 DEF Loads, Passes
  <2>2. ASSUME NEW x, Records(q, r, x) PROVE AssignmentsOf(xs) \subseteq r.found
    <3>1. AssignmentsOf(q.sales \ (q.ok \cup q.bad)) \subseteq q.found
      BY <2>2 DEF Records, Decided
    <3>2. xs \subseteq q.sales \ (q.ok \cup q.bad)
      BY <1>0, <1>2, <2>2 DEF Records
    <3> QED BY <1>b, <2>2, <3>1, <3>2 DEF Records
  <2> QED BY <2>1, <2>2 DEF SyncMoves
<1>4. r.stage \notin {"sent", "answered"} /\ ~ gatewayOn => r.sales \cap QrphSales \subseteq r.ok \cup r.bad
  <2>1. CASE Loads(q, r)
    BY <1>0, <2>1 DEF Loads, Known, NeedsGateway
  <2>2. CASE Passes(q, r)
    <3>1. r.stage \notin {"sent", "answered"} => q.stage \notin {"sent", "answered"}
      BY <2>2 DEF Passes, SyncMoves
    <3> QED BY <1>0, <2>2, <3>1 DEF Passes, Decided
  <2>3. ASSUME NEW x, Records(q, r, x)
        PROVE ~ gatewayOn => r.sales \cap QrphSales \subseteq r.ok \cup r.bad
    BY <1>0, <2>3 DEF Records, Decided
  <2> QED BY <2>1, <2>2, <2>3 DEF SyncMoves
<1>5. r.bad \subseteq BadSales \cup QrphSales
  <2>1. CASE Loads(q, r)
    BY <2>1 DEF Loads, NeedsGateway
  <2>2. CASE Passes(q, r)
    BY <2>2 DEF Passes, Decided
  <2>3. ASSUME NEW x, Records(q, r, x) PROVE r.bad \subseteq BadSales \cup QrphSales
    <3>1. rung[x].asg = None \/ rung[x].asg \in q.found
      BY <2>3 DEF Records, Decided, AssignmentsOf
    <3>2. Rejected(q, x) => x \in BadSales
      BY <2>3, <3>1, RejectedIsBad DEF Records
    <3> QED BY <2>3, <3>2 DEF Records, Decided
  <2> QED BY <2>1, <2>2, <2>3 DEF SyncMoves
<1>6. AssignmentsOf(xs)' = AssignmentsOf(xs)
  BY <1>a
<1>7. r.stage # "sent"
  BY DEF SyncMoves
<1> QED BY <1>2, <1>3, <1>4, <1>5, <1>6, <1>7 DEF Decided

(* Every step keeps what the requests say. *)
LEMMA RecordsStep ==
  ASSUME IInv, Orphaned, RecordsFit, [Next]_vars
  PROVE  RecordsFit'
<1> USE DEF IInv
<1>0. Grows
  BY Growth
<1>1. ASSUME NEW s \in Slots, req'[s] # None, req'[s].kind = "sync",
             req[s] # None, Kept(req'[s], req[s]),
             gatewayOn' = gatewayOn \/ req[s].stage \in {"sent", "answered"}
      PROVE  Decided(req[s])'
  <2>1. PICK r : r = req'[s]
    OBVIOUS
  <2>2. Decided(req[s])
    BY <1>1 DEF Kept, RecordsFit
  <2>3. Decided(r)'
    BY <1>0, <1>1, <2>1, <2>2, KeptDecided
  <2> QED BY <2>1, <2>3 DEF Decided
<1>2. CASE UNCHANGED <<req, gatewayOn>>
  BY <1>1, <1>2 DEF Kept, RecordsFit
<1>3. CASE Phone
  <2> SUFFICES ASSUME NEW s \in Slots, req'[s] # None, req'[s].kind = "sync"
               PROVE  Decided(req[s])'
    BY DEF RecordsFit
  <2>1. CASE NewIn(s)
    BY <2>1 DEF NewIn, Fresh, Decided
  <2>2. CASE req[s] # None /\ Kept(req'[s], req[s])
    BY <1>1, <1>3, <2>2 DEF Phone, serverVars
  <2> QED BY <1>3, <2>1, <2>2, PhoneSlots
<1>4. ASSUME NEW u \in Slots, Handler(u) PROVE RecordsFit'
  <2> SUFFICES ASSUME NEW s \in Slots, req'[s] # None, req'[s].kind = "sync"
               PROVE  Decided(req[s])'
    BY DEF RecordsFit
  <2>0. PICK r0 : SameRequest(r0, req[u]) /\ Handle(u, r0) /\ req[u] # None
    BY <1>4, HandlerMoves
  <2>1. CASE s # u
    <3>1. req'[s] = req[s]
      BY <2>0, <2>1 DEF Handle
    <3>2. gatewayOn' = gatewayOn
      BY <1>4 DEF Handler, RefuseUnapproved, BindExisting, BindLookup, BindInactive, BindCreate,
                  BindLostRace, SyncLoad, SyncRegister, SyncRecord, CheckBinding, ApproveDevice,
                  WrongPin, serverVars
    <3> QED BY <1>1, <3>1, <3>2 DEF Kept
  <2>2. CASE s = u
    <3>1. req[u].kind = "sync"
      BY <2>0, <2>2 DEF Handle, SameRequest, TypeOK, NetTypeOK
    <3>2. PICK r : Handle(u, r) /\ SyncMoves(req[u], r) /\ UNCHANGED gatewayOn
      BY <1>4, <3>1, SyncHandlerMoves
    <3>3. Decided(r)'
      BY <1>0, <2>0, <3>1, <3>2, SyncDecided DEF RecordsFit
    <3>4. req'[u] = r
      BY <2>2, <3>2 DEF Handle, TypeOK, NetTypeOK
    <3> QED BY <2>2, <3>3, <3>4 DEF Decided
  <2> QED BY <2>1, <2>2
<1>5. CASE Owner
  <2>1. UNCHANGED req
    BY <1>5 DEF Owner, RevokeDevice, Deactivate, SwitchGateway
  <2>2. \A s \in Slots : req[s] # None =>
          gatewayOn' = gatewayOn \/ req[s].stage \in {"sent", "answered"}
    BY <1>5 DEF Owner, RevokeDevice, Deactivate, SwitchGateway
  <2> QED BY <1>1, <2>1, <2>2 DEF Kept, RecordsFit
<1>6. CASE Network
  <2>1. UNCHANGED gatewayOn /\ \A s \in Slots : req'[s] # None => req'[s] = req[s]
    BY <1>6 DEF Network, Lose, Consume, serverVars, TypeOK, NetTypeOK
  <2> QED BY <1>1, <2>1 DEF Kept, RecordsFit
<1> QED BY <1>2, <1>3, <1>4, <1>5, <1>6 DEF Next, Server, ServerNext, vars, serverVars

-----------------------------------------------------------------------------
(* Refused sales. *)

Refusable(x) == x \in QrphSales /\ sale[x] = None

(* A request that nobody awaits, and that cannot book x before the gateway is
   on again, which takes a restart that cuts the request off. *)
Barred(x, u) == req[u].owner = None /\ ~ gatewayOn /\ (req[u].stage = "sent" \/ x \in req[u].bad)

AllBarred(x, us) == \A u \in us : req[u] # None /\ x \in req[u].sales => Barred(x, u)

BadUnbooked == \A x \in BadSales : sale[x] = None

(* The answer about to be consumed, ... *)
AnswersBar ==
  \A s \in Slots : req[s] # None /\ req[s].owner # None => \A x \in req[s].bad \ BadSales :
    Refusable(x) /\ AllBarred(x, Slots \ {s})

(* ... and the refusal already shown. *)
RefusalsBar ==
  \A x \in Sales \ BadSales : status[x] = "rejected" =>
    Refusable(x) /\ (\A j \in Jobs : x \notin job[j].todo) /\ AllBarred(x, Slots)

RefusedInv == AwaitsFit /\ RecordsFit /\ BadUnbooked /\ AnswersBar /\ RefusalsBar

(* Who awaits a batch is the run of the page of its sales' phone. *)
LEMMA RunOfSale ==
  ASSUME OnePage, IInv, AwaitsFit, NEW s \in Slots, req[s] # None, req[s].owner # None,
         NEW x \in req[s].sales, NEW t \in Tabs, rung[x].phone = PhoneOf[t]
  PROVE  req[s].owner = <<t, "run">> /\ job[<<t, "run">>].pc = "sending"
<1> USE DEF IInv, AwaitsFit
<1>1. req[s] \in Request /\ req[s].owner \in Jobs /\ req[s].kind = "sync"
  BY DEF TypeOK, NetTypeOK, Request, Batches
<1>2. AwaitedBy(req[s], req[s].owner)
  BY DEF Owners
<1>3. rung[x].phone = PhoneOf[req[s].owner[1]] /\ req[s].owner[2] = "run"
  BY <1>1, <1>2 DEF AwaitedBy, NamesFit, RequestsFit, RungOn, PhoneOfJob
<1>4. req[s].owner[1] = t
  BY <1>1, <1>3 DEF OnePage, Jobs
<1>5. Awaiting["sync"] = "sending"
  BY DEF Awaiting
<1> QED BY <1>1, <1>2, <1>3, <1>4, <1>5 DEF AwaitedBy, Jobs

(* So is the run that has a sale still to send. *)
LEMMA RunOfTodo ==
  ASSUME OnePage, IInv, Batches, NEW j \in Jobs, NEW x \in job[j].todo,
         NEW t \in Tabs, rung[x].phone = PhoneOf[t]
  PROVE  j = <<t, "run">>
<1>1. rung[x].phone = PhoneOf[j[1]] /\ j[2] = "run"
  BY DEF IInv, NamesFit, TabsFit, RungOn, PhoneOfJob, Batches
<1>2. j[1] \in Tabs /\ j = <<j[1], j[2]>>
  BY DEF Jobs
<1>3. j[1] = t
  BY <1>1, <1>2 DEF OnePage
<1> QED BY <1>1, <1>2, <1>3

(* The server's handlers do not book a sale whose request has rejected it, or
   is not being recorded. *)
LEMMA Unbooked ==
  ASSUME IInv, Batches, NEW u \in Slots, Handler(u), NEW x \in Sales, sale[x] = None,
         x \in req[u].sales => x \in req[u].bad \/ req[u].stage # "recording"
  PROVE  sale'[x] = None
<1> USE DEF IInv
<1>1. CASE req[u].kind = "sync"
  <2>1. PICK r : Handle(u, r) /\ SyncMoves(req[u], r)
    BY <1>1, SyncHandlerMoves
  <2> QED BY <2>1 DEF SyncMoves, Loads, Passes, Records
<1>2. CASE req[u].kind # "sync"
  BY <1>2 DEF Handler, RefuseUnapproved, BindExisting, BindLookup, BindInactive, BindCreate,
              BindLostRace, SyncLoad, SyncRegister, SyncRecord, CheckBinding, ApproveDevice,
              WrongPin, serverVars, At
<1> QED BY <1>1, <1>2

(* A handler leaves the gateway as it is. *)
LEMMA HandlerGateway ==
  ASSUME NEW u \in Slots, Handler(u)
  PROVE  UNCHANGED gatewayOn
BY DEF Handler, RefuseUnapproved, BindExisting, BindLookup, BindInactive, BindCreate,
       BindLostRace, SyncLoad, SyncRegister, SyncRecord, CheckBinding, ApproveDevice,
       WrongPin, serverVars

(* A sale that its own data bars is not booked. *)
LEMMA BadStep ==
  ASSUME IInv, RecordsFit, BadUnbooked, [Next]_vars
  PROVE  BadUnbooked'
<1> USE DEF IInv
<1>1. ASSUME UNCHANGED sale PROVE BadUnbooked'
  BY <1>1 DEF BadUnbooked
<1>2. ASSUME NEW u \in Slots, NEW y \in Sales, SyncRecord(u, y) PROVE BadUnbooked'
  <2> DEFINE q == req[u]
  <2>1. q # None /\ q.kind = "sync" /\ q.stage = "recording" /\ y \in q.sales \ (q.ok \cup q.bad)
    BY <1>2 DEF SyncRecord, At
  <2>2. rung[y].asg = None \/ rung[y].asg \in q.found
    BY <2>1 DEF RecordsFit, Decided, AssignmentsOf
  <2>3. y \in BadSales => Rejected(q, y)
    BY <2>1, <2>2, RejectedIsBad DEF BadUnbooked
  <2>4. y \notin BadSales \/ UNCHANGED sale
    BY <1>2, <2>3 DEF SyncRecord
  <2>5. \A x \in Sales \ {y} : sale'[x] = sale[x]
    BY <1>2 DEF SyncRecord, TypeOK, ServerTypeOK
  <2> QED BY <2>4, <2>5, ServerAssumption DEF BadUnbooked
<1>3. CASE UNCHANGED vars
  BY <1>1, <1>3 DEF vars, serverVars
<1>4. CASE Server
  BY <1>1, <1>2, <1>4, ServerBooks
<1>5. CASE Phone \/ Network
  BY <1>1, <1>5 DEF Phone, Network, serverVars
<1> QED BY <1>3, <1>4, <1>5 DEF Next

(* A barred request stays so in its handler's hands. *)
LEMMA BarredHandler ==
  ASSUME IInv, AwaitsFit, RecordsFit, NEW u \in Slots, Handler(u), NEW x \in Sales,
         Refusable(x), NEW us \in SUBSET Slots, AllBarred(x, us)
  PROVE  AllBarred(x, us)'
<1> USE DEF IInv, AwaitsFit
<1> SUFFICES ASSUME NEW v \in us, req'[v] # None, x \in req'[v].sales
             PROVE  Barred(x, v)'
  BY DEF AllBarred
<1>0. PICK r0 : SameRequest(r0, req[u]) /\ Handle(u, r0) /\ req[u] # None
  BY HandlerMoves
<1>1. UNCHANGED gatewayOn
  BY HandlerGateway
<1>2. CASE v # u
  BY <1>0, <1>1, <1>2 DEF Handle, AllBarred, Barred
<1>3. CASE v = u
  <2> DEFINE q == req[u]
  <2>1. q # None /\ x \in q.sales /\ q.kind = "sync" /\ Barred(x, u)
    BY <1>0, <1>3 DEF Handle, SameRequest, AllBarred, Batches, TypeOK, NetTypeOK
  <2>2. PICK r : Handle(u, r) /\ SyncMoves(q, r)
    BY <2>1, SyncHandlerMoves
  <2>3. req'[u] = r /\ r.stage # "answered" /\ r.owner = None
    BY <1>3, <2>1, <2>2 DEF Handle, SyncMoves, SameRequest, Barred, TypeOK, NetTypeOK
  <2>4. q.stage = "sent" => q.bad = {}
    BY <2>1 DEF RecordsFit, Decided
  <2>5. x \in r.bad
    <3>1. CASE Loads(q, r)
      BY <2>1, <3>1 DEF Loads, Barred, Refusable, NeedsGateway, Known
    <3>2. CASE Passes(q, r)
      BY <2>1, <2>3, <3>2 DEF Passes, Barred
    <3>3. ASSUME NEW y, Records(q, r, y) PROVE x \in r.bad
      BY <2>1, <3>3 DEF Records, Barred
    <3> QED BY <2>2, <3>1, <3>2, <3>3 DEF SyncMoves
  <2> QED BY <1>1, <1>3, <2>1, <2>3, <2>5 DEF Barred
<1> QED BY <1>2, <1>3

(* While a run awaits a batch with the sale in it, the sale is sent in no other. *)
LEMMA NoOtherBatch ==
  ASSUME OnePage, IInv, AwaitsFit, NEW s \in Slots, req[s] # None, req[s].owner # None,
         NEW x \in req[s].sales, NEW v \in Slots, v # s
  PROVE  ~ NewBatch(v, x)
<1> SUFFICES ASSUME NewBatch(v, x) PROVE FALSE
  OBVIOUS
<1>1. ASSUME NEW t \in Tabs, Collect(t), x \in ToSend(PhoneOf[t]) PROVE FALSE
  <2>1. rung[x].phone = PhoneOf[t] /\ job[<<t, "run">>].pc = "collect"
    BY <1>1 DEF ToSend, Collect
  <2> QED BY <2>1, RunOfSale
<1>2. ASSUME NEW t \in Tabs, ChunkAnswered(t, v), x \in job[<<t, "run">>].todo PROVE FALSE
  <2>1. rung[x].phone = PhoneOf[t]
    BY <1>2, JobsOfTab DEF IInv, NamesFit, TabsFit, RungOn, PhoneOfJob
  <2>2. req[s].owner = <<t, "run">>
    BY <2>1, RunOfSale
  <2>3. req[v] # None /\ req[v].owner = <<t, "run">>
    BY <1>2 DEF ChunkAnswered, Answered
  <2> QED BY <2>2, <2>3 DEF AwaitsFit, OneEach
<1> QED BY <1>1, <1>2 DEF NewBatch

(* A request barred stays so while its sale is not sent anew. *)
LEMMA BarredPhone ==
  ASSUME IInv, Phone, NEW x \in Sales, NEW us \in SUBSET Slots, AllBarred(x, us),
         \A v \in us : ~ NewBatch(v, x)
  PROVE  AllBarred(x, us)'
<1> SUFFICES ASSUME NEW v \in us, req'[v] # None, x \in req'[v].sales
             PROVE  Barred(x, v)'
  BY DEF AllBarred
<1>1. req[v] # None /\ Kept(req'[v], req[v])
  BY PhoneSlots DEF IInv, NewIn
<1>2. UNCHANGED gatewayOn
  BY DEF Phone, serverVars
<1> QED BY <1>1, <1>2 DEF AllBarred, Barred, Kept

(* What an awaited answer refuses is in no other request, ... *)
LEMMA AnswersPhone ==
  ASSUME OnePage, IInv, AwaitsFit, AnswersBar, Phone
  PROVE  AnswersBar'
<1> SUFFICES ASSUME NEW s \in Slots, req'[s] # None, req'[s].owner # None,
                    NEW x \in req'[s].bad \ BadSales
             PROVE  Refusable(x)' /\ AllBarred(x, Slots \ {s})'
  BY DEF AnswersBar
<1>1. req[s] # None /\ req[s].owner # None /\ x \in req[s].bad
  BY PhoneSlots DEF IInv, NewIn, Fresh, Kept
<1>2. x \in req[s].sales /\ x \in Sales
  BY <1>1 DEF IInv, AnswersTrue, TypeOK, NetTypeOK, Request
<1>3. Refusable(x) /\ AllBarred(x, Slots \ {s})
  BY <1>1 DEF AnswersBar
<1>4. \A v \in Slots \ {s} : ~ NewBatch(v, x)
  BY <1>1, <1>2, NoOtherBatch
<1>5. Slots \ {s} \in SUBSET Slots
  OBVIOUS
<1>6. AllBarred(x, Slots \ {s})'
  <2> PICK us \in SUBSET Slots : us = Slots \ {s}
    BY <1>5
  <2>1. AllBarred(x, us)'
    BY <1>2, <1>3, <1>4, BarredPhone
  <2> QED BY <2>1
<1>7. UNCHANGED sale
  BY DEF Phone, serverVars
<1> QED BY <1>3, <1>6, <1>7 DEF Refusable

(* ... and what has been shown as refused is not sent again. *)
LEMMA RefusalsPhone ==
  ASSUME OnePage, IInv, AwaitsFit, AnswersBar, RefusalsBar, Phone
  PROVE  RefusalsBar'
<1> USE DEF IInv
<1> SUFFICES ASSUME NEW x \in Sales \ BadSales, status'[x] = "rejected"
             PROVE  /\ Refusable(x)'
                    /\ \A j \in Jobs : x \notin job'[j].todo
                    /\ AllBarred(x, Slots)'
  BY DEF RefusalsBar
<1>0. UNCHANGED sale /\ TodoMoves
  BY StepMoves DEF Phone, serverVars, Next, Moves
<1>1. CASE status[x] = "rejected"
  <2>1. Refusable(x) /\ (\A j \in Jobs : x \notin job[j].todo) /\ AllBarred(x, Slots)
    BY <1>1 DEF RefusalsBar
  <2>2. \A p : x \notin ToSend(p)
    BY <1>1 DEF ToSend
  <2>3. \A j \in Jobs : x \notin job'[j].todo
    BY <1>0, <2>1, <2>2 DEF TodoMoves
  <2>4. \A v \in Slots : ~ NewBatch(v, x)
    BY <2>1, <2>2, JobsOfTab DEF NewBatch
  <2>5. AllBarred(x, Slots)'
    BY <2>1, <2>4, BarredPhone
  <2> QED BY <1>0, <2>1, <2>3, <2>5 DEF Refusable
<1>2. CASE status[x] # "rejected"
  <2>1. PICK t \in Tabs, s \in Slots : ChunkAnswered(t, s) /\ x \in req[s].bad
    <3>1. ASSUME NEW u \in PosTabs, NEW y \in Sales, Ring(u, y) PROVE status'[x] # "rejected"
      BY <1>2, <3>1 DEF Ring, TypeOK, TillTypeOK
    <3>2. ASSUME NEW y \in Sales, ClearRejection(y) PROVE status'[x] # "rejected"
      BY <1>2, <3>2 DEF ClearRejection, TypeOK, TillTypeOK
    <3>3. ASSUME NEW t \in Tabs, NEW s \in Slots, ChunkAnswered(t, s) PROVE x \in req[s].bad
      BY <1>2, <3>3 DEF ChunkAnswered, Applied
    <3> QED BY <1>2, <3>1, <3>2, <3>3, PhoneStatus
  <2> DEFINE k == <<t, "run">>
  <2>2. /\ req[s] # None /\ req[s].owner = k /\ req[s].owner # None /\ x \in req[s].sales
        /\ k \in Jobs
    BY <2>1, JobsOfTab DEF ChunkAnswered, Answered, AwaitsFit, Orphaned, AnswersTrue
  <2>3. Refusable(x) /\ AllBarred(x, Slots \ {s})
    BY <2>1, <2>2 DEF AnswersBar
  <2>4. rung[x].phone = PhoneOf[t]
    BY <2>2 DEF AwaitsFit, Owners, AwaitedBy, PhoneOfJob, NamesFit, RequestsFit, RungOn
  <2>5. x \notin job'[k].todo
    BY <2>1, <2>2, IdleHasNone DEF ChunkAnswered, EndRun, Set, TypeOK, TillTypeOK, Job
  <2>6. \A j \in Jobs : x \notin job'[j].todo
    <3>1. ASSUME NEW j \in Jobs, x \in job[j].todo PROVE j = k
      BY <2>4, <3>1, RunOfTodo DEF AwaitsFit
    <3>2. ~ \E u \in Tabs : Collect(u)
      BY <1>2 DEF Collect, storage
    <3> QED BY <1>0, <2>5, <3>1, <3>2 DEF TodoMoves
  <2>7. \A v \in Slots \ {s} : ~ NewBatch(v, x)
    BY <2>2, NoOtherBatch
  <2>8. AllBarred(x, Slots \ {s})'
    <3> PICK us \in SUBSET Slots : us = Slots \ {s}
      OBVIOUS
    <3>1. AllBarred(x, us)'
      BY <2>3, <2>7, BarredPhone
    <3> QED BY <3>1
  <2>9. req'[s] = None \/ x \notin req'[s].sales
    <3>1. CASE Consume(s)
      BY <3>1 DEF Consume, TypeOK, NetTypeOK
    <3>2. ASSUME NEW c \in Chunks(job[k].todo \ req[s].sales),
                 req' = [req EXCEPT ![s] = SyncRequest(k, c, job[k].secret)]
          PROVE  x \notin req'[s].sales
      <4>1. SyncRequest(k, c, job[k].secret).sales = c
        BY DEF SyncRequest, NewRequest
      <4> QED BY <2>2, <3>2, <4>1 DEF Chunks, TypeOK, NetTypeOK
    <3> QED BY <2>1, <3>1, <3>2 DEF ChunkAnswered
  <2> QED BY <1>0, <2>3, <2>6, <2>8, <2>9 DEF Refusable, AllBarred
<1> QED BY <1>1, <1>2

(* A handler that answers has rejected what it lists before any other request
   could book it, ... *)
LEMMA AnswersHandler ==
  ASSUME OnePage, IInv, AwaitsFit, RecordsFit, RecordsFit', AnswersTrue', AwaitsFit',
         AnswersBar, NEW u \in Slots, Handler(u)
  PROVE  AnswersBar'
<1> USE DEF IInv
<1> SUFFICES ASSUME NEW s \in Slots, req'[s] # None, req'[s].owner # None,
                    NEW x \in req'[s].bad \ BadSales
             PROVE  Refusable(x)' /\ AllBarred(x, Slots \ {s})'
  BY DEF AnswersBar
<1>0. PICK r0 : SameRequest(r0, req[u]) /\ Handle(u, r0) /\ req[u] # None
  BY HandlerMoves
<1>1. req[s] # None /\ req[s].owner # None /\ req'[s].kind = req[s].kind
      /\ req'[s].sales = req[s].sales
  BY <1>0 DEF Handle, SameRequest, TypeOK, NetTypeOK
<1>2. x \in req[s].sales /\ x \in Sales /\ req[s].kind = "sync"
  <2>1. x \in req'[s].sales
    BY DEF AnswersTrue
  <2>2. x \in req[s].sales
    BY <1>1, <2>1
  <2> QED BY <1>1, <2>2 DEF AwaitsFit, Batches, TypeOK, NetTypeOK, Request
<1> PICK us \in SUBSET Slots : us = Slots \ {s}
  OBVIOUS
<1>3. ASSUME Refusable(x), AllBarred(x, Slots \ {s}), x \in req[s].bad \/ s # u \/ UNCHANGED sale
      PROVE  Refusable(x)' /\ AllBarred(x, Slots \ {s})'
  <2>1. AllBarred(x, us)'
    BY <1>2, <1>3, BarredHandler
  <2>2. ASSUME x \in req[u].sales PROVE x \in req[u].bad \/ req[u].stage # "recording" \/ UNCHANGED sale
    BY <1>0, <1>3, <2>2 DEF AllBarred, Barred
  <2>3. sale'[x] = None
    BY <1>2, <1>3, <2>2, Unbooked DEF Refusable, AwaitsFit
  <2> QED BY <1>3, <2>1, <2>3 DEF Refusable
<1>4. CASE x \in req[s].bad
  BY <1>1, <1>3, <1>4 DEF AnswersBar
<1>5. CASE s # u
  BY <1>0, <1>4, <1>5 DEF Handle
<1>6. CASE s = u /\ x \notin req[s].bad
  <2> DEFINE q == req[u]
  <2>1. PICK r : Handle(u, r) /\ SyncMoves(q, r)
    BY <1>2, <1>6, SyncHandlerMoves
  <2>2. req'[u] = r
    BY <1>6, <2>1 DEF Handle, TypeOK, NetTypeOK
  <2>3. Loads(q, r)
    <3>1. ~ Passes(q, r)
      BY <1>6, <2>2 DEF Passes
    <3>2. ASSUME NEW y, Records(q, r, y) PROVE FALSE
      <4>1. y = x /\ Rejected(q, x) /\ q.stage = "recording" /\ x \in q.sales \ (q.ok \cup q.bad)
        BY <1>6, <2>2, <3>2 DEF Records
      <4>2. rung[x].asg = None \/ rung[x].asg \in q.found
        BY <1>0, <1>2, <1>6, <4>1 DEF RecordsFit, Decided, AssignmentsOf
      <4> QED BY <1>0, <4>1, <4>2, RejectedIsBad
    <3> QED BY <2>1, <3>1, <3>2 DEF SyncMoves
  <2>4. Refusable(x) /\ ~ gatewayOn /\ UNCHANGED sale
    BY <1>2, <1>6, <2>2, <2>3 DEF Loads, NeedsGateway, Known, Refusable
  <2>5. ASSUME NEW v \in Slots \ {s}, req[v] # None, x \in req[v].sales PROVE Barred(x, v)
    <3>1. req[v].owner = None
      <4>1. ASSUME req[v].owner # None PROVE FALSE
        <5>1. PICK t \in Tabs : rung[x].phone = PhoneOf[t]
          <6>1. req[s] \in Request /\ req[s].owner \in Jobs
            BY <1>1 DEF TypeOK, NetTypeOK, Request
          <6>2. req[s].owner[1] \in Tabs /\ rung[x].phone = PhoneOf[req[s].owner[1]]
            BY <1>1, <1>2, <6>1 DEF AwaitsFit, Owners, AwaitedBy, PhoneOfJob, Jobs, NamesFit,
                                    RequestsFit, RungOn
          <6> QED BY <6>2
        <5>2. req[v].owner = <<t, "run">> /\ req[s].owner = <<t, "run">>
          BY <1>1, <1>2, <2>5, <4>1, <5>1, RunOfSale
        <5> QED BY <1>1, <2>5, <4>1, <5>2 DEF AwaitsFit, OneEach
      <4> QED BY <4>1
    <3>2. req[v].stage # "answered"
      BY <2>5, <3>1 DEF AwaitsFit, Orphaned
    <3>3. x \notin req[v].ok
      BY <2>4, <2>5 DEF AnswersTrue, Refusable
    <3>4. req[v].kind = "sync"
      BY <2>5 DEF AwaitsFit, Batches
    <3>5. req[v].stage = "sent" \/ x \in req[v].bad
      BY <2>4, <2>5, <3>2, <3>3, <3>4 DEF RecordsFit, Decided, Refusable
    <3> QED BY <2>4, <3>1, <3>5 DEF Barred
  <2> QED BY <1>3, <2>4, <2>5 DEF AllBarred
<1> QED BY <1>4, <1>5, <1>6

(* ... and no handler books what has been shown as refused. *)
LEMMA RefusalsHandler ==
  ASSUME IInv, AwaitsFit, RecordsFit, RefusalsBar, NEW u \in Slots, Handler(u), UNCHANGED tillVars
  PROVE  RefusalsBar'
<1> USE DEF IInv
<1> SUFFICES ASSUME NEW x \in Sales \ BadSales, status[x] = "rejected"
             PROVE  Refusable(x)' /\ AllBarred(x, Slots)' /\ \A j \in Jobs : x \notin job[j].todo
  BY DEF RefusalsBar, tillVars, storage
<1>1. Refusable(x) /\ AllBarred(x, Slots) /\ \A j \in Jobs : x \notin job[j].todo
  BY DEF RefusalsBar
<1>2. req[u] # None
  BY HandlerMoves
<1>3. x \in req[u].sales => x \in req[u].bad \/ req[u].stage # "recording"
  BY <1>1, <1>2 DEF AllBarred, Barred
<1>4. sale'[x] = None
  BY <1>1, <1>3, Unbooked DEF Refusable, AwaitsFit
<1>5. AllBarred(x, Slots)'
  BY <1>1, BarredHandler
<1> QED BY <1>1, <1>4, <1>5 DEF Refusable

(* Every step keeps all of this. *)
LEMMA RefusedInvStep ==
  ASSUME OnePage, IInv, IInv', RefusedInv, [Next]_vars
  PROVE  RefusedInv'
<1> USE DEF RefusedInv
<1>1. AwaitsFit'
  BY AwaitsStep DEF IInv
<1>2. RecordsFit'
  BY RecordsStep DEF AwaitsFit
<1>3. BadUnbooked'
  BY BadStep
<1>4. ASSUME UNCHANGED <<sale, status, job, gatewayOn>>,
             \A s \in Slots : req'[s] # None => req'[s] = req[s]
      PROVE  AnswersBar' /\ RefusalsBar'
  <2>1. \A x, us : Refusable(x) /\ us \subseteq Slots /\ AllBarred(x, us)
                     => Refusable(x)' /\ AllBarred(x, us)'
    BY <1>4 DEF Refusable, AllBarred, Barred
  <2>2. AnswersBar'
    BY <1>4, <2>1 DEF AnswersBar, Refusable, AllBarred, Barred
  <2>3. RefusalsBar'
    BY <1>4, <2>1 DEF RefusalsBar, Refusable, AllBarred, Barred
  <2> QED BY <2>2, <2>3
<1>5. ASSUME Phone PROVE AnswersBar' /\ RefusalsBar'
  BY <1>5, AnswersPhone, RefusalsPhone
<1>6. ASSUME NEW u \in Slots, Handler(u), UNCHANGED tillVars PROVE AnswersBar' /\ RefusalsBar'
  BY <1>1, <1>2, <1>6, AnswersHandler, RefusalsHandler DEF IInv
<1>7. ASSUME SwitchGateway, UNCHANGED tillVars PROVE AnswersBar' /\ RefusalsBar'
  <2>1. UNCHANGED <<req, sale, status, job>>
    BY <1>7 DEF SwitchGateway, tillVars, storage
  <2>2. \A x, v : v \in Slots /\ req[v] # None => ~ Barred(x, v)
    BY <1>7 DEF SwitchGateway, Barred, AwaitsFit, Orphaned
  <2>3. \A x, us : us \subseteq Slots /\ AllBarred(x, us) => AllBarred(x, us)'
    BY <2>1, <2>2 DEF AllBarred
  <2>4. AnswersBar'
    BY <2>1, <2>2 DEF AnswersBar, AllBarred, Refusable
  <2>5. RefusalsBar'
    BY <2>1, <2>2 DEF RefusalsBar, AllBarred, Refusable
  <2> QED BY <2>4, <2>5
<1>8. ASSUME Owner, UNCHANGED tillVars PROVE AnswersBar' /\ RefusalsBar'
  BY <1>4, <1>7, <1>8 DEF Owner, RevokeDevice, Deactivate, tillVars, storage
<1>9. ASSUME Network PROVE AnswersBar' /\ RefusalsBar'
  BY <1>4, <1>9 DEF Network, Lose, Consume, tillVars, storage, serverVars, IInv, TypeOK, NetTypeOK
<1>10. ASSUME UNCHANGED vars PROVE AnswersBar' /\ RefusalsBar'
  BY <1>4, <1>10 DEF vars, tillVars, storage, serverVars
<1> QED BY <1>1, <1>2, <1>3, <1>5, <1>6, <1>8, <1>9, <1>10 DEF Next, Server, ServerNext

(* A sale that a phone shows as refused is not in the shop's books: whatever
   answers are lost, runs repeated and batches abandoned, and however the owner
   switches the gateway, while each phone has one page open. *)
THEOREM RefusalsAreTrue ==
  ASSUME OnePage
  PROVE  Spec => []RefusedNotBooked
<1>1. Init => RefusedInv
  <2> SUFFICES ASSUME Init PROVE RefusedInv
    OBVIOUS
  <2>1. /\ \A s \in Slots : req[s] = None
        /\ \A j \in Jobs : job[j] = Idle
        /\ \A x \in Sales : sale[x] = None /\ status[x] # "rejected"
    BY DEF Init, NetInit, TillInit, ServerInit
  <2>2. AwaitsFit /\ RecordsFit
    BY <2>1, IdleHasNone DEF AwaitsFit, Orphaned, Batches, Owners, OneEach, RecordsFit
  <2>3. BadUnbooked /\ AnswersBar /\ RefusalsBar
    BY <2>1, ServerAssumption DEF BadUnbooked, AnswersBar, RefusalsBar
  <2> QED BY <2>2, <2>3 DEF RefusedInv
<1>2. (IInv /\ RefusedInv) /\ IInv' /\ [Next]_vars => RefusedInv'
  BY RefusedInvStep
<1>3. RefusedInv => RefusedNotBooked
  BY DEF RefusedInv, BadUnbooked, RefusalsBar, Refusable, RefusedNotBooked
<1>4. Spec => []IInv
  BY Invariant
<1> QED BY <1>1, <1>2, <1>3, <1>4, PTL DEF Spec
=============================================================================
