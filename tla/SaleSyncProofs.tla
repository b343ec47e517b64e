--------------------------- MODULE SaleSyncProofs ---------------------------
(***************************************************************************)
(* The inductive invariant of SaleSync and what follows from it: a sale is *)
(* never lost, is credited to the barber it was rung up for, a phone has   *)
(* one active binding, a revoked binding stays revoked, and phones and     *)
(* shop PC together implement SaleLedger.                                  *)
(***************************************************************************)
EXTENDS SaleSync, TLAPS

-----------------------------------------------------------------------------
(* Types.  A row created or a sale booked has the right type only because the requests name
   what phones have generated, so the lemmas assume NamesFit and AnswersTrue too, which are
   shown to be kept further down. *)

Typed == [Slots -> Request \cup {None}]

(* A handler moving on to a well-typed request keeps every slot well-typed. *)
LEMMA HandleType ==
  ASSUME NEW s \in Slots, NEW r \in Request, req \in Typed, Handle(s, r)
  PROVE  req' \in Typed
BY DEF Handle, Typed

(* Answering keeps every slot well-typed. *)
LEMMA AnswerType ==
  ASSUME NEW s \in Slots, NEW a \in {"ok", "refused", "notApproved"},
         req \in Typed, req[s] # None, Answer(s, a)
  PROVE  req' \in Typed
<1> DEFINE r == [req[s] EXCEPT !.stage = "answered", !.answer = a]
<1>1. req[s] \in Request  BY DEF Typed
<1>2. r \in Request  BY <1>1 DEF Request
<1>3. Handle(s, r)  BY DEF Answer
<1> QED BY <1>2, <1>3, HandleType

(* Sending a well-typed request keeps every slot well-typed. *)
LEMMA SendType ==
  ASSUME NEW r \in Request, req \in Typed, Send(r)
  PROVE  req' \in Typed
BY DEF Send, Typed

(* Consuming an answer empties its slot and keeps the others. *)
LEMMA ConsumeType ==
  ASSUME NEW s \in Slots, req \in Typed, Consume(s)
  PROVE  req' \in Typed
BY DEF Consume, Typed

(* Giving requests up keeps every slot well-typed. *)
LEMMA AbandonType ==
  ASSUME NEW js, req \in Typed, Abandon(js)
  PROVE  req' \in Typed
<1> SUFFICES ASSUME NEW s \in Slots PROVE req'[s] \in Request \cup {None}
  BY DEF Abandon, Typed
<1>1. req[s] \in Request \cup {None}  BY DEF Typed
<1>2. CASE req[s] = None \/ req[s].owner \notin js
  BY <1>1, <1>2 DEF Abandon
<1>3. CASE req[s] # None /\ req[s].owner \in js
  <2>1. req[s] \in Request  BY <1>1, <1>3
  <2>2. [req[s] EXCEPT !.owner = None] \in Request  BY <2>1 DEF Request
  <2> QED BY <2>2, <1>3 DEF Abandon
<1> QED BY <1>2, <1>3

(* A request as a job first sends it is a request. *)
LEMMA NewRequestType ==
  ASSUME NEW j \in Jobs, NEW k \in {"bind", "sync", "check", "approve"}, NEW x \in Secrets
  PROVE  NewRequest(j, k, x) \in Request
BY NetAssumption DEF NewRequest, Request, Jobs

(* "No secret yet" is one of the secrets. *)
LEMMA NoSecret == 0 \in Secrets
BY NetAssumption DEF Secrets

(* An idle job is a job. *)
LEMMA IdleType == Idle \in Job
BY NetAssumption DEF Idle, Job, Secrets

(* Setting one job to a well-typed record keeps all jobs well-typed. *)
LEMMA SetType ==
  ASSUME NEW j \in Jobs, NEW r \in Job, job \in [Jobs -> Job], Set(j, r)
  PROVE  job' \in [Jobs -> Job]
BY DEF Set

(* The four jobs of a tab are jobs. *)
LEMMA JobsOfTab ==
  ASSUME NEW t \in Tabs
  PROVE  /\ <<t, "run">> \in Jobs /\ <<t, "bind">> \in Jobs
         /\ <<t, "check">> \in Jobs /\ <<t, "approve">> \in Jobs
BY DEF Jobs

(* The initial state has the right types. *)
LEMMA TypeInit == Init => TypeOK
<1> SUFFICES ASSUME Init PROVE TypeOK
  OBVIOUS
<1>1. NetTypeOK
  BY TillAssumption DEF Init, NetInit, TillInit, NetTypeOK
<1>2. TillTypeOK
  BY NetAssumption, IdleType DEF Init, TillInit, TillTypeOK, Secrets
<1>3. ServerTypeOK
  BY NetAssumption DEF Init, ServerInit, ServerTypeOK, Secrets
<1> QED BY <1>1, <1>2, <1>3 DEF TypeOK

(* Every step of the phone keeps the types: one lemma per group of actions. *)
LEMMA TypeApproval ==
  ASSUME TypeOK, NEW t \in Tabs,
         \/ StartApproval(t) \/ ApprovalFails(t)
         \/ \E s \in Slots : ApprovalAnswered(t, s) \/ ApprovalRefused(t, s)
  PROVE  NetTypeOK' /\ TillTypeOK'
<1> USE JobsOfTab, IdleType DEF TypeOK, NetTypeOK, TillTypeOK, storage
<1>0. req \in Typed
  BY DEF Typed
<1> DEFINE j == <<t, "approve">>
<1>1. CASE StartApproval(t)
  <2>1. NewRequest(j, "approve", 0) \in Request
    BY NewRequestType, NoSecret
  <2>2. req' \in Typed
    BY <1>0, <1>1, <2>1, SendType DEF StartApproval
  <2>3. [Idle EXCEPT !.pc = "approving"] \in Job
    BY DEF Job, Idle
  <2>4. job' \in [Jobs -> Job]
    BY <1>1, <2>3, SetType DEF StartApproval
  <2> QED BY <1>1, <2>2, <2>4 DEF StartApproval, Typed
<1>2. CASE ApprovalFails(t)
  <2>1. req' \in Typed
    BY <1>0, <1>2, AbandonType DEF ApprovalFails, GiveUp
  <2>2. faults' \in Nat
    BY <1>2 DEF ApprovalFails, GiveUp
  <2>3. job' \in [Jobs -> Job]
    BY <1>2, SetType DEF ApprovalFails
  <2> QED BY <1>2, <2>1, <2>2, <2>3 DEF ApprovalFails, Typed
<1>3. ASSUME NEW s \in Slots, ApprovalAnswered(t, s)
      PROVE  NetTypeOK' /\ TillTypeOK'
  <2>1. req' \in Typed
    BY <1>0, <1>3, ConsumeType DEF ApprovalAnswered
  <2>2. req[s].secret \in Secrets
    BY <1>3 DEF ApprovalAnswered, Answered, Request
  <2>3. job' \in [Jobs -> Job]
    BY <1>3, SetType DEF ApprovalAnswered
  <2>4. PhoneOf[t] \in Phones
    BY NetAssumption
  <2> QED BY <1>3, <2>1, <2>2, <2>3, <2>4 DEF ApprovalAnswered, Typed, MarkAccepted
<1>4. ASSUME NEW s \in Slots, ApprovalRefused(t, s)
      PROVE  NetTypeOK' /\ TillTypeOK'
  <2>1. req' \in Typed
    BY <1>0, <1>4, ConsumeType DEF ApprovalRefused
  <2>3. job' \in [Jobs -> Job]
    BY <1>4, SetType DEF ApprovalRefused
  <2> QED BY <1>4, <2>1, <2>3 DEF ApprovalRefused, Typed
<1> QED BY <1>1, <1>2, <1>3, <1>4

(* Registering a binding, from a run or from handleBindDevice. *)
LEMMA TypeBind ==
  ASSUME TypeOK, NEW j \in Jobs,
         \/ DropBinding(j) \/ BindFails(j)
         \/ \E s \in Slots : JobStep(j, s)
  PROVE  NetTypeOK' /\ TillTypeOK'
<1> USE IdleType DEF TypeOK, NetTypeOK, TillTypeOK, storage
<1>0. req \in Typed /\ PhoneOfJob(j) \in Phones
  BY NetAssumption DEF Typed, PhoneOfJob, Jobs
<1>a. AfterBind(j) \in Job
  BY DEF AfterBind, Job
<1>1. CASE DropBinding(j)
  <2>1. [AfterBind(j) EXCEPT !.cleared = TRUE] \in Job
    BY <1>a DEF Job
  <2>2. job' \in [Jobs -> Job]
    BY <1>1, <2>1, SetType DEF DropBinding
  <2>3. shown' \in [Tabs -> Assignments \cup {None}]
    BY <1>1 DEF DropBinding
  <2> QED BY <1>0, <1>1, <2>2, <2>3 DEF DropBinding
<1>2. CASE BindFails(j)
  <2>1. req' \in Typed
    BY <1>0, <1>2, AbandonType DEF BindFails, GiveUp
  <2>2. faults' \in Nat
    BY <1>2 DEF BindFails, GiveUp
  <2>3. job' \in [Jobs -> Job]
    BY <1>a, <1>2, SetType DEF BindFails
  <2> QED BY <1>2, <2>1, <2>2, <2>3 DEF BindFails, Typed
<1>3. ASSUME NEW s \in Slots, JobStep(j, s)
      PROVE  NetTypeOK' /\ TillTypeOK'
  <2>1. req' \in Typed
    BY <1>0, <1>3, ConsumeType DEF JobStep, BindAccepted, BindNotApproved, BindRefused
  <2>2. [job[j] EXCEPT !.pc = "dropping"] \in Job
    BY DEF Job
  <2>3. CASE BindAccepted(j, s)
    <3>1. job' \in [Jobs -> Job]
      BY <1>a, <2>3, SetType DEF BindAccepted
    <3> QED BY <1>0, <2>1, <2>3, <3>1 DEF BindAccepted, MarkAccepted, ClearPendingIfSame, Typed
  <2>4. CASE BindNotApproved(j, s)
    <3>1. job' \in [Jobs -> Job]
      BY <2>4, SetType DEF BindNotApproved
    <3> QED BY <1>0, <2>1, <2>4, <3>1 DEF BindNotApproved, MarkNotApproved, Typed
  <2>5. CASE BindRefused(j, s)
    <3>1. job' \in [Jobs -> Job]
      BY <1>a, <2>2, <2>5, SetType DEF BindRefused
    <3> QED BY <1>0, <2>1, <2>5, <3>1 DEF BindRefused, ClearPendingIfSame, Typed
  <2> QED BY <1>3, <2>3, <2>4, <2>5 DEF JobStep
<1> QED BY <1>1, <1>2, <1>3

(* The bind request of registerPendingAssignment is a request. *)
LEMMA RegisterType ==
  ASSUME TypeOK, NEW j \in Jobs, NEW a \in Assignments
  PROVE  RegisterRequest(j, a) \in Request
<1>1. secret[PhoneOfJob(j)] \in Secrets
  BY NetAssumption DEF TypeOK, TillTypeOK, PhoneOfJob, Jobs
<1> DEFINE r == NewRequest(j, "bind", secret[PhoneOfJob(j)])
<1>2. r \in Request
  BY <1>1, NewRequestType
<1>3. [r EXCEPT !.asg = a] \in Request
  BY <1>2 DEF Request
<1> QED BY <1>3 DEF RegisterRequest

(* Choosing a barber, ringing up and checking the binding. *)
LEMMA TypeSales ==
  ASSUME TypeOK, NamesFit, NEW t \in Tabs,
         \/ \E b \in Barbers : ChooseBarber(t, b)
         \/ SavePending(t) \/ StartCheck(t) \/ CheckFails(t)
         \/ \E x \in Sales : Ring(t, x)
         \/ \E s \in Slots : CheckAnswered(t, s)
  PROVE  NetTypeOK' /\ TillTypeOK'
<1> USE IdleType, JobsOfTab DEF TypeOK, NetTypeOK, TillTypeOK, storage
<1>0. req \in Typed /\ PhoneOf[t] \in Phones
  BY NetAssumption DEF Typed
<1>1. ASSUME NEW b \in Barbers, ChooseBarber(t, b)
      PROVE  NetTypeOK' /\ TillTypeOK'
  <2> DEFINE j == <<t, "bind">>
  <2>1. PICK a \in Assignments :
          /\ minted' = [minted EXCEPT ![a] = [phone |-> PhoneOf[t], barber |-> b]]
          /\ binding' = [binding EXCEPT ![PhoneOf[t]] = a]
          /\ Set(j, [Idle EXCEPT !.pc = "saving", !.asg = a])
    BY <1>1 DEF ChooseBarber
  <2>2. [Idle EXCEPT !.pc = "saving", !.asg = a] \in Job
    BY DEF Job, Idle
  <2>3. job' \in [Jobs -> Job]
    BY <2>1, <2>2, SetType
  <2>4. minted' \in [Assignments -> Mint \cup {None}]
    BY <1>0, <2>1 DEF Mint
  <2> QED BY <1>0, <1>1, <2>1, <2>3, <2>4 DEF ChooseBarber
<1>2. CASE SavePending(t)
  <2> DEFINE j == <<t, "bind">>
  <2>1. [job[j] EXCEPT !.pc = "binding"] \in Job /\ job[j].asg \in Assignments \cup {None}
    BY DEF Job
  <2>2. job' \in [Jobs -> Job]
    BY <1>2, <2>1, SetType DEF SavePending
  <2>3. job[j].asg \in Assignments
    BY <1>2, <2>1 DEF SavePending, NamesFit, TabsFit
  <2>4. req' \in Typed
    BY <1>0, <1>2, <2>3, RegisterType, SendType DEF SavePending
  <2> QED BY <1>0, <1>2, <2>1, <2>2, <2>4 DEF SavePending, Typed
<1>3. CASE StartCheck(t)
  <2> DEFINE j == <<t, "check">>
  <2>1. [Idle EXCEPT !.pc = "checking", !.asg = binding[PhoneOf[t]]] \in Job
    BY <1>0 DEF Job, Idle
  <2>2. job' \in [Jobs -> Job]
    BY <1>3, <2>1, SetType DEF StartCheck
  <2>3. req' \in Typed
    BY <1>0, <1>3, NoSecret, NewRequestType, SendType DEF StartCheck
  <2> QED BY <1>3, <2>2, <2>3 DEF StartCheck, Typed
<1>4. CASE CheckFails(t)
  <2>1. req' \in Typed /\ faults' \in Nat
    BY <1>0, <1>4, AbandonType DEF CheckFails, GiveUp
  <2>2. job' \in [Jobs -> Job]
    BY <1>4, SetType DEF CheckFails
  <2> QED BY <1>4, <2>1, <2>2 DEF CheckFails, Typed
<1>5. ASSUME NEW x \in Sales, Ring(t, x)
      PROVE  NetTypeOK' /\ TillTypeOK'
  <2> DEFINE a == shown[t]
             stamp == [phone |-> PhoneOf[t], barber |-> minted[a].barber, asg |-> a]
  <2>1. a \in Assignments /\ a # None
    BY <1>5 DEF Ring
  <2>2. MintedFor(a, PhoneOf[t])
    BY DEF NamesFit, TabsFit
  <2>3. stamp \in Sale
    BY <1>0, <2>1, <2>2 DEF Mint, Sale, MintedFor
  <2> QED BY <1>5, <2>3 DEF Ring
<1>7. ASSUME NEW s \in Slots, CheckAnswered(t, s)
      PROVE  NetTypeOK' /\ TillTypeOK'
  <2>1. req' \in Typed
    BY <1>0, <1>7, ConsumeType DEF CheckAnswered
  <2>2. [job[<<t, "check">>] EXCEPT !.pc = "dropping"] \in Job
    BY DEF Job
  <2>3. job' \in [Jobs -> Job]
    BY <1>7, <2>2, SetType DEF CheckAnswered
  <2> QED BY <1>7, <2>1, <2>3 DEF CheckAnswered, Typed
<1> QED BY <1>1, <1>2, <1>3, <1>4, <1>5, <1>7

(* A batch of sales is a request. *)
LEMMA SyncRequestType ==
  ASSUME NEW j \in Jobs, NEW c \in SUBSET Sales, NEW x \in Secrets
  PROVE  SyncRequest(j, c, x) \in Request
<1> DEFINE r == NewRequest(j, "sync", x)
<1>1. r \in Request
  BY NewRequestType
<1>2. [r EXCEPT !.sales = c] \in Request
  BY <1>1 DEF Request
<1> QED BY <1>2 DEF SyncRequest

(* The end of a run. *)
LEMMA EndRunType ==
  ASSUME TillTypeOK, NEW t \in Tabs, EndRun(t)
  PROVE  job' \in [Jobs -> Job] /\ shown' \in [Tabs -> Assignments \cup {None}]
BY IdleType, JobsOfTab, SetType DEF TillTypeOK, EndRun

(* A sync run. *)
LEMMA TypeRun ==
  ASSUME TypeOK, NEW t \in Tabs,
         \/ StartRun(t) \/ Collect(t) \/ ChunkFails(t)
         \/ \E s \in Slots : ChunkAnswered(t, s) \/ ChunkNotApproved(t, s)
  PROVE  NetTypeOK' /\ TillTypeOK'
<1> DEFINE j == <<t, "run">>
           p == PhoneOf[t]
<1> USE IdleType, JobsOfTab DEF TypeOK, NetTypeOK, TillTypeOK, storage
<1>0. req \in Typed /\ p \in Phones /\ job[j] \in Job
  BY NetAssumption DEF Typed
<1>1. CASE StartRun(t)
  <2>1. CASE pending[p] = None
    <3>1. [Idle EXCEPT !.pc = "collect"] \in Job
      BY DEF Job, Idle
    <3>2. job' \in [Jobs -> Job]
      BY <1>1, <2>1, <3>1, SetType DEF StartRun
    <3> QED BY <1>0, <1>1, <2>1, <3>2 DEF StartRun
  <2>2. CASE pending[p] # None
    <3>0. pending[p] \in Assignments
      BY <1>0, <2>2
    <3>1. [Idle EXCEPT !.pc = "binding", !.asg = pending[p]] \in Job
      BY <3>0 DEF Job, Idle
    <3>2. job' \in [Jobs -> Job]
      BY <1>1, <2>2, <3>1, SetType DEF StartRun
    <3>3. req' \in Typed
      BY <1>0, <1>1, <2>2, <3>0, RegisterType, SendType DEF StartRun
    <3> QED BY <1>0, <1>1, <3>2, <3>3 DEF StartRun, Typed
  <2> QED BY <2>1, <2>2
<1>2. CASE Collect(t)
  <2>1. secret[p] \in Secrets /\ ToSend(p) \in SUBSET Sales
    BY <1>0 DEF ToSend
  <2>2. CASE ToSend(p) = {} /\ EndRun(t) /\ UNCHANGED req
    BY <1>2, <2>2, EndRunType DEF Collect
  <2>3. CASE /\ \E c \in Chunks(ToSend(p)) : Send(SyncRequest(j, c, secret[p]))
             /\ Set(j, [job[j] EXCEPT !.pc = "sending", !.todo = ToSend(p),
                                      !.secret = secret[p]])
             /\ UNCHANGED shown
    <3>1. PICK c \in SUBSET Sales : Send(SyncRequest(j, c, secret[p]))
      BY <2>1, <2>3 DEF Chunks
    <3>2. req' \in Typed
      BY <1>0, <2>1, <3>1, SyncRequestType, SendType
    <3>3. [job[j] EXCEPT !.pc = "sending", !.todo = ToSend(p), !.secret = secret[p]] \in Job
      BY <1>0, <2>1 DEF Job
    <3>4. job' \in [Jobs -> Job]
      BY <2>3, <3>3, SetType
    <3> QED BY <1>2, <2>3, <3>2, <3>4 DEF Collect, Typed
  <2> QED BY <1>2, <2>2, <2>3 DEF Collect
<1>3. CASE ChunkFails(t)
  <2>1. req' \in Typed /\ faults' \in Nat
    BY <1>0, <1>3, AbandonType DEF ChunkFails, GiveUp
  <2> QED BY <1>3, <2>1, EndRunType DEF ChunkFails, Typed
<1>4. ASSUME NEW s \in Slots, ChunkAnswered(t, s)
      PROVE  NetTypeOK' /\ TillTypeOK'
  <2> DEFINE todo == job[j].todo \ req[s].sales
  <2>1. todo \in SUBSET Sales /\ job[j].secret \in Secrets
    BY <1>0 DEF Job
  <2>2. status' \in [Sales -> {"unrung", "queued", "rejected", "synced"}]
    BY <1>4 DEF ChunkAnswered, Applied
  <2>3. CASE todo = {} /\ EndRun(t) /\ Consume(s)
    <3>1. req' \in Typed
      BY <1>0, <2>3, ConsumeType
    <3> QED BY <1>0, <1>4, <2>2, <2>3, <3>1, EndRunType
            DEF ChunkAnswered, MarkAccepted, Typed
  <2>4. CASE /\ \E c \in Chunks(todo) :
                  req' = [req EXCEPT ![s] = SyncRequest(j, c, job[j].secret)]
             /\ Set(j, [job[j] EXCEPT !.todo = todo])
             /\ UNCHANGED shown
    <3>1. PICK c \in SUBSET Sales :
            req' = [req EXCEPT ![s] = SyncRequest(j, c, job[j].secret)]
      BY <2>1, <2>4 DEF Chunks
    <3>2. req' \in Typed
      BY <1>0, <2>1, <3>1, SyncRequestType DEF Typed
    <3>3. [job[j] EXCEPT !.todo = todo] \in Job
      BY <1>0, <2>1 DEF Job
    <3>4. job' \in [Jobs -> Job]
      BY <2>4, <3>3, SetType
    <3> QED BY <1>0, <1>4, <2>2, <2>4, <3>2, <3>4 DEF ChunkAnswered, MarkAccepted, Typed
  <2> QED BY <1>4, <2>3, <2>4 DEF ChunkAnswered
<1>5. ASSUME NEW s \in Slots, ChunkNotApproved(t, s)
      PROVE  NetTypeOK' /\ TillTypeOK'
  <2>1. req' \in Typed
    BY <1>0, <1>5, ConsumeType DEF ChunkNotApproved
  <2> QED BY <1>0, <1>5, <2>1, EndRunType DEF ChunkNotApproved, MarkNotApproved, Typed
<1> QED BY <1>1, <1>2, <1>3, <1>4, <1>5

(* A page reload. *)
LEMMA TypeReload ==
  ASSUME TypeOK, NEW t \in Tabs, Reload(t)
  PROVE  NetTypeOK' /\ TillTypeOK'
<1> USE DEF TypeOK, NetTypeOK, TillTypeOK, storage
<1>1. req' \in Typed
  BY AbandonType DEF Reload, Typed
<1>2. shown' \in [Tabs -> Assignments \cup {None}]
  BY NetAssumption DEF Reload
<1>3. job' \in [Jobs -> Job]
  BY IdleType DEF Reload
<1> QED BY <1>1, <1>2, <1>3 DEF Reload, Typed

(* Any step of a phone keeps the types. *)
LEMMA TypePhone ==
  ASSUME TypeOK, NamesFit, Phone
  PROVE  TypeOK'
<1> DEFINE Good == NetTypeOK' /\ TillTypeOK'
<1>1. ASSUME NEW j \in Jobs, DropBinding(j) \/ \E s \in Slots : JobStep(j, s)
      PROVE  Good
  BY <1>1, TypeBind
<1>2. ASSUME NEW t \in Tabs, StartRun(t) \/ Collect(t)
      PROVE  Good
  BY <1>2, TypeRun
<1>3. ASSUME NEW t \in Tabs, StartApproval(t)
      PROVE  Good
  BY <1>3, TypeApproval
<1>4. ASSUME NEW t \in Tabs, Reload(t)
      PROVE  Good
  BY <1>4, TypeReload
<1>5. ASSUME NEW t \in Tabs, TabFails(t)
      PROVE  Good
  <2>1. CASE ApprovalFails(t)
    BY <2>1, TypeApproval
  <2>2. CASE BindFails(<<t, "run">>) \/ BindFails(<<t, "bind">>)
    BY <2>2, JobsOfTab, TypeBind
  <2>3. CASE ChunkFails(t)
    BY <2>3, TypeRun
  <2>4. CASE CheckFails(t)
    BY <2>4, TypeSales
  <2> QED BY <1>5, <2>1, <2>2, <2>3, <2>4 DEF TabFails
<1>6. ASSUME NEW t \in Tabs, NEW s \in Slots, TabStep(t, s)
      PROVE  Good
  <2>1. CASE ApprovalAnswered(t, s) \/ ApprovalRefused(t, s)
    BY <2>1, TypeApproval
  <2>2. CASE ChunkAnswered(t, s) \/ ChunkNotApproved(t, s)
    BY <2>2, TypeRun
  <2>3. CASE CheckAnswered(t, s)
    BY <2>3, TypeSales
  <2> QED BY <1>6, <2>1, <2>2, <2>3 DEF TabStep
<1>7. ASSUME NEW t \in PosTabs,
             \/ SavePending(t) \/ StartCheck(t)
             \/ \E b \in Barbers : ChooseBarber(t, b)
             \/ \E x \in Sales : Ring(t, x)
      PROVE  Good
  BY <1>7, TypeSales, NetAssumption
<1>8. ASSUME NEW x \in Sales, ClearRejection(x)
      PROVE  Good
  BY <1>8 DEF ClearRejection, TypeOK, NetTypeOK, TillTypeOK
<1>9. Good
  BY <1>1, <1>2, <1>3, <1>4, <1>5, <1>6, <1>7, <1>8 DEF Phone, TillNext
<1>10. ServerTypeOK'
  BY DEF Phone, TypeOK, ServerTypeOK, serverVars
<1> QED BY <1>9, <1>10 DEF TypeOK

-----------------------------------------------------------------------------
(* The server's steps, and a lost request, keep the types. *)

(* Losing a request keeps the types. *)
LEMMA TypeNetwork ==
  ASSUME TypeOK, Network
  PROVE  TypeOK'
<1>1. req' \in Typed /\ faults' \in Nat
  BY ConsumeType DEF Network, Lose, TypeOK, NetTypeOK, Typed
<1> QED BY <1>1 DEF Network, Lose, Typed, TypeOK, NetTypeOK, TillTypeOK, ServerTypeOK,
                    tillVars, storage, serverVars

(* A row created for a generated assignment is a row. *)
LEMMA NewRowType ==
  ASSUME TypeOK, NEW a \in Assignments, minted[a] # None,
         NEW b \in BOOLEAN, NEW w \in {"bind", "sync"}
  PROVE  NewRow(a, b, w) \in Row
BY DEF TypeOK, NetTypeOK, NewRow, Row, Mint

(* A sync request that is finished, or goes on, is a request. *)
LEMMA FinishType ==
  ASSUME NEW r \in Request
  PROVE  Finish(r) \in Request
<1>1. [r EXCEPT !.stage = "answered", !.answer = "ok"] \in Request
  BY DEF Request
<1>2. [r EXCEPT !.stage = "recording"] \in Request
  BY DEF Request
<1> QED BY <1>1, <1>2 DEF Finish

(* The handlers of bind requests. *)
LEMMA TypeBindHandler ==
  ASSUME TypeOK, NamesFit, NEW s \in Slots,
         \/ RefuseUnapproved(s) \/ BindExisting(s) \/ BindLookup(s)
         \/ BindInactive(s) \/ BindCreate(s) \/ BindLostRace(s)
  PROVE  req' \in Typed /\ ServerTypeOK'
<1> DEFINE r == req[s]
<1>0. req \in Typed /\ req[s] # None
  BY DEF TypeOK, NetTypeOK, Typed, RefuseUnapproved, BindExisting, BindLookup,
         BindInactive, BindCreate, BindLostRace, At
<1>1. r \in Request
  BY <1>0 DEF Typed
<1>2. CASE RefuseUnapproved(s) \/ BindExisting(s) \/ BindLostRace(s)
  <2>1. req' \in Typed
    BY <1>0, <1>2, AnswerType DEF RefuseUnapproved, BindExisting, BindLostRace
  <2> QED BY <1>2, <2>1 DEF RefuseUnapproved, BindExisting, BindLostRace, serverVars,
                            TypeOK, ServerTypeOK
<1>3. CASE BindLookup(s)
  <2>1. \A g \in {"inactive", "creating"} : [r EXCEPT !.stage = g] \in Request
    BY <1>1 DEF Request
  <2>2. req' \in Typed
    BY <1>0, <1>3, <2>1, HandleType DEF BindLookup
  <2> QED BY <1>3, <2>2 DEF BindLookup, serverVars, TypeOK, ServerTypeOK
<1>4. CASE BindInactive(s) \/ BindCreate(s)
  <2>1. r.asg \in Assignments /\ minted[r.asg] # None
    BY <1>0, <1>1, <1>4 DEF NamesFit, RequestsFit, MintedFor, At, BindInactive,
                            BindCreate, Request
  <2>2. \A b \in BOOLEAN : NewRow(r.asg, b, "bind") \in Row
    BY <2>1, NewRowType
  <2>3. req' \in Typed
    BY <1>0, <1>4, AnswerType DEF BindInactive, BindCreate
  <2>4. row' \in [Assignments -> Row \cup {None}]
    <3>1. CASE BindInactive(s)
      BY <2>2, <3>1 DEF BindInactive, TypeOK, ServerTypeOK
    <3>2. CASE BindCreate(s)
      <4> SUFFICES ASSUME NEW a \in Assignments PROVE row'[a] \in Row \cup {None}
        BY <3>2 DEF BindCreate, Activated
      <4>1. row[a] \in Row \cup {None}
        BY DEF TypeOK, ServerTypeOK
      <4>2. row[a] # None => [row[a] EXCEPT !.active = FALSE] \in Row
        BY <4>1 DEF Row
      <4> QED BY <2>2, <3>2, <4>1, <4>2 DEF BindCreate, Activated
    <3> QED BY <1>4, <3>1, <3>2
  <2> QED BY <1>4, <2>3, <2>4 DEF BindInactive, BindCreate, TypeOK, ServerTypeOK
<1> QED BY <1>2, <1>3, <1>4

(* The handlers of sync requests. *)
LEMMA TypeSyncHandler ==
  ASSUME TypeOK, NamesFit, AnswersTrue, NEW s \in Slots,
         SyncLoad(s) \/ SyncRegister(s) \/ \E x \in Sales : SyncRecord(s, x)
  PROVE  req' \in Typed /\ ServerTypeOK'
<1> DEFINE r == req[s]
<1>0. req \in Typed /\ req[s] # None
  BY DEF TypeOK, NetTypeOK, Typed, SyncLoad, SyncRegister, SyncRecord, At
<1>1. r \in Request /\ r.sales \in SUBSET Sales /\ r.ok \in SUBSET Sales
      /\ r.bad \in SUBSET Sales
  BY <1>0 DEF Typed, Request
<1>2. \A x \in r.sales : rung[x] # None /\ rung[x] \in Sale /\ rung[x].phone = r.phone
  BY <1>0, <1>1 DEF NamesFit, RequestsFit, RungOn, TypeOK, NetTypeOK
<1>3. ASSUME NEW xs \in SUBSET r.sales
      PROVE  AssignmentsOf(xs) \in SUBSET Assignments
  BY <1>1, <1>2 DEF AssignmentsOf, Sale
<1>4. CASE SyncLoad(s)
  <2> DEFINE known == Known(r)
             off == NeedsGateway(r)
             named == AssignmentsOf(r.sales \ known)
             found == {a \in named : row[a] # None}
             loaded == [r EXCEPT !.ok = known, !.bad = off, !.found = found]
  <2>1. found \in SUBSET Assignments /\ known \in SUBSET Sales /\ off \in SUBSET Sales
    BY <1>1, <1>3 DEF NeedsGateway, Known
  <2>2. loaded \in Request
    BY <1>1, <2>1 DEF Request
  <2>3. [loaded EXCEPT !.stage = "loaded"] \in Request
    BY <2>2 DEF Request
  <2>4. Handle(s, IF named = found THEN Finish(loaded)
                  ELSE [loaded EXCEPT !.stage = "loaded"])
    BY <1>4 DEF SyncLoad
  <2>5. req' \in Typed
    BY <1>0, <2>2, <2>3, <2>4, FinishType, HandleType
  <2> QED BY <1>4, <2>5 DEF SyncLoad, Known, serverVars, TypeOK, ServerTypeOK
<1>5. CASE SyncRegister(s)
  <2> DEFINE named == AssignmentsOf(r.sales \ r.ok)
  <2>1. named \in SUBSET Assignments
    BY <1>3
  <2>2. [r EXCEPT !.found = named] \in Request
    BY <1>1, <2>1 DEF Request
  <2>3. req' \in Typed
    BY <1>0, <1>5, <2>2, FinishType, HandleType DEF SyncRegister
  <2>4. ASSUME NEW a \in named
        PROVE  minted[a] # None
    <3>1. PICK x \in r.sales : rung[x].asg = a /\ a # None
      BY DEF AssignmentsOf
    <3>2. minted[a] = [phone |-> rung[x].phone, barber |-> rung[x].barber]
      BY <1>1, <1>2, <3>1 DEF NamesFit, SalesFit
    <3>3. minted[a] \in Mint
      BY <1>2, <3>1, <3>2 DEF Mint, Sale
    <3> QED BY <3>3, NetAssumption
  <2>5. row' \in [Assignments -> Row \cup {None}]
    BY <1>5, <2>1, <2>4, NewRowType DEF SyncRegister, TypeOK, ServerTypeOK
  <2> QED BY <1>5, <2>3, <2>5 DEF SyncRegister, TypeOK, ServerTypeOK
<1>6. ASSUME NEW x \in Sales, SyncRecord(s, x)
      PROVE  req' \in Typed /\ ServerTypeOK'
  <2> DEFINE a == rung[x].asg
             receipt == [phone |-> r.phone, asg |-> a,
                         barber |-> IF a = None THEN rung[x].barber ELSE row[a].barber]
  <2>0. x \in r.sales
    BY <1>6 DEF SyncRecord
  <2>1. [r EXCEPT !.bad = @ \cup {x}] \in Request /\ [r EXCEPT !.ok = @ \cup {x}] \in Request
    BY <1>1 DEF Request
  <2>2. CASE Rejected(r, x)
    <3>1. req' \in Typed
      BY <1>0, <1>6, <2>1, <2>2, FinishType, HandleType DEF SyncRecord
    <3> QED BY <1>6, <2>2, <3>1 DEF SyncRecord, TypeOK, ServerTypeOK
  <2>3. CASE ~ Rejected(r, x)
    <3>1. req' \in Typed
      BY <1>0, <1>6, <2>1, <2>3, FinishType, HandleType DEF SyncRecord
    <3>2. receipt.barber \in Barbers
      <4>1. CASE a = None
        BY <1>2, <2>0, <4>1 DEF Sale
      <4>2. CASE a # None
        <5>1. a \in r.found /\ r.found \in SUBSET Assignments
          BY <1>1, <2>3, <4>2 DEF Rejected, Request
        <5>2. row[a] # None
          BY <1>0, <5>1 DEF AnswersTrue
        <5>3. row[a] \in Row
          BY <5>1, <5>2 DEF TypeOK, ServerTypeOK
        <5> QED BY <4>2, <5>3 DEF Row
      <4> QED BY <4>1, <4>2
    <3>3. receipt \in Receipt
      BY <1>1, <1>2, <2>0, <3>2 DEF Receipt, Sale, Request
    <3> QED BY <1>6, <2>3, <3>1, <3>3 DEF SyncRecord, ReceiptFor, TypeOK, ServerTypeOK
  <2> QED BY <2>2, <2>3
<1> QED BY <1>4, <1>5, <1>6

(* The other handlers, and what the owner does. *)
LEMMA TypeOtherHandler ==
  ASSUME TypeOK, NEW s \in Slots, CheckBinding(s) \/ ApproveDevice(s) \/ WrongPin(s)
  PROVE  req' \in Typed /\ ServerTypeOK'
<1> DEFINE r == req[s]
<1>0. req \in Typed /\ req[s] # None
  BY DEF TypeOK, NetTypeOK, Typed, CheckBinding, ApproveDevice, WrongPin, At
<1>1. r \in Request
  BY <1>0 DEF Typed
<1>2. CASE CheckBinding(s)
  <2>1. PICK a \in Assignments \cup {None} :
          Handle(s, [r EXCEPT !.stage = "answered", !.answer = "ok",
                      !.asg = IF a = None \/ row[a].barber \in inactive THEN None ELSE a])
    BY <1>2 DEF CheckBinding
  <2>2. \A c \in Assignments \cup {None} :
          [r EXCEPT !.stage = "answered", !.answer = "ok", !.asg = c] \in Request
    BY <1>1 DEF Request
  <2>3. req' \in Typed
    BY <1>0, <2>1, <2>2, HandleType
  <2> QED BY <1>2, <2>3 DEF CheckBinding, serverVars, TypeOK, ServerTypeOK
<1>3. CASE ApproveDevice(s)
  <2> DEFINE new == device[r.phone].secret + 1
  <2>1. new \in Secrets
    BY <1>1, <1>3, NetAssumption DEF ApproveDevice, TypeOK, ServerTypeOK, Secrets, Request
  <2>2. [r EXCEPT !.stage = "answered", !.answer = "ok", !.secret = new] \in Request
    BY <1>1, <2>1 DEF Request
  <2>3. req' \in Typed
    BY <1>0, <1>3, <2>2, HandleType DEF ApproveDevice
  <2> QED BY <1>3, <2>1, <2>3 DEF ApproveDevice, TypeOK, ServerTypeOK
<1>4. CASE WrongPin(s)
  <2>1. req' \in Typed
    BY <1>0, <1>4, AnswerType DEF WrongPin
  <2> QED BY <1>4, <2>1 DEF WrongPin, serverVars, TypeOK, ServerTypeOK
<1> QED BY <1>2, <1>3, <1>4

(* What the owner does keeps the types. *)
LEMMA TypeOwner ==
  ASSUME TypeOK, Owner
  PROVE  req' \in Typed /\ ServerTypeOK'
<1> USE DEF TypeOK, NetTypeOK, ServerTypeOK, Typed
<1>1. ASSUME NEW p \in Phones, RevokeDevice(p) PROVE req' \in Typed /\ ServerTypeOK'
  BY <1>1 DEF RevokeDevice
<1>2. ASSUME NEW b \in Barbers, Deactivate(b) PROVE req' \in Typed /\ ServerTypeOK'
  BY <1>2 DEF Deactivate
<1>3. CASE SwitchGateway
  BY <1>3 DEF SwitchGateway
<1> QED BY <1>1, <1>2, <1>3 DEF Owner

(* Any step of the server keeps the types. *)
LEMMA TypeServer ==
  ASSUME TypeOK, NamesFit, AnswersTrue, Server
  PROVE  TypeOK'
<1> DEFINE Good == req' \in Typed /\ ServerTypeOK'
<1>1. ASSUME NEW s \in Slots, Handler(s)
      PROVE  Good
  BY <1>1, TypeBindHandler, TypeSyncHandler, TypeOtherHandler DEF Handler
<1>2. Good
  BY <1>1, TypeOwner DEF Server, ServerNext
<1>3. NetTypeOK' /\ TillTypeOK'
  BY <1>2 DEF Server, TypeOK, NetTypeOK, TillTypeOK, tillVars, storage, Typed
<1> QED BY <1>2, <1>3 DEF TypeOK

(* Every step keeps the types. *)
LEMMA TypeStep ==
  ASSUME TypeOK, NamesFit, AnswersTrue, [Next]_vars
  PROVE  TypeOK'
<1>1. CASE UNCHANGED vars
  BY <1>1 DEF TypeOK, NetTypeOK, TillTypeOK, ServerTypeOK, vars, tillVars, storage, serverVars
<1> QED BY <1>1, TypePhone, TypeServer, TypeNetwork DEF Next

-----------------------------------------------------------------------------
(* What was generated, rung up, recorded or booked stays so: assignments and
   sales are never rewritten, and a row of the server only ever gets revoked. *)
Grows ==
  /\ \A a \in Assignments : minted[a] # None => minted'[a] = minted[a]
  /\ \A x \in Sales : rung[x] # None => rung'[x] = rung[x]
  /\ \A x \in Sales : sale[x] # None => sale'[x] = sale[x]
  /\ \A a \in Assignments : row[a] # None =>
       /\ row'[a] # None
       /\ row'[a].phone = row[a].phone
       /\ row'[a].barber = row[a].barber
       /\ row'[a].active => row[a].active

(* None is no record of any kind (the assumptions on None). *)
LEMMA NoneIsNothing ==
  /\ \A m \in Mint : m # None
  /\ \A x \in Sale : x # None
  /\ \A r \in Request : r # None
  /\ \A w \in Row : w # None
  /\ \A c \in Receipt : c # None
BY NetAssumption, ServerAssumption

(* The phone's steps leave assignments and sales alone, except for choosing a
   barber and ringing up a sale. *)
LEMMA PhoneNames ==
  ASSUME Phone
  PROVE  \/ UNCHANGED <<minted, rung>>
         \/ UNCHANGED rung /\ \E t \in PosTabs, b \in Barbers : ChooseBarber(t, b)
         \/ UNCHANGED minted /\ \E t \in PosTabs, x \in Sales : Ring(t, x)
<1> DEFINE Good == \/ UNCHANGED <<minted, rung>>
                   \/ UNCHANGED rung /\ \E t \in PosTabs, b \in Barbers : ChooseBarber(t, b)
                   \/ UNCHANGED minted /\ \E t \in PosTabs, x \in Sales : Ring(t, x)
<1> USE DEF storage
<1>1. ASSUME NEW j \in Jobs, DropBinding(j) PROVE Good
  BY <1>1 DEF DropBinding
<1>2. ASSUME NEW j \in Jobs, NEW s \in Slots, JobStep(j, s) PROVE Good
  BY <1>2 DEF JobStep, BindAccepted, BindNotApproved, BindRefused
<1>3. ASSUME NEW t \in Tabs, StartApproval(t) \/ StartRun(t) \/ Collect(t) \/ Reload(t)
      PROVE Good
  BY <1>3 DEF StartApproval, StartRun, Collect, Reload
<1>4. ASSUME NEW t \in Tabs, TabFails(t) PROVE Good
  BY <1>4 DEF TabFails, ApprovalFails, BindFails, ChunkFails, CheckFails
<1>5. ASSUME NEW t \in Tabs, NEW s \in Slots, TabStep(t, s) PROVE Good
  BY <1>5 DEF TabStep, ApprovalAnswered, ApprovalRefused, ChunkAnswered,
              ChunkNotApproved, CheckAnswered
<1>6. ASSUME NEW t \in PosTabs, SavePending(t) \/ StartCheck(t) PROVE Good
  BY <1>6 DEF SavePending, StartCheck
<1>7. ASSUME NEW t \in PosTabs, NEW b \in Barbers, ChooseBarber(t, b) PROVE Good
  BY <1>7 DEF ChooseBarber
<1>8. ASSUME NEW t \in PosTabs, NEW x \in Sales, Ring(t, x) PROVE Good
  BY <1>8 DEF Ring
<1>9. ASSUME NEW x \in Sales, ClearRejection(x) PROVE Good
  BY <1>9 DEF ClearRejection
<1> QED BY <1>1, <1>2, <1>3, <1>4, <1>5, <1>6, <1>7, <1>8, <1>9 DEF Phone, TillNext

(* A step of the phone only adds assignments and sales. *)
LEMMA PhoneGrows ==
  ASSUME TypeOK, Phone
  PROVE  Grows
<1> USE DEF TypeOK, NetTypeOK
<1>0. UNCHANGED <<row, sale>>
  BY DEF Phone, serverVars
<1>1. CASE UNCHANGED <<minted, rung>>
  BY <1>0, <1>1 DEF Grows
<1>2. ASSUME NEW t \in PosTabs, NEW b \in Barbers, ChooseBarber(t, b)
      PROVE  Grows
  BY <1>0, <1>2 DEF Grows, ChooseBarber
<1>3. ASSUME NEW t \in PosTabs, NEW x \in Sales, Ring(t, x)
      PROVE  Grows
  BY <1>0, <1>3 DEF Grows, Ring
<1> QED BY <1>1, <1>2, <1>3, PhoneNames

(* The server's steps that touch the books. *)
LEMMA ServerBooks ==
  ASSUME Server
  PROVE  /\ UNCHANGED <<minted, rung>>
         /\ \/ UNCHANGED <<row, sale>>
            \/ UNCHANGED sale /\ \E s \in Slots : BindInactive(s) \/ BindCreate(s)
            \/ UNCHANGED sale /\ \E s \in Slots : SyncRegister(s)
            \/ UNCHANGED row /\ \E s \in Slots, x \in Sales : SyncRecord(s, x)
<1> DEFINE Good == \/ UNCHANGED <<row, sale>>
                   \/ UNCHANGED sale /\ \E s \in Slots : BindInactive(s) \/ BindCreate(s)
                   \/ UNCHANGED sale /\ \E s \in Slots : SyncRegister(s)
                   \/ UNCHANGED row /\ \E s \in Slots, x \in Sales : SyncRecord(s, x)
<1>0. UNCHANGED <<minted, rung>>
  BY DEF Server, tillVars, storage
<1>1. ASSUME NEW s \in Slots, Handler(s) PROVE Good
  <2>1. CASE RefuseUnapproved(s) \/ BindExisting(s) \/ BindLookup(s) \/ BindLostRace(s)
             \/ SyncLoad(s) \/ CheckBinding(s) \/ WrongPin(s)
    BY <2>1 DEF RefuseUnapproved, BindExisting, BindLookup, BindLostRace, SyncLoad,
                CheckBinding, WrongPin, serverVars
  <2>2. CASE ApproveDevice(s)
    BY <2>2 DEF ApproveDevice
  <2>3. CASE BindInactive(s) \/ BindCreate(s)
    BY <2>3 DEF BindInactive, BindCreate
  <2>4. CASE SyncRegister(s)
    BY <2>4 DEF SyncRegister
  <2>5. CASE \E x \in Sales : SyncRecord(s, x)
    BY <2>5 DEF SyncRecord
  <2> QED BY <1>1, <2>1, <2>2, <2>3, <2>4, <2>5 DEF Handler
<1>2. ASSUME Owner PROVE Good
  BY <1>2 DEF Owner, RevokeDevice, Deactivate, SwitchGateway
<1> QED BY <1>0, <1>1, <1>2 DEF Server, ServerNext

(* A step of the server only adds rows and bookings. *)
LEMMA ServerGrows ==
  ASSUME TypeOK, Server
  PROVE  Grows
<1> USE DEF TypeOK, ServerTypeOK
<1>0. UNCHANGED <<minted, rung>>
  BY ServerBooks
<1>1. CASE UNCHANGED <<row, sale>>
  BY <1>0, <1>1 DEF Grows
<1>2. ASSUME NEW s \in Slots, BindInactive(s), UNCHANGED sale
      PROVE  Grows
  BY <1>0, <1>2 DEF Grows, BindInactive
<1>3. ASSUME NEW s \in Slots, BindCreate(s), UNCHANGED sale
      PROVE  Grows
  <2>1. \A a \in Assignments : row[a] # None =>
          row'[a] = row[a] \/ row'[a] = [row[a] EXCEPT !.active = FALSE]
    BY <1>3 DEF BindCreate, Activated
  <2>2. ASSUME NEW a \in Assignments, row[a] # None
        PROVE  /\ row'[a] # None
               /\ row'[a].phone = row[a].phone
               /\ row'[a].barber = row[a].barber
               /\ row'[a].active => row[a].active
    <3>1. row[a] \in Row
      BY <2>2
    <3>2. [row[a] EXCEPT !.active = FALSE] # None
      BY <3>1, NoneIsNothing DEF Row
    <3> QED BY <2>1, <2>2, <3>1, <3>2 DEF Row
  <2> QED BY <1>0, <1>3, <2>2 DEF Grows
<1>4. ASSUME NEW s \in Slots, SyncRegister(s), UNCHANGED sale
      PROVE  Grows
  BY <1>0, <1>4 DEF Grows, SyncRegister
<1>5. ASSUME NEW s \in Slots, NEW x \in Sales, SyncRecord(s, x), UNCHANGED row
      PROVE  Grows
  BY <1>0, <1>5 DEF Grows, SyncRecord
<1> QED BY <1>1, <1>2, <1>3, <1>4, <1>5, ServerBooks

(* No step takes back what was generated, rung up, recorded or booked. *)
LEMMA Growth ==
  ASSUME TypeOK, [Next]_vars
  PROVE  Grows
<1>1. CASE UNCHANGED vars
  BY <1>1 DEF Grows, vars, tillVars, storage, serverVars
<1>2. CASE Network
  BY <1>2 DEF Grows, Network, tillVars, storage, serverVars
<1> QED BY <1>1, <1>2, PhoneGrows, ServerGrows DEF Next

-----------------------------------------------------------------------------
(* The requests that fit what phones have generated and whose answers are true
   of the books: RequestsFit and AnswersTrue as a set. *)
Fitting ==
  {r \in Request :
     /\ r.kind = "bind" => r.asg # None /\ MintedFor(r.asg, r.phone)
     /\ \A x \in r.sales : RungOn(x, r.phone)
     /\ \A x \in r.ok : sale[x] # None
     /\ \A a \in r.found : row[a] # None
     /\ r.ok \cup r.bad \subseteq r.sales}

InSlots(G) == [Slots -> G \cup {None}]

(* RequestsFit and AnswersTrue as a set the requests under way lie in. *)
LEMMA RequestsFitting ==
  ASSUME TypeOK
  PROVE  RequestsFit /\ AnswersTrue <=> req \in InSlots(Fitting)
<1>1. req \in [Slots -> Request \cup {None}] /\ \A r \in Request : r # None
  BY NoneIsNothing DEF TypeOK, NetTypeOK
<1>2. ASSUME RequestsFit, AnswersTrue PROVE req \in InSlots(Fitting)
  BY <1>1, <1>2 DEF RequestsFit, AnswersTrue, InSlots, Fitting
<1>3. ASSUME req \in InSlots(Fitting) PROVE RequestsFit /\ AnswersTrue
  BY <1>1, <1>3 DEF RequestsFit, AnswersTrue, InSlots, Fitting
<1> QED BY <1>2, <1>3

(* The same of the next state. *)
LEMMA RequestsFittingNext ==
  ASSUME TypeOK'
  PROVE  RequestsFit' /\ AnswersTrue' <=> req' \in InSlots(Fitting')
<1>1. req' \in [Slots -> Request \cup {None}] /\ \A r \in Request : r # None
  BY NoneIsNothing DEF TypeOK, NetTypeOK
<1>2. ASSUME RequestsFit', AnswersTrue' PROVE req' \in InSlots(Fitting')
  BY <1>1, <1>2 DEF RequestsFit, AnswersTrue, InSlots, Fitting
<1>3. ASSUME req' \in InSlots(Fitting') PROVE RequestsFit' /\ AnswersTrue'
  BY <1>1, <1>3 DEF RequestsFit, AnswersTrue, InSlots, Fitting
<1> QED BY <1>2, <1>3

(* A request that fits keeps fitting as names and books grow. *)
LEMMA FittingGrows ==
  ASSUME TypeOK, Grows
  PROVE  Fitting \subseteq Fitting'
<1> SUFFICES ASSUME NEW r \in Fitting PROVE r \in Fitting'
  OBVIOUS
<1>1. r \in Request
  BY DEF Fitting
<1>2. r.asg \in Assignments \cup {None} /\ r.sales \in SUBSET Sales
      /\ r.ok \in SUBSET Sales /\ r.found \in SUBSET Assignments
  BY <1>1 DEF Request
<1>3. r.kind = "bind" => r.asg # None /\ MintedFor(r.asg, r.phone)'
  BY <1>2 DEF Fitting, MintedFor, Grows
<1>4. \A x \in r.sales : RungOn(x, r.phone)'
  BY <1>2 DEF Fitting, RungOn, Grows
<1>5. \A x \in r.ok : sale'[x] # None
  BY <1>2 DEF Fitting, Grows
<1>6. \A a \in r.found : row'[a] # None
  BY <1>2 DEF Fitting, Grows
<1> QED BY <1>1, <1>3, <1>4, <1>5, <1>6 DEF Fitting

(* What each use of the network does to the slots, for any set of requests. *)
LEMMA HandleIn ==
  ASSUME NEW G, NEW s \in Slots, NEW r \in G, req \in InSlots(G), Handle(s, r)
  PROVE  req' \in InSlots(G)
BY DEF Handle, InSlots

(* Sending a member of G keeps the slots in G. *)
LEMMA SendIn ==
  ASSUME NEW G, NEW r \in G, req \in InSlots(G), Send(r)
  PROVE  req' \in InSlots(G)
BY DEF Send, InSlots

(* Consuming an answer keeps the slots in G. *)
LEMMA ConsumeIn ==
  ASSUME NEW G, NEW s \in Slots, req \in InSlots(G), Consume(s)
  PROVE  req' \in InSlots(G)
BY DEF Consume, InSlots

(* Giving requests up keeps the slots in G if G allows for no owner. *)
LEMMA AbandonIn ==
  ASSUME NEW G, NEW js, \A r \in G : [r EXCEPT !.owner = None] \in G,
         req \in InSlots(G), Abandon(js)
  PROVE  req' \in InSlots(G)
<1> SUFFICES ASSUME NEW s \in Slots PROVE req'[s] \in G \cup {None}
  BY DEF Abandon, InSlots
<1>1. req[s] \in G \cup {None}
  BY DEF InSlots
<1>2. req[s] # None => [req[s] EXCEPT !.owner = None] \in G
  BY <1>1
<1> QED BY <1>1, <1>2 DEF Abandon

(* Fitting requests allow for no owner. *)
LEMMA FittingAbandoned ==
  \A r \in Fitting' : [r EXCEPT !.owner = None] \in Fitting'
<1> SUFFICES ASSUME NEW r \in Fitting' PROVE [r EXCEPT !.owner = None] \in Fitting'
  OBVIOUS
<1> DEFINE q == [r EXCEPT !.owner = None]
<1>1. r \in Request
  BY DEF Fitting
<1>2. q \in Request /\ q.kind = r.kind /\ q.asg = r.asg /\ q.phone = r.phone
      /\ q.sales = r.sales /\ q.ok = r.ok /\ q.bad = r.bad /\ q.found = r.found
  BY <1>1 DEF Request
<1> QED BY <1>1, <1>2 DEF Fitting

(* The requests already under way fit after the step. *)
LEMMA OldRequests ==
  ASSUME TypeOK, RequestsFit, AnswersTrue, Grows
  PROVE  req \in InSlots(Fitting')
BY RequestsFitting, FittingGrows DEF InSlots

(* What the phone sends fits. *)
LEMMA PlainRequestFits ==
  ASSUME NEW j \in Jobs, NEW k \in {"check", "approve"}
  PROVE  NewRequest(j, k, 0) \in Fitting'
<1>1. NewRequest(j, k, 0) \in Request
  BY NewRequestType, NoSecret
<1> QED BY <1>1 DEF Fitting, NewRequest

(* A bind request for an assignment of this phone fits. *)
LEMMA RegisterFits ==
  ASSUME TypeOK, Grows, NEW j \in Jobs, NEW a \in Assignments,
         MintedFor(a, PhoneOfJob(j))
  PROVE  RegisterRequest(j, a) \in Fitting'
<1> DEFINE r == RegisterRequest(j, a)
<1>1. r \in Request
  BY RegisterType
<1>2. r.asg = a /\ r.phone = PhoneOfJob(j) /\ r.sales = {} /\ r.ok = {} /\ r.bad = {}
      /\ r.found = {} /\ r.kind = "bind"
  BY DEF RegisterRequest, NewRequest, PhoneOfJob
<1>3. a # None /\ MintedFor(a, PhoneOfJob(j))'
  BY NetAssumption DEF MintedFor, Grows
<1> QED BY <1>1, <1>2, <1>3 DEF Fitting

(* A batch of sales rung up on this phone fits. *)
LEMMA SyncFits ==
  ASSUME TypeOK, Grows, NEW j \in Jobs, NEW c \in SUBSET Sales, NEW z \in Secrets,
         \A x \in c : RungOn(x, PhoneOfJob(j))
  PROVE  SyncRequest(j, c, z) \in Fitting'
<1> DEFINE r == SyncRequest(j, c, z)
<1>1. r \in Request
  BY SyncRequestType
<1>2. r.phone = PhoneOfJob(j) /\ r.sales = c /\ r.ok = {} /\ r.bad = {}
      /\ r.found = {} /\ r.kind = "sync"
  BY DEF SyncRequest, NewRequest, PhoneOfJob
<1>3. \A x \in c : RungOn(x, PhoneOfJob(j))'
  BY DEF RungOn, Grows
<1> QED BY <1>1, <1>2, <1>3 DEF Fitting

(* Every request under way after a step of the phone fits. *)
LEMMA PhoneRequests ==
  ASSUME TypeOK, NamesFit, AnswersTrue, QueueTrue, Grows, Phone
  PROVE  req' \in InSlots(Fitting')
<1> DEFINE Good == req' \in InSlots(Fitting')
<1> USE JobsOfTab DEF TypeOK, NetTypeOK, TillTypeOK
<1>0. req \in InSlots(Fitting')
  BY OldRequests DEF NamesFit
<1>a. \A t \in Tabs : PhoneOf[t] \in Phones
  BY NetAssumption
<1>b. \A t \in Tabs, k \in {"run", "bind", "check", "approve"} :
        PhoneOfJob(<<t, k>>) = PhoneOf[t]
  BY DEF PhoneOfJob
<1>1. ASSUME NEW j \in Jobs, DropBinding(j) PROVE Good
  BY <1>0, <1>1 DEF DropBinding
<1>2. ASSUME NEW j \in Jobs, NEW s \in Slots, JobStep(j, s) PROVE Good
  BY <1>0, <1>2, ConsumeIn DEF JobStep, BindAccepted, BindNotApproved, BindRefused
<1>3. ASSUME NEW t \in Tabs, StartApproval(t) PROVE Good
  BY <1>0, <1>3, PlainRequestFits, SendIn DEF StartApproval
<1>4. ASSUME NEW t \in Tabs, StartRun(t) PROVE Good
  <2>1. CASE pending[PhoneOf[t]] = None
    BY <1>0, <1>4, <2>1 DEF StartRun
  <2>2. CASE pending[PhoneOf[t]] # None
    <3>1. pending[PhoneOf[t]] \in Assignments
      BY <1>a, <2>2
    <3>2. MintedFor(pending[PhoneOf[t]], PhoneOfJob(<<t, "run">>))
      BY <1>a, <1>b DEF NamesFit, TabsFit
    <3> QED BY <1>0, <1>4, <2>2, <3>1, <3>2, RegisterFits, SendIn DEF StartRun
  <2> QED BY <2>1, <2>2
<1>5. ASSUME NEW t \in Tabs, Collect(t) PROVE Good
  <2> DEFINE p == PhoneOf[t]
             j == <<t, "run">>
  <2>1. CASE UNCHANGED req
    BY <1>0, <2>1
  <2>2. CASE \E c \in Chunks(ToSend(p)) : Send(SyncRequest(j, c, secret[p]))
    <3>1. PICK c \in Chunks(ToSend(p)) : Send(SyncRequest(j, c, secret[p]))
      BY <2>2
    <3>2. c \in SUBSET Sales /\ \A x \in c : rung[x].phone = p /\ status[x] = "queued"
      BY <3>1 DEF Chunks, ToSend
    <3>3. \A x \in c : RungOn(x, PhoneOfJob(j))
      BY <1>b, <3>2 DEF QueueTrue, RungOn
    <3>4. secret[p] \in Secrets
      BY <1>a
    <3> QED BY <1>0, <3>1, <3>2, <3>3, <3>4, SyncFits, SendIn
  <2> QED BY <1>5, <2>1, <2>2 DEF Collect
<1>6. ASSUME NEW t \in Tabs, TabFails(t) PROVE Good
  <2>1. PICK js : Abandon(js)
    BY <1>6 DEF TabFails, ApprovalFails, BindFails, ChunkFails, CheckFails, GiveUp
  <2> QED BY <1>0, <2>1, AbandonIn, FittingAbandoned
<1>7. ASSUME NEW t \in Tabs, Reload(t) PROVE Good
  BY <1>0, <1>7, AbandonIn, FittingAbandoned DEF Reload
<1>8. ASSUME NEW t \in Tabs, NEW s \in Slots, TabStep(t, s) PROVE Good
  <2> DEFINE j == <<t, "run">>
             todo == job[j].todo \ req[s].sales
  <2>1. CASE Consume(s)
    BY <1>0, <2>1, ConsumeIn
  <2>2. CASE \E c \in Chunks(todo) :
               req' = [req EXCEPT ![s] = SyncRequest(j, c, job[j].secret)]
    <3>1. PICK c \in Chunks(todo) :
            req' = [req EXCEPT ![s] = SyncRequest(j, c, job[j].secret)]
      BY <2>2
    <3>2. job[j] \in Job
      OBVIOUS
    <3>3. c \subseteq job[j].todo /\ c \in SUBSET Sales /\ job[j].secret \in Secrets
      BY <3>1, <3>2 DEF Chunks, Job
    <3>4. \A x \in c : RungOn(x, PhoneOfJob(j))
      BY <3>3 DEF NamesFit, TabsFit
    <3>5. SyncRequest(j, c, job[j].secret) \in Fitting'
      BY <3>3, <3>4, SyncFits
    <3> QED BY <1>0, <3>1, <3>5 DEF InSlots
  <2> QED BY <1>8, <2>1, <2>2 DEF TabStep, ApprovalAnswered, ApprovalRefused,
                                  ChunkAnswered, ChunkNotApproved, CheckAnswered
<1>9. ASSUME NEW t \in PosTabs,
             StartCheck(t) \/ SavePending(t)
      PROVE Good
  <2>0. t \in Tabs
    BY NetAssumption
  <2>1. CASE StartCheck(t)
    BY <1>0, <2>0, <2>1, PlainRequestFits, SendIn DEF StartCheck
  <2>2. CASE SavePending(t)
    <3> DEFINE j == <<t, "bind">>
    <3>1. job[j] \in Job /\ job[j].asg # None /\ MintedFor(job[j].asg, PhoneOfJob(j))
      BY <2>0, <2>2 DEF SavePending, NamesFit, TabsFit
    <3>2. job[j].asg \in Assignments
      BY <3>1 DEF Job
    <3> QED BY <1>0, <2>0, <2>2, <3>1, <3>2, RegisterFits, SendIn DEF SavePending
  <2> QED BY <1>9, <2>1, <2>2
<1>10. ASSUME NEW t \in PosTabs, NEW b \in Barbers, ChooseBarber(t, b) PROVE Good
  BY <1>0, <1>10 DEF ChooseBarber
<1>11. ASSUME NEW t \in PosTabs, NEW x \in Sales, Ring(t, x) PROVE Good
  BY <1>0, <1>11 DEF Ring
<1>12. ASSUME NEW x \in Sales, ClearRejection(x) PROVE Good
  BY <1>0, <1>12 DEF ClearRejection
<1> QED BY <1>1, <1>2, <1>3, <1>4, <1>5, <1>6, <1>7, <1>8, <1>9, <1>10, <1>11, <1>12
        DEF Phone, TillNext

(* A handler that only moves on, or answers, keeps what the request names. *)
LEMMA MovedFits ==
  ASSUME NEW r \in Fitting', NEW q \in Request,
         q.kind = r.kind, q.phone = r.phone, q.kind = "bind" => q.asg = r.asg,
         q.sales = r.sales, q.ok = r.ok, q.bad = r.bad, q.found = r.found
  PROVE  q \in Fitting'
BY DEF Fitting

(* A sync request that is finished, or goes on, fits. *)
LEMMA FinishFits ==
  ASSUME NEW r \in Fitting'
  PROVE  Finish(r) \in Fitting'
<1> DEFINE done == [r EXCEPT !.stage = "answered", !.answer = "ok"]
           more == [r EXCEPT !.stage = "recording"]
<1>1. r \in Request
  BY DEF Fitting
<1>2. done \in Request /\ more \in Request
  BY <1>1 DEF Request
<1>3. done \in Fitting'
  BY <1>1, <1>2, MovedFits DEF Request
<1>4. more \in Fitting'
  BY <1>1, <1>2, MovedFits DEF Request
<1> QED BY <1>3, <1>4 DEF Finish

(* Answering a fitting request leaves fitting requests. *)
LEMMA AnswerIn ==
  ASSUME NEW s \in Slots, req \in InSlots(Fitting'), req[s] # None,
         NEW a \in {"ok", "refused", "notApproved"}, Answer(s, a)
  PROVE  req' \in InSlots(Fitting')
<1> DEFINE q == [req[s] EXCEPT !.stage = "answered", !.answer = a]
<1>1. req[s] \in Fitting' /\ req[s] \in Request
  BY DEF InSlots, Fitting
<1>2. q \in Request
  BY <1>1 DEF Request
<1>3. q \in Fitting'
  BY <1>1, <1>2, MovedFits DEF Request
<1> QED BY <1>3, HandleIn DEF Answer

(* Every request under way after a step of the server fits. *)
LEMMA ServerRequests ==
  ASSUME TypeOK, TypeOK', NamesFit, AnswersTrue, Grows, Server
  PROVE  req' \in InSlots(Fitting')
<1> DEFINE Good == req' \in InSlots(Fitting')
<1>0. req \in InSlots(Fitting')
  BY OldRequests DEF NamesFit
<1>1. ASSUME NEW s \in Slots, Handler(s) PROVE Good
  <2> DEFINE r == req[s]
  <2>0. req[s] # None
    BY <1>1 DEF Handler, RefuseUnapproved, BindExisting, BindLookup, BindInactive,
                BindCreate, BindLostRace, SyncLoad, SyncRegister, SyncRecord,
                CheckBinding, ApproveDevice, WrongPin, At
  <2>1. r \in Fitting' /\ r \in Request
    BY <1>0, <2>0 DEF InSlots, Fitting
  <2>2. CASE \E a \in {"ok", "refused", "notApproved"} : Answer(s, a)
    BY <1>0, <2>0, <2>2, AnswerIn
  <2>3. CASE BindLookup(s)
    <3>1. \A g \in {"inactive", "creating"} : [r EXCEPT !.stage = g] \in Request
      BY <2>1 DEF Request
    <3>2. \A g \in {"inactive", "creating"} : [r EXCEPT !.stage = g] \in Fitting'
      BY <2>1, <3>1, MovedFits DEF Request
    <3> QED BY <1>0, <2>3, <3>2, HandleIn DEF BindLookup
  <2>4. CASE SyncLoad(s)
    <3> DEFINE known == Known(r)
               off == NeedsGateway(r)
               named == AssignmentsOf(r.sales \ known)
               found == {a \in named : row[a] # None}
               loaded == [r EXCEPT !.ok = known, !.bad = off, !.found = found]
               waiting == [loaded EXCEPT !.stage = "loaded"]
    <3>1. UNCHANGED <<row, sale, rung, minted>>
      BY <1>1, <2>4 DEF SyncLoad, serverVars, Server, tillVars, storage
    <3>2. r.sales \in SUBSET Sales /\ \A x \in r.sales : rung[x] \in Sale
      <4>1. r.sales \in SUBSET Sales
        BY <2>1 DEF Request
      <4>2. \A x \in r.sales : rung[x] # None
        BY <2>0 DEF NamesFit, RequestsFit, RungOn
      <4> QED BY <4>1, <4>2 DEF TypeOK, NetTypeOK
    <3>3. named \in SUBSET Assignments
      BY <3>2 DEF AssignmentsOf, Sale
    <3>4. loaded \in Request
      BY <2>1, <3>2, <3>3 DEF Request, NeedsGateway, Known
    <3>5. loaded.kind = r.kind /\ loaded.asg = r.asg /\ loaded.phone = r.phone
          /\ loaded.sales = r.sales /\ loaded.ok = known /\ loaded.bad = off
          /\ loaded.found = found
      BY <2>1 DEF Request
    <3>6. loaded \in Fitting'
      BY <2>1, <3>1, <3>4, <3>5 DEF Fitting, NeedsGateway, Known
    <3>7. waiting \in Request
      BY <3>4 DEF Request
    <3>8. waiting \in Fitting'
      BY <3>4, <3>6, <3>7, MovedFits DEF Request
    <3>9. Handle(s, IF named = found THEN Finish(loaded) ELSE waiting)
      BY <2>4 DEF SyncLoad
    <3> QED BY <1>0, <3>6, <3>8, <3>9, FinishFits, HandleIn
  <2>5. CASE SyncRegister(s)
    <3> DEFINE named == AssignmentsOf(r.sales \ r.ok)
               q == [r EXCEPT !.found = named]
    <3>1. r.sales \in SUBSET Sales /\ \A x \in r.sales : rung[x] \in Sale
      <4>1. r.sales \in SUBSET Sales
        BY <2>1 DEF Request
      <4>2. \A x \in r.sales : rung[x] # None
        BY <2>0 DEF NamesFit, RequestsFit, RungOn
      <4> QED BY <4>1, <4>2 DEF TypeOK, NetTypeOK
    <3>2. named \in SUBSET Assignments
      BY <3>1 DEF AssignmentsOf, Sale
    <3>3. \A a \in named : row'[a] # None
      <4> SUFFICES ASSUME NEW a \in named, row[a] = None PROVE row'[a] # None
        BY <2>5, <3>2 DEF SyncRegister
      <4>1. row'[a] = NewRow(a, FALSE, "sync")
        BY <2>5, <3>2 DEF SyncRegister
      <4>2. PICK x \in r.sales : rung[x].asg = a /\ a # None
        BY DEF AssignmentsOf
      <4>3. minted[a] = [phone |-> rung[x].phone, barber |-> rung[x].barber]
        BY <3>1, <4>2, NoneIsNothing DEF NamesFit, SalesFit
      <4>4. minted[a] \in Mint
        BY <3>1, <4>3 DEF Sale, Mint
      <4>5. NewRow(a, FALSE, "sync") \in Row
        BY <3>2, <4>4, NoneIsNothing, NewRowType
      <4> QED BY <4>1, <4>5, NoneIsNothing
    <3>4. q \in Request
      BY <2>1, <3>2 DEF Request
    <3>5. q.kind = r.kind /\ q.asg = r.asg /\ q.phone = r.phone
          /\ q.sales = r.sales /\ q.ok = r.ok /\ q.bad = r.bad /\ q.found = named
      BY <2>1 DEF Request
    <3>6. q \in Fitting'
      BY <2>1, <3>3, <3>4, <3>5 DEF Fitting
    <3> QED BY <1>0, <2>5, <3>6, FinishFits, HandleIn DEF SyncRegister
  <2>6. ASSUME NEW x \in Sales, SyncRecord(s, x) PROVE Good
    <3> DEFINE bad == [r EXCEPT !.bad = @ \cup {x}]
               ok == [r EXCEPT !.ok = @ \cup {x}]
    <3>0. x \in r.sales
      BY <2>6 DEF SyncRecord
    <3>1. bad \in Request /\ ok \in Request
      BY <2>1 DEF Request
    <3>2. bad.kind = r.kind /\ bad.asg = r.asg /\ bad.phone = r.phone
          /\ bad.sales = r.sales /\ bad.ok = r.ok /\ bad.bad = r.bad \cup {x}
          /\ bad.found = r.found
      BY <2>1 DEF Request
    <3>3. ok.kind = r.kind /\ ok.asg = r.asg /\ ok.phone = r.phone
          /\ ok.sales = r.sales /\ ok.ok = r.ok \cup {x} /\ ok.bad = r.bad
          /\ ok.found = r.found
      BY <2>1 DEF Request
    <3>4. bad \in Fitting'
      BY <2>1, <3>0, <3>1, <3>2 DEF Fitting
    <3>5. CASE Rejected(r, x)
      BY <1>0, <2>6, <3>4, <3>5, FinishFits, HandleIn DEF SyncRecord
    <3>6. CASE ~ Rejected(r, x)
      <4>1. sale'[x] # None
        <5> DEFINE a == rung[x].asg
                   receipt == [phone |-> r.phone, asg |-> a,
                     barber |-> IF a = None THEN rung[x].barber ELSE row[a].barber]
        <5>1. sale' = [sale EXCEPT ![x] = IF @ = None THEN receipt ELSE @]
          BY <2>6, <3>6 DEF SyncRecord, ReceiptFor
        <5>2. sale'[x] = IF sale[x] = None THEN receipt ELSE sale[x]
          BY <5>1 DEF TypeOK, ServerTypeOK
        <5>3. receipt # None
          <6>1. receipt \in Receipt
            <7>1. rung[x] \in Sale
              BY <2>0, <3>0 DEF NamesFit, RequestsFit, RungOn, TypeOK, NetTypeOK
            <7>2. a # None => a \in Assignments /\ row[a] \in Row
              BY <2>0, <3>6, <7>1 DEF Rejected, AnswersTrue, Sale, TypeOK, ServerTypeOK
            <7>3. a # None => row[a].barber \in Barbers
              BY <7>2 DEF Row
            <7> QED BY <2>1, <7>1, <7>3 DEF Receipt, Sale, Request
          <6> QED BY <6>1, NoneIsNothing
        <5> QED BY <5>2, <5>3
      <4>2. ok \in Fitting'
        BY <2>1, <3>0, <3>1, <3>3, <4>1 DEF Fitting
      <4> QED BY <1>0, <2>6, <3>6, <4>2, FinishFits, HandleIn DEF SyncRecord
    <3> QED BY <3>5, <3>6
  <2>7. CASE CheckBinding(s)
    <3>1. PICK a \in Assignments \cup {None} :
            Handle(s, [r EXCEPT !.stage = "answered", !.answer = "ok",
                      !.asg = IF a = None \/ row[a].barber \in inactive THEN None ELSE a])
      BY <2>7 DEF CheckBinding
    <3>2. \A c \in Assignments \cup {None} :
            [r EXCEPT !.stage = "answered", !.answer = "ok", !.asg = c] \in Request
      BY <2>1 DEF Request
    <3>3. r.kind = "check"
      BY <2>7 DEF CheckBinding, At
    <3>4. \A c \in Assignments \cup {None} :
            [r EXCEPT !.stage = "answered", !.answer = "ok", !.asg = c] \in Fitting'
      BY <2>1, <3>2, <3>3, MovedFits DEF Request
    <3> QED BY <1>0, <3>1, <3>4, HandleIn
  <2>8. CASE ApproveDevice(s)
    <3> DEFINE new == device[r.phone].secret + 1
               q == [r EXCEPT !.stage = "answered", !.answer = "ok", !.secret = new]
    <3>1. new \in Secrets
      BY <2>1, <2>8, NetAssumption DEF ApproveDevice, TypeOK, ServerTypeOK, Secrets, Request
    <3>2. q \in Request
      BY <2>1, <3>1 DEF Request
    <3>3. q \in Fitting'
      BY <2>1, <3>2, MovedFits DEF Request
    <3> QED BY <1>0, <2>8, <3>3, HandleIn DEF ApproveDevice
  <2> QED BY <1>1, <2>2, <2>3, <2>4, <2>5, <2>6, <2>7, <2>8
          DEF Handler, RefuseUnapproved, BindExisting, BindInactive, BindCreate,
              BindLostRace, WrongPin
<1>2. CASE Owner
  BY <1>0, <1>2 DEF Owner, RevokeDevice, Deactivate, SwitchGateway
<1> QED BY <1>1, <1>2 DEF Server, ServerNext

(* Every step keeps RequestsFit and AnswersTrue. *)
LEMMA RequestsStep ==
  ASSUME TypeOK, NamesFit, AnswersTrue, QueueTrue, [Next]_vars
  PROVE  RequestsFit' /\ AnswersTrue'
<1>1. TypeOK' /\ Grows
  BY TypeStep, Growth
<1>2. req \in InSlots(Fitting')
  BY <1>1, OldRequests DEF NamesFit
<1>3. ASSUME UNCHANGED vars PROVE req' \in InSlots(Fitting')
  BY <1>2, <1>3 DEF vars
<1>4. ASSUME Network PROVE req' \in InSlots(Fitting')
  BY <1>2, <1>4, ConsumeIn DEF Network, Lose
<1>5. req' \in InSlots(Fitting')
  BY <1>1, <1>2, <1>3, <1>4, PhoneRequests, ServerRequests DEF Next
<1> QED BY <1>1, <1>5, RequestsFittingNext

-----------------------------------------------------------------------------
(* TabsFit, part by part. *)
BindingsFit == \A p \in Phones : MintedFor(binding[p], p)
PendingFit == \A p \in Phones : MintedFor(pending[p], p)
ShownFit == \A t \in Tabs : MintedFor(shown[t], PhoneOf[t])
JobFit(r, j) ==
  /\ MintedFor(r.asg, PhoneOfJob(j))
  /\ r.pc = "saving" => r.asg # None
  /\ \A x \in r.todo : RungOn(x, PhoneOfJob(j))
JobsFit == \A j \in Jobs : JobFit(job[j], j)

(* What a job record must satisfy to be set by this step. *)
JobFitNext(r, j) ==
  /\ r.asg # None => minted'[r.asg] # None /\ minted'[r.asg].phone = PhoneOfJob(j)
  /\ r.pc = "saving" => r.asg # None
  /\ \A x \in r.todo : rung'[x] # None /\ rung'[x].phone = PhoneOfJob(j)

(* TabsFit is the conjunction of its four parts. *)
LEMMA TabsFitParts ==
  /\ TabsFit <=> BindingsFit /\ PendingFit /\ ShownFit /\ JobsFit
  /\ TabsFit' <=> BindingsFit' /\ PendingFit' /\ ShownFit' /\ JobsFit'
BY DEF TabsFit, BindingsFit, PendingFit, ShownFit, JobsFit, JobFit

(* A job that fits keeps fitting as names grow. *)
LEMMA JobFitGrows ==
  ASSUME Grows, NEW r \in Job, NEW j, JobFit(r, j)
  PROVE  JobFitNext(r, j)
<1>1. r.asg \in Assignments \cup {None} /\ r.todo \in SUBSET Sales
  BY DEF Job
<1> QED BY <1>1 DEF JobFit, JobFitNext, MintedFor, RungOn, Grows

(* JobFitNext is JobsFit of the next state, job by job. *)
LEMMA JobsFitNext ==
  (\A j \in Jobs : JobFitNext(job'[j], j)) => JobsFit'
BY DEF JobsFit, JobFit, JobFitNext, MintedFor, RungOn, PhoneOfJob

(* A part whose variable does not change stays true. *)
LEMMA OldTabs ==
  ASSUME TypeOK, TabsFit, Grows
  PROVE  /\ UNCHANGED binding => BindingsFit'
         /\ UNCHANGED pending => PendingFit'
         /\ UNCHANGED shown => ShownFit'
         /\ UNCHANGED job => JobsFit'
<1> USE TabsFitParts DEF TypeOK, TillTypeOK
<1>1. ASSUME UNCHANGED binding PROVE BindingsFit'
  BY <1>1 DEF BindingsFit, MintedFor, Grows
<1>2. ASSUME UNCHANGED pending PROVE PendingFit'
  BY <1>2 DEF PendingFit, MintedFor, Grows
<1>3. ASSUME UNCHANGED shown PROVE ShownFit'
  BY <1>3 DEF ShownFit, MintedFor, Grows
<1>4. ASSUME UNCHANGED job PROVE JobsFit'
  BY <1>4, JobFitGrows, JobsFitNext DEF JobsFit
<1> QED BY <1>1, <1>2, <1>3, <1>4

(* Setting one job keeps JobsFit when the job's new record fits. *)
LEMMA SetFits ==
  ASSUME TypeOK, TabsFit, Grows, NEW j \in Jobs, NEW r \in Job, JobFitNext(r, j), Set(j, r)
  PROVE  JobsFit'
<1>1. ASSUME NEW k \in Jobs PROVE JobFitNext(job'[k], k)
  <2>1. job'[k] = IF k = j THEN r ELSE job[k]
    BY DEF Set, TypeOK, TillTypeOK
  <2>2. JobFitNext(job[k], k)
    BY TabsFitParts, JobFitGrows DEF JobsFit, TypeOK, TillTypeOK
  <2> QED BY <2>1, <2>2
<1> QED BY <1>1, JobsFitNext

(* A record with the old job's assignment and sales, or with none, fits. *)
LEMMA KeptJobFits ==
  ASSUME TypeOK, TabsFit, Grows, NEW j \in Jobs, NEW r \in Job,
         r.pc # "saving", r.asg \in {None, job[j].asg}, r.todo \subseteq job[j].todo
  PROVE  JobFitNext(r, j)
<1>1. JobFit(job[j], j) /\ job[j] \in Job
  BY TabsFitParts DEF JobsFit, TypeOK, TillTypeOK
<1>2. JobFit(r, j)
  BY <1>1 DEF JobFit, MintedFor
<1> QED BY <1>2, JobFitGrows

(* An idle job fits. *)
LEMMA IdleFits ==
  ASSUME TypeOK, TabsFit, Grows, NEW j \in Jobs
  PROVE  JobFitNext(Idle, j)
<1>1. Idle.pc = "idle" /\ Idle.asg = None /\ Idle.todo = {}
  BY DEF Idle
<1> QED BY <1>1, IdleType, KeptJobFits

(* The end of a run leaves fitting jobs and displays. *)
LEMMA EndRunFits ==
  ASSUME TypeOK, TabsFit, Grows, NEW t \in Tabs, EndRun(t)
  PROVE  JobsFit' /\ ShownFit'
<1>1. JobsFit'
  BY JobsOfTab, IdleType, IdleFits, SetFits DEF EndRun
<1>2. ShownFit'
  <2> SUFFICES ASSUME NEW u \in Tabs PROVE MintedFor(shown[u], PhoneOf[u])'
    BY DEF ShownFit
  <2>1. shown'[u] = shown[u] \/ shown'[u] = None
    BY DEF EndRun, TypeOK, TillTypeOK
  <2> QED BY <2>1, TabsFitParts DEF ShownFit, MintedFor, Grows, TypeOK, TillTypeOK
<1> QED BY <1>1, <1>2

(* The bind jobs: an answer, a failure, or dropping the binding. *)
LEMMA BindTabs ==
  ASSUME TypeOK, TabsFit, Grows, NEW j \in Jobs,
         DropBinding(j) \/ BindFails(j) \/ \E s \in Slots : JobStep(j, s)
  PROVE  TabsFit'
<1>0. job[j] \in Job /\ AfterBind(j) \in Job /\ AfterBind(j).pc # "saving"
      /\ AfterBind(j).asg = None /\ AfterBind(j).todo \subseteq job[j].todo
  <2>1. job[j] \in Job
    BY DEF TypeOK, TillTypeOK
  <2>2. AfterBind(j) \in Job
    BY <2>1, IdleType DEF AfterBind, Job
  <2>3. AfterBind(j).pc # "saving" /\ AfterBind(j).asg = None
        /\ AfterBind(j).todo \subseteq job[j].todo
    BY <2>1, IdleType DEF AfterBind, Job, Idle
  <2> QED BY <2>1, <2>2, <2>3
<1>1. JobFitNext(AfterBind(j), j)
  BY <1>0, KeptJobFits
<1>2. JobFitNext(Idle, j)
  BY IdleFits
<1>3. CASE DropBinding(j)
  <2> DEFINE r == [AfterBind(j) EXCEPT !.cleared = TRUE]
  <2>1. r \in Job /\ r.pc # "saving" /\ r.asg = None /\ r.todo \subseteq job[j].todo
    BY <1>0 DEF Job
  <2>2. JobFitNext(r, j)
    BY <2>1, KeptJobFits
  <2>3. JobsFit'
    BY <1>2, <1>3, <2>1, <2>2, IdleType, SetFits DEF DropBinding
  <2>4. BindingsFit'
    BY <1>3, TabsFitParts DEF DropBinding, BindingsFit, MintedFor, Grows, TypeOK, TillTypeOK
  <2>5. ShownFit'
    BY <1>3, TabsFitParts, OldTabs DEF DropBinding, ShownFit, MintedFor, Grows, TypeOK, TillTypeOK
  <2> QED BY <1>3, <2>3, <2>4, <2>5, OldTabs, TabsFitParts DEF DropBinding
<1>4. CASE BindFails(j)
  <2>1. JobsFit'
    BY <1>0, <1>1, <1>4, SetFits DEF BindFails
  <2> QED BY <1>4, <2>1, OldTabs, TabsFitParts DEF BindFails, storage
<1>5. ASSUME NEW s \in Slots, JobStep(j, s)
      PROVE  TabsFit'
  <2> DEFINE r == [job[j] EXCEPT !.pc = "dropping"]
  <2>1. r \in Job /\ r.pc # "saving" /\ r.asg = job[j].asg /\ r.todo = job[j].todo
    BY <1>0 DEF Job
  <2>2. JobFitNext(r, j)
    BY <2>1, KeptJobFits
  <2>3. JobsFit'
    BY <1>0, <1>1, <1>2, <1>5, <2>1, <2>2, IdleType, SetFits
       DEF JobStep, BindAccepted, BindNotApproved, BindRefused
  <2>4. PendingFit'
    BY <1>5, TabsFitParts DEF JobStep, BindAccepted, BindNotApproved, BindRefused,
       ClearPendingIfSame, PendingFit, MintedFor, Grows, TypeOK, TillTypeOK
  <2> QED BY <1>5, <2>3, <2>4, OldTabs, TabsFitParts
          DEF JobStep, BindAccepted, BindNotApproved, BindRefused
<1> QED BY <1>3, <1>4, <1>5

(* The approval, check and run jobs. *)
LEMMA RunTabs ==
  ASSUME TypeOK, TabsFit, QueueTrue, Grows, NEW t \in Tabs,
         \/ StartApproval(t) \/ StartRun(t) \/ Collect(t) \/ ApprovalFails(t)
         \/ ChunkFails(t) \/ CheckFails(t)
         \/ \E s \in Slots : TabStep(t, s)
  PROVE  TabsFit'
<1> USE JobsOfTab, IdleType
<1> DEFINE j == <<t, "run">>
           p == PhoneOf[t]
<1>0. job[j] \in Job /\ p \in Phones /\ PhoneOfJob(j) = p /\ TillTypeOK
  BY NetAssumption DEF TypeOK, TillTypeOK, PhoneOfJob
<1>1. CASE StartApproval(t)
  <2> DEFINE r == [Idle EXCEPT !.pc = "approving"]
  <2>1. r \in Job /\ r.pc # "saving" /\ r.asg = None /\ r.todo = {}
    BY DEF Job, Idle
  <2>2. JobsFit'
    BY <1>1, <2>1, KeptJobFits, SetFits DEF StartApproval
  <2> QED BY <1>1, <2>2, OldTabs, TabsFitParts DEF StartApproval, storage
<1>2. CASE StartRun(t)
  <2> DEFINE r == [Idle EXCEPT !.pc = "collect"]
             q == [Idle EXCEPT !.pc = "binding", !.asg = pending[p]]
  <2>1. r \in Job /\ r.pc # "saving" /\ r.asg = None /\ r.todo = {}
    BY DEF Job, Idle
  <2>2. q \in Job /\ q.pc # "saving" /\ q.asg = pending[p] /\ q.todo = {}
    BY <1>0 DEF Job, Idle, TillTypeOK
  <2>3. JobFit(q, j)
    BY <1>0, <2>2, TabsFitParts DEF JobFit, PendingFit
  <2>4. JobFitNext(q, j) /\ JobFitNext(r, j)
    BY <2>1, <2>2, <2>3, KeptJobFits, JobFitGrows
  <2>5. JobsFit'
    BY <1>2, <2>1, <2>2, <2>4, SetFits DEF StartRun
  <2> QED BY <1>2, <2>5, OldTabs, TabsFitParts DEF StartRun, storage
<1>3. CASE Collect(t)
  <2> DEFINE r == [job[j] EXCEPT !.pc = "sending", !.todo = ToSend(p), !.secret = secret[p]]
  <2>1. r \in Job /\ r.pc # "saving" /\ r.asg = job[j].asg /\ r.todo = ToSend(p)
    BY <1>0 DEF Job, ToSend, TillTypeOK
  <2>2. JobFit(job[j], j)
    BY TabsFitParts DEF JobsFit
  <2>3. JobFit(r, j)
    BY <1>0, <2>1, <2>2 DEF JobFit, ToSend, QueueTrue, RungOn
  <2>4. JobFitNext(r, j)
    BY <2>1, <2>3, JobFitGrows
  <2>5. CASE EndRun(t)
    BY <1>3, <2>5, EndRunFits, OldTabs, TabsFitParts DEF Collect, storage
  <2>6. CASE Set(j, r) /\ UNCHANGED shown
    <3>1. JobsFit'
      BY <2>1, <2>4, <2>6, SetFits
    <3> QED BY <1>3, <2>6, <3>1, OldTabs, TabsFitParts DEF Collect, storage
  <2> QED BY <1>3, <2>5, <2>6 DEF Collect
<1>4. CASE ApprovalFails(t) \/ CheckFails(t)
  <2>1. JobsFit'
    BY <1>4, IdleFits, SetFits DEF ApprovalFails, CheckFails
  <2> QED BY <1>4, <2>1, OldTabs, TabsFitParts DEF ApprovalFails, CheckFails, storage
<1>5. CASE ChunkFails(t)
  BY <1>5, EndRunFits, OldTabs, TabsFitParts DEF ChunkFails, storage
<1>6. ASSUME NEW s \in Slots, TabStep(t, s)
      PROVE  TabsFit'
  <2>1. CASE ApprovalAnswered(t, s) \/ ApprovalRefused(t, s)
    <3>1. JobsFit'
      BY <2>1, IdleFits, SetFits DEF ApprovalAnswered, ApprovalRefused
    <3> QED BY <2>1, <3>1, OldTabs, TabsFitParts
            DEF ApprovalAnswered, ApprovalRefused, storage
  <2>2. CASE ChunkAnswered(t, s)
    <3> DEFINE todo == job[j].todo \ req[s].sales
               r == [job[j] EXCEPT !.todo = todo]
    <3>1. r \in Job /\ r.pc # "saving" /\ r.asg = job[j].asg /\ r.todo \subseteq job[j].todo
      BY <1>0, <2>2 DEF Job, ChunkAnswered
    <3>2. CASE EndRun(t)
      BY <2>2, <3>2, EndRunFits, OldTabs, TabsFitParts DEF ChunkAnswered
    <3>3. CASE Set(j, r) /\ UNCHANGED shown
      <4>1. JobsFit'
        BY <3>1, <3>3, KeptJobFits, SetFits
      <4> QED BY <2>2, <3>3, <4>1, OldTabs, TabsFitParts DEF ChunkAnswered
    <3> QED BY <2>2, <3>2, <3>3 DEF ChunkAnswered
  <2>3. CASE ChunkNotApproved(t, s)
    BY <2>3, EndRunFits, OldTabs, TabsFitParts DEF ChunkNotApproved
  <2>4. CASE CheckAnswered(t, s)
    <3> DEFINE k == <<t, "check">>
               r == [job[k] EXCEPT !.pc = "dropping"]
    <3>1. r \in Job /\ r.pc # "saving" /\ r.asg = job[k].asg /\ r.todo = job[k].todo
      BY <1>0 DEF Job, TillTypeOK
    <3>2. JobsFit'
      BY <2>4, <3>1, KeptJobFits, IdleFits, SetFits DEF CheckAnswered
    <3> QED BY <2>4, <3>2, OldTabs, TabsFitParts DEF CheckAnswered, storage
  <2> QED BY <1>6, <2>1, <2>2, <2>3, <2>4 DEF TabStep
<1> QED BY <1>1, <1>2, <1>3, <1>4, <1>5, <1>6

(* Choosing a barber, checking the binding, ringing up, reloading. *)
LEMMA ShopFloorTabs ==
  ASSUME TypeOK, TabsFit, Grows, NEW t \in Tabs,
         \/ SavePending(t) \/ StartCheck(t) \/ Reload(t)
         \/ \E b \in Barbers : ChooseBarber(t, b)
         \/ \E x \in Sales : Ring(t, x)
  PROVE  TabsFit'
<1> USE JobsOfTab, IdleType
<1> DEFINE p == PhoneOf[t]
           j == <<t, "bind">>
<1>0. p \in Phones /\ PhoneOfJob(j) = p /\ TillTypeOK /\ NetTypeOK
  BY NetAssumption DEF TypeOK, PhoneOfJob
<1>1. CASE SavePending(t)
  <2>0. job[j] \in Job /\ MintedFor(job[j].asg, p)
    BY <1>0, TabsFitParts DEF JobsFit, JobFit, TillTypeOK
  <2>1. [job[j] EXCEPT !.pc = "binding"] \in Job
    BY <2>0 DEF Job
  <2>2. JobsFit'
    <3> DEFINE r == [job[j] EXCEPT !.pc = "binding"]
    <3>1. r.pc # "saving" /\ r.asg = job[j].asg /\ r.todo = job[j].todo
      BY <2>0 DEF Job
    <3>2. JobFitNext(r, j) /\ JobFitNext(Idle, j)
      BY <2>1, <3>1, KeptJobFits, IdleFits
    <3> QED BY <1>1, <2>1, <3>2, SetFits DEF SavePending
  <2>3. job[j].asg \in Assignments \cup {None}
    BY <2>0 DEF Job
  <2>4. PendingFit'
    BY <1>0, <1>1, <2>0, <2>3, TabsFitParts
       DEF SavePending, PendingFit, MintedFor, Grows, TillTypeOK
  <2>5. ShownFit'
    BY <1>0, <1>1, <2>0, <2>3, TabsFitParts
       DEF SavePending, ShownFit, MintedFor, Grows, TillTypeOK
  <2> QED BY <1>1, <2>2, <2>4, <2>5, OldTabs, TabsFitParts DEF SavePending
<1>2. CASE StartCheck(t)
  <2> DEFINE k == <<t, "check">>
             r == [Idle EXCEPT !.pc = "checking", !.asg = binding[p]]
  <2>1. r \in Job /\ r.pc # "saving" /\ r.asg = binding[p] /\ r.todo = {}
    BY <1>0 DEF Job, Idle, TillTypeOK
  <2>2. JobFit(r, k)
    BY <1>0, <2>1, TabsFitParts DEF JobFit, BindingsFit, PhoneOfJob
  <2>3. JobFitNext(r, k)
    BY <2>1, <2>2, JobFitGrows
  <2>4. JobsFit'
    BY <1>2, <2>1, <2>3, SetFits DEF StartCheck
  <2> QED BY <1>2, <2>4, OldTabs, TabsFitParts DEF StartCheck, storage
<1>3. CASE Reload(t)
  <2>1. ASSUME NEW k \in Jobs PROVE JobFitNext(job'[k], k)
    <3>1. job'[k] = Idle \/ job'[k] = job[k]
      BY <1>3 DEF Reload
    <3>2. JobFitNext(Idle, k)
      BY IdleFits
    <3>3. JobFitNext(job[k], k)
      BY <1>0, TabsFitParts, JobFitGrows DEF JobsFit, TillTypeOK
    <3> QED BY <3>1, <3>2, <3>3
  <2>2. JobsFit'
    BY <2>1, JobsFitNext
  <2>3. ShownFit'
    BY <1>0, <1>3, TabsFitParts DEF Reload, ShownFit, BindingsFit, MintedFor, Grows, TillTypeOK
  <2> QED BY <1>3, <2>2, <2>3, OldTabs, TabsFitParts DEF Reload, storage
<1>4. ASSUME NEW b \in Barbers, ChooseBarber(t, b)
      PROVE  TabsFit'
  <2>1. PICK a \in Assignments :
          /\ minted' = [minted EXCEPT ![a] = [phone |-> p, barber |-> b]]
          /\ binding' = [binding EXCEPT ![p] = a]
          /\ Set(j, [Idle EXCEPT !.pc = "saving", !.asg = a])
    BY <1>4 DEF ChooseBarber
  <2>2. minted'[a] = [phone |-> p, barber |-> b] /\ minted'[a] # None /\ a # None
    BY <1>0, <2>1, NoneIsNothing, NetAssumption DEF NetTypeOK, Mint
  <2>3. BindingsFit'
    BY <1>0, <2>1, <2>2, TabsFitParts DEF BindingsFit, MintedFor, Grows, TillTypeOK
  <2> DEFINE r == [Idle EXCEPT !.pc = "saving", !.asg = a]
  <2>4. r \in Job /\ r.asg = a /\ r.todo = {}
    BY DEF Job, Idle
  <2>5. JobFitNext(r, j)
    BY <1>0, <2>2, <2>4 DEF JobFitNext
  <2>6. JobsFit'
    BY <2>1, <2>4, <2>5, SetFits
  <2> QED BY <1>4, <2>3, <2>6, OldTabs, TabsFitParts DEF ChooseBarber
<1>5. ASSUME NEW x \in Sales, Ring(t, x)
      PROVE  TabsFit'
  BY <1>5, OldTabs, TabsFitParts DEF Ring
<1> QED BY <1>1, <1>2, <1>3, <1>4, <1>5

(* Every step of a phone keeps TabsFit. *)
LEMMA PhoneTabs ==
  ASSUME TypeOK, TabsFit, QueueTrue, Grows, Phone
  PROVE  TabsFit'
<1>1. ASSUME NEW j \in Jobs, DropBinding(j) \/ \E s \in Slots : JobStep(j, s)
      PROVE  TabsFit'
  BY <1>1, BindTabs
<1>2. ASSUME NEW t \in Tabs, NEW k \in {"run", "bind"}, BindFails(<<t, k>>)
      PROVE  TabsFit'
  BY <1>2, BindTabs DEF Jobs
<1>3. ASSUME NEW t \in Tabs,
             \/ StartApproval(t) \/ StartRun(t) \/ Collect(t) \/ Reload(t) \/ TabFails(t)
             \/ \E s \in Slots : TabStep(t, s)
      PROVE  TabsFit'
  BY <1>2, <1>3, RunTabs, ShopFloorTabs DEF TabFails
<1>4. ASSUME NEW t \in PosTabs,
             \/ SavePending(t) \/ StartCheck(t)
             \/ \E b \in Barbers : ChooseBarber(t, b)
             \/ \E x \in Sales : Ring(t, x)
      PROVE  TabsFit'
  BY <1>4, ShopFloorTabs, NetAssumption
<1>5. ASSUME NEW x \in Sales, ClearRejection(x)
      PROVE  TabsFit'
  BY <1>5, OldTabs, TabsFitParts DEF ClearRejection
<1> QED BY <1>1, <1>3, <1>4, <1>5 DEF Phone, TillNext

(* Every step keeps TabsFit. *)
LEMMA TabsStep ==
  ASSUME TypeOK, TabsFit, QueueTrue, [Next]_vars
  PROVE  TabsFit'
<1>1. Grows
  BY Growth
<1>2. CASE UNCHANGED tillVars
  BY <1>1, <1>2, OldTabs, TabsFitParts DEF tillVars, storage
<1> QED BY <1>1, <1>2, PhoneTabs DEF Next, Server, Network, vars

-----------------------------------------------------------------------------
(* The other parts of the invariant. *)

(* A new assignment is generated for one barber on one phone, and a sale is rung
   up under an assignment shown on the tab's phone. *)
LEMMA SalesStep ==
  ASSUME TypeOK, TabsFit, SalesFit, [Next]_vars
  PROVE  SalesFit'
<1> USE DEF TypeOK, NetTypeOK, TillTypeOK
<1>0. Grows
  BY Growth
<1>1. ASSUME UNCHANGED rung PROVE SalesFit'
  <2> SUFFICES ASSUME NEW x \in Sales, rung[x] # None, rung[x].asg # None
               PROVE  minted'[rung[x].asg] = [phone |-> rung[x].phone,
                                              barber |-> rung[x].barber]
    BY <1>1 DEF SalesFit
  <2>1. rung[x] \in Sale /\ rung[x].asg \in Assignments
    BY DEF Sale
  <2>2. minted[rung[x].asg] = [phone |-> rung[x].phone, barber |-> rung[x].barber]
    BY DEF SalesFit
  <2>3. minted[rung[x].asg] # None
    BY <2>1, <2>2, NoneIsNothing DEF Mint, Sale
  <2> QED BY <1>0, <2>1, <2>2, <2>3 DEF Grows
<1>2. ASSUME NEW t \in PosTabs, NEW y \in Sales, Ring(t, y), UNCHANGED minted
      PROVE SalesFit'
  <2> DEFINE a == shown[t]
             stamp == [phone |-> PhoneOf[t], barber |-> minted[a].barber, asg |-> a]
  <2>1. a \in Assignments /\ minted[a] \in Mint /\ minted[a].phone = PhoneOf[t]
    BY <1>2, NetAssumption DEF Ring, TabsFit, MintedFor
  <2>2. minted[a] = [phone |-> stamp.phone, barber |-> stamp.barber]
    BY <2>1 DEF Mint
  <2>3. \A x \in Sales : rung'[x] = IF x = y THEN stamp ELSE rung[x]
    BY <1>2 DEF Ring
  <2> QED BY <1>2, <2>2, <2>3 DEF SalesFit
<1>3. CASE UNCHANGED vars
  BY <1>1, <1>3 DEF vars, tillVars, storage
<1>4. CASE Phone
  BY <1>1, <1>2, <1>4, PhoneNames
<1>5. CASE Server
  BY <1>1, <1>5, ServerBooks
<1>6. CASE Network
  BY <1>1, <1>6 DEF Network, tillVars, storage
<1> QED BY <1>3, <1>4, <1>5, <1>6 DEF Next

(* The server's rows come from bind requests and from the sales of sync
   requests, and both name what their phone generated. *)
LEMMA RowsStep ==
  ASSUME TypeOK, NamesFit, [Next]_vars
  PROVE  RowsFit'
<1> USE DEF TypeOK, NetTypeOK, ServerTypeOK
<1>0. Grows
  BY Growth
<1>1. ASSUME UNCHANGED row PROVE RowsFit'
  <2> SUFFICES ASSUME NEW a \in Assignments, row[a] # None
               PROVE  minted'[a] = [phone |-> row[a].phone, barber |-> row[a].barber]
    BY <1>1 DEF RowsFit
  <2>1. minted[a] = [phone |-> row[a].phone, barber |-> row[a].barber]
    BY DEF NamesFit, RowsFit
  <2>2. minted[a] # None
    BY <2>1, NoneIsNothing DEF Mint, Row
  <2> QED BY <1>0, <2>1, <2>2 DEF Grows
<1>2. ASSUME UNCHANGED minted,
             \A a \in Assignments : row'[a] # None =>
               \/ row[a] # None
               \/ minted[a] # None /\ \E b, w : row'[a] = NewRow(a, b, w)
      PROVE  RowsFit'
  <2> SUFFICES ASSUME NEW a \in Assignments, row'[a] # None
               PROVE  minted[a] = [phone |-> row'[a].phone, barber |-> row'[a].barber]
    BY <1>2 DEF RowsFit
  <2>1. CASE row[a] # None
    BY <1>0, <2>1 DEF NamesFit, RowsFit, Grows
  <2>2. CASE minted[a] # None /\ \E b, w : row'[a] = NewRow(a, b, w)
    <3>1. minted[a] \in Mint
      BY <2>2
    <3>2. row'[a].phone = minted[a].phone /\ row'[a].barber = minted[a].barber
      BY <2>2 DEF NewRow
    <3> QED BY <3>1, <3>2 DEF Mint
  <2> QED BY <1>2, <2>1, <2>2
<1>3. ASSUME NEW s \in Slots, BindInactive(s) \/ BindCreate(s), UNCHANGED minted
      PROVE RowsFit'
  <2>1. req[s] # None /\ req[s].kind = "bind"
    BY <1>3 DEF BindInactive, BindCreate, At
  <2>2. minted[req[s].asg] # None
    BY <2>1 DEF NamesFit, RequestsFit, MintedFor
  <2>3. \A a \in Assignments : row'[a] # None =>
          row[a] # None \/ (a = req[s].asg /\ \E b, w : row'[a] = NewRow(a, b, w))
    <3>1. CASE BindInactive(s)
      BY <3>1 DEF BindInactive
    <3>2. CASE BindCreate(s)
      BY <3>2 DEF BindCreate, Activated
    <3> QED BY <1>3, <3>1, <3>2
  <2> QED BY <1>2, <1>3, <2>2, <2>3
<1>4. ASSUME NEW s \in Slots, SyncRegister(s), UNCHANGED minted
      PROVE RowsFit'
  <2> DEFINE named == AssignmentsOf(req[s].sales \ req[s].ok)
  <2>1. req[s] # None /\ req[s] \in Request
    BY <1>4 DEF SyncRegister, At
  <2>2. ASSUME NEW a \in named PROVE minted[a] # None
    <3>1. PICK x \in req[s].sales : rung[x].asg = a /\ a # None
      BY DEF AssignmentsOf
    <3>2. rung[x] \in Sale /\ rung[x] # None
      BY <2>1, <3>1 DEF NamesFit, RequestsFit, RungOn, Request
    <3>3. minted[a] = [phone |-> rung[x].phone, barber |-> rung[x].barber]
      BY <2>1, <3>1, <3>2 DEF NamesFit, SalesFit, Request
    <3> QED BY <3>2, <3>3, NoneIsNothing DEF Sale, Mint
  <2>3. \A a \in Assignments : row'[a] # None =>
          row[a] # None \/ (a \in named /\ row'[a] = NewRow(a, FALSE, "sync"))
    BY <1>4 DEF SyncRegister
  <2> QED BY <1>2, <1>4, <2>2, <2>3
<1>5. CASE UNCHANGED vars
  BY <1>1, <1>5 DEF vars, serverVars
<1>6. CASE Phone
  BY <1>1, <1>6 DEF Phone, serverVars
<1>7. CASE Server
  BY <1>1, <1>3, <1>4, <1>7, ServerBooks
<1>8. CASE Network
  BY <1>1, <1>8 DEF Network, serverVars
<1> QED BY <1>5, <1>6, <1>7, <1>8 DEF Next

(* Who changes what Dexie says of a sale. *)
LEMMA PhoneStatus ==
  ASSUME Phone
  PROVE  \/ UNCHANGED status
         \/ \E t \in PosTabs, x \in Sales : Ring(t, x)
         \/ \E x \in Sales : ClearRejection(x)
         \/ \E t \in Tabs, s \in Slots : ChunkAnswered(t, s)
<1> DEFINE Good == \/ UNCHANGED status
                   \/ \E t \in PosTabs, x \in Sales : Ring(t, x)
                   \/ \E x \in Sales : ClearRejection(x)
                   \/ \E t \in Tabs, s \in Slots : ChunkAnswered(t, s)
<1> USE DEF storage
<1>1. ASSUME NEW j \in Jobs, DropBinding(j) \/ \E s \in Slots : JobStep(j, s) PROVE Good
  BY <1>1 DEF DropBinding, JobStep, BindAccepted, BindNotApproved, BindRefused
<1>2. ASSUME NEW t \in Tabs,
             StartApproval(t) \/ StartRun(t) \/ Collect(t) \/ Reload(t) \/ TabFails(t)
      PROVE Good
  BY <1>2 DEF StartApproval, StartRun, Collect, Reload, TabFails, ApprovalFails,
              BindFails, ChunkFails, CheckFails
<1>3. ASSUME NEW t \in Tabs, NEW s \in Slots, TabStep(t, s) PROVE Good
  BY <1>3 DEF TabStep, ApprovalAnswered, ApprovalRefused, ChunkNotApproved, CheckAnswered
<1>4. ASSUME NEW t \in PosTabs,
             SavePending(t) \/ StartCheck(t) \/ \E b \in Barbers : ChooseBarber(t, b)
      PROVE Good
  BY <1>4 DEF SavePending, StartCheck, ChooseBarber
<1> QED BY <1>1, <1>2, <1>3, <1>4 DEF Phone, TillNext

(* A sale is marked synced only by an answer that is true of the books. *)
LEMMA StatusStep ==
  ASSUME TypeOK, NamesFit, AnswersTrue, QueueTrue, NoSaleLost, [Next]_vars
  PROVE  QueueTrue' /\ NoSaleLost'
<1> USE DEF TypeOK, NetTypeOK, TillTypeOK
<1>0. Grows
  BY Growth
<1>1. ASSUME UNCHANGED status PROVE QueueTrue' /\ NoSaleLost'
  BY <1>0, <1>1 DEF QueueTrue, NoSaleLost, Grows
<1>2. ASSUME NEW t \in PosTabs, NEW y \in Sales, Ring(t, y), UNCHANGED sale
      PROVE QueueTrue' /\ NoSaleLost'
  <2>0. t \in Tabs /\ shown[t] \in Assignments
    BY <1>2, NetAssumption DEF Ring
  <2>1. PICK stamp \in Sale : rung' = [rung EXCEPT ![y] = stamp]
    <3>1. minted[shown[t]] \in Mint /\ PhoneOf[t] \in Phones
      BY <1>2, <2>0, NetAssumption DEF Ring, NamesFit, TabsFit, MintedFor
    <3> QED BY <1>2, <2>0, <3>1 DEF Ring, Sale, Mint
  <2>2. stamp # None
    BY NoneIsNothing
  <2> QED BY <1>2, <2>1, <2>2 DEF Ring, QueueTrue, NoSaleLost
<1>3. ASSUME NEW y \in Sales, ClearRejection(y), UNCHANGED sale
      PROVE QueueTrue' /\ NoSaleLost'
  BY <1>3 DEF ClearRejection, QueueTrue, NoSaleLost
<1>4. ASSUME NEW t \in Tabs, NEW s \in Slots, ChunkAnswered(t, s), UNCHANGED sale
      PROVE QueueTrue' /\ NoSaleLost'
  <2>1. req[s] # None /\ status' = Applied(req[s]) /\ UNCHANGED rung
    BY <1>4 DEF ChunkAnswered, Answered
  <2>2. \A x \in req[s].ok : sale[x] # None
    BY <2>1 DEF AnswersTrue
  <2>3. \A x \in req[s].ok \cup req[s].bad : rung[x] # None
    BY <2>1 DEF AnswersTrue, NamesFit, RequestsFit, RungOn
  <2>4. ASSUME NEW x \in Sales
        PROVE  /\ status'[x] = "synced" => sale[x] # None
               /\ status'[x] # "unrung" => rung[x] # None
    BY <2>1, <2>2, <2>3 DEF Applied, QueueTrue, NoSaleLost
  <2> QED BY <1>4, <2>1, <2>4 DEF QueueTrue, NoSaleLost
<1>5. CASE UNCHANGED vars
  BY <1>1, <1>5 DEF vars, tillVars, storage
<1>6. CASE Phone
  BY <1>1, <1>2, <1>3, <1>4, <1>6, PhoneStatus DEF Phone, serverVars
<1>7. CASE Server \/ Network
  BY <1>1, <1>7 DEF Server, Network, tillVars, storage
<1> QED BY <1>5, <1>6, <1>7 DEF Next

(* What a sync books for a sale: its own stamp, resolved through the row of its
   assignment, which says the same. *)
LEMMA Booked ==
  ASSUME TypeOK, NamesFit, AnswersTrue, NEW s \in Slots, NEW x \in Sales, SyncRecord(s, x)
  PROVE  /\ rung[x] # None
         /\ \/ UNCHANGED sale
            \/ /\ sale[x] = None
               /\ sale' = [sale EXCEPT ![x] = [phone |-> rung[x].phone,
                              asg |-> rung[x].asg, barber |-> rung[x].barber]]
               /\ rung[x].asg # None => row[rung[x].asg] # None
<1> DEFINE r == req[s]
           a == rung[x].asg
           receipt == [phone |-> r.phone, asg |-> a,
                       barber |-> IF a = None THEN rung[x].barber ELSE row[a].barber]
<1>1. r # None /\ x \in r.sales /\ r \in Request
  BY DEF SyncRecord, At, TypeOK, NetTypeOK
<1>2. rung[x] # None /\ rung[x].phone = r.phone /\ rung[x] \in Sale
  BY <1>1 DEF NamesFit, RequestsFit, RungOn, TypeOK, NetTypeOK
<1>3. CASE Rejected(r, x)
  BY <1>2, <1>3 DEF SyncRecord
<1>4. CASE ~ Rejected(r, x)
  <2>1. sale' = [sale EXCEPT ![x] = IF @ = None THEN receipt ELSE @]
    BY <1>4 DEF SyncRecord, ReceiptFor
  <2>2. a # None => row[a] # None /\ row[a].barber = rung[x].barber
    <3> SUFFICES ASSUME a # None PROVE row[a] # None /\ row[a].barber = rung[x].barber
      OBVIOUS
    <3>1. a \in Assignments /\ row[a] # None
      BY <1>1, <1>2, <1>4 DEF Rejected, AnswersTrue, Sale
    <3>2. minted[a] = [phone |-> row[a].phone, barber |-> row[a].barber]
      BY <3>1 DEF NamesFit, RowsFit
    <3>3. minted[a] = [phone |-> rung[x].phone, barber |-> rung[x].barber]
      BY <1>2 DEF NamesFit, SalesFit
    <3> QED BY <3>1, <3>2, <3>3
  <2>3. receipt = [phone |-> rung[x].phone, asg |-> a, barber |-> rung[x].barber]
    BY <1>2, <2>2
  <2>4. CASE sale[x] = None
    BY <1>2, <2>1, <2>2, <2>3, <2>4
  <2>5. CASE sale[x] # None
    <3>1. sale' = sale
      BY <2>1, <2>5 DEF TypeOK, ServerTypeOK
    <3> QED BY <1>2, <3>1
  <2> QED BY <2>4, <2>5
<1> QED BY <1>3, <1>4

(* Every step keeps Attribution: what Booked books is what was rung up. *)
LEMMA AttributionStep ==
  ASSUME TypeOK, NamesFit, AnswersTrue, Attribution, [Next]_vars
  PROVE  Attribution'
<1> USE DEF TypeOK, NetTypeOK, ServerTypeOK
<1>0. Grows
  BY Growth
<1>1. ASSUME UNCHANGED sale PROVE Attribution'
  <2> SUFFICES ASSUME NEW x \in Sales, sale[x] # None
               PROVE  /\ rung'[x] # None
                      /\ sale[x].barber = rung'[x].barber
                      /\ sale[x].phone = rung'[x].phone
                      /\ sale[x].asg # None => row'[sale[x].asg] # None
    BY <1>1 DEF Attribution
  <2>1. rung'[x] = rung[x]
    BY <1>0 DEF Attribution, Grows
  <2>2. sale[x].asg \in Assignments \cup {None}
    BY DEF Receipt
  <2> QED BY <1>0, <2>1, <2>2 DEF Attribution, Grows
<1>2. ASSUME NEW s \in Slots, NEW y \in Sales, SyncRecord(s, y), UNCHANGED <<row, rung>>
      PROVE Attribution'
  <2> DEFINE receipt == [phone |-> rung[y].phone, asg |-> rung[y].asg,
                         barber |-> rung[y].barber]
  <2>1. CASE UNCHANGED sale
    BY <1>1, <2>1
  <2>2. CASE /\ sale' = [sale EXCEPT ![y] = receipt]
             /\ rung[y].asg # None => row[rung[y].asg] # None
    <3>1. rung[y] # None
      BY <1>2, Booked
    <3>2. \A x \in Sales : sale'[x] = IF x = y THEN receipt ELSE sale[x]
      BY <2>2
    <3> QED BY <1>2, <2>2, <3>1, <3>2 DEF Attribution
  <2> QED BY <1>2, <2>1, <2>2, Booked
<1>3. CASE UNCHANGED vars
  BY <1>1, <1>3 DEF vars, serverVars
<1>4. CASE Server
  BY <1>1, <1>2, <1>4, ServerBooks
<1>5. CASE Phone \/ Network
  BY <1>1, <1>5 DEF Phone, Network, serverVars
<1> QED BY <1>3, <1>4, <1>5 DEF Next

(* Every step keeps OneActiveBinding: a bind revokes the phone's other rows. *)
LEMMA ActiveStep ==
  ASSUME TypeOK, NamesFit, OneActiveBinding, [Next]_vars
  PROVE  OneActiveBinding'
<1> USE DEF TypeOK, NetTypeOK, ServerTypeOK
<1>1. ASSUME UNCHANGED row PROVE OneActiveBinding'
  BY <1>1 DEF OneActiveBinding
<1>2. ASSUME NEW s \in Slots, BindInactive(s) PROVE OneActiveBinding'
  BY <1>2 DEF OneActiveBinding, BindInactive, NewRow
<1>3. ASSUME NEW s \in Slots, SyncRegister(s) PROVE OneActiveBinding'
  BY <1>3 DEF OneActiveBinding, SyncRegister, NewRow
<1>4. ASSUME NEW s \in Slots, BindCreate(s) PROVE OneActiveBinding'
  <2> DEFINE r == req[s]
  <2>1. r # None /\ r.kind = "bind"
    BY <1>4 DEF BindCreate, At
  <2>2. minted[r.asg].phone = r.phone
    BY <2>1 DEF NamesFit, RequestsFit, MintedFor
  <2>3. ASSUME NEW a \in Assignments, row'[a] # None, row'[a].active, row'[a].phone = r.phone
        PROVE  a = r.asg
    <3> SUFFICES ASSUME a # r.asg PROVE FALSE
      OBVIOUS
    <3>1. row'[a] = IF row[a] # None /\ row[a].phone = r.phone
                    THEN [row[a] EXCEPT !.active = FALSE] ELSE row[a]
      BY <1>4 DEF BindCreate, Activated
    <3>2. row[a] # None /\ row[a] \in Row
      BY <2>3, <3>1
    <3> QED BY <2>3, <3>1, <3>2 DEF Row
  <2>4. ASSUME NEW a \in Assignments, row'[a] # None, row'[a].phone # r.phone
        PROVE  row'[a] = row[a]
    <3>1. a # r.asg
      BY <1>4, <2>2, <2>4 DEF BindCreate, Activated, NewRow
    <3>2. row'[a] = IF row[a] # None /\ row[a].phone = r.phone
                    THEN [row[a] EXCEPT !.active = FALSE] ELSE row[a]
      BY <1>4, <3>1 DEF BindCreate, Activated
    <3> QED BY <2>4, <3>2 DEF Row
  <2> QED BY <2>3, <2>4 DEF OneActiveBinding
<1>5. CASE UNCHANGED vars
  BY <1>1, <1>5 DEF vars, serverVars
<1>6. CASE Server
  BY <1>1, <1>2, <1>3, <1>4, <1>6, ServerBooks
<1>7. CASE Phone \/ Network
  BY <1>1, <1>7 DEF Phone, Network, serverVars
<1> QED BY <1>5, <1>6, <1>7 DEF Next

-----------------------------------------------------------------------------
(* The initial state satisfies the invariant. *)
LEMMA InvInit == Init => IInv
<1> SUFFICES ASSUME Init PROVE IInv
  OBVIOUS
<1> USE DEF Init, NetInit, TillInit, ServerInit
<1>1. TypeOK
  BY TypeInit
<1>2. TabsFit /\ RequestsFit /\ RowsFit
  BY DEF TabsFit, RequestsFit, RowsFit, MintedFor, Idle
<1>3. SalesFit
  BY TillAssumption DEF SalesFit
<1>4. QueueTrue
  BY TillAssumption, NoneIsNothing DEF QueueTrue
<1>5. AnswersTrue /\ NoSaleLost /\ Attribution /\ OneActiveBinding
  BY DEF AnswersTrue, NoSaleLost, Attribution, OneActiveBinding
<1> QED BY <1>1, <1>2, <1>3, <1>4, <1>5 DEF IInv, NamesFit

(* Every step keeps the invariant. *)
LEMMA InvStep == IInv /\ [Next]_vars => IInv'
<1> SUFFICES ASSUME IInv, [Next]_vars PROVE IInv'
  OBVIOUS
<1> USE DEF IInv
<1>1. TypeOK'
  BY TypeStep
<1>2. TabsFit' /\ SalesFit'
  BY TabsStep, SalesStep DEF NamesFit
<1>3. RequestsFit' /\ AnswersTrue'
  BY RequestsStep
<1>4. RowsFit'
  BY RowsStep
<1>5. QueueTrue' /\ NoSaleLost'
  BY StatusStep
<1>6. Attribution' /\ OneActiveBinding'
  BY AttributionStep, ActiveStep
<1> QED BY <1>1, <1>2, <1>3, <1>4, <1>5, <1>6 DEF NamesFit

(* The invariant: requests and tabs name only what their phone generated, and
   what an answer under way says of a sale is true of the books. *)
THEOREM Invariant == Spec => []IInv
BY InvInit, InvStep, PTL DEF Spec

(* Every variable keeps its type, for any number of phones, tabs, assignments,
   sales and overlapping requests. *)
THEOREM TypeCorrect == Spec => []TypeOK
<1>1. IInv => TypeOK
  BY DEF IInv
<1> QED BY <1>1, Invariant, PTL

(* A sale the phone has marked synced is in the shop's books, whatever was lost,
   repeated or abandoned on the way. *)
THEOREM SalesAreNotLost == Spec => []NoSaleLost
<1>1. IInv => NoSaleLost
  BY DEF IInv
<1> QED BY <1>1, Invariant, PTL

(* The books credit every sale to the barber and phone it was rung up on. *)
THEOREM SalesAreAttributed == Spec => []Attribution
<1>1. IInv => Attribution
  BY DEF IInv
<1> QED BY <1>1, Invariant, PTL

(* No interleaving of bind requests leaves a phone with two active bindings. *)
THEOREM OneBindingPerPhone == Spec => []OneActiveBinding
<1>1. IInv => OneActiveBinding
  BY DEF IInv
<1> QED BY <1>1, Invariant, PTL

(* A server row never disappears, never changes owner and, once revoked, never
   becomes active again. *)
THEOREM RevokedStaysRevoked == Spec => RevokedIsFinal
<1> DEFINE Kept == \A a \in Assignments : row[a] # None =>
                     /\ row'[a] # None
                     /\ row'[a].phone = row[a].phone
                     /\ row'[a].barber = row[a].barber
                     /\ row'[a].active => row[a].active
<1>1. IInv /\ [Next]_vars => [Kept]_vars
  BY Growth DEF IInv, Grows
<1>2. Spec => [][Kept]_vars
  BY <1>1, Invariant, PTL DEF Spec
<1> QED BY <1>2 DEF RevokedIsFinal

(* Phones and shop PC implement the ledger: every step of theirs rings up a
   sale, books one for the barber it was rung up for, settles booked sales, or
   leaves the ledger alone. *)
LEMMA LedgerInit == Init => Ledger!Init
<1> SUFFICES ASSUME Init PROVE Ledger!Init
  OBVIOUS
<1>1. [x \in Sales |-> IF rung[x] = None THEN None ELSE rung[x].barber]
        \in [Sales -> Barbers \cup {None}]
  BY TillAssumption DEF Init, TillInit, Sale
<1>2. {x \in Sales : status[x] = "synced"} = {}
  BY DEF Init, TillInit
<1>3. [x \in Sales |-> IF sale[x] = None THEN None ELSE sale[x].barber]
        = [x \in Sales |-> None]
  BY DEF Init, ServerInit
<1> QED BY <1>1, <1>2, <1>3 DEF Ledger!Init

RungFor == [x \in Sales |-> IF rung[x] = None THEN None ELSE rung[x].barber]
BookedFor == [x \in Sales |-> IF sale[x] = None THEN None ELSE sale[x].barber]
SettledSales == {x \in Sales : status[x] = "synced"}

(* Ringing up a sale is RingUp. *)
LEMMA LedgerRing ==
  ASSUME IInv, NEW t \in PosTabs, NEW y \in Sales, Ring(t, y), UNCHANGED sale
  PROVE  \E b \in Barbers : Ledger!RingUp(y, b)
<1> USE DEF IInv, TypeOK, NetTypeOK, TillTypeOK
<1>0. minted[shown[t]] \in Mint /\ t \in Tabs
  BY NetAssumption DEF Ring, NamesFit, TabsFit, MintedFor
<1> PICK b \in Barbers : b = minted[shown[t]].barber
  BY <1>0 DEF Mint
<1> DEFINE stamp == [phone |-> PhoneOf[t], barber |-> b, asg |-> shown[t]]
<1>1. rung[y] = None /\ rung' = [rung EXCEPT ![y] = stamp]
      /\ status' = [status EXCEPT ![y] = "queued"]
  BY DEF Ring
<1>2. stamp # None
  <2>1. stamp \in Sale
    BY <1>0, NetAssumption DEF Sale
  <2> QED BY <2>1, NoneIsNothing
<1>3. RungFor' = [RungFor EXCEPT ![y] = b]
  BY <1>1, <1>2 DEF RungFor
<1>4. UNCHANGED BookedFor
  BY DEF BookedFor
<1>5. status[y] = "unrung"
  BY <1>1 DEF QueueTrue
<1>6. UNCHANGED SettledSales
  BY <1>1, <1>5 DEF SettledSales
<1>7. RungFor[y] = None
  BY <1>1 DEF RungFor
<1>8. Ledger!RingUp(y, b)
  BY <1>3, <1>4, <1>6, <1>7 DEF Ledger!RingUp, RungFor, BookedFor, SettledSales
<1> QED BY <1>8

(* Recording a sale is Book, or a stutter when it is booked already or rejected. *)
LEMMA LedgerBook ==
  ASSUME IInv, NEW s \in Slots, NEW y \in Sales, SyncRecord(s, y),
         UNCHANGED <<rung, status>>
  PROVE  Ledger!Book(y) \/ UNCHANGED Ledger!ledgerVars
<1> USE DEF IInv, TypeOK, NetTypeOK, ServerTypeOK
<1>0. UNCHANGED RungFor /\ UNCHANGED SettledSales
  BY DEF RungFor, SettledSales
<1>1. rung[y] # None /\ rung[y] \in Sale
  BY Booked
<1> DEFINE receipt == [phone |-> rung[y].phone, asg |-> rung[y].asg,
                       barber |-> rung[y].barber]
<1>2. CASE UNCHANGED sale
  <2>1. UNCHANGED BookedFor
    BY <1>2 DEF BookedFor
  <2> QED BY <1>0, <2>1 DEF Ledger!ledgerVars, RungFor, BookedFor, SettledSales
<1>3. CASE sale[y] = None /\ sale' = [sale EXCEPT ![y] = receipt]
  <2>1. receipt # None /\ rung[y].barber # None
    <3>1. receipt \in Receipt /\ rung[y].barber \in Barbers
      BY <1>1 DEF Receipt, Sale
    <3> QED BY <3>1, NoneIsNothing, NetAssumption
  <2>2. BookedFor' = [BookedFor EXCEPT ![y] = rung[y].barber]
    BY <1>3, <2>1 DEF BookedFor
  <2>3. RungFor[y] = rung[y].barber /\ BookedFor[y] = None
    BY <1>1, <1>3 DEF RungFor, BookedFor
  <2> QED BY <1>0, <2>1, <2>2, <2>3 DEF Ledger!Book, RungFor, BookedFor, SettledSales
<1> QED BY <1>2, <1>3, Booked

(* Applying a chunk's results is Settle. *)
LEMMA LedgerSettle ==
  ASSUME IInv, NEW t \in Tabs, NEW s \in Slots, ChunkAnswered(t, s),
         UNCHANGED <<rung, sale>>
  PROVE  \E xs \in SUBSET Sales : Ledger!Settle(xs)
<1> USE DEF IInv, TypeOK, NetTypeOK, TillTypeOK, ServerTypeOK
<1>1. req[s] # None /\ req[s] \in Request /\ status' = Applied(req[s])
  BY DEF ChunkAnswered, Answered
<1> PICK xs \in SUBSET Sales : xs = req[s].ok
  BY <1>1 DEF Request
<1>2. \A x \in xs : sale[x] # None
  BY <1>1 DEF AnswersTrue
<1>3. \A x \in xs : BookedFor[x] # None
  BY <1>2, NetAssumption DEF BookedFor, Receipt
<1>4. SettledSales' = SettledSales \cup xs
  BY <1>1, <1>2 DEF Applied, SettledSales
<1>5. UNCHANGED RungFor /\ UNCHANGED BookedFor
  BY DEF RungFor, BookedFor
<1>6. Ledger!Settle(xs)
  BY <1>3, <1>4, <1>5 DEF Ledger!Settle, RungFor, BookedFor, SettledSales
<1> QED BY <1>6

(* Every step maps to a step of the ledger or a stutter. *)
LEMMA LedgerStep == IInv /\ [Next]_vars => [Ledger!Next]_(Ledger!ledgerVars)
<1> SUFFICES ASSUME IInv, [Next]_vars
             PROVE  Ledger!Next \/ UNCHANGED Ledger!ledgerVars
  OBVIOUS
<1> DEFINE Good == Ledger!Next \/ UNCHANGED Ledger!ledgerVars
<1>1. ASSUME UNCHANGED <<rung, sale, status>> PROVE Good
  BY <1>1 DEF Ledger!ledgerVars
<1>2. ASSUME NEW t \in PosTabs, NEW y \in Sales, Ring(t, y), UNCHANGED sale PROVE Good
  BY <1>2, LedgerRing DEF Ledger!Next
<1>3. ASSUME NEW y \in Sales, ClearRejection(y), UNCHANGED sale PROVE Good
  <2>1. UNCHANGED SettledSales
    BY <1>3 DEF ClearRejection, SettledSales, IInv, TypeOK, TillTypeOK
  <2> QED BY <1>3, <2>1 DEF ClearRejection, SettledSales, Ledger!ledgerVars
<1>4. ASSUME NEW t \in Tabs, NEW s \in Slots, ChunkAnswered(t, s), UNCHANGED sale PROVE Good
  BY <1>4, LedgerSettle DEF ChunkAnswered, Ledger!Next
<1>5. ASSUME NEW s \in Slots, NEW y \in Sales, SyncRecord(s, y), UNCHANGED <<rung, status>>
      PROVE Good
  BY <1>5, LedgerBook DEF Ledger!Next
<1>6. ASSUME UNCHANGED vars PROVE Good
  BY <1>1, <1>6 DEF vars, tillVars, storage, serverVars
<1>7. ASSUME Phone PROVE Good
  <2>1. UNCHANGED sale
    BY <1>7 DEF Phone, serverVars
  <2>2. CASE \E t \in PosTabs, y \in Sales : Ring(t, y)
    BY <1>2, <2>1, <2>2
  <2>3. CASE UNCHANGED <<rung, status>>
    BY <1>1, <2>1, <2>3
  <2>4. CASE \E y \in Sales : ClearRejection(y)
    BY <1>3, <2>1, <2>4
  <2>5. CASE \E t \in Tabs, s \in Slots : ChunkAnswered(t, s)
    BY <1>4, <2>1, <2>5
  <2> QED BY <1>7, <2>2, <2>3, <2>4, <2>5, PhoneNames, PhoneStatus
<1>8. ASSUME Server PROVE Good
  <2>1. UNCHANGED <<rung, status>>
    BY <1>8 DEF Server, tillVars, storage
  <2> QED BY <1>1, <1>5, <1>8, <2>1, ServerBooks
<1>9. ASSUME Network PROVE Good
  BY <1>1, <1>9 DEF Network, tillVars, storage, serverVars
<1> QED BY <1>6, <1>7, <1>8, <1>9 DEF Next

(* The offline-first machinery implements the ledger: nothing the network, a
   retry, an overlap or a re-bind does is visible in it. *)
THEOREM ImplementsLedger == Spec => KeepsLedger
<1>1. Spec => Ledger!Init /\ [][Ledger!Next]_(Ledger!ledgerVars)
  BY LedgerInit, LedgerStep, Invariant, PTL DEF Spec
<1> QED BY <1>1 DEF KeepsLedger, Ledger!Spec

-----------------------------------------------------------------------------
(* A step that changes p's active rows is a bind creating p's new one. *)
BindsOnly(p) ==
  ActiveOf(p)' # ActiveOf(p) =>
    \E a \in Assignments : /\ ActiveOf(p)' = {a}
                           /\ row[a] = None
                           /\ row'[a].by = "bind"

(* Recording revoked assignments leaves the active ones as they are. *)
LEMMA RecordedInactive ==
  ASSUME TypeOK, NEW p \in Phones,
         \A a \in Assignments : \/ row'[a] = row[a]
                                \/ row[a] = None /\ ~ row'[a].active
  PROVE  ActiveOf(p)' = ActiveOf(p)
BY DEF ActiveOf

(* A step changes which assignment of a phone is active only by a new row that binds it. *)
LEMMA BindsOnlyStep ==
  ASSUME TypeOK, NamesFit, [Next]_vars, NEW p \in Phones
  PROVE  BindsOnly(p)
<1> USE DEF TypeOK, ServerTypeOK
<1>1. ASSUME UNCHANGED row PROVE BindsOnly(p)
  BY <1>1 DEF BindsOnly, ActiveOf
<1>2. ASSUME NEW s \in Slots, BindInactive(s) PROVE BindsOnly(p)
  BY <1>2, RecordedInactive DEF BindInactive, NewRow, BindsOnly
<1>3. ASSUME NEW s \in Slots, SyncRegister(s) PROVE BindsOnly(p)
  <2>1. \A a \in Assignments : row'[a] = row[a] \/ (row[a] = None /\ ~ row'[a].active)
    BY <1>3 DEF SyncRegister, NewRow
  <2> QED BY <2>1, RecordedInactive DEF BindsOnly
<1>4. ASSUME NEW s \in Slots, BindCreate(s) PROVE BindsOnly(p)
  <2> DEFINE r == req[s]
  <2>1. r # None /\ r.kind = "bind" /\ row[r.asg] = None
    BY <1>4 DEF BindCreate, At
  <2>2. minted[r.asg].phone = r.phone /\ minted[r.asg] # None /\ r.asg \in Assignments
    BY <2>1 DEF NamesFit, RequestsFit, MintedFor, NetTypeOK, Request
  <2>3. row'[r.asg] = NewRow(r.asg, TRUE, "bind")
    BY <1>4, <2>2 DEF BindCreate, Activated
  <2>4. NewRow(r.asg, TRUE, "bind") # None
    BY <2>2, NewRowType, NoneIsNothing
  <2>5. ASSUME NEW a \in Assignments, a # r.asg
        PROVE  /\ row[a] = None => row'[a] = None
               /\ row[a] # None /\ row[a].phone # r.phone => row'[a] = row[a]
               /\ row[a] # None /\ row[a].phone = r.phone => ~ row'[a].active
    <3>1. row'[a] = IF row[a] # None /\ row[a].phone = r.phone
                    THEN [row[a] EXCEPT !.active = FALSE] ELSE row[a]
      BY <1>4, <2>5 DEF BindCreate, Activated
    <3>2. row[a] # None => row[a] \in Row
      OBVIOUS
    <3> QED BY <3>1, <3>2 DEF Row
  <2>6. CASE p = r.phone
    <3>1. ASSUME NEW a \in Assignments PROVE a \in ActiveOf(p)' <=> a = r.asg
      <4>1. CASE a = r.asg
        BY <2>2, <2>3, <2>4, <2>6, <4>1 DEF ActiveOf, NewRow
      <4>2. CASE a # r.asg /\ row[a] # None /\ row[a].phone = p
        BY <2>5, <2>6, <4>2 DEF ActiveOf
      <4>3. CASE a # r.asg /\ row[a] # None /\ row[a].phone # p
        BY <2>5, <2>6, <4>3 DEF ActiveOf
      <4>4. CASE a # r.asg /\ row[a] = None
        BY <2>5, <4>4 DEF ActiveOf
      <4> QED BY <4>1, <4>2, <4>3, <4>4
    <3>2. ActiveOf(p)' = {r.asg}
      BY <2>2, <3>1 DEF ActiveOf
    <3>3. row'[r.asg].by = "bind"
      BY <2>3 DEF NewRow
    <3> QED BY <2>1, <2>2, <3>2, <3>3 DEF BindsOnly
  <2>7. CASE p # r.phone
    <3>1. ASSUME NEW a \in Assignments PROVE a \in ActiveOf(p)' <=> a \in ActiveOf(p)
      <4>1. CASE a = r.asg
        BY <2>1, <2>2, <2>3, <2>7, <4>1 DEF ActiveOf, NewRow
      <4>2. CASE a # r.asg /\ row[a] # None /\ row[a].phone = r.phone
        <5>1. row'[a].phone = r.phone \/ row'[a] = None
          BY <4>2, Growth DEF Grows
        <5> QED BY <2>7, <4>2, <5>1 DEF ActiveOf
      <4>3. CASE a # r.asg /\ row[a] # None /\ row[a].phone # r.phone
        BY <2>5, <4>3 DEF ActiveOf
      <4>4. CASE a # r.asg /\ row[a] = None
        BY <2>5, <4>4 DEF ActiveOf
      <4> QED BY <4>1, <4>2, <4>3, <4>4
    <3>2. ActiveOf(p)' = ActiveOf(p)
      BY <3>1 DEF ActiveOf
    <3> QED BY <3>2 DEF BindsOnly
  <2> QED BY <2>6, <2>7
<1>5. ASSUME UNCHANGED vars PROVE BindsOnly(p)
  BY <1>1, <1>5 DEF vars, serverVars
<1>6. ASSUME Server PROVE BindsOnly(p)
  BY <1>1, <1>2, <1>3, <1>4, <1>6, ServerBooks
<1>7. ASSUME Phone \/ Network PROVE BindsOnly(p)
  BY <1>1, <1>7 DEF Phone, Network, serverVars
<1> QED BY <1>5, <1>6, <1>7 DEF Next

(* Syncing never creates or disturbs a phone's active binding; only a bind of
   that phone replaces it, by the assignment it has just created. *)
THEOREM SyncNeverBinds == Spec => OnlyBindBinds
<1>1. IInv /\ [Next]_vars => [RebindsByBind]_vars
  BY BindsOnlyStep DEF IInv, BindsOnly, RebindsByBind
<1>2. Spec => [][RebindsByBind]_vars
  BY <1>1, Invariant, PTL DEF Spec
<1> QED BY <1>2 DEF OnlyBindBinds
=============================================================================
