-------------------------- MODULE PhonePartsProofs --------------------------
(***************************************************************************)
(* The parts of a phone and the owner's lists (PhoneParts), for any number *)
(* of QRs, pages, phones, sales, polls and requests under way at once: the *)
(* guesses at a PIN (OwnerAccess), the copies kept for the time the shop   *)
(* PC is away (PaymentQr, OfflinePages), the lists at rest (DevicesPage,   *)
(* QrPage), one sale per gesture (Checkout), Paid only for a paid charge   *)
(* (QrDialog), every sale on one page of the log (ShiftLog), and a saved   *)
(* forecast shown as it is (Report).                                       *)
(***************************************************************************)
EXTENDS PhoneParts, Sums, SequenceTheorems

-----------------------------------------------------------------------------
(* OwnerAccess: the PIN limiter caps the guesses, for any limits and any window no longer
   than the lock.  That they are capped is not inductive: AccessInv relates what the
   limiter has on record to what was really looked at, and the requests already let in to
   the guesses they can still make. *)

(* The ages a failure is kept at. *)
LEMMA AgesAreFinite ==
  /\ Ages \subseteq Nat /\ IsFiniteSet(Ages) /\ 0 \in Ages
  /\ Window \in Nat \ {0} /\ Window - 1 \in Ages /\ LockTime \in Nat \ {0} /\ Window <= LockTime
  /\ PerClient \in Nat \ {0} /\ ShopWide \in Nat \ {0} /\ SessionTime \in Nat \ {0}
<1>1. /\ Window \in Nat \ {0} /\ LockTime \in Nat \ {0} /\ Window <= LockTime
      /\ PerClient \in Nat \ {0} /\ ShopWide \in Nat \ {0} /\ SessionTime \in Nat \ {0}
  BY AccessAssumption
<1> QED BY <1>1, FS_Interval DEF Ages

(* What is counted of a record is its sum. *)
LEMMA CountIsSum ==
  ASSUME NEW r \in [Ages -> Nat]
  PROVE  \E h : IsSum(h, r, Ages) /\ Count(r) = h[Ages]
<1> DEFINE i == CHOOSE i : Folds(i, r, Ages)
<1>1. Count(r) = i[Ages]
  BY DEF Count, MapThenSumSet, MapThenFoldSet, Folds
<1>2. Folds(i, r, Ages)
  BY AgesAreFinite, FoldExists
<1> HIDE DEF i
<1>3. IsSum(i, r, Ages)
  BY <1>2, AgesAreFinite, FoldIsSum
<1> QED BY <1>1, <1>3

(* The count is a number, no less than any of its parts. *)
LEMMA CountBounds ==
  ASSUME NEW r \in [Ages -> Nat]
  PROVE  Count(r) \in Nat /\ \A a \in Ages : r[a] <= Count(r)
<1>1. PICK h : IsSum(h, r, Ages) /\ Count(r) = h[Ages]
  BY CountIsSum
<1>2. ASSUME NEW a \in Ages PROVE r[a] <= h[Ages]
  <2>1. h[Ages] = r[a] + h[Ages \ {a}] /\ h[Ages \ {a}] \in Nat /\ r[a] \in Nat
    BY <1>1 DEF IsSum
  <2> QED BY <2>1
<1> QED BY <1>1, <1>2 DEF IsSum

(* Nothing on record counts as none. *)
LEMMA CountNothing == Nothing \in [Ages -> Nat] /\ Count(Nothing) = 0
<1>1. Nothing \in [Ages -> Nat] /\ \A a \in Ages : Nothing[a] = 0
  BY DEF Nothing
<1>2. PICK h : IsSum(h, Nothing, Ages) /\ Count(Nothing) = h[Ages]
  BY <1>1, CountIsSum
<1> QED BY <1>1, <1>2, AgesAreFinite, SumOfNothing

(* One guess more counts as one more. *)
LEMMA CountOneMore ==
  ASSUME NEW r \in [Ages -> Nat]
  PROVE  OneMore(r) \in [Ages -> Nat] /\ Count(OneMore(r)) = Count(r) + 1
<1> DEFINE g == OneMore(r)
<1>1. g \in [Ages -> Nat] /\ g[0] = r[0] + 1 /\ \A a \in Ages \ {0} : r[a] = g[a]
  BY AgesAreFinite DEF OneMore
<1> HIDE DEF g
<1>2. PICK h : IsSum(h, r, Ages) /\ Count(r) = h[Ages]
  BY CountIsSum
<1>3. PICK k : IsSum(k, g, Ages) /\ Count(g) = k[Ages]
  BY <1>1, CountIsSum
<1>4. IsFiniteSet(Ages) /\ 0 \in Ages /\ \A a \in Ages \ {0} : r[a] = g[a]
  BY <1>1, AgesAreFinite
<1>5. k[Ages] = h[Ages] + 1
  BY <1>1, <1>2, <1>3, <1>4, SumGrows
<1> QED BY <1>1, <1>2, <1>3, <1>5 DEF g

(* A tick later the oldest are gone, and the others are as many as they were. *)
LEMMA CountOlder ==
  ASSUME NEW r \in [Ages -> Nat]
  PROVE  Older(r) \in [Ages -> Nat] /\ Count(Older(r)) <= Count(r)
<1> DEFINE g == Older(r)
           w == Window - 1
<1>1. w \in Nat /\ Ages = 0 .. w /\ w \in Ages
  BY AgesAreFinite DEF Ages
<1>2. ASSUME NEW a \in Ages, a # 0 PROVE a - 1 \in Ages
  BY <1>1, <1>2
<1>3. g \in [Ages -> Nat] /\ g[0] = 0 /\ \A a \in Ages \ {0} : g[a] = r[a - 1]
  BY <1>1, <1>2 DEF Older
<1> HIDE DEF g, w
<1>4. PICK h : IsSum(h, r, Ages) /\ Count(r) = h[Ages]
  BY CountIsSum
<1>5. PICK k : IsSum(k, g, Ages) /\ Count(g) = k[Ages]
  BY <1>3, CountIsSum
<1> DEFINE B == {s \in SUBSET Ages : \E n \in Ages : s = 0 .. n /\ k[0 .. n] # h[0 .. n - 1]}
<1>6. B = {}
  <2> SUFFICES ASSUME B # {} PROVE FALSE
    OBVIOUS
  <2>1. B \subseteq SUBSET Ages /\ IsFiniteSet(Ages)
    BY AgesAreFinite
  <2>2. PICK T \in B : \A U \in B : U \subseteq T => U = T
    <3> HIDE DEF B
    <3> QED BY <2>1, SmallestSet
  <2>3. PICK n \in Ages : T = 0 .. n /\ k[0 .. n] # h[0 .. n - 1]
    BY <2>2
  <2>4. n \in Nat /\ 0 .. n \in SUBSET Ages /\ 0 .. n - 1 \in SUBSET Ages
    BY <1>1
  <2>5. CASE n = 0
    <3>1. 0 .. n = {0} /\ 0 .. n - 1 = {} /\ (0 .. n) \ {0} = {}
      BY <2>5
    <3>2. k[{0}] = g[0] + k[{0} \ {0}]
      BY <1>5, <2>4, <3>1 DEF IsSum
    <3>3. k[{}] = 0 /\ h[{}] = 0
      BY <1>4, <1>5 DEF IsSum
    <3>4. k[{0}] = 0
      <4> HIDE DEF B
      <4>1. {0} \ {0} = {}
        OBVIOUS
      <4>2. k[{0} \ {0}] = 0
        BY <3>3, <4>1, Zenon
      <4> QED BY <1>3, <3>2, <4>2
    <3> QED BY <2>3, <3>1, <3>3, <3>4
  <2>6. CASE n # 0
    <3> DEFINE m == n - 1
    <3>1. /\ m \in Ages /\ n \in 0 .. n /\ (0 .. n) \ {n} = 0 .. m
          /\ m \in 0 .. m /\ (0 .. m) \ {m} = 0 .. m - 1 /\ 0 .. m \in SUBSET Ages
      BY <1>1, <2>4, <2>6
    <3>2. k[0 .. n] = g[n] + k[(0 .. n) \ {n}]
      BY <1>5, <2>4, <3>1 DEF IsSum
    <3>3. h[0 .. m] = r[m] + h[(0 .. m) \ {m}]
      BY <1>4, <3>1 DEF IsSum
    <3>4. g[n] = r[m]
      BY <1>3, <2>6
    <3>5. k[0 .. m] = h[0 .. m - 1]
      <4>1. n \notin 0 .. m /\ n \in T
        BY <2>3, <2>4, <3>1
      <4>2. 0 .. m \subseteq T /\ 0 .. m # T
        BY <2>3, <3>1, <4>1
      <4> QED BY <2>2, <3>1, <4>2
    <3> QED BY <2>3, <3>1, <3>2, <3>3, <3>4, <3>5
  <2> QED BY <2>5, <2>6
<1>7. k[0 .. w] = h[0 .. w - 1]
  BY <1>1, <1>6
<1>8. h[Ages] = r[w] + h[Ages \ {w}] /\ r[w] \in Nat /\ h[Ages \ {w}] \in Nat
  BY <1>1, <1>4 DEF IsSum
<1>9. Ages \ {w} = 0 .. w - 1
  BY <1>1
<1>10. Count(g) <= Count(r)
  <2>1. k[Ages] = h[Ages \ {w}]
    BY <1>1, <1>7, <1>9
  <2> QED BY <1>4, <1>5, <1>8, <2>1
<1> QED BY <1>3, <1>10 DEF g

UnderWay(c) == {r \in Requests : request[r] = c}

(* Since the last lock of a client the limiter and the history agree, and while it is on
   every guess of the client's uses up one of its requests that were under way. *)
AccessInv ==
  /\ AccessTypeOK
  /\ \A c \in Clients :
       /\ Count(failures[c]) < PerClient
       /\ \A a \in Ages : a < LockTime - lockFor[c] => wrong[c][a] = failures[c][a]
       /\ Count(wrong[c]) + Cardinality(UnderWay(c)) < PerClient + Cardinality(Requests)
  /\ Count(shopFailures) < ShopWide

(* A record of few guesses fits the type, as does one a tick later. *)
LEMMA RecordTypes ==
  ASSUME NEW limit \in Nat \ {0}
  PROVE  /\ \A r \in [Ages -> 0 .. limit - 1] : r \in [Ages -> Nat]
         /\ \A r \in [Ages -> Nat] : Count(r) < limit => r \in [Ages -> 0 .. limit - 1]
<1>1. ASSUME NEW r \in [Ages -> Nat], Count(r) < limit, NEW a \in Ages PROVE r[a] \in 0 .. limit - 1
  BY <1>1, CountBounds
<1> QED BY <1>1

(* When no body is awaited, no client has a request under way. *)
LEMMA NobodyUnderWay ==
  ASSUME NEW c \in Clients, NEW q, q = [r \in Requests |-> NoClient]
  PROVE  {r \in Requests : q[r] = c} = {}
BY AccessAssumption

(* A client has no more requests under way than there are. *)
LEMMA UnderWayBounds ==
  /\ Cardinality(Requests) \in Nat
  /\ \A c : IsFiniteSet(UnderWay(c)) /\ Cardinality(UnderWay(c)) \in 0 .. Cardinality(Requests)
<1>1. IsFiniteSet(Requests)
  BY AccessAssumption
<1>2. ASSUME NEW c
      PROVE  IsFiniteSet(UnderWay(c)) /\ Cardinality(UnderWay(c)) \in 0 .. Cardinality(Requests)
  <2>1. UnderWay(c) \in SUBSET Requests
    BY DEF UnderWay
  <2>2. IsFiniteSet(UnderWay(c)) /\ Cardinality(UnderWay(c)) <= Cardinality(Requests)
    BY <1>1, <2>1, FS_Subset
  <2> QED BY <1>1, <2>2, FS_CardinalityType
<1> QED BY <1>1, <1>2, FS_CardinalityType

(* Records of nothing are well-typed. *)
LEMMA NoGuesses ==
  ASSUME NEW f, f = [c \in Clients |-> Nothing]
  PROVE  /\ f \in [Clients -> [Ages -> 0 .. PerClient - 1]] /\ f \in [Clients -> [Ages -> Nat]]
         /\ \A c \in Clients : f[c] = Nothing
BY CountNothing, AgesAreFinite, RecordTypes

(* So is the shop's, and it is below the limit. *)
LEMMA NoShopGuesses == Nothing \in [Ages -> 0 .. ShopWide - 1] /\ Count(Nothing) < ShopWide
BY CountNothing, AgesAreFinite, RecordTypes

(* The invariant holds in the beginning. *)
LEMMA AccessInvInit == AccessInit => AccessInv
<1> SUFFICES ASSUME AccessInit PROVE AccessInv
  OBVIOUS
<1> USE DEF AccessInit
<1>1. AccessTypeOK
  <2>1. 0 \in 0 .. LockTime /\ 0 \in 0 .. SessionTime
    BY AgesAreFinite
  <2> QED BY <2>1, NoGuesses, NoShopGuesses DEF AccessTypeOK
<1>2. ASSUME NEW c \in Clients
      PROVE  /\ failures[c] = Nothing /\ wrong[c] = Nothing
             /\ Count(wrong[c]) + Cardinality(UnderWay(c)) < PerClient + Cardinality(Requests)
  <2>1. failures[c] = Nothing /\ wrong[c] = Nothing
    BY NoGuesses
  <2>2. UnderWay(c) = {}
    BY NobodyUnderWay DEF UnderWay
  <2>3. Cardinality(UnderWay(c)) = 0
    BY <2>2, FS_EmptySet
  <2> QED BY <2>1, <2>3, CountNothing, UnderWayBounds, AgesAreFinite
<1> QED BY <1>1, <1>2, CountNothing, NoShopGuesses, AgesAreFinite DEF AccessInv

(* The requests of a client, when one of them ends. *)
LEMMA RequestEnds ==
  ASSUME request \in [Requests -> Clients \cup {NoClient}], NEW r \in Requests, request[r] # NoClient,
         request' = [request EXCEPT ![r] = NoClient], NEW c \in Clients
  PROVE  Cardinality(UnderWay(c))' =
           IF c = request[r] THEN Cardinality(UnderWay(c)) - 1 ELSE Cardinality(UnderWay(c))
<1>1. CASE c = request[r]
  <2>1. UnderWay(c)' = UnderWay(c) \ {r} /\ r \in UnderWay(c)
    BY <1>1, AccessAssumption DEF UnderWay
  <2>2. Cardinality(UnderWay(c) \ {r}) = Cardinality(UnderWay(c)) - 1
    BY <2>1, UnderWayBounds, FS_RemoveElement
  <2> QED BY <1>1, <2>1, <2>2
<1>2. CASE c # request[r]
  <2>1. UnderWay(c)' = UnderWay(c)
    BY <1>2, AccessAssumption DEF UnderWay
  <2> QED BY <1>2, <2>1
<1> QED BY <1>1, <1>2

(* What the invariant says of one client, for the lemmas about a step. *)
ClientFits(c) ==
  /\ Count(failures[c]) < PerClient
  /\ \A a \in Ages : a < LockTime - lockFor[c] => wrong[c][a] = failures[c][a]
  /\ Count(wrong[c]) + Cardinality(UnderWay(c)) < PerClient + Cardinality(Requests)

(* What the types say of one client. *)
LEMMA RecordsOfClient ==
  ASSUME AccessTypeOK, NEW c \in Clients
  PROVE  /\ failures[c] \in [Ages -> Nat] /\ wrong[c] \in [Ages -> Nat]
         /\ lockFor[c] \in 0 .. LockTime /\ shopFailures \in [Ages -> Nat]
BY AgesAreFinite, RecordTypes DEF AccessTypeOK

(* Time passes: the oldest guesses leave the limiter and the history alike. *)
LEMMA AccessPassTime ==
  ASSUME AccessInv, PassTime
  PROVE  AccessInv'
<1>0. /\ LockTime \in Nat \ {0} /\ SessionTime \in Nat \ {0} /\ PerClient \in Nat \ {0} /\ ShopWide \in Nat \ {0}
      /\ Ages \subseteq Nat
  BY AgesAreFinite
<1>1. ASSUME NEW c \in Clients
      PROVE  /\ failures'[c] = Older(failures[c]) /\ wrong'[c] = Older(wrong[c])
             /\ failures'[c] \in [Ages -> Nat] /\ wrong'[c] \in [Ages -> Nat]
             /\ Count(failures'[c]) < PerClient /\ failures'[c] \in [Ages -> 0 .. PerClient - 1]
             /\ Count(wrong'[c]) <= Count(wrong[c]) /\ Count(wrong'[c]) \in Nat /\ Count(wrong[c]) \in Nat
  <2>1. failures[c] \in [Ages -> Nat] /\ wrong[c] \in [Ages -> Nat]
    BY RecordsOfClient DEF AccessInv
  <2>2. failures'[c] = Older(failures[c]) /\ wrong'[c] = Older(wrong[c])
    BY DEF PassTime
  <2>3. /\ Older(failures[c]) \in [Ages -> Nat] /\ Older(wrong[c]) \in [Ages -> Nat]
        /\ Count(Older(failures[c])) <= Count(failures[c]) /\ Count(Older(wrong[c])) <= Count(wrong[c])
    BY <2>1, CountOlder
  <2>4. /\ Count(failures[c]) \in Nat /\ Count(Older(failures[c])) \in Nat
        /\ Count(wrong[c]) \in Nat /\ Count(Older(wrong[c])) \in Nat
    BY <2>1, <2>3, CountBounds
  <2>5. Count(Older(failures[c])) < PerClient
    BY <1>0, <2>3, <2>4 DEF AccessInv
  <2> QED BY <1>0, <2>2, <2>3, <2>4, <2>5, RecordTypes
<1>2. shopFailures' \in [Ages -> 0 .. ShopWide - 1] /\ Count(shopFailures)' < ShopWide
  <2>1. shopFailures \in [Ages -> Nat] /\ shopFailures' = Older(shopFailures)
    BY <1>0, RecordTypes DEF AccessInv, AccessTypeOK, PassTime
  <2>2. Older(shopFailures) \in [Ages -> Nat] /\ Count(Older(shopFailures)) <= Count(shopFailures)
    BY <2>1, CountOlder
  <2>3. Count(shopFailures) \in Nat /\ Count(Older(shopFailures)) \in Nat
    BY <2>1, <2>2, CountBounds
  <2>4. Count(Older(shopFailures)) < ShopWide
    BY <1>0, <2>2, <2>3 DEF AccessInv
  <2>5. Count(shopFailures)' = Count(Older(shopFailures))
    BY <2>1 DEF Count, MapThenSumSet, MapThenFoldSet
  <2> QED BY <1>0, <2>1, <2>2, <2>4, <2>5, RecordTypes
<1>3. ASSUME NEW n \in Nat, NEW m \in 0 .. n PROVE CountDown(m) \in 0 .. n /\ CountDown(m) = IF m = 0 THEN 0 ELSE m - 1
  BY DEF CountDown
<1>4. AccessTypeOK'
  <2>1. failures' \in [Clients -> [Ages -> 0 .. PerClient - 1]] /\ wrong' \in [Clients -> [Ages -> Nat]]
    BY <1>1 DEF PassTime
  <2>2. lockFor' \in [Clients -> 0 .. LockTime] /\ shopLockFor' \in 0 .. LockTime
    BY <1>0, <1>3 DEF PassTime, AccessInv, AccessTypeOK
  <2>3. session' \in [Clients -> 0 .. SessionTime]
    BY <1>0, <1>3 DEF PassTime, AccessInv, AccessTypeOK
  <2> QED BY <1>2, <2>1, <2>2, <2>3 DEF PassTime, AccessInv, AccessTypeOK
<1>5. ASSUME NEW c \in Clients PROVE ClientFits(c)'
  <2>1. UnderWay(c)' = UnderWay(c)
    BY DEF PassTime, UnderWay
  <2>2. ASSUME NEW a \in Ages, a < LockTime - lockFor'[c] PROVE wrong'[c][a] = failures'[c][a]
    <3>1. /\ wrong'[c][a] = (IF a = 0 THEN 0 ELSE wrong[c][a - 1])
          /\ failures'[c][a] = (IF a = 0 THEN 0 ELSE failures[c][a - 1])
      <4>1. wrong'[c] = Older(wrong[c]) /\ failures'[c] = Older(failures[c])
        BY <1>1
      <4> QED BY <4>1, Zenon DEF Older
    <3>2. lockFor[c] \in 0 .. LockTime /\ lockFor'[c] = IF lockFor[c] = 0 THEN 0 ELSE lockFor[c] - 1
      BY <1>0, <1>3 DEF PassTime, AccessInv, AccessTypeOK
    <3>3. CASE a # 0
      <4>1. a - 1 \in Ages
        BY <3>3, AgesAreFinite DEF Ages
      <4>2. a - 1 < LockTime - lockFor[c]
        BY <1>0, <2>2, <3>2, <3>3
      <4> QED BY <3>1, <3>3, <4>1, <4>2 DEF AccessInv
    <3> QED BY <3>1, <3>3
  <2>3. Count(wrong'[c]) + Cardinality(UnderWay(c)) < PerClient + Cardinality(Requests)
    BY <1>0, <1>1, UnderWayBounds DEF AccessInv
  <2>4. Cardinality(UnderWay(c))' = Cardinality(UnderWay(c)) /\ Cardinality(Requests)' = Cardinality(Requests)
    BY <2>1
  <2>5. Count(failures[c])' = Count(failures'[c]) /\ Count(wrong[c])' = Count(wrong'[c])
    BY DEF Count, MapThenSumSet, MapThenFoldSet
  <2> QED BY <1>1, <2>2, <2>3, <2>4, <2>5 DEF ClientFits
<1> QED BY <1>2, <1>4, <1>5 DEF AccessInv, ClientFits

(* A client whose records, lock and requests stay, or lose a request, fits as before. *)
LEMMA ClientStays ==
  ASSUME AccessInv, NEW c \in Clients,
         failures'[c] = failures[c], wrong'[c] = wrong[c], lockFor'[c] = lockFor[c],
         \/ Cardinality(UnderWay(c))' = Cardinality(UnderWay(c))
         \/ Cardinality(UnderWay(c))' = Cardinality(UnderWay(c)) - 1
  PROVE  ClientFits(c)'
<1>1. Count(failures[c])' = Count(failures[c]) /\ Count(wrong[c])' = Count(wrong[c])
  BY DEF Count, MapThenSumSet, MapThenFoldSet
<1>2. Count(failures[c]) \in Nat /\ Count(wrong[c]) \in Nat
  BY RecordsOfClient, CountBounds DEF AccessInv
<1>3. Cardinality(UnderWay(c)) \in Nat /\ Cardinality(Requests) \in Nat /\ PerClient \in Nat
  BY UnderWayBounds, AgesAreFinite
<1>4. Count(wrong[c])' + Cardinality(UnderWay(c))' < PerClient + Cardinality(Requests)
  BY <1>1, <1>2, <1>3 DEF AccessInv
<1> QED BY <1>1, <1>4 DEF ClientFits, AccessInv

(* A client is let in only when it is not locked, so that both records agree. *)
LEMMA AccessRequests ==
  ASSUME AccessInv, NEW r \in Requests,
         (\E c \in Clients : Ask(r, c)) \/ BadBody(r)
  PROVE  AccessInv'
<1>1. /\ UNCHANGED <<door, failures, lockFor, shopFailures, shopLockFor, session, wrong>>
      /\ request' \in [Requests -> Clients \cup {NoClient}]
  BY DEF Ask, BadBody, AccessInv, AccessTypeOK
<1>2. AccessTypeOK' /\ Count(shopFailures)' < ShopWide
  BY <1>1 DEF AccessInv, AccessTypeOK, Count, MapThenSumSet, MapThenFoldSet
<1>3. ASSUME NEW c \in Clients, Ask(r, c), NEW d \in Clients PROVE ClientFits(d)'
  <2>1. CASE d = c
    <3>1. lockFor[c] = 0
      <4>1. lockFor[c] \in Nat /\ shopLockFor \in Nat
        BY AgesAreFinite DEF AccessInv, AccessTypeOK
      <4> QED BY <1>3, <4>1 DEF Ask, RetryAfter
    <3>2. ASSUME NEW a \in Ages PROVE a < LockTime - 0
      BY AgesAreFinite DEF Ages
    <3>3. \A a \in Ages : wrong[c][a] = failures[c][a]
      BY <3>1, <3>2 DEF AccessInv
    <3>4. wrong[c] = failures[c]
      BY <3>3, RecordsOfClient DEF AccessInv
    <3>5. Count(failures[c])' = Count(failures[c]) /\ Count(wrong[c])' = Count(failures[c])
      BY <1>1, <3>4 DEF Count, MapThenSumSet, MapThenFoldSet
    <3>6. Count(failures[c]) \in Nat /\ Count(failures[c]) < PerClient /\ PerClient \in Nat
      BY RecordsOfClient, CountBounds, AgesAreFinite DEF AccessInv
    <3>7. Cardinality(UnderWay(d))' \in 0 .. Cardinality(Requests) /\ Cardinality(Requests) \in Nat
      <4>1. UnderWay(d)' \in SUBSET Requests /\ IsFiniteSet(Requests)
        BY AccessAssumption DEF UnderWay
      <4>2. IsFiniteSet(UnderWay(d)') /\ Cardinality(UnderWay(d)') <= Cardinality(Requests)
        BY <4>1, FS_Subset
      <4> QED BY <4>1, <4>2, FS_CardinalityType
    <3> QED BY <1>1, <2>1, <3>1, <3>3, <3>5, <3>6, <3>7 DEF ClientFits
  <2>2. CASE d # c
    <3>1. UnderWay(d)' = UnderWay(d)
      BY <1>3, <2>2, AccessAssumption DEF Ask, UnderWay, AccessInv, AccessTypeOK
    <3> QED BY <1>1, <3>1, ClientStays
  <2> QED BY <2>1, <2>2
<1>4. ASSUME BadBody(r), NEW d \in Clients PROVE ClientFits(d)'
  <2>1. \/ Cardinality(UnderWay(d))' = Cardinality(UnderWay(d))
        \/ Cardinality(UnderWay(d))' = Cardinality(UnderWay(d)) - 1
    BY <1>4, RequestEnds DEF BadBody, AccessInv, AccessTypeOK
  <2> QED BY <1>1, <2>1, ClientStays
<1> QED BY <1>2, <1>3, <1>4 DEF AccessInv, ClientFits

(* A wrong PIN: the last one before the limit locks the client and clears its record. *)
LEMMA AccessWrongPin ==
  ASSUME AccessInv, NEW r \in Requests, NEW c \in Clients, request[r] = c, WrongPin(r)
  PROVE  AccessInv'
<1> DEFINE own == OneMore(failures[c])
           all == OneMore(shopFailures)
           seen == OneMore(wrong[c])
<1>0. LockTime \in Nat \ {0} /\ PerClient \in Nat \ {0} /\ ShopWide \in Nat \ {0} /\ Ages \subseteq Nat
  BY AgesAreFinite
<1>1. request' = [request EXCEPT ![r] = NoClient] /\ c # NoClient
      /\ UNCHANGED <<door, session>> /\ wrong' = [wrong EXCEPT ![c] = seen]
  BY DEF WrongPin
<1>2. /\ IF Count(own) >= PerClient
         THEN failures' = [failures EXCEPT ![c] = Nothing] /\ lockFor' = [lockFor EXCEPT ![c] = LockTime]
         ELSE failures' = [failures EXCEPT ![c] = own] /\ UNCHANGED lockFor
      /\ IF Count(all) >= ShopWide
         THEN shopFailures' = Nothing /\ shopLockFor' = LockTime
         ELSE shopFailures' = all /\ UNCHANGED shopLockFor
  BY DEF WrongPin, RecordFailure
<1>3. /\ failures[c] \in [Ages -> Nat] /\ wrong[c] \in [Ages -> Nat] /\ shopFailures \in [Ages -> Nat]
      /\ own \in [Ages -> Nat] /\ seen \in [Ages -> Nat] /\ all \in [Ages -> Nat]
  BY <1>1, RecordsOfClient, CountOneMore DEF AccessInv
<1>4. Count(own) \in Nat /\ Count(all) \in Nat /\ Count(wrong[c]) \in Nat /\ Count(seen) = Count(wrong[c]) + 1
  BY <1>3, CountBounds, CountOneMore
<1>5. \A a \in Ages : own[a] = (IF a = 0 THEN failures[c][a] + 1 ELSE failures[c][a])
                      /\ seen[a] = (IF a = 0 THEN wrong[c][a] + 1 ELSE wrong[c][a])
  BY <1>3, AgesAreFinite DEF OneMore
<1> HIDE DEF own, all, seen
<1>6. failures'[c] = (IF Count(own) >= PerClient THEN Nothing ELSE own) /\ wrong'[c] = seen
      /\ lockFor'[c] = (IF Count(own) >= PerClient THEN LockTime ELSE lockFor[c])
  BY <1>1, <1>2 DEF AccessInv, AccessTypeOK
<1>7. failures'[c] \in [Ages -> Nat] /\ Count(failures'[c]) < PerClient
  BY <1>0, <1>3, <1>4, <1>6, CountNothing
<1>8. shopFailures' \in [Ages -> Nat] /\ Count(shopFailures') < ShopWide
  BY <1>0, <1>2, <1>3, <1>4, CountNothing
<1>9. AccessTypeOK'
  <2>1. failures' \in [Clients -> [Ages -> 0 .. PerClient - 1]]
    <3>1. failures'[c] \in [Ages -> 0 .. PerClient - 1]
      BY <1>0, <1>7, RecordTypes
    <3>2. failures' = [failures EXCEPT ![c] = failures'[c]]
      BY <1>1, <1>2 DEF AccessInv, AccessTypeOK
    <3> QED BY <3>1, <3>2 DEF AccessInv, AccessTypeOK
  <2>2. lockFor' \in [Clients -> 0 .. LockTime] /\ shopLockFor' \in 0 .. LockTime
    BY <1>0, <1>2 DEF AccessInv, AccessTypeOK
  <2>3. shopFailures' \in [Ages -> 0 .. ShopWide - 1]
    BY <1>0, <1>8, RecordTypes
  <2>4. request' \in [Requests -> Clients \cup {NoClient}] /\ wrong' \in [Clients -> [Ages -> Nat]]
    BY <1>1, <1>3 DEF AccessInv, AccessTypeOK
  <2> QED BY <1>1, <2>1, <2>2, <2>3, <2>4 DEF AccessInv, AccessTypeOK
<1>10. ASSUME NEW d \in Clients PROVE ClientFits(d)'
  <2>0. Cardinality(UnderWay(d))' = IF d = c THEN Cardinality(UnderWay(d)) - 1 ELSE Cardinality(UnderWay(d))
    BY <1>1, RequestEnds DEF AccessInv, AccessTypeOK
  <2>1. CASE d = c
    <3>1. Count(failures[c])' = Count(failures'[c]) /\ Count(wrong[c])' = Count(wrong'[c])
      BY DEF Count, MapThenSumSet, MapThenFoldSet
    <3>2. Cardinality(Requests) \in Nat /\ Cardinality(UnderWay(c)) \in Nat
      BY UnderWayBounds
    <3>3. Count(wrong[c]) + Cardinality(UnderWay(c)) < PerClient + Cardinality(Requests)
      BY DEF AccessInv
    <3>4. Count(wrong[c])' + Cardinality(UnderWay(c))' < PerClient + Cardinality(Requests)
      BY <1>0, <1>4, <1>6, <2>0, <2>1, <3>1, <3>2, <3>3
    <3>5. ASSUME NEW a \in Ages, a < LockTime - lockFor'[c] PROVE wrong'[c][a] = failures'[c][a]
      <4>1. CASE Count(own) >= PerClient
        <5>1. lockFor'[c] = LockTime /\ a \in Nat
          BY <1>0, <1>6, <4>1
        <5> QED BY <1>0, <3>5, <5>1
      <4>2. CASE ~(Count(own) >= PerClient)
        <5>1. failures'[c] = own /\ wrong'[c] = seen /\ lockFor'[c] = lockFor[c]
          BY <1>6, <4>2
        <5>2. wrong[c][a] = failures[c][a]
          BY <3>5, <5>1 DEF AccessInv
        <5> QED BY <1>5, <5>1, <5>2
      <4> QED BY <4>1, <4>2
    <3> QED BY <1>7, <2>1, <3>1, <3>4, <3>5 DEF ClientFits
  <2>2. CASE d # c
    <3>1. failures'[d] = failures[d] /\ wrong'[d] = wrong[d] /\ lockFor'[d] = lockFor[d]
      BY <1>1, <1>2, <2>2 DEF AccessInv, AccessTypeOK
    <3> QED BY <2>0, <2>2, <3>1, ClientStays
  <2> QED BY <2>1, <2>2
<1>11. Count(shopFailures)' < ShopWide
  <2>1. Count(shopFailures)' = Count(shopFailures')
    BY DEF Count, MapThenSumSet, MapThenFoldSet
  <2> QED BY <1>8, <2>1
<1> QED BY <1>9, <1>10, <1>11 DEF AccessInv, ClientFits

(* A right PIN: the client's record, its lock and its wrong PINs are gone. *)
LEMMA AccessRightPin ==
  ASSUME AccessInv, NEW r \in Requests, NEW c \in Clients, request[r] = c, RightPin(r)
  PROVE  AccessInv'
<1>1. /\ failures' = [failures EXCEPT ![c] = Nothing] /\ lockFor' = [lockFor EXCEPT ![c] = 0]
      /\ wrong' = [wrong EXCEPT ![c] = Nothing] /\ request' = [request EXCEPT ![r] = NoClient]
      /\ UNCHANGED <<door, shopFailures, shopLockFor>> /\ c # NoClient
      /\ session' = IF door = "unlock" THEN [session EXCEPT ![c] = SessionTime] ELSE session
  BY DEF RightPin, RecordSuccess
<1>2. AccessTypeOK' /\ Count(shopFailures)' < ShopWide
  <2>1. Nothing \in [Ages -> 0 .. PerClient - 1] /\ Nothing \in [Ages -> Nat]
        /\ 0 \in 0 .. LockTime /\ SessionTime \in 0 .. SessionTime
    BY CountNothing, AgesAreFinite, RecordTypes
  <2>2. Count(shopFailures)' = Count(shopFailures)
    BY <1>1 DEF Count, MapThenSumSet, MapThenFoldSet
  <2> QED BY <1>1, <2>1, <2>2 DEF AccessInv, AccessTypeOK
<1>3. ASSUME NEW d \in Clients PROVE ClientFits(d)'
  <2>0. Cardinality(UnderWay(d))' = IF d = c THEN Cardinality(UnderWay(d)) - 1 ELSE Cardinality(UnderWay(d))
    BY <1>1, RequestEnds DEF AccessInv, AccessTypeOK
  <2>1. CASE d = c
    <3>1. failures'[c] = Nothing /\ wrong'[c] = Nothing
      BY <1>1 DEF AccessInv, AccessTypeOK
    <3>2. Count(failures[c])' = Count(failures'[c]) /\ Count(wrong[c])' = Count(wrong'[c])
      BY DEF Count, MapThenSumSet, MapThenFoldSet
    <3>3. Count(failures[c])' = 0 /\ Count(wrong[c])' = 0
      BY <3>1, <3>2, CountNothing
    <3>4. Cardinality(UnderWay(c)) \in 0 .. Cardinality(Requests) /\ Cardinality(Requests) \in Nat
      BY UnderWayBounds
    <3>5. PerClient \in Nat \ {0}
      BY AgesAreFinite
    <3> QED BY <2>0, <2>1, <3>1, <3>3, <3>4, <3>5 DEF ClientFits
  <2>2. CASE d # c
    <3>1. failures'[d] = failures[d] /\ wrong'[d] = wrong[d] /\ lockFor'[d] = lockFor[d]
      BY <1>1, <2>2 DEF AccessInv, AccessTypeOK
    <3> QED BY <2>0, <2>2, <3>1, ClientStays
  <2> QED BY <2>1, <2>2
<1> QED BY <1>2, <1>3 DEF AccessInv, ClientFits

(* Locking a device touches no limiter. *)
LEMMA AccessLockDevice ==
  ASSUME AccessInv, NEW c \in Clients, LockDevice(c)
  PROVE  AccessInv'
<1>1. /\ UNCHANGED <<door, failures, lockFor, shopFailures, shopLockFor, request, wrong>>
      /\ session' = [session EXCEPT ![c] = 0]
  BY DEF LockDevice
<1>2. AccessTypeOK' /\ Count(shopFailures)' < ShopWide
  BY <1>1, AgesAreFinite DEF AccessInv, AccessTypeOK, Count, MapThenSumSet, MapThenFoldSet
<1>3. ASSUME NEW d \in Clients PROVE ClientFits(d)'
  <2>1. UnderWay(d)' = UnderWay(d)
    BY <1>1 DEF UnderWay
  <2> QED BY <1>1, <2>1, ClientStays
<1> QED BY <1>2, <1>3 DEF AccessInv, ClientFits

(* After a restart nothing is on record and no request is under way. *)
LEMMA AccessRestart ==
  ASSUME AccessInv, RestartServer
  PROVE  AccessInv'
<1>1. AccessTypeOK' /\ Count(shopFailures)' < ShopWide
  <2>1. 0 \in 0 .. LockTime /\ 0 \in 0 .. SessionTime
    BY AgesAreFinite
  <2>2. /\ failures' \in [Clients -> [Ages -> 0 .. PerClient - 1]] /\ wrong' \in [Clients -> [Ages -> Nat]]
        /\ shopFailures' \in [Ages -> 0 .. ShopWide - 1]
    BY NoGuesses, NoShopGuesses DEF RestartServer
  <2>3. session' \in [Clients -> 0 .. SessionTime]
    BY <2>1 DEF RestartServer, AccessInv, AccessTypeOK
  <2>4. Count(shopFailures)' = Count(Nothing)
    BY DEF RestartServer, Count, MapThenSumSet, MapThenFoldSet
  <2> QED BY <2>1, <2>2, <2>3, <2>4, NoShopGuesses DEF RestartServer, AccessInv, AccessTypeOK
<1>2. ASSUME NEW d \in Clients PROVE ClientFits(d)'
  <2>1. failures'[d] = Nothing /\ wrong'[d] = Nothing
    BY DEF RestartServer
  <2>2. UnderWay(d)' = {}
    BY NobodyUnderWay DEF UnderWay, RestartServer
  <2>3. Count(failures[d])' = Count(failures'[d]) /\ Count(wrong[d])' = Count(wrong'[d])
    BY DEF Count, MapThenSumSet, MapThenFoldSet
  <2>4. Count(failures[d])' = 0 /\ Count(wrong[d])' = 0
    BY <2>1, <2>3, CountNothing
  <2>5. Cardinality(UnderWay(d))' = 0
    BY <2>2, FS_EmptySet
  <2>6. Cardinality(Requests) \in Nat /\ PerClient \in Nat \ {0}
    BY UnderWayBounds, AgesAreFinite
  <2> QED BY <2>1, <2>4, <2>5, <2>6 DEF ClientFits
<1> QED BY <1>1, <1>2 DEF AccessInv, ClientFits

(* Every step keeps the invariant. *)
LEMMA AccessInvStep == AccessInv /\ [AccessNext]_accessVars => AccessInv'
<1> SUFFICES ASSUME AccessInv, [AccessNext]_accessVars PROVE AccessInv'
  OBVIOUS
<1>1. CASE PassTime
  BY <1>1, AccessPassTime
<1>2. ASSUME NEW r \in Requests, (\E c \in Clients : Ask(r, c)) \/ BadBody(r) PROVE AccessInv'
  BY <1>2, AccessRequests
<1>3. ASSUME NEW r \in Requests, WrongPin(r) \/ RightPin(r) PROVE AccessInv'
  <2>1. request[r] \in Clients
    BY <1>3 DEF WrongPin, RightPin, AccessInv, AccessTypeOK
  <2>2. PICK c \in Clients : request[r] = c
    BY <2>1
  <2> QED BY <1>3, <2>2, AccessWrongPin, AccessRightPin
<1>4. ASSUME NEW c \in Clients, LockDevice(c) PROVE AccessInv'
  BY <1>4, AccessLockDevice
<1>5. CASE RestartServer
  BY <1>5, AccessRestart
<1>6. CASE UNCHANGED accessVars
  <2>1. AccessTypeOK' /\ Count(shopFailures)' < ShopWide
    BY <1>6 DEF accessVars, AccessInv, AccessTypeOK, Count, MapThenSumSet, MapThenFoldSet
  <2>2. ASSUME NEW d \in Clients PROVE ClientFits(d)'
    BY <1>6, ClientStays DEF accessVars, UnderWay
  <2> QED BY <2>1, <2>2 DEF AccessInv, ClientFits
<1> QED BY <1>1, <1>2, <1>3, <1>4, <1>5, <1>6 DEF AccessNext

(* The invariant caps the guesses. *)
LEMMA FewGuesses == AccessInv => GuessesAreCapped
<1> SUFFICES ASSUME AccessInv, NEW c \in Clients
             PROVE  Count(wrong[c]) < PerClient + Cardinality(Requests)
  BY DEF GuessesAreCapped
<1>1. Count(wrong[c]) \in Nat
  BY RecordsOfClient, CountBounds DEF AccessInv
<1>2. Cardinality(UnderWay(c)) \in Nat /\ Cardinality(Requests) \in Nat /\ PerClient \in Nat
  BY UnderWayBounds, AgesAreFinite
<1> QED BY <1>1, <1>2 DEF AccessInv

(* In any window no more wrong PINs of a client are looked at than the limit and the requests
   that were under way allow: a lock leaves none on record, and while it is on every guess
   ends one of the requests that were let in before it (lib/pin-attempts.ts). *)
THEOREM GuessesStayCapped == AccessSpec => []GuessesAreCapped
<1>1. AccessInit => AccessInv
  BY AccessInvInit
<1>2. AccessInv /\ [AccessNext]_accessVars => AccessInv'
  BY AccessInvStep
<1>3. AccessInv => GuessesAreCapped
  BY FewGuesses
<1> QED BY <1>1, <1>2, <1>3, PTL DEF AccessSpec

-----------------------------------------------------------------------------
(* PaymentQr *)

(* A QR said to have been listed since the run began is listed; an image not replaced
   since the list was taken is the one the list named. *)
CopiesInv ==
  /\ stored \in [QrKeys -> Images \cup {NoImage}]
  /\ active \in [QrKeys -> BOOLEAN]
  /\ put \in [key : QrKeys, image : Images] \cup {NoPut}
  /\ qrCopy \in [QrKeys -> Copy \cup {NoImage}]
  /\ refresh \in [at : {"idle", "listing", "downloading"},
                  list : [QrKeys -> Images \cup {NoImage}], download : SUBSET QrKeys]
  /\ offered \in [QrKeys -> BOOLEAN] /\ replaced \in [QrKeys -> BOOLEAN]
  /\ \A k \in QrKeys : offered[k] => Listed[k] # NoImage
  /\ \A k \in QrKeys : refresh.list[k] # NoImage /\ ~replaced[k] => stored[k] = refresh.list[k]
  /\ \A k \in refresh.download : refresh.list[k] # NoImage

(* No refresh is one, with nothing listed and nothing to download. *)
LEMMA IdleIsRefresh ==
  /\ Idle \in [at : {"idle", "listing", "downloading"},
               list : [QrKeys -> Images \cup {NoImage}], download : SUBSET QrKeys]
  /\ \A k \in QrKeys : Idle.list[k] = NoImage
  /\ Idle.download = {}
BY DEF Idle

(* It holds at the start. *)
LEMMA CopiesInvInit == QrInit => CopiesInv
BY IdleIsRefresh DEF QrInit, CopiesInv

(* The owner's changes are noted in both histories. *)
LEMMA OwnerKeeps ==
  ASSUME CopiesInv, NEW images \in [QrKeys -> Images \cup {NoImage}], NEW on \in [QrKeys -> BOOLEAN],
         Becomes(images, on), qrCopy' = qrCopy, refresh' = refresh,
         put' \in [key : QrKeys, image : Images] \cup {NoPut}
  PROVE  CopiesInv'
<1>1. offered' \in [QrKeys -> BOOLEAN] /\ replaced' \in [QrKeys -> BOOLEAN]
  BY Zenon DEF Becomes
<1>2. ASSUME NEW k \in QrKeys, offered'[k] PROVE Listed'[k] # NoImage
  BY <1>2 DEF Becomes, Listed, Listing
<1>3. ASSUME NEW k \in QrKeys, refresh'.list[k] # NoImage, ~replaced'[k]
      PROVE  stored'[k] = refresh'.list[k]
  BY <1>3 DEF Becomes, CopiesInv
<1> QED BY <1>1, <1>2, <1>3 DEF CopiesInv, Becomes

(* Every step keeps the invariant. *)
LEMMA CopiesInvStep == CopiesInv /\ [QrNext]_qrVars => CopiesInv'
<1> SUFFICES ASSUME CopiesInv, [QrNext]_qrVars PROVE CopiesInv'
  OBVIOUS
<1>1. CASE \E k \in QrKeys, image \in Images : BeginPut(k, image)
  BY <1>1 DEF BeginPut, OwnerActs, CopiesInv, Listed
<1>2. CASE \E k \in QrKeys : RemoveQr(k)
  <2> PICK k \in QrKeys : RemoveQr(k)
    BY <1>2
  <2>1. CASE asked = k
    <3>1. [stored EXCEPT ![k] = NoImage] \in [QrKeys -> Images \cup {NoImage}]
      BY DEF CopiesInv
    <3>2. /\ Becomes([stored EXCEPT ![k] = NoImage], active) /\ active \in [QrKeys -> BOOLEAN]
          /\ qrCopy' = qrCopy /\ refresh' = refresh
          /\ put' \in [key : QrKeys, image : Images] \cup {NoPut}
      BY <2>1 DEF RemoveQr, OwnerActs, CopiesInv
    <3> QED BY <3>1, <3>2, OwnerKeeps
  <2>2. CASE asked # k
    BY <2>2 DEF RemoveQr, CopiesInv, Listed
  <2> QED BY <2>1, <2>2
<1>3. CASE \E k \in QrKeys : SwitchBarber(k)
  <2> PICK k \in QrKeys : SwitchBarber(k)
    BY <1>3
  <2>1. [active EXCEPT ![k] = ~@] \in [QrKeys -> BOOLEAN]
    BY Zenon DEF CopiesInv
  <2>2. /\ Becomes(stored, [active EXCEPT ![k] = ~@]) /\ stored \in [QrKeys -> Images \cup {NoImage}]
        /\ qrCopy' = qrCopy /\ refresh' = refresh
        /\ put' \in [key : QrKeys, image : Images] \cup {NoPut}
    BY DEF SwitchBarber, OwnerActs, CopiesInv
  <2> QED BY <2>1, <2>2, OwnerKeeps
<1>4. CASE FinishPut
  <2>1. put \in [key : QrKeys, image : Images]
    BY <1>4 DEF FinishPut, CopiesInv
  <2>2. [stored EXCEPT ![put.key] = put.image] \in [QrKeys -> Images \cup {NoImage}]
    BY <2>1 DEF CopiesInv
  <2>3. /\ Becomes([stored EXCEPT ![put.key] = put.image], active) /\ active \in [QrKeys -> BOOLEAN]
        /\ qrCopy' = qrCopy /\ refresh' = refresh
        /\ put' \in [key : QrKeys, image : Images] \cup {NoPut}
    BY <1>4 DEF FinishPut, CopiesInv
  <2> QED BY <2>2, <2>3, OwnerKeeps
<1>5. CASE PutRefused
  BY <1>5 DEF PutRefused, CopiesInv, Listed
<1>6. CASE StartRefresh
  <2>1. offered' \in [QrKeys -> BOOLEAN]
    BY <1>6, Zenon DEF StartRefresh
  <2>2. ASSUME NEW k \in QrKeys, offered'[k] PROVE Listed'[k] # NoImage
    BY <1>6, <2>2 DEF StartRefresh, Listed
  <2>3. refresh' = [Idle EXCEPT !.at = "listing"]
    BY <1>6 DEF StartRefresh
  <2> QED BY <1>6, <2>1, <2>2, <2>3, IdleIsRefresh DEF StartRefresh, CopiesInv
<1>7. CASE GotList
  <2>1. \A k \in QrKeys : Listed[k] \in {stored[k], NoImage}
    BY DEF Listed, Listing
  <2>2. Listed \in [QrKeys -> Images \cup {NoImage}]
    BY DEF Listed, Listing, CopiesInv
  <2>3. refresh' = [at |-> "downloading", list |-> Listed, download |-> Download(Listed)]
    BY <1>7 DEF GotList, Plan
  <2>4. qrCopy' \in [QrKeys -> Copy \cup {NoImage}]
    BY <1>7 DEF GotList, Plan, CopiesInv
  <2>5. /\ Download(Listed) \subseteq QrKeys
        /\ \A k \in Download(Listed) : Listed[k] # NoImage
    BY DEF Download
  <2>6. Listed' = Listed /\ stored' = stored /\ active' = active /\ put' = put /\ offered' = offered
        /\ replaced' = [k \in QrKeys |-> FALSE]
    BY <1>7 DEF GotList, Listed
  <2> HIDE DEF Listed, Download
  <2> QED BY <2>1, <2>2, <2>3, <2>4, <2>5, <2>6 DEF CopiesInv
<1>8. CASE NoList \/ EndRefresh
  BY <1>8, IdleIsRefresh DEF NoList, EndRefresh, Unreachable, Free, CopiesInv, Listed
<1>9. CASE \E k \in QrKeys : GotImage(k)
  <2> PICK k \in QrKeys : GotImage(k)
    BY <1>9
  <2>1. refresh.list[k] \in Images
    BY DEF GotImage, CopiesInv
  <2>2. Listed[k] \in Images \cup {NoImage}
    BY DEF Listed, Listing, CopiesInv
  <2>3. qrCopy' \in [QrKeys -> Copy \cup {NoImage}]
    BY <2>1, <2>2 DEF GotImage, CopiesInv, Copy
  <2>4. refresh' = [refresh EXCEPT !.download = refresh.download \ {k}]
    BY DEF GotImage
  <2> QED BY <2>3, <2>4 DEF GotImage, CopiesInv, Listed
<1>10. CASE \E k \in QrKeys : NoAnswer(k)
  <2> PICK k \in QrKeys : NoAnswer(k)
    BY <1>10
  <2>1. refresh' = [refresh EXCEPT !.download = refresh.download \ {k}]
    BY DEF NoAnswer
  <2> QED BY <2>1 DEF NoAnswer, KeptCopy, CopiesInv, Listed
<1>11. CASE UNCHANGED qrVars
  BY <1>11 DEF qrVars, CopiesInv, Listed
<1> QED
  BY <1>1, <1>2, <1>3, <1>4, <1>5, <1>6, <1>7, <1>8, <1>9, <1>10, <1>11 DEF QrNext

(* A copy is dropped only if its QR was missing from the server at some time during the
   run, and a copy that changes carries the hash of its own image unless the image was
   replaced between the list and the download. *)
THEOREM HashesFit == QrSpec => HashIsTheImages
<1> DEFINE Fit == \A k \in QrKeys : qrCopy'[k] # qrCopy[k] =>
                    IF qrCopy'[k] = NoImage THEN ~offered[k]
                    ELSE qrCopy'[k].sha = qrCopy'[k].image \/ replaced[k]
<1>1. ASSUME CopiesInv, [QrNext]_qrVars PROVE Fit
  <2> SUFFICES ASSUME NEW k \in QrKeys, qrCopy'[k] # qrCopy[k]
               PROVE  IF qrCopy'[k] = NoImage THEN ~offered[k]
                      ELSE qrCopy'[k].sha = qrCopy'[k].image \/ replaced[k]
    OBVIOUS
  <2>1. CASE GotList
    BY <1>1, <2>1 DEF GotList, Plan, CopiesInv
  <2>2. ASSUME NEW j \in QrKeys, GotImage(j)
        PROVE  qrCopy'[k] # NoImage /\ (qrCopy'[k].sha = qrCopy'[k].image \/ replaced[k])
    <3>1. j = k /\ Listed[k] # NoImage
          /\ qrCopy'[k] = [sha |-> refresh.list[k], image |-> Listed[k]]
      BY <1>1, <2>2 DEF GotImage, CopiesInv
    <3>2. Listed[k] = stored[k] /\ Listed[k] \in Images /\ refresh.list[k] \in Images
      BY <1>1, <2>2, <3>1 DEF Listed, Listing, GotImage, CopiesInv
    <3>3. replaced[k] \/ stored[k] = refresh.list[k]
      BY <1>1, <2>2, <3>2, QrAssumption DEF CopiesInv
    <3>4. qrCopy'[k] \in Copy
      BY <3>1, <3>2 DEF Copy
    <3> QED BY <3>1, <3>2, <3>3, <3>4, QrAssumption
  <2> QED
    BY <1>1, <2>1, <2>2 DEF QrNext, qrVars, BeginPut, OwnerActs, RemoveQr, SwitchBarber, FinishPut,
       PutRefused, StartRefresh, NoList, Unreachable, EndRefresh, NoAnswer, KeptCopy, CopiesInv
<1> QED BY <1>1, CopiesInvInit, CopiesInvStep, PTL DEF QrSpec, HashIsTheImages

-----------------------------------------------------------------------------
(* OfflinePages *)

AnyRequest ==
  [path : Paths \cup {""}, had : BOOLEAN, again : BOOLEAN, waiting : BOOLEAN, net : BOOLEAN,
   sent : Results \cup {"none"}]

(* A copy that was there when the request came is still there; a redirect is only
   followed without waiting, because the PC is known not to answer. *)
Fine(r) ==
  /\ r.had => r.path \in Cached \/ (r.path = "/" /\ Stored("/pos"))
  /\ r.had /\ r.path # "file" /\ ~r.waiting => r.sent \in {"page", "copy", "to /pos", "redirected"}
  /\ ~(r.again /\ r.waiting)
  /\ r.sent = "to /pos" /\ ~heard => unreachable # 0

PagesInv ==
  /\ release \in Nat \ {0}
  /\ copies \in [Cached -> Nat]
  /\ unreachable \in Nat
  /\ heard \in BOOLEAN
  /\ opening \in [Openings -> AnyRequest]
  /\ \A o \in Openings : Fine(opening[o])

(* An opening that asks for nothing is fine. *)
LEMMA NoRequestFine == NoRequest \in AnyRequest /\ Fine(NoRequest)
BY DEF NoRequest, AnyRequest, Fine, Results

(* It holds at the start. *)
LEMMA PagesInvInit == PagesInit => PagesInv
BY NoRequestFine DEF PagesInit, PagesInv

(* What is sent when the network gives nothing is a page, a copy or a redirect. *)
LEMMA InsteadIsResult == ASSUME NEW r PROVE Instead(r) \in Results
BY DEF Instead, Results

(* A new request is fine, if one that must not wait comes while nothing waits. *)
LEMMA NewIsFine ==
  ASSUME PagesInv, NEW path \in Paths, NEW again \in BOOLEAN,
         again => unreachable # 0 /\ path # "file"
  PROVE  New(path, again) \in AnyRequest /\ Fine(New(path, again))
<1> DEFINE had == IF path \in Cached THEN Stored(path) ELSE path = "/" /\ Stored("/pos")
           r == [path |-> path, had |-> had, again |-> again, waiting |-> TRUE, net |-> FALSE,
                 sent |-> "none"]
           s == [r EXCEPT !.waiting = FALSE, !.sent = Instead(r)]
<1>1. had \in BOOLEAN
  BY DEF Stored
<1>2. had => path \in Cached \/ (path = "/" /\ Stored("/pos"))
  OBVIOUS
<1>3. New(path, again) = IF unreachable = 0 \/ (path = "file" /\ ~had) THEN r ELSE s
  BY DEF New
<1> HIDE DEF had
<1>4. r \in AnyRequest
  BY <1>1 DEF AnyRequest
<1>5. s \in AnyRequest
  BY <1>4, InsteadIsResult DEF AnyRequest
<1>6. CASE unreachable = 0 \/ (path = "file" /\ ~had)
  <2>1. Fine(r)
    BY <1>2, <1>6 DEF Fine
  <2> QED BY <1>3, <1>4, <1>6, <2>1
<1>7. CASE ~(unreachable = 0 \/ (path = "file" /\ ~had))
  <2>1. had => Instead(r) \in {"copy", "to /pos"}
    BY <1>2 DEF Instead
  <2>2. Fine(s)
    BY <1>2, <1>7, <2>1 DEF Fine
  <2> QED BY <1>3, <1>5, <1>7, <2>2
<1> QED BY <1>6, <1>7

(* Every step keeps the invariant. *)
LEMMA PagesInvStep == PagesInv /\ [PagesNext]_pageVars => PagesInv'
<1> SUFFICES ASSUME PagesInv, [PagesNext]_pageVars PROVE PagesInv'
  OBVIOUS
<1>1. CASE \E o \in Openings, path \in Paths : Open(o, path)
  <2> PICK o \in Openings, path \in Paths : Open(o, path)
    BY <1>1
  <2>1. New(path, FALSE) \in AnyRequest /\ Fine(New(path, FALSE))
    BY NewIsFine
  <2>2. \A r : Fine(r)' <=> Fine(r)
    BY DEF Open, Fine, Stored
  <2> QED BY <2>1, <2>2 DEF Open, PagesInv
<1>2. CASE \E o \in Openings, answer \in Statuses : NetworkAnswers(o, answer)
  <2> PICK o \in Openings, answer \in Statuses : NetworkAnswers(o, answer)
    BY <1>2
  <2> PICK r \in AnyRequest : r = opening[o]
    BY DEF PagesInv
  <2> DEFINE useless == r.waiting /\ answer \in Unusable(r)
             got == IF ~r.waiting THEN r.sent
                    ELSE IF useless THEN Instead(r)
                    ELSE IF answer \in {"ok", "not ok"} THEN "page" ELSE "error page"
             s == [r EXCEPT !.net = TRUE, !.waiting = FALSE, !.sent = got]
  <2>1. opening' = [opening EXCEPT ![o] = s]
    BY DEF NetworkAnswers, PagesInv, AnyRequest
  <2>2. got \in Results \cup {"none"}
    BY InsteadIsResult DEF AnyRequest, Results
  <2>3. r.had /\ r.path # "file" => got \in {"page", "copy", "to /pos", "redirected"}
    <3> SUFFICES ASSUME r.had, r.path # "file"
                 PROVE  got \in {"page", "copy", "to /pos", "redirected"}
      OBVIOUS
    <3>1. Fine(r)
      BY DEF PagesInv
    <3>2. Instead(r) \in {"copy", "to /pos"}
      BY <3>1 DEF Fine, Instead
    <3>3. answer \in {"ok", "not ok"} \/ answer \in Unusable(r)
      BY DEF Statuses, Unusable, Lenient
    <3> QED BY <3>1, <3>2, <3>3 DEF Fine
  <2>4. /\ copies' \in [Cached -> Nat]
        /\ \A p \in Cached : copies[p] # 0 => copies'[p] # 0
    BY DEF NetworkAnswers, Refreshed, PagesInv
  <2>5. unreachable' \in Nat /\ heard' \in BOOLEAN
    BY PagesAssumption DEF NetworkAnswers, PagesInv
  <2>6. ~heard' => (~heard /\ unreachable' = unreachable) \/ unreachable' # 0
    BY PagesAssumption DEF NetworkAnswers, PagesInv
  <2>7. ASSUME got = "to /pos", ~heard', r.waiting PROVE unreachable' # 0
    BY <2>7, PagesAssumption DEF NetworkAnswers, Instead
  <2> HIDE DEF got
  <2>8. s \in AnyRequest /\ s.sent = got /\ s.had = r.had /\ s.path = r.path /\ ~s.waiting
    BY <2>2 DEF AnyRequest
  <2> HIDE DEF s
  <2> PICK t : t = s
    OBVIOUS
  <2>9. ASSUME NEW x, Fine(x) PROVE Fine(x)'
    BY <2>4, <2>6, <2>9, PagesAssumption DEF Fine, Stored, Cached
  <2>10. Fine(t)'
    <3>1. Fine(r)' /\ Fine(r)
      BY <2>9 DEF PagesInv
    <3>2. CASE r.waiting
      BY <2>3, <2>7, <2>8, <3>1, <3>2 DEF Fine
    <3>3. CASE ~r.waiting
      BY <2>3, <2>8, <3>1, <3>3 DEF Fine, got
    <3> QED BY <3>2, <3>3
  <2>11. ASSUME NEW x \in Openings PROVE opening'[x] \in {t, opening[x]}
    BY <2>1 DEF PagesInv
  <2>12. opening' \in [Openings -> AnyRequest]
    BY <2>1, <2>8 DEF PagesInv
  <2>13. ASSUME NEW x \in Openings PROVE Fine(opening[x])'
    <3> PICK y : y = opening'[x]
      OBVIOUS
    <3>1. y = t \/ Fine(y)
      BY <2>11 DEF PagesInv
    <3>2. Fine(y)'
      BY <2>9, <2>10, <3>1
    <3> QED BY <3>2 DEF Fine
  <2> QED BY <2>4, <2>5, <2>12, <2>13 DEF NetworkAnswers, PagesInv
<1>3. CASE \E o \in Openings, next \in Openings : Follow(o, next)
  <2> PICK o \in Openings, next \in Openings : Follow(o, next)
    BY <1>3
  <2> DEFINE n == New("/pos", ~heard)
             m == [opening[o] EXCEPT !.sent = "redirected"]
  <2>1. heard \/ unreachable # 0
    BY DEF Follow, PagesInv, Fine
  <2>2. "/pos" \in Paths /\ (~heard) \in BOOLEAN
    BY PagesAssumption DEF Paths, Cached
  <2>3. n \in AnyRequest /\ Fine(n)
    BY <2>1, <2>2, NewIsFine
  <2>4. m \in AnyRequest /\ Fine(m)
    <3>1. opening[o] \in AnyRequest /\ Fine(opening[o])
      BY DEF PagesInv
    <3>2. /\ m \in AnyRequest /\ m.sent = "redirected" /\ m.had = opening[o].had
          /\ m.path = opening[o].path /\ m.again = opening[o].again /\ m.waiting = opening[o].waiting
      BY <3>1 DEF AnyRequest, Results
    <3> QED BY <3>1, <3>2 DEF Fine
  <2> HIDE DEF n, m
  <2>5. opening' = [[opening EXCEPT ![o] = m] EXCEPT ![next] = n]
    BY DEF Follow, n, m
  <2>6. opening' \in [Openings -> AnyRequest] /\ \A x \in Openings : Fine(opening'[x])
    BY <2>3, <2>4, <2>5 DEF PagesInv
  <2>7. ASSUME NEW y PROVE Fine(y)' <=> Fine(y)
    BY DEF Follow, Fine, Stored
  <2>8. ASSUME NEW x \in Openings PROVE Fine(opening[x])'
    <3> PICK y : y = opening'[x]
      OBVIOUS
    <3>1. Fine(y)'
      BY <2>6, <2>7
    <3> QED BY <3>1 DEF Fine
  <2> QED BY <2>6, <2>8 DEF Follow, PagesInv
<1>4. CASE \E o \in Openings : TimesOut(o)
  <2> PICK o \in Openings : TimesOut(o)
    BY <1>4
  <2> PICK r \in AnyRequest : r = opening[o]
    BY DEF PagesInv
  <2> PICK t : t = [r EXCEPT !.waiting = FALSE, !.sent = Instead(r)]
    OBVIOUS
  <2>1. opening' = [opening EXCEPT ![o] = t]
    BY DEF TimesOut, PagesInv, AnyRequest
  <2>2. /\ t \in AnyRequest /\ t.sent = Instead(r) /\ t.had = r.had /\ t.path = r.path
        /\ ~t.waiting
    BY InsteadIsResult DEF AnyRequest
  <2>3. /\ Fine(r) /\ copies' = copies /\ release' = release
        /\ (heard' = (heard /\ r.path = "file")) /\ heard' \in BOOLEAN
        /\ unreachable' \in {unreachable, Backoff}
        /\ r.path # "file" => unreachable' = Backoff
    BY DEF TimesOut, GivenUp, PagesInv
  <2>4. Instead(r) = "to /pos" => r.path = "/"
    BY DEF Instead
  <2>5. r.had => Instead(r) \in {"copy", "to /pos"}
    BY <2>3 DEF Fine, Instead
  <2>6. Fine(t)'
    BY <2>2, <2>3, <2>4, <2>5, PagesAssumption DEF Fine, Stored
  <2>7. ASSUME NEW x, Fine(x) PROVE Fine(x)'
    BY <2>3, <2>7, PagesAssumption DEF Fine, Stored
  <2>8. opening' \in [Openings -> AnyRequest] /\ \A x \in Openings : opening'[x] \in {t, opening[x]}
    BY <2>1, <2>2 DEF PagesInv
  <2>9. ASSUME NEW x \in Openings PROVE Fine(opening[x])'
    <3> PICK y : y = opening'[x]
      OBVIOUS
    <3>1. y = t \/ Fine(y)
      BY <2>8 DEF PagesInv
    <3>2. Fine(y)'
      BY <2>6, <2>7, <3>1
    <3> QED BY <3>2 DEF Fine
  <2>10. unreachable' \in Nat
    BY <2>3, PagesAssumption DEF PagesInv
  <2> QED BY <2>3, <2>8, <2>9, <2>10 DEF PagesInv
<1>5. CASE \E o \in Openings : Done(o)
  <2> PICK o \in Openings : Done(o)
    BY <1>5
  <2>1. opening' \in [Openings -> AnyRequest]
    BY NoRequestFine DEF Done, PagesInv
  <2>2. \A x \in Openings : Fine(opening'[x])
    BY NoRequestFine DEF Done, PagesInv
  <2>3. ASSUME NEW y PROVE Fine(y)' <=> Fine(y)
    BY DEF Done, Fine, Stored
  <2>4. ASSUME NEW x \in Openings PROVE Fine(opening[x])'
    <3> PICK y : y = opening'[x]
      OBVIOUS
    <3>1. Fine(y)'
      BY <2>2, <2>3
    <3> QED BY <3>1 DEF Fine
  <2> QED BY <2>1, <2>4 DEF Done, PagesInv
<1>6. CASE BackoffPasses
  <2>1. ASSUME NEW x \in Openings PROVE Fine(opening[x])'
    BY <1>6 DEF BackoffPasses, PagesInv, Fine, Stored
  <2>2. unreachable' \in Nat
    <3>1. unreachable \in Nat /\ unreachable > 0 /\ unreachable' = unreachable - 1
      BY <1>6 DEF BackoffPasses, PagesInv
    <3> QED BY <3>1
  <2> QED BY <1>6, <2>1, <2>2 DEF BackoffPasses, PagesInv
<1>7. CASE NewRelease
  <2>1. copies' \in [Cached -> Nat] /\ release' \in Nat \ {0} /\ unreachable' \in Nat
    BY <1>7 DEF NewRelease, PagesInv
  <2>2. ASSUME NEW x \in Openings PROVE Fine(opening[x])'
    <3>1. CASE UNCHANGED <<copies, unreachable>>
      BY <1>7, <3>1 DEF NewRelease, PagesInv, Fine, Stored
    <3>2. CASE \A o \in Openings : opening[o] = NoRequest
      <4>1. opening'[x] = NoRequest
        BY <1>7, <3>2 DEF NewRelease
      <4>2. ~NoRequest.had /\ ~NoRequest.again /\ NoRequest.sent = "none"
        BY DEF NoRequest
      <4> QED BY <4>1, <4>2 DEF Fine
    <3> QED BY <1>7, <3>1, <3>2 DEF NewRelease
  <2> QED BY <1>7, <2>1, <2>2 DEF NewRelease, PagesInv
<1>8. CASE UNCHANGED pageVars
  BY <1>8 DEF pageVars, PagesInv, Fine, Stored
<1> QED
  BY <1>1, <1>2, <1>3, <1>4, <1>5, <1>6, <1>7, <1>8 DEF PagesNext

(* With a copy on the phone the POS, the shift log and the start page open on a page,
   and a redirect never waits for the PC a second time. *)
THEOREM PagesOpen == PagesSpec => []PosOpens
<1>1. PagesInv => PosOpens
  BY DEF PagesInv, PosOpens, Fine
<1> QED BY <1>1, PagesInvInit, PagesInvStep, PTL DEF PagesSpec

-----------------------------------------------------------------------------
(* DevicesPage *)

(* A list read and not yet shown is true as long as no revocation crossed it; the list
   shown is true unless an answer that replaces it, or the call that made it untrue,
   is still out. *)
DevicesInv ==
  /\ approved \subseteq Phones
  /\ deviceCalls \subseteq DeviceCall
  /\ deviceError \in BOOLEAN /\ mixedUp \in BOOLEAN
  /\ Overlap(deviceCalls) => mixedUp
  /\ ~mixedUp =>
       \A c \in deviceCalls : c.kind = "load" /\ c.at = "done" => c.saw \subseteq approved
  /\ ~mixedUp /\ ~deviceError /\ view = "open" /\ (\A c \in deviceCalls : c.kind = "unlock") =>
       shownApproved \subseteq approved

(* A request just sent. *)
LEMMA AskedIsCall ==
  ASSUME NEW kind \in {"load", "unlock", "revoke"}, NEW p \in Phones \cup {NoPhone}
  PROVE  /\ Asked(kind, p) \in DeviceCall
         /\ Asked(kind, p).kind = kind /\ Asked(kind, p).at = "sent"
BY DEF Asked, DeviceCall

(* A request sent is a load or a revocation, so the list need not be true until its
   answer, and a crossing is noted, until a load goes out with no answer still to come;
   or it comes from a locked page. *)
LEMMA SendKeeps ==
  ASSUME DevicesInv, NEW kind \in {"load", "unlock", "revoke"}, NEW p \in Phones \cup {NoPhone},
         NEW rest \in SUBSET deviceCalls, Send(Asked(kind, p), rest),
         approved' = approved, view' = view,
         kind = "unlock" => view # "open"
  PROVE  DevicesInv'
<1> DEFINE call == Asked(kind, p)
<1>1. call \in DeviceCall /\ call.kind = kind /\ call.at = "sent"
  BY AskedIsCall
<1>2. /\ deviceCalls' = rest \cup {call} /\ deviceError' = FALSE
      /\ mixedUp' = IF call.kind = "load" /\ rest = {} THEN FALSE ELSE mixedUp \/ Overlap(deviceCalls')
  BY DEF Send
<1> HIDE DEF call
<1>3. deviceCalls' \subseteq DeviceCall /\ deviceError' \in BOOLEAN
  BY <1>1, <1>2 DEF DevicesInv
<1>4. mixedUp' \in BOOLEAN /\ (Overlap(deviceCalls') => mixedUp')
  <2>1. CASE call.kind = "load" /\ rest = {}
    BY <1>2, <2>1 DEF Overlap
  <2>2. CASE ~(call.kind = "load" /\ rest = {})
    BY <1>2, <2>2, Zenon DEF DevicesInv
  <2> QED BY <2>1, <2>2
<1>5. ~mixedUp' => ~mixedUp \/ rest = {}
  BY <1>2, Zenon
<1>6. ASSUME ~mixedUp', NEW c \in deviceCalls', c.kind = "load", c.at = "done"
      PROVE  c.saw \subseteq approved'
  BY <1>1, <1>2, <1>5, <1>6 DEF DevicesInv
<1>7. ~(view' = "open" /\ \A c \in deviceCalls' : c.kind = "unlock")
  BY <1>1, <1>2
<1> QED BY <1>3, <1>4, <1>6, <1>7 DEF DevicesInv, Overlap

(* It holds at the start. *)
LEMMA DevicesInvInit == DevicesInit => DevicesInv
<1> SUFFICES ASSUME DevicesInit PROVE DevicesInv
  OBVIOUS
<1>1. Asked("load", NoPhone) \in DeviceCall /\ Asked("load", NoPhone).kind = "load"
                                            /\ Asked("load", NoPhone).at = "sent"
  BY AskedIsCall
<1> QED BY <1>1 DEF DevicesInit, DevicesInv, Overlap

(* Every step keeps the invariant. *)
LEMMA DevicesInvStep == DevicesInv /\ [DevicesNext]_devicesVars => DevicesInv'
<1> SUFFICES ASSUME DevicesInv, [DevicesNext]_devicesVars PROVE DevicesInv'
  OBVIOUS
<1>1. CASE ReloadDevices
  BY <1>1, SendKeeps, Zenon DEF ReloadDevices
<1>2. CASE UnlockDevices
  <2>1. view # "open"
    BY <1>2 DEF UnlockDevices
  <2> QED BY <1>2, <2>1, SendKeeps, Zenon DEF UnlockDevices
<1>3. CASE \E p \in Phones : TapRevoke(p)
  <2> PICK p \in Phones : TapRevoke(p)
    BY <1>3
  <2>1. CASE confirmRevoke = p
    BY <2>1, SendKeeps, Zenon DEF TapRevoke
  <2>2. CASE confirmRevoke # p
    BY <2>2 DEF TapRevoke, DevicesInv, Overlap
  <2> QED BY <2>1, <2>2
<1>4. CASE \E p \in Phones : PhoneApproved(p)
  BY <1>4 DEF PhoneApproved, DevicesInv, Overlap
<1>5. CASE \E c \in deviceCalls : ServerTurn(c)
  <2> PICK c \in deviceCalls, at \in {"done", "refused"} :
        /\ deviceCalls' = (deviceCalls \ {c})
             \cup {[c EXCEPT !.at = at, !.saw = IF c.kind = "load" THEN approved ELSE {}]}
        /\ approved' = IF c.kind = "revoke" /\ at = "done" THEN approved \ {c.phone} ELSE approved
    BY <1>5 DEF ServerTurn
  <2>1. /\ c \in DeviceCall /\ view' = view /\ shownApproved' = shownApproved
        /\ deviceError' = deviceError /\ mixedUp' = mixedUp
    BY <1>5 DEF DevicesInv, ServerTurn
  <2> DEFINE answer == [c EXCEPT !.at = at, !.saw = IF c.kind = "load" THEN approved ELSE {}]
  <2>2. /\ answer \in DeviceCall /\ answer.kind = c.kind
        /\ answer.kind = "load" => answer.saw = approved
    BY <2>1 DEF DevicesInv, DeviceCall
  <2>3. deviceCalls' = (deviceCalls \ {c}) \cup {answer}
    OBVIOUS
  <2> HIDE DEF answer
  <2>4. CASE c.kind = "revoke"
    BY <2>1, <2>2, <2>3, <2>4 DEF DevicesInv, Overlap
  <2>5. CASE c.kind # "revoke"
    <3>1. approved' = approved
      BY <2>5
    <3>2. /\ Overlap(deviceCalls') => Overlap(deviceCalls)
          /\ (\A x \in deviceCalls' : x.kind = "unlock") => \A x \in deviceCalls : x.kind = "unlock"
      BY <2>2, <2>3 DEF Overlap
    <3> QED BY <2>1, <2>2, <2>3, <3>1, <3>2 DEF DevicesInv
  <2> QED BY <2>4, <2>5
<1>6. CASE \E c \in deviceCalls : LoadArrives(c)
  BY <1>6 DEF LoadArrives, DevicesInv, Overlap
<1>7. CASE \E c \in deviceCalls : CallArrives(c)
  <2> PICK c \in deviceCalls : CallArrives(c)
    BY <1>7
  <2>1. CASE c.at = "done"
    <3>1. Send(Asked("load", NoPhone), deviceCalls \ {c}) /\ approved' = approved /\ view' = view
      BY <2>1 DEF CallArrives, Loads
    <3> QED BY <3>1, SendKeeps
  <2>2. CASE c.at # "done"
    BY <2>2 DEF CallArrives, DevicesInv, Overlap
  <2> QED BY <2>1, <2>2
<1>8. CASE \E c \in deviceCalls : CallFails(c)
  BY <1>8 DEF CallFails, DevicesInv, Overlap
<1>9. CASE UNCHANGED devicesVars
  BY <1>9 DEF devicesVars, DevicesInv, Overlap
<1> QED
  BY <1>1, <1>2, <1>3, <1>4, <1>5, <1>6, <1>7, <1>8, <1>9 DEF DevicesNext

(* A page at rest that shows its list and no error lists as approved only phones that
   are, however many requests of it overlapped, unless a load crossed a revocation and the
   list was not loaded by itself since. *)
THEOREM ListIsTrue == DevicesSpec => []DevicesAtRest
<1>1. DevicesInv => DevicesAtRest
  BY DEF DevicesInv, DevicesAtRest
<1> QED BY <1>1, DevicesInvInit, DevicesInvStep, PTL DEF DevicesSpec

-----------------------------------------------------------------------------
(* QrPage *)

(* Unless calls crossed: a list read and not yet shown is the server's, a write carried
   out and not yet answered is still what the server has, and every slot of an open page
   is right or about to be put right by an answer that is out. *)
LoadOut == \E c \in qrCalls : IsLoad(c)
RightSlot(k) ==
  \/ shownQrs[k] = kept[k]
  \/ \E c \in qrCalls : c.slot = k /\ c.at = "done" /\ c.picture = kept[k]

QrPageInv ==
  /\ kept \in Album /\ shownQrs \in Album
  /\ qrCalls \subseteq QrCall
  /\ {qrOpen, qrError, qrMixedUp} \subseteq BOOLEAN
  /\ Clash(qrCalls) => qrMixedUp
  /\ ~qrMixedUp =>
       /\ \A c \in qrCalls : c.at = "done" => IF IsLoad(c) THEN c.saw = kept ELSE kept[c.slot] = c.picture
       /\ qrOpen /\ ~qrError => LoadOut \/ \A k \in QrSlots : RightSlot(k)

(* A load just sent. *)
LEMMA ListAskedIsLoad ==
  NoPictures \in Album /\ ListAsked \in QrCall /\ IsLoad(ListAsked) /\ ListAsked.at = "sent"
BY DEF NoPictures, ListAsked, QrCall, IsLoad, Album, Maybe

(* A write just sent. *)
LEMMA WriteIsCall ==
  ASSUME NEW k \in QrSlots, NEW p \in Maybe
  PROVE  /\ Write(k, p) \in QrCall /\ ~IsLoad(Write(k, p))
         /\ Write(k, p).at = "sent" /\ Write(k, p).slot = k
BY QrPageAssumption, ListAskedIsLoad DEF Write, QrCall, IsLoad

(* A request that has not reached the server leaves every slot as right as it was; a
   crossing is noted, until a load goes out with no answer still to come. *)
LEMMA SendQrKeeps ==
  ASSUME QrPageInv, NEW call \in QrCall, call.at = "sent", SendQr(call),
         kept' = kept, shownQrs' = shownQrs, {qrOpen', qrError'} \subseteq BOOLEAN,
         \/ IsLoad(call)
         \/ qrOpen' = qrOpen /\ qrError' = qrError
  PROVE  QrPageInv'
<1>1. /\ qrCalls' = qrCalls \cup {call}
      /\ qrMixedUp' = IF IsLoad(call) /\ qrCalls = {} THEN FALSE ELSE qrMixedUp \/ Clash(qrCalls')
  BY DEF SendQr
<1>2. qrMixedUp' \in BOOLEAN /\ (Clash(qrCalls') => qrMixedUp')
  <2>1. CASE IsLoad(call) /\ qrCalls = {}
    BY <1>1, <2>1 DEF Clash
  <2>2. CASE ~(IsLoad(call) /\ qrCalls = {})
    BY <1>1, <2>2, Zenon DEF QrPageInv
  <2> QED BY <2>1, <2>2
<1>3. ~qrMixedUp' => ~qrMixedUp \/ (IsLoad(call) /\ qrCalls = {})
  BY <1>1, Zenon
<1>4. qrCalls' \subseteq QrCall
  BY <1>1 DEF QrPageInv
<1>5. ASSUME ~qrMixedUp', NEW c \in qrCalls', c.at = "done"
      PROVE  IF IsLoad(c) THEN c.saw = kept' ELSE kept'[c.slot] = c.picture
  BY <1>1, <1>5, <1>3 DEF QrPageInv
<1>6. ASSUME ~qrMixedUp', qrOpen', ~qrError'
      PROVE  LoadOut' \/ \A k \in QrSlots : RightSlot(k)'
  <2>1. CASE IsLoad(call)
    BY <1>1, <2>1 DEF LoadOut
  <2>2. CASE ~IsLoad(call)
    <3>1. LoadOut \/ \A k \in QrSlots : RightSlot(k)
      BY <1>6, <1>3, <2>2 DEF QrPageInv
    <3> QED BY <1>1, <3>1 DEF LoadOut, RightSlot
  <2> QED BY <2>1, <2>2
<1>7. Clash(qrCalls)' => qrMixedUp'
  BY <1>2 DEF Clash
<1> QED BY <1>2, <1>4, <1>5, <1>6, <1>7 DEF QrPageInv, IsLoad

(* It holds at the start. *)
LEMMA QrPageInvInit == QrPageInit => QrPageInv
BY ListAskedIsLoad DEF QrPageInit, QrPageInv, Clash

(* Every step keeps the invariant. *)
LEMMA QrPageInvStep == QrPageInv /\ [QrPageNext]_qrPageVars => QrPageInv'
<1> SUFFICES ASSUME QrPageInv, [QrPageNext]_qrPageVars PROVE QrPageInv'
  OBVIOUS
<1>1. CASE LoadQrs
  <2>1. {qrOpen', qrError'} \subseteq BOOLEAN
    BY <1>1 DEF LoadQrs
  <2> QED BY <1>1, <2>1, ListAskedIsLoad, SendQrKeeps DEF LoadQrs
<1>2. CASE \E k \in QrSlots, p \in Pictures : Upload(k, p)
  <2> PICK k \in QrSlots, p \in Pictures : Upload(k, p)
    BY <1>2
  <2>1. p \in Maybe /\ {qrOpen', qrError'} \subseteq BOOLEAN
    BY DEF Upload, QrPageInv, Maybe
  <2> QED BY <2>1, WriteIsCall, SendQrKeeps DEF Upload
<1>3. CASE \E k \in QrSlots : TapRemove(k)
  <2> PICK k \in QrSlots : TapRemove(k)
    BY <1>3
  <2>1. CASE confirmRemove # k
    BY <2>1 DEF TapRemove, QrPageInv, Clash, LoadOut, RightSlot
  <2>2. CASE confirmRemove = k
    <3>1. NoPicture \in Maybe /\ {qrOpen', qrError'} \subseteq BOOLEAN
      BY DEF TapRemove, QrPageInv, Maybe
    <3> QED BY <2>2, <3>1, WriteIsCall, SendQrKeeps DEF TapRemove
  <2> QED BY <2>1, <2>2
<1>4. CASE \E c \in qrCalls : QrServerTurn(c)
  <2> PICK c \in qrCalls : QrServerTurn(c)
    BY <1>4
  <2>1. PICK at \in IF IsLoad(c) THEN {"done"} ELSE {"done", "refused"} :
        /\ qrCalls' = (qrCalls \ {c})
             \cup {[c EXCEPT !.at = at, !.saw = IF IsLoad(c) THEN kept ELSE NoPictures]}
        /\ kept' = IF IsLoad(c) \/ at = "refused" THEN kept ELSE [kept EXCEPT ![c.slot] = c.picture]
    BY DEF QrServerTurn
  <2>2. /\ c \in QrCall /\ c.at = "sent"
        /\ UNCHANGED <<qrOpen, shownQrs, qrError, qrMixedUp>>
    BY DEF QrServerTurn, QrPageInv
  <2> DEFINE d == [c EXCEPT !.at = at, !.saw = IF IsLoad(c) THEN kept ELSE NoPictures]
  <2>3. /\ d \in QrCall /\ d.slot = c.slot /\ d.picture = c.picture /\ d.at = at
        /\ d.saw = IF IsLoad(c) THEN kept ELSE NoPictures
        /\ IsLoad(d) <=> IsLoad(c)
    BY <2>1, <2>2, ListAskedIsLoad DEF QrCall, QrPageInv, IsLoad
  <2>4. qrCalls' = (qrCalls \ {c}) \cup {d}
    BY <2>1
  <2> HIDE DEF d
  <2>5. Clash(qrCalls)' => Clash(qrCalls)
    <3> SUFFICES ASSUME NEW x \in qrCalls', NEW y \in qrCalls', x # y,
                        x.slot = y.slot \/ IsLoad(x), ~IsLoad(y)
                 PROVE  Clash(qrCalls)
      BY DEF Clash, IsLoad
    <3> DEFINE x0 == IF x = d THEN c ELSE x
               y0 == IF y = d THEN c ELSE y
    <3>1. /\ x0 \in qrCalls /\ y0 \in qrCalls
          /\ x0.slot = x.slot /\ y0.slot = y.slot
          /\ x # d => x0 # c
          /\ y # d => y0 # c
      BY <2>3, <2>4
    <3>2. x0 # y0
      BY <2>4
    <3> QED BY <3>1, <3>2 DEF Clash, IsLoad
  <2>6. kept' \in Album
    <3>1. CASE IsLoad(c) \/ at = "refused"
      BY <2>1, <3>1 DEF QrPageInv
    <3>2. CASE ~(IsLoad(c) \/ at = "refused")
      <4>1. c.slot \in QrSlots /\ c.picture \in Maybe
        BY <2>2, <3>2 DEF IsLoad, QrCall
      <4> QED BY <2>1, <3>2, <4>1 DEF QrPageInv, Album
    <3> QED BY <3>1, <3>2
  <2>7. ASSUME ~qrMixedUp, NEW x \in qrCalls, x # c, ~IsLoad(c)
        PROVE  ~IsLoad(x) /\ x.slot # c.slot
    BY <2>7 DEF QrPageInv, Clash
  <2>8. ASSUME ~qrMixedUp, NEW x \in qrCalls', x.at = "done"
        PROVE  IF IsLoad(x) THEN x.saw = kept' ELSE kept'[x.slot] = x.picture
    <3>1. CASE x = d
      <4>1. CASE IsLoad(c)
        BY <2>1, <2>3, <3>1, <4>1
      <4>2. CASE ~IsLoad(c)
        <5>1. c.slot \in QrSlots /\ at # "refused"
          BY <2>2, <2>3, <2>8, <3>1, <4>2 DEF IsLoad, QrCall
        <5> QED BY <2>1, <2>3, <3>1, <4>2, <5>1 DEF QrPageInv, Album
      <4> QED BY <4>1, <4>2
    <3>2. CASE x # d
      <4>1. x \in qrCalls /\ x # c
        BY <2>4, <3>2
      <4>2. IF IsLoad(x) THEN x.saw = kept ELSE kept[x.slot] = x.picture
        BY <2>8, <4>1 DEF QrPageInv
      <4>3. CASE IsLoad(c) \/ at = "refused"
        BY <2>1, <4>2, <4>3
      <4>4. CASE ~(IsLoad(c) \/ at = "refused")
        <5>1. ~IsLoad(x) /\ x.slot # c.slot /\ x.slot \in QrSlots
          BY <2>7, <2>8, <4>1, <4>4 DEF QrPageInv, QrCall, IsLoad
        <5> QED BY <2>1, <4>2, <4>4, <5>1 DEF QrPageInv, Album
      <4> QED BY <4>3, <4>4
    <3> QED BY <3>1, <3>2
  <2>9. ASSUME ~qrMixedUp, qrOpen, ~qrError
        PROVE  LoadOut' \/ \A k \in QrSlots : RightSlot(k)'
    <3>1. CASE LoadOut
      <4>1. LoadOut'
        BY <2>3, <2>4, <3>1 DEF LoadOut, IsLoad
      <4> QED BY <4>1
    <3>2. ASSUME NEW k \in QrSlots, RightSlot(k) PROVE RightSlot(k)'
      <4>1. CASE kept'[k] = kept[k]
        BY <2>2, <2>4, <3>2, <4>1 DEF RightSlot
      <4>2. CASE kept'[k] # kept[k]
        <5>1. k = c.slot /\ kept'[k] = c.picture /\ at = "done"
          BY <2>1, <4>2 DEF QrPageInv, Album
        <5> QED BY <2>3, <2>4, <5>1 DEF RightSlot
      <4> QED BY <4>1, <4>2
    <3> QED BY <2>9, <3>1, <3>2 DEF QrPageInv
  <2>10. qrCalls' \subseteq QrCall
    BY <2>3, <2>4 DEF QrPageInv
  <2> QED BY <2>2, <2>5, <2>6, <2>8, <2>9, <2>10 DEF QrPageInv, IsLoad
<1>5. CASE \E c \in qrCalls : QrListArrives(c)
  <2> PICK c \in qrCalls : QrListArrives(c)
    BY <1>5
  <2>1. /\ c \in QrCall /\ IsLoad(c) /\ c.at = "done" /\ qrCalls' = qrCalls \ {c} /\ shownQrs' = c.saw
        /\ UNCHANGED <<kept, qrOpen, qrError, qrMixedUp>>
    BY DEF QrListArrives, QrPageInv
  <2>2. shownQrs' \in Album
    BY <2>1 DEF QrCall
  <2>3. Clash(qrCalls)' => Clash(qrCalls)
    BY <2>1 DEF Clash
  <2>4. ~qrMixedUp => \A k \in QrSlots : RightSlot(k)'
    BY <2>1 DEF QrPageInv, RightSlot
  <2> QED BY <2>1, <2>2, <2>3, <2>4 DEF QrPageInv
<1>6. CASE \E c \in qrCalls : WriteArrives(c)
  <2> PICK c \in qrCalls : WriteArrives(c)
    BY <1>6
  <2>1. /\ c \in QrCall /\ ~IsLoad(c) /\ c.slot \in QrSlots /\ c.picture \in Maybe
        /\ qrCalls' = qrCalls \ {c} /\ UNCHANGED <<kept, qrError, qrMixedUp>>
    BY DEF WriteArrives, QrPageInv, QrCall, IsLoad
  <2>2. Clash(qrCalls)' => Clash(qrCalls)
    BY <2>1 DEF Clash
  <2>3. CASE c.at = "done"
    <3>1. shownQrs' = [shownQrs EXCEPT ![c.slot] = c.picture] /\ qrOpen' = qrOpen
      BY <2>3 DEF WriteArrives, Changed
    <3>2. shownQrs' \in Album
      BY <2>1, <3>1 DEF QrPageInv, Album
    <3>3. ASSUME ~qrMixedUp, qrOpen, ~qrError
          PROVE  LoadOut' \/ \A k \in QrSlots : RightSlot(k)'
      <4>1. CASE LoadOut
        BY <2>1, <4>1 DEF LoadOut
      <4>2. ASSUME NEW k \in QrSlots, RightSlot(k) PROVE RightSlot(k)'
        <5>1. CASE k = c.slot
          BY <2>1, <2>3, <3>1, <3>3, <5>1 DEF RightSlot, QrPageInv, Album
        <5>2. CASE k # c.slot
          BY <2>1, <3>1, <4>2, <5>2 DEF RightSlot, QrPageInv, Album
        <5> QED BY <5>1, <5>2
      <4> QED BY <3>3, <4>1, <4>2 DEF QrPageInv
    <3> QED BY <2>1, <2>2, <3>1, <3>2, <3>3 DEF QrPageInv
  <2>4. CASE c.at = "refused"
    <3>1. shownQrs' = shownQrs /\ qrOpen' = FALSE
      BY <2>4 DEF WriteArrives
    <3> QED BY <2>1, <2>2, <3>1 DEF QrPageInv
  <2> QED BY <2>1, <2>3, <2>4 DEF WriteArrives, QrCall
<1>7. CASE \E c \in qrCalls : QrCallFails(c)
  <2> PICK c \in qrCalls : QrCallFails(c)
    BY <1>7
  <2>1. Clash(qrCalls)' => Clash(qrCalls)
    BY DEF QrCallFails, Clash
  <2> QED BY <2>1 DEF QrCallFails, QrPageInv
<1>8. CASE UNCHANGED qrPageVars
  BY <1>8 DEF qrPageVars, QrPageInv, Clash, LoadOut, RightSlot
<1> QED
  BY <1>1, <1>2, <1>3, <1>4, <1>5, <1>6, <1>7, <1>8 DEF QrPageNext

(* Uploads and removals of different slots overlap, and still an open page at rest
   without an error shows the images the server keeps, unless calls about one slot
   crossed or the answer to a write was lost and the list was not loaded by itself since. *)
THEOREM AlbumIsTrue == QrPageSpec => []QrPageAtRest
<1>1. QrPageInv => QrPageAtRest
  <2> SUFFICES ASSUME QrPageInv, qrCalls = {}, qrOpen, ~qrError, ~qrMixedUp PROVE shownQrs = kept
    BY DEF QrPageAtRest
  <2>1. \A k \in QrSlots : shownQrs[k] = kept[k]
    BY DEF QrPageInv, LoadOut, RightSlot
  <2> QED BY <2>1 DEF QrPageInv, Album
<1> QED BY <1>1, QrPageInvInit, QrPageInvStep, PTL DEF QrPageSpec

-----------------------------------------------------------------------------
(* Checkout.  The property is not inductive: that the next tap comes a full hold after
   the last sale follows from the lock, which is free only when no sale is being written
   and its timer, started by the write and never by the tap, has run out. *)

(* The lock: free only once the hold is over, held while a sale is written, and released
   by a timer that cannot be ahead of the time since the tap. *)
LockFits ==
  /\ ~ lock.busy => lock.hold = 0 /\ sinceTap = Hold /\ writing = NoSale
  /\ writing # NoSale => lock.hold = 0
  /\ lock.busy /\ writing = NoSale => lock.hold >= 1 /\ sinceTap + lock.hold >= Hold

(* The sale being written came from a tap that found the lock free, and its discount from
   a switch turned on for it. *)
WritingFits ==
  /\ form.loyalty => switchedOn
  /\ writing # NoSale /\ writing.method # "QRPH" =>
       writing.gap = Hold /\ (writing.loyalty => switchedOn)

CheckoutInv == CheckoutTypeOK /\ LockFits /\ WritingFits /\ OneSalePerGesture

-----------------------------------------------------------------------------
(* The invariant holds in the beginning. *)
LEMMA CheckoutInvInit == CheckoutInit => CheckoutInv
<1> SUFFICES ASSUME CheckoutInit PROVE CheckoutInv
  OBVIOUS
<1>1. Hold \in 0 .. Hold /\ 0 \in 0 .. Hold
  BY CheckoutAssumption
<1>2. form \in Form /\ step \in Steps
  BY DEF CheckoutInit, Form, Services, Entries, Steps
<1>3. lock \in [busy : BOOLEAN, hold : 0 .. Hold]
  BY <1>1 DEF CheckoutInit
<1>4. CheckoutTypeOK
  BY <1>1, <1>2, <1>3 DEF CheckoutInit, CheckoutTypeOK
<1> QED BY <1>4 DEF CheckoutInit, CheckoutInv, LockFits, WritingFits, OneSalePerGesture

(* What a step leaves alone keeps its part of the invariant. *)
LEMMA CheckoutFrame ==
  /\ LockFits /\ UNCHANGED <<lock, writing, sinceTap>> => LockFits'
  /\ WritingFits /\ UNCHANGED <<form, writing, switchedOn>> => WritingFits'
  /\ OneSalePerGesture /\ UNCHANGED rung => OneSalePerGesture'
BY DEF LockFits, WritingFits, OneSalePerGesture

(* The form's own steps: turning the card on is what the discount rests on. *)
LEMMA FormSteps ==
  ASSUME CheckoutInv,
         \/ \E s \in Services : SelectService(s)
         \/ \E amount \in Entries : EnterAmount(amount)
         \/ SwitchLoyalty
  PROVE  CheckoutInv'
<1>1. \/ UNCHANGED switchedOn /\ form' \in Form /\ (form'.loyalty => form.loyalty)
      \/ form' \in Form /\ switchedOn' = (switchedOn \/ ~form.loyalty)
           /\ form'.loyalty = ~form.loyalty /\ switchedOn' \in BOOLEAN
  BY DEF SelectService, EnterAmount, SwitchLoyalty, EditForm, CheckoutInv, CheckoutTypeOK, Form
<1>2. UNCHANGED <<step, askBefore, gatewayEnabled, lock, shownBusy, asking, writing, rung, sinceTap>>
  BY DEF SelectService, EnterAmount, SwitchLoyalty, EditForm
<1>3. CheckoutTypeOK'
  BY <1>1, <1>2 DEF CheckoutInv, CheckoutTypeOK
<1>4. WritingFits'
  BY <1>1, <1>2 DEF CheckoutInv, WritingFits
<1> QED BY <1>2, <1>3, <1>4, CheckoutFrame DEF CheckoutInv

(* A tap goes through the lock. *)
LEMMA RunStep ==
  ASSUME CheckoutInv, NEW method \in Buttons, NEW loyalty \in BOOLEAN, Run(method, loyalty),
         method # "QRPH" => loyalty = IsLoyalty,
         UNCHANGED <<form, rung, switchedOn>>
  PROVE  /\ LockFits' /\ WritingFits' /\ OneSalePerGesture'
         /\ lock' \in [busy : BOOLEAN, hold : 0 .. Hold]
         /\ writing' \in Writing \cup {NoSale}
         /\ sinceTap' \in 0 .. Hold
<1>1. CASE UNCHANGED <<lock, writing, sinceTap>>
  BY <1>1, CheckoutFrame DEF CheckoutInv, CheckoutTypeOK
<1>2. CASE /\ ~ lock.busy
           /\ lock' = [busy |-> TRUE, hold |-> 0]
           /\ writing' = [method |-> method, loyalty |-> loyalty, gap |-> sinceTap]
           /\ sinceTap' = IF method = "QRPH" THEN Hold ELSE 0
  <2>1. writing' \in Writing /\ sinceTap' \in 0 .. Hold /\ writing' # NoSale
    BY <1>2, CheckoutAssumption DEF CheckoutInv, CheckoutTypeOK, Writing
  <2>2. LockFits'
    BY <1>2, <2>1 DEF LockFits
  <2>3. WritingFits'
    BY <1>2, <2>1 DEF CheckoutInv, LockFits, WritingFits, IsLoyalty
  <2> QED BY <1>2, <2>1, <2>2, <2>3, CheckoutFrame, CheckoutAssumption DEF CheckoutInv
<1> QED BY <1>1, <1>2 DEF Run, Locked

(* The taps. *)
LEMMA TapSteps ==
  ASSUME CheckoutInv, TapCash \/ TapDigital \/ Confirm \/ CancelStep
  PROVE  CheckoutInv'
<1>1. IsLoyalty \in BOOLEAN
  BY DEF CheckoutInv, CheckoutTypeOK, Form, IsLoyalty
<1>2. UNCHANGED <<form, rung, switchedOn, askBefore, gatewayEnabled, shownBusy, asking>>
      /\ step' \in Steps
  BY DEF TapCash, TapDigital, Confirm, CancelStep, CheckoutInv, CheckoutTypeOK, Steps
<1>3. \/ UNCHANGED <<lock, writing, sinceTap>>
      \/ \E method \in Buttons : method # "QRPH" /\ Run(method, IsLoyalty)
  BY DEF TapCash, TapDigital, Confirm, CancelStep, Buttons
<1>4. /\ LockFits' /\ WritingFits' /\ OneSalePerGesture'
      /\ lock' \in [busy : BOOLEAN, hold : 0 .. Hold]
      /\ writing' \in Writing \cup {NoSale}
      /\ sinceTap' \in 0 .. Hold
  <2>1. CASE UNCHANGED <<lock, writing, sinceTap>>
    BY <2>1, <1>2, CheckoutFrame DEF CheckoutInv, CheckoutTypeOK
  <2>2. CASE \E method \in Buttons : method # "QRPH" /\ Run(method, IsLoyalty)
    BY <2>2, <1>1, <1>2, RunStep
  <2> QED BY <1>3, <2>1, <2>2
<1> QED BY <1>2, <1>4 DEF CheckoutInv, CheckoutTypeOK

(* A QR Ph tap asks the server first, and takes the lock when it answers. *)
LEMMA QrphSteps ==
  ASSUME CheckoutInv, NEW a \in Asks, TapQrph(a) \/ QrphAvailable(a) \/ QrphUnavailable(a)
  PROVE  CheckoutInv'
<1>1. CASE TapQrph(a)
  <2>1. IsLoyalty \in BOOLEAN
    BY DEF CheckoutInv, CheckoutTypeOK, Form, IsLoyalty
  <2>2. CheckoutTypeOK'
    BY <1>1, <2>1 DEF TapQrph, CheckoutInv, CheckoutTypeOK
  <2> QED BY <1>1, <2>2, CheckoutFrame DEF TapQrph, CheckoutInv
<1>2. CASE QrphAvailable(a)
  <2>1. asking[a] \in BOOLEAN
    BY <1>2 DEF QrphAvailable, CheckoutInv, CheckoutTypeOK
  <2>2. /\ LockFits' /\ WritingFits' /\ OneSalePerGesture'
        /\ lock' \in [busy : BOOLEAN, hold : 0 .. Hold]
        /\ writing' \in Writing \cup {NoSale}
        /\ sinceTap' \in 0 .. Hold
    BY <1>2, <2>1, RunStep DEF QrphAvailable, Buttons
  <2>3. CheckoutTypeOK'
    BY <1>2, <2>2 DEF QrphAvailable, CheckoutInv, CheckoutTypeOK
  <2> QED BY <2>2, <2>3 DEF CheckoutInv
<1>3. CASE QrphUnavailable(a)
  <2>1. CheckoutTypeOK'
    BY <1>3 DEF QrphUnavailable, CheckoutInv, CheckoutTypeOK
  <2> QED BY <1>3, <2>1, CheckoutFrame DEF QrphUnavailable, CheckoutInv
<1> QED BY <1>1, <1>2, <1>3

(* The write is done: the card goes off with the sale it was for. *)
LEMMA SavedStep == CheckoutInv /\ Saved => CheckoutInv'
<1> SUFFICES ASSUME CheckoutInv, Saved PROVE CheckoutInv'
  OBVIOUS
<1>1. writing \in Writing
  BY DEF Saved, CheckoutInv, CheckoutTypeOK
<1>2. rung' \in Rung /\ switchedOn' \in BOOLEAN
  BY <1>1 DEF Saved, CheckoutInv, CheckoutTypeOK, Writing, Rung
<1>3. form' \in Form /\ (form'.loyalty => form.loyalty /\ ~writing.loyalty)
  BY <1>1 DEF Saved, NextCustomer, CheckoutInv, CheckoutTypeOK, Writing, Form
<1>4. lock' \in [busy : BOOLEAN, hold : 0 .. Hold] /\ lock'.hold = Hold /\ lock'.busy
  BY CheckoutAssumption DEF Saved
<1>5. CheckoutTypeOK'
  BY <1>2, <1>3, <1>4 DEF Saved, CheckoutInv, CheckoutTypeOK, Steps
<1>6. LockFits'
  BY <1>4, CheckoutAssumption DEF Saved, LockFits, CheckoutInv, CheckoutTypeOK
<1>7. WritingFits'
  BY <1>3 DEF Saved, WritingFits, CheckoutInv
<1>8. OneSalePerGesture'
  BY <1>1 DEF Saved, OneSalePerGesture, WritingFits, CheckoutInv
<1> QED BY <1>5, <1>6, <1>7, <1>8 DEF CheckoutInv

(* Dexie refused the write. *)
LEMMA SaveFailsStep == CheckoutInv /\ SaveFails => CheckoutInv'
<1> SUFFICES ASSUME CheckoutInv, SaveFails PROVE CheckoutInv'
  OBVIOUS
<1>1. CheckoutTypeOK'
  BY CheckoutAssumption DEF SaveFails, AfterFailure, CheckoutInv, CheckoutTypeOK
<1>2. LockFits' /\ WritingFits'
  BY DEF SaveFails, AfterFailure, LockFits, WritingFits, CheckoutInv
<1> QED BY <1>1, <1>2, CheckoutFrame DEF CheckoutInv, SaveFails

(* Time passes: lock and tap age together. *)
LEMMA PassStep == CheckoutInv /\ Pass => CheckoutInv'
<1> SUFFICES ASSUME CheckoutInv, Pass PROVE CheckoutInv'
  OBVIOUS
<1>1. lock.hold \in 0 .. Hold /\ sinceTap \in 0 .. Hold /\ Hold \in Nat
  BY CheckoutAssumption DEF CheckoutInv, CheckoutTypeOK
<1>2. sinceTap' \in 0 .. Hold /\ sinceTap' >= sinceTap /\ (sinceTap' = Hold \/ sinceTap' = sinceTap + 1)
  BY <1>1 DEF Pass
<1>3. \/ lock.hold > 1 /\ lock' = [lock EXCEPT !.hold = @ - 1]
      \/ lock.hold = 1 /\ lock' = [busy |-> FALSE, hold |-> 0]
      \/ lock.hold = 0 /\ lock' = lock
  BY <1>1 DEF Pass
<1>4. lock' \in [busy : BOOLEAN, hold : 0 .. Hold]
  <2>1. lock \in [busy : BOOLEAN, hold : 0 .. Hold]
    BY DEF CheckoutInv, CheckoutTypeOK
  <2>2. CASE lock.hold > 1 /\ lock' = [lock EXCEPT !.hold = @ - 1]
    <3>1. lock.hold - 1 \in 0 .. Hold
      BY <2>2, <1>1
    <3> QED BY <2>1, <2>2, <3>1
  <2>3. CASE lock.hold = 1 /\ lock' = [busy |-> FALSE, hold |-> 0]
    BY <2>3, <1>1
  <2> QED BY <1>3, <2>1, <2>2, <2>3
<1>5. CheckoutTypeOK'
  BY <1>2, <1>4 DEF Pass, CheckoutInv, CheckoutTypeOK
<1>6. LockFits'
  BY <1>1, <1>2, <1>3 DEF Pass, CheckoutInv, CheckoutTypeOK, LockFits
<1> QED BY <1>5, <1>6, CheckoutFrame DEF Pass, CheckoutInv

(* Every step keeps the invariant. *)
LEMMA CheckoutInvStep == CheckoutInv /\ [CheckoutNext]_checkoutVars => CheckoutInv'
<1> SUFFICES ASSUME CheckoutInv, [CheckoutNext]_checkoutVars PROVE CheckoutInv'
  OBVIOUS
<1>1. CASE RenderCheckout \/ SwitchSetting \/ RecheckGateway \/ UNCHANGED checkoutVars
  <2>1. CheckoutTypeOK'
    BY <1>1 DEF RenderCheckout, SwitchSetting, RecheckGateway, checkoutVars, CheckoutInv, CheckoutTypeOK
  <2> QED BY <1>1, <2>1, CheckoutFrame
          DEF RenderCheckout, SwitchSetting, RecheckGateway, checkoutVars, CheckoutInv
<1> QED BY <1>1, FormSteps, TapSteps, QrphSteps, SavedStep, SaveFailsStep, PassStep DEF CheckoutNext

-----------------------------------------------------------------------------
(* The lock and the sale being written fit each other for good. *)
THEOREM CheckoutInvariant == CheckoutSpec => []CheckoutInv
BY CheckoutInvInit, CheckoutInvStep, PTL DEF CheckoutSpec

(* However fast the buttons are tapped and however late they are rendered disabled, two
   cash, GCash or Maya sales come from taps at least the hold apart, and a loyalty card
   discounts one sale. *)
THEOREM OneGestureOneSale == CheckoutSpec => []OneSalePerGesture
<1>1. CheckoutInv => OneSalePerGesture
  BY DEF CheckoutInv
<1> QED BY <1>1, CheckoutInvariant, PTL

-----------------------------------------------------------------------------
(* QrDialog.  The strengthening says what an answer under way is worth: it was read for
   the sale still shown, and PAID, once read, stays true. *)

(* A request r to the server, given the charges, the sale shown and whether one sale has
   replaced another. *)
RequestFits(r, charges, shown, mixed) ==
  /\ r.of = NoQrSale => r = NoPoll
  /\ r.read = "PAID" => charges[r.of] = "PAID"
  /\ ~ mixed /\ r.of # NoQrSale => r.of = shown
  /\ shown = NoQrSale => r = NoPoll

RequestsFit ==
  /\ \A p \in Polls : RequestFits(poll[p], charge, shownSale, swapped)
  /\ RequestFits(check, charge, shownSale, swapped)

(* The charge is asked for only while the dialog is open. *)
CreatingFits == creating # "no" => shownSale \in QrSales

DialogInv == DialogTypeOK /\ RequestsFit /\ CreatingFits /\ PaidShownIsPaid

-----------------------------------------------------------------------------
(* No request: of no sale, and nothing read. *)
LEMMA NoPollFits ==
  /\ NoPoll \in StatusRequest /\ NoPoll.of = NoQrSale /\ NoPoll.read = "none"
  /\ \A charges, shown, mixed : RequestFits(NoPoll, charges, shown, mixed)
BY DEF NoPoll, StatusRequest, RequestFits

(* The invariant holds in the beginning. *)
LEMMA DialogInvInit == DialogInit => DialogInv
<1> SUFFICES ASSUME DialogInit PROVE DialogInv
  OBVIOUS
<1>1. DialogTypeOK
  <2>1. 0 \in 0 .. MaxDialogFaults
    BY DialogAssumption
  <2>2. poll \in [Polls -> StatusRequest] /\ check \in StatusRequest
    BY NoPollFits DEF DialogInit
  <2> QED BY <2>1, <2>2 DEF DialogInit, DialogTypeOK
<1>2. RequestsFit
  BY NoPollFits DEF DialogInit, RequestsFit
<1> QED BY <1>1, <1>2 DEF DialogInit, DialogInv, CreatingFits, PaidShownIsPaid

(* A fault is counted. *)
LEMMA FaultCounted ==
  ASSUME DialogInv, Fault \/ UNCHANGED dialogFaults
  PROVE  dialogFaults' \in 0 .. MaxDialogFaults
BY DialogAssumption DEF Fault, DialogInv, DialogTypeOK

(* The server settles a charge: PAID is final. *)
LEMMA SettlesStep ==
  ASSUME DialogInv, NEW s \in QrSales, NEW to \in {"EXPIRED", "FAILED", "PAID"}, Settles(s, to)
  PROVE  DialogInv'
<1> USE DEF Settles
<1>1. \A x \in QrSales : charge[x] = "PAID" => charge'[x] = "PAID"
  BY DEF DialogInv, DialogTypeOK
<1>2. DialogTypeOK'
  BY DEF DialogInv, DialogTypeOK, ChargeStatuses
<1>3. \A r \in StatusRequest : RequestFits(r, charge, shownSale, swapped)
                                 => RequestFits(r, charge', shownSale, swapped)
  BY <1>1, NoPollFits DEF RequestFits, StatusRequest
<1>4. RequestsFit'
  BY <1>3 DEF DialogInv, DialogTypeOK, RequestsFit
<1>5. PaidShownIsPaid'
  BY <1>1 DEF DialogInv, DialogTypeOK, PaidShownIsPaid
<1> QED BY <1>2, <1>4, <1>5 DEF DialogInv, CreatingFits

(* A sale is shown, or put under an open dialog. *)
LEMMA ShowSaleStep == ASSUME DialogInv, NEW s \in QrSales, ShowSale(s) PROVE DialogInv'
<1> USE DEF ShowSale, IsOpen
<1>1. DialogTypeOK'
  BY NoPollFits DEF DialogInv, DialogTypeOK
<1>2. CASE shownSale # NoQrSale
  BY <1>1, <1>2, DialogAssumption
     DEF DialogInv, RequestsFit, RequestFits, CreatingFits, PaidShownIsPaid
<1>3. CASE shownSale = NoQrSale
  <2>1. \A p \in Polls : poll[p] = NoPoll
    BY <1>3 DEF DialogInv, RequestsFit, RequestFits
  <2> QED BY <1>1, <1>3, <2>1, NoPollFits DEF DialogInv, RequestsFit, CreatingFits, PaidShownIsPaid
<1> QED BY <1>2, <1>3

(* Closing lets go of every request. *)
LEMMA CloseStep == DialogInv /\ CloseDialog => DialogInv'
BY NoPollFits
   DEF CloseDialog, DialogInv, DialogTypeOK, RequestsFit, CreatingFits, PaidShownIsPaid

(* The charge: asked for, answered or not. *)
LEMMA ChargeSteps ==
  ASSUME DialogInv, SaleSynced \/ CreateFails \/ ChargeAnswered \/ TryAgain
  PROVE  DialogInv'
<1>1. CASE SaleSynced
  BY <1>1 DEF SaleSynced, Shows, DialogInv, DialogTypeOK, RequestsFit, CreatingFits, PaidShownIsPaid
<1>2. CASE TryAgain
  BY <1>2 DEF TryAgain, Shows, IsOpen, DialogInv, DialogTypeOK, RequestsFit, CreatingFits, PaidShownIsPaid
<1>3. CASE CreateFails \/ ChargeAnswered
  <2>1. shownSale \in QrSales
    BY <1>3 DEF CreateFails, ChargeAnswered, DialogInv, CreatingFits
  <2>2. /\ charge' \in [QrSales -> ChargeStatuses \cup {"none"}]
        /\ \A x \in QrSales : charge[x] = "PAID" => charge'[x] = "PAID"
    BY <1>3, <2>1 DEF CreateFails, ChargeAnswered, DialogInv, DialogTypeOK, ChargeStatuses
  <2>3. status' \in ChargeStatuses \cup {"none"} /\ (status' = "PAID" => charge'[shownSale] = "PAID")
    BY <1>3, <2>1, <2>2 DEF CreateFails, ChargeAnswered, Shows, DialogInv, DialogTypeOK, ChargeStatuses
  <2>4. DialogTypeOK'
    <3>1. dialogFaults' \in 0 .. MaxDialogFaults
      BY <1>3, FaultCounted DEF CreateFails, ChargeAnswered
    <3> QED BY <1>3, <2>2, <2>3, <3>1 DEF CreateFails, ChargeAnswered, Shows, DialogInv, DialogTypeOK
  <2>5. \A r \in StatusRequest : RequestFits(r, charge, shownSale, swapped)
                                   => RequestFits(r, charge', shownSale, swapped)
    BY <2>2, NoPollFits DEF RequestFits, StatusRequest
  <2>6. RequestsFit'
    BY <1>3, <2>5 DEF CreateFails, ChargeAnswered, DialogInv, DialogTypeOK, RequestsFit
  <2>7. CreatingFits' /\ PaidShownIsPaid'
    BY <1>3, <2>3 DEF CreateFails, ChargeAnswered, CreatingFits, PaidShownIsPaid
  <2> QED BY <2>4, <2>6, <2>7 DEF DialogInv
<1> QED BY <1>1, <1>2, <1>3

(* What a request may become: asked for the sale shown, or read now. *)
LEMMA RequestSteps ==
  ASSUME DialogInv
  PROVE  /\ IsOpen => LET r == [of |-> shownSale, read |-> "none"] IN
                        r \in StatusRequest /\ RequestFits(r, charge, shownSale, swapped)
         /\ \A r \in StatusRequest :
              Unread(r) /\ RequestFits(r, charge, shownSale, swapped) =>
                Reads(r) \in StatusRequest /\ RequestFits(Reads(r), charge, shownSale, swapped)
<1>1. IsOpen => LET r == [of |-> shownSale, read |-> "none"] IN
                  r \in StatusRequest /\ RequestFits(r, charge, shownSale, swapped)
  BY DEF IsOpen, DialogInv, DialogTypeOK, StatusRequest, RequestFits
<1>2. ASSUME NEW r \in StatusRequest, Unread(r), RequestFits(r, charge, shownSale, swapped)
      PROVE  Reads(r) \in StatusRequest /\ RequestFits(Reads(r), charge, shownSale, swapped)
  <2>1. r.of \in QrSales /\ charge[r.of] \in ChargeStatuses \cup {"none"}
    BY <1>2 DEF Unread, DialogInv, DialogTypeOK, StatusRequest
  <2>2. /\ Reads(r) \in StatusRequest /\ Reads(r).of = r.of
        /\ Reads(r).read = "PAID" => charge[r.of] = "PAID"
    BY <1>2, <2>1 DEF Reads, StatusRequest, ChargeStatuses
  <2>3. shownSale # NoQrSale
    BY <1>2, NoPollFits DEF RequestFits, Unread
  <2> QED BY <1>2, <2>1, <2>2, <2>3, DialogAssumption DEF RequestFits, Unread
<1> QED BY <1>1, <1>2

(* The polls. *)
LEMMA PollSteps ==
  ASSUME DialogInv, NEW p \in Polls, PollTick(p) \/ PollRead(p) \/ PollAnswered(p) \/ PollLost(p)
  PROVE  DialogInv'
<1>1. UNCHANGED <<charge, shownSale, phase, creating, check, swapped>>
      /\ dialogFaults' \in 0 .. MaxDialogFaults
  BY FaultCounted DEF PollTick, PollRead, PollAnswered, PollLost
<1>2. PICK r \in StatusRequest :
        /\ poll' = [poll EXCEPT ![p] = r]
        /\ RequestFits(r, charge, shownSale, swapped)
  BY NoPollFits, RequestSteps
     DEF PollTick, PollRead, PollAnswered, PollLost, DialogInv, DialogTypeOK, RequestsFit
<1>3. RequestsFit'
  BY <1>1, <1>2 DEF DialogInv, DialogTypeOK, RequestsFit
<1>4. /\ status' \in ChargeStatuses \cup {"none"}
      /\ UNCHANGED status \/ (status' = poll[p].read /\ poll[p].read \in ChargeStatuses)
  BY DEF PollTick, PollRead, PollAnswered, PollLost, DialogInv, DialogTypeOK
<1>5. PaidShownIsPaid'
  BY <1>1, <1>4, NoPollFits, DialogAssumption
     DEF DialogInv, PaidShownIsPaid, RequestsFit, RequestFits, ChargeStatuses
<1> QED BY <1>1, <1>2, <1>3, <1>4, <1>5 DEF DialogInv, DialogTypeOK, CreatingFits

(* Check status: like a poll, but any status it reads is shown. *)
LEMMA CheckSteps ==
  ASSUME DialogInv, CheckStatus \/ CheckRead \/ CheckAnswered \/ CheckLost
  PROVE  DialogInv'
<1>1. UNCHANGED <<charge, shownSale, phase, creating, poll, swapped>>
      /\ dialogFaults' \in 0 .. MaxDialogFaults
  BY FaultCounted DEF CheckStatus, CheckRead, CheckAnswered, CheckLost
<1>2. check' \in StatusRequest /\ RequestFits(check', charge, shownSale, swapped)
  BY NoPollFits, RequestSteps
     DEF CheckStatus, CheckRead, CheckAnswered, CheckLost, DialogInv, DialogTypeOK, RequestsFit
<1>3. RequestsFit'
  BY <1>1, <1>2 DEF DialogInv, RequestsFit
<1>4. /\ status' \in ChargeStatuses \cup {"none"}
      /\ UNCHANGED status \/ (status' = check.read /\ check.read \in ChargeStatuses)
  BY DEF CheckStatus, CheckRead, CheckAnswered, CheckLost, DialogInv, DialogTypeOK
<1>5. PaidShownIsPaid'
  BY <1>1, <1>4, NoPollFits, DialogAssumption
     DEF DialogInv, PaidShownIsPaid, RequestsFit, RequestFits, ChargeStatuses
<1> QED BY <1>1, <1>2, <1>3, <1>4, <1>5 DEF DialogInv, DialogTypeOK, CreatingFits

(* Every step keeps the invariant. *)
LEMMA DialogInvStep == DialogInv /\ [DialogNext]_dialogVars => DialogInv'
<1> SUFFICES ASSUME DialogInv, [DialogNext]_dialogVars PROVE DialogInv'
  OBVIOUS
<1>1. CASE UNCHANGED dialogVars
  BY <1>1 DEF dialogVars, DialogInv, DialogTypeOK, RequestsFit, CreatingFits, PaidShownIsPaid
<1> QED BY <1>1, SettlesStep, ShowSaleStep, CloseStep, ChargeSteps, PollSteps, CheckSteps DEF DialogNext

-----------------------------------------------------------------------------
(* Requests under way are of the sale shown, and what they read as PAID is. *)
THEOREM DialogInvariant == DialogSpec => []DialogInv
BY DialogInvInit, DialogInvStep, PTL DEF DialogSpec

(* "The client never decides payment status": Paid is shown only for a charge the server
   has as PAID, whatever is lost, late or out of order. *)
THEOREM PaidIsTheServers == DialogSpec => []PaidShownIsPaid
<1>1. DialogInv => PaidShownIsPaid
  BY DEF DialogInv
<1> QED BY <1>1, DialogInvariant, PTL

-----------------------------------------------------------------------------
(* The types of the parts, those that no invariant above has already. *)

(* One element more, one more to count at the most; one replaced or less, none. *)
LEMMA FewMore ==
  ASSUME NEW S, IsFiniteSet(S), NEW x
  PROVE  /\ IsFiniteSet(S \cup {x}) /\ Cardinality(S \cup {x}) <= Cardinality(S) + 1
         /\ IsFiniteSet(S \ {x}) /\ Cardinality(S \ {x}) <= Cardinality(S)
         /\ Cardinality(S) \in Nat
         /\ x \in S => Cardinality(S \ {x}) + 1 = Cardinality(S)
<1>1. CASE x \in S
  <2>1. S \cup {x} = S
    BY <1>1
  <2>2. IsFiniteSet(S \ {x}) /\ Cardinality(S \ {x}) = Cardinality(S) - 1 /\ Cardinality(S) \in Nat
    BY <1>1, FS_RemoveElement, FS_CardinalityType
  <2>3. IsFiniteSet(S \cup {x}) /\ Cardinality(S \cup {x}) = Cardinality(S)
    BY <2>1
  <2> QED BY <2>2, <2>3
<1>2. CASE x \notin S
  <2>1. S \ {x} = S
    BY <1>2
  <2>2. IsFiniteSet(S \cup {x}) /\ Cardinality(S \cup {x}) = Cardinality(S) + 1 /\ Cardinality(S) \in Nat
    BY <1>2, FS_AddElement, FS_CardinalityType
  <2> QED BY <1>2, <2>1, <2>2
<1> QED BY <1>1, <1>2

(* ShopPc: every step keeps the type. *)
LEMMA PcTypes == PcSpec => []PcTypeOK
<1>1. PcInit => PcTypeOK
  BY DEF PcInit, PcTypeOK
<1>2. PcTypeOK /\ [PcNext]_pcVars => PcTypeOK'
  BY DEF PcTypeOK, PcNext, pcVars, AnswerComes, Answered, Answer, TimerFires, NetworkChanges, ComesToFront,
         OnVisibility, Check, Hides, PcChanges, Pcs, Answers, Down
<1> QED BY <1>1, <1>2, PTL DEF PcSpec

(* Deck: a move stays within the slides, and leaves a slide behind only if it gets to
   another. *)
LEMMA MoveFits ==
  ASSUME DeckTypeOK, NEW pick \in Int, MoveTo(pick)
  PROVE  /\ index' \in 0 .. MostSlides - 1
         /\ from' \in (0 .. MostSlides - 1) \cup {NoSlide} /\ from' # index'
<1>1. count \in Nat \ {0} /\ count <= MostSlides /\ MostSlides \in Nat /\ index \in 0 .. MostSlides - 1
  BY DeckAssumption DEF DeckTypeOK, Counts
<1> DEFINE target == Least(count - 1, Most(0, pick))
<1>2. target \in 0 .. MostSlides - 1
  BY <1>1 DEF Least, Most
<1>3. index' = target /\ from' = IF target = index THEN from ELSE index
  BY DEF MoveTo
<1> HIDE DEF target
<1> QED BY <1>1, <1>2, <1>3 DEF DeckTypeOK

(* Deck: the slide shown and the one that leaves are slides, and never the same. *)
LEMMA DeckTypes == DeckSpec => []DeckTypeOK
<1>1. DeckInit => DeckTypeOK
  <2>1. 0 \in 0 .. MostSlides - 1 /\ NoSlide # 0
    BY DeckAssumption
  <2> QED BY <2>1 DEF DeckInit, DeckTypeOK
<1>2. DeckTypeOK /\ [DeckNext]_deckVars => DeckTypeOK'
  <2> SUFFICES ASSUME DeckTypeOK, [DeckNext]_deckVars PROVE DeckTypeOK'
    OBVIOUS
  <2>0. /\ index \in Int /\ count \in Int /\ MostSlides \in Nat \ {0} /\ 0 \in 0 .. MostSlides - 1
        /\ NoSlide # 0 /\ \A i \in 0 .. MostSlides - 1 : i \in Int
    BY DeckAssumption DEF DeckTypeOK, Counts
  <2>1. CASE UNCHANGED deckVars
    BY <2>1 DEF DeckTypeOK, deckVars
  <2>2. CASE OpenDeck
    BY <2>0, <2>2 DEF DeckTypeOK, OpenDeck, PlaysIntro, MarkIntroPlayed
  <2>3. ASSUME CloseDeck PROVE DeckTypeOK'
    BY <2>0, <2>3 DEF DeckTypeOK, CloseDeck
  <2>4. CASE IntroGoes \/ DropLeaving
    <3>1. NoSlide # index
      BY DeckAssumption DEF DeckTypeOK
    <3>2. CASE IntroGoes
      BY <3>2 DEF DeckTypeOK, IntroGoes
    <3>3. CASE DropLeaving
      BY <3>1, <3>3 DEF DeckTypeOK, DropLeaving
    <3> QED BY <2>4, <3>2, <3>3
  <2>5. ASSUME NEW pick \in Int, Move(pick) PROVE DeckTypeOK'
    <3>1. MoveTo(pick) /\ Shown /\ UNCHANGED <<count, deck, introPlayed, playing, full>>
      BY <2>5 DEF Move
    <3> QED BY <3>1, MoveFits DEF DeckTypeOK
  <2>6. CASE KeyDown \/ (\E i \in 0 .. MostSlides - 1 : Dot(i)) \/ BackButton
    <3>1. \E pick \in Int : Move(pick)
      BY <2>0, <2>6 DEF KeyDown, Dot, BackButton
    <3> QED BY <2>5, <3>1
  <2>7. CASE NextButton
    BY <2>0, <2>3, <2>5, <2>7 DEF NextButton
  <2>8. CASE TogglePlay
    <3>1. CASE ~playing /\ OnLast
      <4>1. MoveTo(0) /\ 0 \in Int
        BY <2>8, <3>1 DEF TogglePlay
      <4> QED BY <2>8, <4>1, MoveFits DEF DeckTypeOK, TogglePlay, Shown
    <3>2. CASE ~(~playing /\ OnLast)
      BY <2>8, <3>2 DEF DeckTypeOK, TogglePlay, StaysPut, Shown
    <3> QED BY <3>1, <3>2
  <2>9. CASE TimerEnds
    <3>1. CASE ~OnLast
      <4>1. MoveTo(index + 1) /\ index + 1 \in Int /\ UNCHANGED playing
        BY <2>0, <2>9, <3>1 DEF TimerEnds
      <4> QED BY <2>9, <4>1, MoveFits DEF DeckTypeOK, TimerEnds
    <3>2. CASE OnLast
      BY <2>9, <3>2 DEF DeckTypeOK, TimerEnds, StaysPut
    <3> QED BY <3>1, <3>2
  <2>10. CASE PageHidden \/ \E n \in Counts : NewStory(n)
    <3>1. CASE PageHidden
      BY <3>1 DEF DeckTypeOK, PageHidden
    <3>2. ASSUME NEW n \in Counts, NewStory(n) PROVE DeckTypeOK'
      BY <3>2 DEF DeckTypeOK, NewStory
    <3> QED BY <2>10, <3>1, <3>2
  <2>11. CASE ToggleFullscreen
    <3>1. full' \in BOOLEAN /\ deck' # "shut"
      BY <2>11 DEF DeckTypeOK, ToggleFullscreen, Shown
    <3>2. UNCHANGED <<count, deck, introPlayed, index, from, playing>>
      BY <2>11 DEF ToggleFullscreen
    <3> QED BY <3>1, <3>2 DEF DeckTypeOK
  <2> QED BY <2>1, <2>2, <2>3, <2>4, <2>6, <2>7, <2>8, <2>9, <2>10, <2>11 DEF DeckNext
<1> QED BY <1>1, <1>2, PTL DEF DeckSpec

(* PaymentQr: CopiesInv has all but the bounds and the slot tapped. *)
LEMMA QrTypes == QrSpec => []QrTypeOK
<1>1. QrInit => QrTypeOK
  <2> SUFFICES ASSUME QrInit PROVE QrTypeOK
    OBVIOUS
  <2>1. CopiesInv
    BY CopiesInvInit
  <2>2. changes = 0 /\ qrFaults = 0 /\ asked = NoPut
    BY DEF QrInit
  <2> QED BY <2>1, <2>2, QrAssumption DEF CopiesInv, QrTypeOK
<1>2. CopiesInv /\ QrTypeOK /\ [QrNext]_qrVars => QrTypeOK'
  <2> SUFFICES ASSUME CopiesInv, QrTypeOK, [QrNext]_qrVars PROVE QrTypeOK'
    OBVIOUS
  <2>1. CopiesInv'
    BY CopiesInvStep
  <2>2. asked' \in QrKeys \cup {NoPut} /\ changes' \in 0 .. MaxChanges /\ qrFaults' \in 0 .. MaxQrFaults
    <3> USE QrAssumption DEF QrTypeOK
    <3>1. ASSUME NEW k \in QrKeys, RemoveQr(k)
          PROVE  asked' \in {k, NoPut} /\ changes' \in {changes, changes + 1}
                 /\ (changes' # changes => changes < MaxChanges) /\ qrFaults' = qrFaults
      BY <3>1 DEF RemoveQr, OwnerActs
    <3>2. CASE \E k \in QrKeys : RemoveQr(k)
      BY <3>1, <3>2
    <3>3. CASE \E k \in QrKeys : SwitchBarber(k) \/ \E image \in Images : BeginPut(k, image)
      BY <3>3 DEF SwitchBarber, BeginPut, OwnerActs
    <3>4. CASE \E k \in QrKeys : GotImage(k) \/ NoAnswer(k)
      BY <3>4 DEF GotImage, NoAnswer
    <3>5. CASE FinishPut \/ PutRefused \/ StartRefresh \/ GotList \/ NoList \/ EndRefresh
      BY <3>5 DEF FinishPut, PutRefused, StartRefresh, GotList, NoList, EndRefresh
    <3>6. CASE UNCHANGED qrVars
      BY <3>6 DEF qrVars
    <3> QED BY <3>2, <3>3, <3>4, <3>5, <3>6 DEF QrNext
  <2> QED BY <2>1, <2>2 DEF CopiesInv, QrTypeOK
<1> QED BY <1>1, <1>2, CopiesInvInit, CopiesInvStep, PTL DEF QrSpec

(* OfflinePages: releases and copies, and the requests of pages that exist. *)
PageRequest ==
  [path : Paths, had : BOOLEAN, again : BOOLEAN, waiting : BOOLEAN, net : BOOLEAN,
   sent : Results \cup {"none"}]

(* A new request, waiting for the network or already answered, is one. *)
LEMMA NewIsRequest ==
  ASSUME NEW path \in Paths, NEW again \in BOOLEAN
  PROVE  New(path, again) \in PageRequest
<1> DEFINE had == IF path \in Cached THEN Stored(path) ELSE path = "/" /\ Stored("/pos")
           r == [path |-> path, had |-> had, again |-> again, waiting |-> TRUE, net |-> FALSE, sent |-> "none"]
<1>1. had \in BOOLEAN
  BY DEF Stored
<1> HIDE DEF had
<1>2. r \in PageRequest
  BY <1>1 DEF PageRequest
<1>3. [r EXCEPT !.waiting = FALSE, !.sent = Instead(r)] \in PageRequest
  BY <1>2, InsteadIsResult DEF PageRequest
<1> QED BY <1>2, <1>3 DEF New, had

(* OfflinePages: every step keeps the type. *)
LEMMA PagesTypes == PagesSpec => []PagesTypeOK
<1>1. PagesInit => PagesTypeOK
  BY PagesAssumption DEF PagesInit, PagesTypeOK
<1>2. PagesTypeOK /\ [PagesNext]_pageVars => PagesTypeOK'
  <2> SUFFICES ASSUME PagesTypeOK, [PagesNext]_pageVars PROVE PagesTypeOK'
    OBVIOUS
  <2>0. /\ opening \in [Openings -> PageRequest \cup {NoRequest}]
        /\ release \in 1 .. MaxRelease /\ MaxRelease \in Nat /\ copies \in [Cached -> 0 .. MaxRelease]
        /\ unreachable \in 0 .. Backoff /\ Backoff \in Nat /\ heard \in BOOLEAN
    BY PagesAssumption DEF PagesTypeOK, PageRequest
  <2> SUFFICES /\ opening' \in [Openings -> PageRequest \cup {NoRequest}]
               /\ release' \in 1 .. MaxRelease /\ copies' \in [Cached -> 0 .. MaxRelease]
               /\ unreachable' \in 0 .. Backoff /\ heard' \in BOOLEAN
    BY DEF PagesTypeOK, PageRequest
  <2>1. CASE UNCHANGED pageVars
    BY <2>0, <2>1 DEF pageVars
  <2>2. ASSUME NEW o \in Openings, NEW path \in Paths, Open(o, path)
        PROVE  /\ opening' \in [Openings -> PageRequest \cup {NoRequest}]
               /\ UNCHANGED <<release, copies, unreachable, heard>>
    BY <2>0, <2>2, NewIsRequest DEF Open
  <2>3. ASSUME NEW o \in Openings, NEW next \in Openings, Follow(o, next)
        PROVE  /\ opening' \in [Openings -> PageRequest \cup {NoRequest}]
               /\ UNCHANGED <<release, copies, unreachable, heard>>
    <3>1. opening[o] \in PageRequest
      <4>1. NoRequest.sent = "none" /\ opening[o].sent = "to /pos"
        BY <2>3 DEF Follow, NoRequest
      <4>2. opening[o] \in PageRequest \cup {NoRequest} /\ opening[o] # NoRequest
        BY <2>0, <4>1
      <4> QED BY <4>2
    <3>2. [opening[o] EXCEPT !.sent = "redirected"] \in PageRequest
      BY <3>1 DEF PageRequest, Results
    <3>3. "/pos" \in Paths
      BY PagesAssumption DEF Paths, Cached
    <3>4. New("/pos", ~heard) \in PageRequest
      BY <3>3, <2>0, NewIsRequest
    <3>5. opening' = [[opening EXCEPT ![o] = [opening[o] EXCEPT !.sent = "redirected"]]
                        EXCEPT ![next] = New("/pos", ~heard)]
      BY <2>0, <2>3 DEF Follow
    <3> QED BY <2>0, <2>3, <3>2, <3>4, <3>5 DEF Follow
  <2>4. ASSUME NEW o \in Openings, NEW answer \in Statuses, NetworkAnswers(o, answer)
        PROVE  /\ opening' \in [Openings -> PageRequest \cup {NoRequest}]
               /\ copies' \in [Cached -> 0 .. MaxRelease]
               /\ unreachable' \in 0 .. Backoff /\ heard' \in BOOLEAN /\ release' = release
    <3> DEFINE r == opening[o]
               answered == r.path # "file" /\ answer \in {"ok", "not ok"}
               useless == r.waiting /\ answer \in Unusable(r)
               sent == IF ~r.waiting THEN r.sent
                       ELSE IF useless THEN Instead(r)
                       ELSE IF answer \in {"ok", "not ok"} THEN "page" ELSE "error page"
    <3>1. r \in PageRequest
      BY <2>0, <2>4 DEF NetworkAnswers
    <3>2. sent \in Results \cup {"none"}
      <4>1. r.sent \in Results \cup {"none"}
        BY <3>1 DEF PageRequest
      <4> HIDE DEF r, useless
      <4> QED BY <4>1, InsteadIsResult DEF Results
    <3>3. opening' = [opening EXCEPT ![o] = [r EXCEPT !.net = TRUE, !.waiting = FALSE, !.sent = sent]]
      BY <2>0, <2>4 DEF NetworkAnswers
    <3>4. [r EXCEPT !.net = TRUE, !.waiting = FALSE, !.sent = sent] \in PageRequest
      <4> HIDE DEF r, sent
      <4> QED BY <3>1, <3>2 DEF PageRequest
    <3>5. copies' \in [Cached -> 0 .. MaxRelease]
      <4>1. copies' = Refreshed(r, answer)
        BY <2>4 DEF NetworkAnswers
      <4>2. release \in 0 .. MaxRelease
        BY <2>0
      <4> QED BY <2>0, <4>1, <4>2 DEF Refreshed
    <3>6. unreachable' \in {Backoff, 0, unreachable} /\ heard' = (heard \/ answered) /\ release' = release
      BY <2>4 DEF NetworkAnswers
    <3>7. opening' \in [Openings -> PageRequest \cup {NoRequest}]
      <4> HIDE DEF r, sent
      <4> QED BY <2>0, <3>3, <3>4
    <3>8. heard' \in BOOLEAN
      <4>1. heard' = (heard \/ answered)
        BY <3>6
      <4> QED BY ONLY <4>1, Zenon
    <3>9. unreachable' \in 0 .. Backoff
      <4>1. unreachable' \in {Backoff, 0, unreachable}
        BY <3>6
      <4>2. unreachable \in 0 .. Backoff /\ Backoff \in Nat
        BY <2>0
      <4> QED BY ONLY <4>1, <4>2
    <3> QED BY <3>5, <3>6, <3>7, <3>8, <3>9
  <2>5. ASSUME NEW o \in Openings, TimesOut(o)
        PROVE  /\ opening' \in [Openings -> PageRequest \cup {NoRequest}]
               /\ unreachable' \in {Backoff, unreachable} /\ heard' \in BOOLEAN
               /\ UNCHANGED <<release, copies>>
    <3> DEFINE r == opening[o]
    <3>1. r \in PageRequest
      <4>1. ~NoRequest.waiting /\ opening[o].waiting
        BY <2>5 DEF TimesOut, NoRequest
      <4>2. opening[o] \in PageRequest \cup {NoRequest} /\ opening[o] # NoRequest
        BY <2>0, <4>1
      <4> QED BY <4>2
    <3>2. [r EXCEPT !.sent = Instead(r), !.waiting = FALSE] \in PageRequest
      BY <3>1, InsteadIsResult DEF PageRequest
    <3>3. opening' = [opening EXCEPT ![o] = [r EXCEPT !.sent = Instead(r), !.waiting = FALSE]]
      BY <2>0, <2>5 DEF TimesOut
    <3>4. unreachable' \in {Backoff, unreachable} /\ heard' \in BOOLEAN /\ UNCHANGED <<release, copies>>
      BY <2>0, <2>5 DEF TimesOut, GivenUp
    <3> HIDE DEF r
    <3> QED BY <2>0, <3>2, <3>3, <3>4
  <2>6. ASSUME NEW o \in Openings, Done(o)
        PROVE  /\ opening' \in [Openings -> PageRequest \cup {NoRequest}]
               /\ UNCHANGED <<release, copies, unreachable, heard>>
    BY <2>0, <2>6 DEF Done
  <2>7. CASE BackoffPasses
    <3>1. unreachable > 0 /\ unreachable' = unreachable - 1 /\ UNCHANGED <<release, copies, opening, heard>>
      BY <2>7, Zenon DEF BackoffPasses
    <3>2. unreachable' \in 0 .. Backoff
      BY <2>0, <3>1
    <3> QED BY <2>0, <3>1, <3>2
  <2>8. CASE NewRelease
    <3>1. release' \in 1 .. MaxRelease
      BY <2>0, <2>8 DEF NewRelease
    <3>2. {0, release'} \subseteq 0 .. MaxRelease
      BY <2>0, <3>1
    <3>3. copies' \in [Cached -> 0 .. MaxRelease]
      BY <2>0, <2>8, <3>2 DEF NewRelease
    <3> QED BY <2>0, <2>8, <3>1, <3>3 DEF NewRelease
  <2> QED BY <2>0, <2>1, <2>2, <2>3, <2>4, <2>5, <2>6, <2>7, <2>8 DEF PagesNext
<1> QED BY <1>1, <1>2, PTL DEF PagesSpec

(* DevicesPage: a call is sent only while there is room for it. *)
LEMMA DevicesTypes == DevicesSpec => []DevicesTypeOK
<1> DEFINE Few == IsFiniteSet(deviceCalls) /\ Cardinality(deviceCalls) <= MaxDeviceCalls
           Rest == /\ shownApproved \subseteq Phones /\ view \in {"unknown", "locked", "open"}
                   /\ confirmRevoke \in Phones \cup {NoPhone} /\ busyDevices \in BOOLEAN
<1>1. DevicesInit => Few /\ Rest
  <2>1. IsFiniteSet({Asked("load", NoPhone)}) /\ Cardinality({Asked("load", NoPhone)}) = 1
    BY FS_Singleton
  <2> QED BY <2>1, DevicesAssumption DEF DevicesInit
<1>2. ASSUME DevicesInv, Few, Rest, [DevicesNext]_devicesVars PROVE Few'
  <2>0. MaxDeviceCalls \in Nat /\ IsFiniteSet(deviceCalls) /\ Cardinality(deviceCalls) \in Nat
        /\ Cardinality(deviceCalls) <= MaxDeviceCalls
    BY <1>2, DevicesAssumption, FS_CardinalityType
  <2>1. ASSUME NEW call, NEW rest, IsFiniteSet(rest), Send(call, rest) PROVE Few'
    <3>1. deviceCalls' = rest \cup {call} /\ Cardinality(rest) < MaxDeviceCalls
      BY <2>1 DEF Send
    <3>2. IsFiniteSet(rest \cup {call}) /\ Cardinality(rest \cup {call}) <= Cardinality(rest) + 1
          /\ Cardinality(rest) \in Nat /\ Cardinality(rest \cup {call}) \in Nat
      BY <2>1, FewMore, FS_CardinalityType
    <3> QED BY <2>0, <3>1, <3>2
  <2>2. ASSUME NEW c, deviceCalls' = deviceCalls \ {c} PROVE Few'
    <3>1. IsFiniteSet(deviceCalls \ {c}) /\ Cardinality(deviceCalls \ {c}) <= Cardinality(deviceCalls)
          /\ Cardinality(deviceCalls \ {c}) \in Nat
      BY <2>0, FewMore, FS_CardinalityType
    <3> QED BY <2>0, <2>2, <3>1
  <2>3. ASSUME UNCHANGED deviceCalls PROVE Few'
    BY <1>2, <2>3
  <2>4. ASSUME NEW c \in deviceCalls, ServerTurn(c) PROVE Few'
    <3>1. PICK d : deviceCalls' = (deviceCalls \ {c}) \cup {d}
      BY <2>4 DEF ServerTurn
    <3> DEFINE rest == deviceCalls \ {c}
    <3>2. IsFiniteSet(rest) /\ Cardinality(rest) + 1 = Cardinality(deviceCalls) /\ Cardinality(rest) \in Nat
      BY <2>0, FewMore, FS_CardinalityType
    <3> HIDE DEF rest
    <3>3. IsFiniteSet(rest \cup {d}) /\ Cardinality(rest \cup {d}) <= Cardinality(rest) + 1
          /\ Cardinality(rest \cup {d}) \in Nat
      BY <3>2, FewMore, FS_CardinalityType
    <3>4. deviceCalls' = rest \cup {d}
      BY <3>1 DEF rest
    <3> QED BY <2>0, <3>2, <3>3, <3>4
  <2>5. ASSUME NEW c \in deviceCalls, CallArrives(c) PROVE Few'
    <3>1. CASE Loads(c)
      <4>1. Send(Asked("load", NoPhone), deviceCalls \ {c})
        BY <3>1 DEF Loads
      <4>2. IsFiniteSet(deviceCalls \ {c})
        BY <2>0, FewMore
      <4> QED BY <2>1, <4>1, <4>2
    <3>2. CASE deviceCalls' = deviceCalls \ {c}
      BY <2>2, <3>2
    <3> QED BY <2>5, <3>1, <3>2 DEF CallArrives
  <2>6. ASSUME NEW c \in deviceCalls, LoadArrives(c) \/ CallFails(c) PROVE Few'
    <3>1. deviceCalls' = deviceCalls \ {c}
      BY <2>6 DEF LoadArrives, CallFails
    <3> QED BY <2>2, <3>1
  <2>7. CASE ReloadDevices \/ UnlockDevices
    BY <2>0, <2>1, <2>7 DEF ReloadDevices, UnlockDevices
  <2>8. ASSUME NEW p \in Phones, TapRevoke(p) PROVE Few'
    BY <2>0, <2>1, <2>3, <2>8 DEF TapRevoke
  <2>9. ASSUME NEW p \in Phones, PhoneApproved(p) PROVE Few'
    BY <2>3, <2>9 DEF PhoneApproved
  <2>10. CASE UNCHANGED devicesVars
    BY <2>3, <2>10 DEF devicesVars
  <2> HIDE DEF Few
  <2> QED BY <1>2, <2>4, <2>5, <2>6, <2>7, <2>8, <2>9, <2>10 DEF DevicesNext
<1>3. ASSUME DevicesInv, Rest, [DevicesNext]_devicesVars PROVE Rest'
  <2>1. ASSUME NEW c \in deviceCalls, LoadArrives(c) PROVE Rest'
    <3>1. c.saw \subseteq Phones
      BY <1>3, <2>1 DEF DevicesInv, DeviceCall
    <3> QED BY <1>3, <2>1, <3>1 DEF LoadArrives
  <2>2. ASSUME NEW c \in deviceCalls, ServerTurn(c) \/ CallArrives(c) \/ CallFails(c) PROVE Rest'
    BY <1>3, <2>2 DEF ServerTurn, CallArrives, Loads, Send, CallFails
  <2>3. ASSUME NEW p \in Phones, TapRevoke(p) \/ PhoneApproved(p) PROVE Rest'
    BY <1>3, <2>3 DEF TapRevoke, Send, PhoneApproved
  <2>4. CASE ReloadDevices \/ UnlockDevices
    BY <1>3, <2>4 DEF ReloadDevices, UnlockDevices, Send
  <2>5. CASE UNCHANGED devicesVars
    BY <1>3, <2>5 DEF devicesVars
  <2> HIDE DEF Rest
  <2> QED BY <1>3, <2>1, <2>2, <2>3, <2>4, <2>5 DEF DevicesNext
<1>4. DevicesInv /\ Few /\ Rest => DevicesTypeOK
  BY DEF DevicesInv, DevicesTypeOK
<1> HIDE DEF Few, Rest
<1> QED BY <1>1, <1>2, <1>3, <1>4, DevicesInvInit, DevicesInvStep, PTL DEF DevicesSpec

(* QrPage: the same. *)
LEMMA QrPageTypes == QrPageSpec => []QrPageTypeOK
<1> DEFINE Few == IsFiniteSet(qrCalls) /\ Cardinality(qrCalls) <= MaxQrCalls
           Rest == workingSlot \in QrSlots \cup {NoSlot} /\ confirmRemove \in QrSlots \cup {NoSlot}
<1>1. QrPageInit => Few /\ Rest
  BY FS_EmptySet, QrPageAssumption DEF QrPageInit
<1>2. ASSUME Few, [QrPageNext]_qrPageVars PROVE Few'
  <2>0. MaxQrCalls \in Nat /\ IsFiniteSet(qrCalls) /\ Cardinality(qrCalls) \in Nat
        /\ Cardinality(qrCalls) <= MaxQrCalls
    BY <1>2, QrPageAssumption, FS_CardinalityType
  <2>1. ASSUME NEW call, SendQr(call) PROVE Few'
    <3>1. qrCalls' = qrCalls \cup {call} /\ Cardinality(qrCalls) < MaxQrCalls
      BY <2>1 DEF SendQr
    <3>2. IsFiniteSet(qrCalls \cup {call}) /\ Cardinality(qrCalls \cup {call}) <= Cardinality(qrCalls) + 1
          /\ Cardinality(qrCalls \cup {call}) \in Nat
      BY <2>0, FewMore, FS_CardinalityType
    <3> QED BY <2>0, <3>1, <3>2
  <2>2. ASSUME NEW c, qrCalls' = qrCalls \ {c} PROVE Few'
    <3>1. IsFiniteSet(qrCalls \ {c}) /\ Cardinality(qrCalls \ {c}) <= Cardinality(qrCalls)
          /\ Cardinality(qrCalls \ {c}) \in Nat
      BY <2>0, FewMore, FS_CardinalityType
    <3> QED BY <2>0, <2>2, <3>1
  <2>3. ASSUME UNCHANGED qrCalls PROVE Few'
    BY <1>2, <2>3
  <2>4. ASSUME NEW c \in qrCalls, QrServerTurn(c) PROVE Few'
    <3>1. PICK d : qrCalls' = (qrCalls \ {c}) \cup {d}
      BY <2>4 DEF QrServerTurn
    <3> DEFINE rest == qrCalls \ {c}
    <3>2. IsFiniteSet(rest) /\ Cardinality(rest) + 1 = Cardinality(qrCalls) /\ Cardinality(rest) \in Nat
      BY <2>0, FewMore, FS_CardinalityType
    <3> HIDE DEF rest
    <3>3. IsFiniteSet(rest \cup {d}) /\ Cardinality(rest \cup {d}) <= Cardinality(rest) + 1
          /\ Cardinality(rest \cup {d}) \in Nat
      BY <3>2, FewMore, FS_CardinalityType
    <3>4. qrCalls' = rest \cup {d}
      BY <3>1 DEF rest
    <3> QED BY <2>0, <3>2, <3>3, <3>4
  <2>5. ASSUME NEW c \in qrCalls, QrListArrives(c) \/ WriteArrives(c) \/ QrCallFails(c) PROVE Few'
    <3>1. qrCalls' = qrCalls \ {c}
      BY <2>5 DEF QrListArrives, WriteArrives, QrCallFails
    <3> QED BY <2>2, <3>1
  <2>6. CASE LoadQrs
    BY <2>1, <2>6 DEF LoadQrs
  <2>7. ASSUME NEW k \in QrSlots, NEW p \in Pictures, Upload(k, p) PROVE Few'
    BY <2>1, <2>7 DEF Upload
  <2>8. ASSUME NEW k \in QrSlots, TapRemove(k) PROVE Few'
    BY <2>1, <2>3, <2>8 DEF TapRemove
  <2>9. CASE UNCHANGED qrPageVars
    BY <2>3, <2>9 DEF qrPageVars
  <2> HIDE DEF Few
  <2> QED BY <1>2, <2>4, <2>5, <2>6, <2>7, <2>8, <2>9 DEF QrPageNext
<1>3. ASSUME Rest, [QrPageNext]_qrPageVars PROVE Rest'
  BY <1>3 DEF QrPageNext, qrPageVars, LoadQrs, Upload, TapRemove, QrServerTurn, QrListArrives, WriteArrives,
     QrCallFails
<1>4. QrPageInv /\ Few /\ Rest => QrPageTypeOK
  BY DEF QrPageInv, QrPageTypeOK
<1> HIDE DEF Few, Rest
<1> QED BY <1>1, <1>2, <1>3, <1>4, QrPageInvInit, QrPageInvStep, PTL DEF QrPageSpec

-----------------------------------------------------------------------------
(* ShiftLog: the pages one after the other are the whole log.  FlattenSeq is a recursive
   function, of which CHOOSE only says that it satisfies its equation; that the pages up
   to each one end where that one does follows by the smallest page where they do not. *)

(* Integer division. *)
LEMMA Quotient ==
  ASSUME NEW m \in Int, NEW k \in Nat \ {0}
  PROVE  /\ m \div k \in Int
         /\ k * (m \div k) <= m /\ m < k * (m \div k) + k
OBVIOUS

(* A number of pages that just holds the rows. *)
LEMMA CeilingHolds ==
  ASSUME NEW n \in Nat \ {0}, NEW d \in Nat \ {0}
  PROVE  /\ Ceiling(n, d) \in Nat \ {0}
         /\ n <= d * Ceiling(n, d) /\ d * (Ceiling(n, d) - 1) < n
<1> DEFINE q == (n + d - 1) \div d
<1>1. q \in Int /\ d * q <= n + d - 1 /\ n + d - 1 < d * q + d
  <2>1. n + d - 1 \in Int
    OBVIOUS
  <2> QED BY <2>1, Quotient
<1> HIDE DEF q
<1>2. d * (q - 1) = d * q - d
  BY <1>1
<1>3. n <= d * q /\ d * (q - 1) < n
  BY <1>1, <1>2
<1>4. q > 0
  <2> SUFFICES ASSUME q <= 0 PROVE FALSE
    BY <1>1
  <2>1. d * q <= 0
    BY <1>1
  <2> QED BY <1>1, <1>3, <2>1
<1> QED BY <1>1, <1>3, <1>4 DEF Ceiling, q

(* More rows, no fewer pages. *)
LEMMA CeilingGrows ==
  ASSUME NEW n \in Nat \ {0}, NEW m \in Nat \ {0}, NEW d \in Nat \ {0}, n <= m
  PROVE  Ceiling(n, d) <= Ceiling(m, d)
<1> DEFINE a == Ceiling(n, d)
           b == Ceiling(m, d)
<1>1. a \in Nat /\ b \in Nat /\ d * (a - 1) < n /\ m <= d * b
  BY CeilingHolds
<1> HIDE DEF a, b
<1>2. d * (a - 1) < d * b
  BY <1>1
<1>3. a - 1 < b
  <2> SUFFICES ASSUME b <= a - 1 PROVE FALSE
    BY <1>1
  <2>1. d * b <= d * (a - 1)
    BY <1>1
  <2> QED BY <1>1, <1>2, <2>1
<1>4. a <= b
  BY <1>1, <1>3
<1> QED BY <1>4 DEF a, b

(* The pages of a log. *)
LEMMA PagesOfLog ==
  ASSUME NEW S, NEW s \in Seq(S)
  PROVE  /\ PageCount(s) \in Nat \ {0}
         /\ \A p \in 1 .. PageCount(s) : p > 1 => (p - 1) * PageSize < Len(s)
         /\ Len(s) <= PageCount(s) * PageSize
<1>0. PageSize \in Nat \ {0} /\ Len(s) \in Nat
  BY LogAssumption, LenProperties
<1>1. CASE s = << >>
  BY <1>0, <1>1, EmptySeq DEF PageCount
<1>2. CASE s # << >>
  <2> DEFINE n == PageCount(s)
  <2>1. n = Ceiling(Len(s), PageSize) /\ Len(s) \in Nat \ {0}
    BY <1>2, EmptySeq DEF PageCount
  <2>2. n \in Nat \ {0} /\ Len(s) <= PageSize * n /\ PageSize * (n - 1) < Len(s)
    BY <1>0, <2>1, CeilingHolds
  <2> HIDE DEF n
  <2>3. ASSUME NEW p \in 1 .. n PROVE (p - 1) * PageSize < Len(s)
    <3>1. (p - 1) * PageSize <= PageSize * (n - 1)
      BY <1>0, <2>2
    <3> QED BY <1>0, <2>2, <3>1
  <2>4. PageSize * n = n * PageSize
    BY <1>0, <2>2
  <2> QED BY <2>2, <2>3, <2>4 DEF n
<1> QED BY <1>1, <1>2

(* Where a page ends. *)
EndOf(s, p) == IF p * PageSize < Len(s) THEN p * PageSize ELSE Len(s)

(* A page that exists shows the rows after the page before. *)
LEMMA ShownOnPage ==
  ASSUME NEW S, NEW s \in Seq(S), NEW p \in 1 .. PageCount(s)
  PROVE  /\ EndOf(s, p) \in 0 .. Len(s)
         /\ ItemsShown(s, p) = SubSeq(s, (IF p = 1 THEN 0 ELSE EndOf(s, p - 1)) + 1, EndOf(s, p))
         /\ p > 1 => EndOf(s, p - 1) \in 0 .. EndOf(s, p)
<1>0. PageSize \in Nat \ {0} /\ Len(s) \in Nat /\ PageCount(s) \in Nat \ {0} /\ p \in Nat \ {0}
  BY LogAssumption, LenProperties, PagesOfLog
<1> DEFINE start == (p - 1) * PageSize
           end == p * PageSize
<1>1. start \in Nat /\ end = start + PageSize
  BY <1>0
<1>2. p > 1 => start < Len(s)
  BY PagesOfLog
<1>3. p = 1 => start = 0
  BY <1>0
<1>4. PageShown(s, p) = p
  BY <1>0 DEF PageShown
<1> HIDE DEF start, end
<1>5. ItemsShown(s, p) = SubSeq(s, start + 1, IF end < Len(s) THEN end ELSE Len(s))
  BY <1>1, <1>4 DEF ItemsShown, start
<1>6. EndOf(s, p) = IF end < Len(s) THEN end ELSE Len(s)
  BY DEF EndOf, end
<1>7. p > 1 => EndOf(s, p - 1) = start
  BY <1>2 DEF EndOf, start
<1>8. (IF p = 1 THEN 0 ELSE EndOf(s, p - 1)) = start
  BY <1>0, <1>3, <1>7
<1>9. EndOf(s, p) \in 0 .. Len(s) /\ (p > 1 => start \in 0 .. EndOf(s, p))
  BY <1>0, <1>1, <1>2, <1>6
<1> QED BY <1>5, <1>6, <1>7, <1>8, <1>9

(* A function that says of each page what comes after the one before says of the last
   the rows up to its end. *)
LEMMA PagesAreLog ==
  ASSUME NEW S, NEW s \in Seq(S)
  PROVE  FlattenSeq([p \in 1 .. PageCount(s) |-> ItemsShown(s, p)]) = s
<1> DEFINE n == PageCount(s)
           pages == [p \in 1 .. n |-> ItemsShown(s, p)]
           upTo == [p \in 1 .. n |-> SubSeq(s, 1, EndOf(s, p))]
           Flat(f) == f = [p \in 1 .. n |-> IF p = 1 THEN pages[p] ELSE f[p - 1] \o pages[p]]
           flat == CHOOSE f : Flat(f)
<1>1. n \in Nat \ {0} /\ Len(s) \in Nat /\ PageSize \in Nat \ {0}
  BY LogAssumption, LenProperties, PagesOfLog
<1>2. ASSUME NEW p \in 1 .. n
      PROVE  upTo[p] = IF p = 1 THEN pages[p] ELSE upTo[p - 1] \o pages[p]
  <2>1. pages[p] = SubSeq(s, (IF p = 1 THEN 0 ELSE EndOf(s, p - 1)) + 1, EndOf(s, p))
        /\ EndOf(s, p) \in 0 .. Len(s) /\ (p > 1 => EndOf(s, p - 1) \in 0 .. EndOf(s, p))
    BY <1>2, ShownOnPage
  <2>2. CASE p = 1
    BY <1>1, <2>1, <2>2
  <2>3. CASE p # 1
    <3>1. p - 1 \in 1 .. n /\ p > 1
      BY <1>1, <1>2, <2>3
    <3>2. upTo[p - 1] = SubSeq(s, 1, EndOf(s, p - 1)) /\ upTo[p] = SubSeq(s, 1, EndOf(s, p))
      BY <3>1
    <3>3. SubSeq(s, 1, EndOf(s, p - 1)) \o SubSeq(s, EndOf(s, p - 1) + 1, EndOf(s, p)) = SubSeq(s, 1, EndOf(s, p))
      <4> DEFINE k == EndOf(s, p - 1)
                 m == EndOf(s, p)
      <4>1. k \in 0 .. m /\ m \in 0 .. Len(s)
        BY <2>1, <3>1
      <4> HIDE DEF k, m
      <4>2. 1 \in 1 .. Len(s) + 1 /\ k \in 1 - 1 .. Len(s) /\ m \in k .. Len(s)
        BY <1>1, <4>1
      <4>3. SubSeq(s, 1, k) \o SubSeq(s, k + 1, m) = SubSeq(s, 1, m)
        BY <4>2, ConcatAdjacentSubSeq
      <4> QED BY <4>3 DEF k, m
    <3>4. pages[p] = SubSeq(s, EndOf(s, p - 1) + 1, EndOf(s, p))
      BY <2>1, <2>3
    <3> HIDE DEF pages, upTo
    <3> QED BY <2>3, <3>2, <3>3, <3>4
  <2> QED BY <2>2, <2>3
<1>3. FlattenSeq(pages) = flat[n]
  <2>1. Len(pages) = n
    BY <1>1
  <2>2. Len(pages) # 0
    BY <1>1, <2>1
  <2> HIDE DEF pages, n
  <2> QED BY <2>1, <2>2 DEF FlattenSeq
<1>4. Flat(upTo)
  <2> HIDE DEF pages, n
  <2> QED BY <1>2
<1> HIDE DEF pages, upTo, n
<1>5. Flat(flat)
  <2> HIDE DEF Flat
  <2> QED BY <1>4
<1> HIDE DEF flat
<1>6. \A p \in 1 .. n : flat[p] = upTo[p]
  <2> DEFINE B == {p \in 1 .. n : flat[p] # upTo[p]}
  <2> SUFFICES ASSUME B # {} PROVE FALSE
    OBVIOUS
  <2>1. B \subseteq Int /\ IsFiniteSet(B)
    <3>1. IsFiniteSet(1 .. n) /\ B \subseteq 1 .. n
      BY <1>1, FS_Interval
    <3> HIDE DEF B
    <3>2. IsFiniteSet(B)
      BY <3>1, FS_Subset
    <3>3. B \subseteq Int
      BY <3>1
    <3> QED BY <3>2, <3>3
  <2> DEFINE p == Min(B)
  <2>2. p \in B /\ \A k \in B : p <= k
    <3> HIDE DEF B
    <3> QED BY <2>1, MinOfFinite
  <2> HIDE DEF p
  <2>3. p \in 1 .. n /\ flat[p] # upTo[p]
    BY <2>2
  <2>4. flat[p] = IF p = 1 THEN pages[p] ELSE flat[p - 1] \o pages[p]
    BY <1>5, <2>3
  <2>5. p # 1
    BY <1>2, <2>3, <2>4
  <2>6. p - 1 \in 1 .. n /\ p - 1 \notin B
    BY <1>1, <2>2, <2>3, <2>5
  <2>7. flat[p - 1] = upTo[p - 1]
    BY <2>6
  <2> QED BY <1>2, <2>3, <2>4, <2>5, <2>7
<1>7. upTo[n] = s
  <2>1. n \in 1 .. n /\ Len(s) <= n * PageSize
    BY <1>1, PagesOfLog DEF n
  <2>2. n * PageSize \in Nat
    BY <1>1
  <2>3. EndOf(s, n) = Len(s)
    BY <1>1, <2>1, <2>2 DEF EndOf
  <2>4. upTo[n] = SubSeq(s, 1, EndOf(s, n))
    BY <2>1 DEF upTo
  <2> QED BY <2>3, <2>4, SubSeqFull
<1>8. n \in 1 .. n
  BY <1>1
<1> QED BY <1>3, <1>6, <1>7, <1>8 DEF pages, n

(* What LogTypeOK needs to be kept: the log and the syncs are sequences, the log within
   its bound. *)
LogInv ==
  /\ log \in Seq(LogSale) /\ Len(log) <= MaxLog
  /\ page \in 1 .. PageCount(log)
  /\ syncs \in Seq(0 .. MaxLog)
  /\ clearing \in 0 .. MaxSyncs /\ qrSale \in 0 .. MaxLog
  /\ {online, isSyncing, feedback} \subseteq BOOLEAN
  /\ feedback => clearing > 0
  /\ isSyncing => syncs # << >>

(* The invariant has the type, and with it that the pages are the log. *)
LEMMA LogInvTypes == LogInv => LogTypeOK
<1> SUFFICES ASSUME LogInv PROVE LogTypeOK
  OBVIOUS
<1>1. \A i \in DOMAIN log : log[i] \in LogSale
  BY LenProperties DEF LogInv
<1>2. \A i \in DOMAIN syncs : syncs[i] \in 0 .. MaxLog
  BY LenProperties DEF LogInv
<1>3. FlattenSeq([p \in 1 .. PageCount(log) |-> ItemsShown(log, p)]) = log
  BY PagesAreLog DEF LogInv
<1> QED BY <1>1, <1>2, <1>3 DEF LogInv, LogTypeOK

(* It holds at the start. *)
LEMMA LogInvInit == LogInit => LogInv
<1> SUFFICES ASSUME LogInit PROVE LogInv
  OBVIOUS
<1>0. PICK n \in 0 .. MaxLog : \E states \in [1 .. n -> {"rejected", "qr", "other"}] :
        log = [i \in 1 .. n |-> [id |-> n + 1 - i, state |-> states[i]]]
  BY DEF LogInit
<1>1. PICK states \in [1 .. n -> {"rejected", "qr", "other"}] :
        log = [i \in 1 .. n |-> [id |-> n + 1 - i, state |-> states[i]]]
  BY <1>0
<1>2. n \in Nat /\ MaxLog \in Nat /\ MaxSyncs \in Nat
  BY LogAssumption
<1>3. log \in [1 .. n -> LogSale]
  BY <1>1, <1>2 DEF LogSale
<1>4. log \in Seq(LogSale) /\ Len(log) = n
  BY <1>2, <1>3
<1>5. page \in 1 .. PageCount(log)
  <2>1. PageCount(log) \in Nat \ {0}
    BY <1>4, PagesOfLog
  <2> QED BY <2>1 DEF LogInit
<1>6. << >> \in Seq(0 .. MaxLog)
  BY EmptySeq
<1>7. 0 \in 0 .. MaxSyncs /\ 0 \in 0 .. MaxLog /\ Len(log) <= MaxLog
  BY <1>2, <1>4
<1>8. /\ syncs = << >> /\ clearing = 0 /\ qrSale = 0
      /\ online \in BOOLEAN /\ isSyncing = FALSE /\ feedback = FALSE
  BY DEF LogInit
<1> QED BY <1>4, <1>5, <1>6, <1>7, <1>8 DEF LogInv

(* More sales, no fewer pages. *)
LEMMA PagesStay ==
  ASSUME NEW S, NEW s \in Seq(S), NEW t \in Seq(S), Len(s) <= Len(t)
  PROVE  PageCount(s) <= PageCount(t)
<1>0. Len(s) \in Nat /\ Len(t) \in Nat /\ PageSize \in Nat \ {0}
  BY LogAssumption, LenProperties
<1>1. PageCount(t) \in Nat \ {0}
  BY PagesOfLog
<1>2. CASE s = << >>
  BY <1>1, <1>2 DEF PageCount
<1>3. CASE s # << >>
  <2>1. Len(s) \in Nat \ {0} /\ Len(t) \in Nat \ {0}
    BY <1>0, <1>3, EmptySeq
  <2>2. t # << >>
    BY <2>1, EmptySeq
  <2>3. Ceiling(Len(s), PageSize) <= Ceiling(Len(t), PageSize)
    BY <1>0, <2>1, CeilingGrows
  <2> QED BY <1>3, <2>2, <2>3 DEF PageCount
<1> QED BY <1>2, <1>3

(* A sale that changes its state leaves the pages as they are. *)
LEMMA SaleChanges ==
  ASSUME LogInv, NEW i \in DOMAIN log, NEW to \in {"rejected", "qr", "other"},
         log' = [log EXCEPT ![i].state = to]
  PROVE  log' \in Seq(LogSale) /\ Len(log') <= MaxLog /\ PageCount(log') = PageCount(log)
<1>1. i \in 1 .. Len(log) /\ log[i] \in LogSale /\ log \in Seq(LogSale)
  BY LenProperties, ElementOfSeq DEF LogInv
<1>2. [log[i] EXCEPT !.state = to] \in LogSale
  BY <1>1 DEF LogSale
<1>3. log' = [log EXCEPT ![i] = [log[i] EXCEPT !.state = to]]
  BY <1>1
<1>4. log' \in Seq(LogSale) /\ Len(log') = Len(log)
  BY <1>1, <1>2, <1>3, ExceptSeq
<1>5. log' = << >> <=> log = << >>
  BY <1>1, <1>4, EmptySeq
<1> QED BY <1>4, <1>5 DEF LogInv, PageCount

(* A sync that begins is one of the syncs. *)
LEMMA SyncBegins ==
  ASSUME LogInv, NEW sale \in 0 .. MaxLog, syncs' = Append(syncs, sale)
  PROVE  syncs' \in Seq(0 .. MaxLog) /\ syncs' # << >>
<1>1. syncs' \in Seq(0 .. MaxLog) /\ Len(syncs') = Len(syncs) + 1 /\ Len(syncs) \in Nat
  BY AppendProperties, LenProperties DEF LogInv
<1> QED BY <1>1, EmptySeq

(* Every step keeps the invariant. *)
LEMMA LogInvStep == LogInv /\ [LogNext]_logVars => LogInv'
<1> SUFFICES ASSUME LogInv, [LogNext]_logVars PROVE LogInv'
  OBVIOUS
<1>0. /\ log \in Seq(LogSale) /\ syncs \in Seq(0 .. MaxLog) /\ MaxLog \in Nat /\ MaxSyncs \in Nat
      /\ Len(log) \in Nat /\ Len(log) <= MaxLog /\ PageCount(log) \in Nat \ {0}
      /\ page \in 1 .. PageCount(log) /\ 0 \in 0 .. MaxLog
  BY LogAssumption, LenProperties, PagesOfLog DEF LogInv
<1>1. CASE UNCHANGED logVars
  BY <1>1 DEF LogInv, logVars, PageCount
<1>2. CASE SaleRecorded
  <2> DEFINE sale == [id |-> Len(log) + 1, state |-> "other"]
  <2>1. sale \in LogSale /\ Len(log) < MaxLog /\ log' = << sale >> \o log
    BY <1>0, <1>2 DEF SaleRecorded, LogSale
  <2> HIDE DEF sale
  <2>2. << sale >> \in Seq(LogSale) /\ Len(<< sale >>) = 1
    BY <2>1
  <2>3. log' \in Seq(LogSale) /\ Len(log') = 1 + Len(log)
    BY <1>0, <2>1, <2>2, ConcatProperties
  <2>4. PageCount(log) <= PageCount(log') /\ PageCount(log') \in Nat
    BY <1>0, <2>3, PagesStay, PagesOfLog
  <2>5. page' \in 1 .. PageCount(log')
    BY <1>0, <1>2, <2>4 DEF SaleRecorded
  <2>6. UNCHANGED <<online, syncs, isSyncing, feedback, clearing, qrSale>>
    BY <1>2 DEF SaleRecorded
  <2>7. Len(log') <= MaxLog
    BY <1>0, <2>1, <2>3
  <2> QED BY <2>3, <2>5, <2>6, <2>7 DEF LogInv
<1>3. CASE TurnPage
  <2>1. page' \in 1 .. PageCount(log) /\ UNCHANGED <<log, online, syncs, isSyncing, feedback, clearing, qrSale>>
    BY <1>3 DEF TurnPage
  <2> QED BY <2>1 DEF LogInv, PageCount
<1>4. ASSUME NEW sale \in 0 .. MaxLog, Begins(sale),
             log' \in Seq(LogSale), Len(log') <= MaxLog, PageCount(log') = PageCount(log), online' \in BOOLEAN
      PROVE  LogInv'
  <2>1. syncs' \in Seq(0 .. MaxLog) /\ syncs' # << >>
    BY <1>4, SyncBegins DEF Begins
  <2>2. isSyncing' = TRUE /\ UNCHANGED <<page, feedback, clearing, qrSale>>
    BY <1>4 DEF Begins
  <2> QED BY <1>4, <2>1, <2>2 DEF LogInv
<1>5. CASE HandleSync \/ AutoSync
  <2>1. Begins(0) /\ log' = log /\ online' \in BOOLEAN
    BY <1>5 DEF HandleSync, AutoSync, LogInv
  <2>2. PageCount(log') = PageCount(log)
    BY <2>1
  <2> QED BY <1>0, <1>4, <2>1, <2>2
<1>6. ASSUME NEW i \in DOMAIN log, HandleRetryRejected(i) PROVE LogInv'
  <2>1. log' = [log EXCEPT ![i].state = "other"] /\ Begins(log[i].id) /\ online' = online
    BY <1>6 DEF HandleRetryRejected
  <2>2. log[i].id \in 0 .. MaxLog
    <3>1. log[i] \in LogSale
      BY <1>0, <1>6, LenProperties
    <3> QED BY <1>0, <3>1 DEF LogSale
  <2>3. log' \in Seq(LogSale) /\ Len(log') <= MaxLog /\ PageCount(log') = PageCount(log)
    BY <1>6, <2>1, SaleChanges
  <2>4. online' \in BOOLEAN
    BY <2>1 DEF LogInv
  <2> QED BY <1>4, <2>1, <2>2, <2>3, <2>4
<1>7. ASSUME NEW i \in DOMAIN log, SaleSettles(i) PROVE LogInv'
  <2>1. PICK to \in {"rejected", "qr"} : log' = [log EXCEPT ![i].state = to]
    BY <1>7 DEF SaleSettles
  <2>2. log' \in Seq(LogSale) /\ Len(log') <= MaxLog /\ PageCount(log') = PageCount(log)
    BY <1>7, <2>1, SaleChanges
  <2>3. UNCHANGED <<page, online, syncs, isSyncing, feedback, clearing, qrSale>>
    BY <1>7 DEF SaleSettles
  <2> QED BY <2>2, <2>3 DEF LogInv
<1>8. ASSUME NEW i \in DOMAIN syncs, SyncEnds(i) PROVE LogInv'
  <2>1. i \in 1 .. Len(syncs) /\ Len(syncs) \in Nat /\ syncs[i] \in 0 .. MaxLog
    BY <1>0, <1>8, LenProperties, ElementOfSeq
  <2>2. SubSeq(syncs, 1, i - 1) \in Seq(0 .. MaxLog) /\ SubSeq(syncs, i + 1, Len(syncs)) \in Seq(0 .. MaxLog)
    <3>1. i \in Int /\ Len(syncs) \in Int /\ \A k \in 1 .. Len(syncs) : syncs[k] \in 0 .. MaxLog
      BY <1>0, <2>1, ElementOfSeq
    <3>2. \A k \in 1 .. i - 1 : syncs[k] \in 0 .. MaxLog
      BY <2>1, <3>1
    <3>3. \A k \in i + 1 .. Len(syncs) : syncs[k] \in 0 .. MaxLog
      BY <2>1, <3>1
    <3> QED BY <3>1, <3>2, <3>3, SubSeqProperties
  <2>3. syncs' \in Seq(0 .. MaxLog)
    BY <1>8, <2>2, ConcatProperties DEF SyncEnds, RemoveAt
  <2>4. clearing' \in 0 .. MaxSyncs /\ clearing' > 0
    BY <1>0, <1>8 DEF SyncEnds, LogInv
  <2>5. qrSale' \in 0 .. MaxLog
    BY <1>8, <2>1 DEF SyncEnds, LogInv
  <2>6. UNCHANGED <<log, page, online>> /\ isSyncing' = FALSE /\ feedback' = TRUE
    BY <1>8 DEF SyncEnds
  <2> QED BY <2>3, <2>4, <2>5, <2>6 DEF LogInv, PageCount
<1>9. CASE FeedbackGoes
  <2>1. clearing' \in 0 .. MaxSyncs /\ feedback' = FALSE
        /\ UNCHANGED <<log, page, online, syncs, isSyncing, qrSale>>
    BY <1>0, <1>9 DEF FeedbackGoes, LogInv
  <2> QED BY <2>1 DEF LogInv, PageCount
<1>10. CASE GoesOffline
  BY <1>10 DEF GoesOffline, LogInv, PageCount
<1>11. ASSUME NEW i \in DOMAIN log, OpenQr(i) PROVE LogInv'
  <2>1. log[i].id \in 0 .. MaxLog
    <3>1. log[i] \in LogSale
      BY <1>0, <1>11, LenProperties
    <3> QED BY <1>0, <3>1 DEF LogSale
  <2>2. qrSale' = log[i].id /\ UNCHANGED <<log, page, online, syncs, isSyncing, feedback, clearing>>
    BY <1>11 DEF OpenQr
  <2> QED BY <2>1, <2>2 DEF LogInv, PageCount
<1>12. CASE CloseQr
  <2>1. qrSale' = 0 /\ UNCHANGED <<log, page, online, syncs, isSyncing, feedback, clearing>>
    BY <1>12 DEF CloseQr
  <2> QED BY <1>0, <2>1 DEF LogInv, PageCount
<1> QED BY <1>1, <1>2, <1>3, <1>5, <1>6, <1>7, <1>8, <1>9, <1>10, <1>11, <1>12 DEF LogNext

(* ShiftLog: the page shown exists, and the pages one after the other are the log. *)
LEMMA LogTypes == LogSpec => []LogTypeOK
BY LogInvInit, LogInvStep, LogInvTypes, PTL DEF LogSpec

-----------------------------------------------------------------------------
(* Report. *)

(* The elements of a finite set, put in the order of a strict order that is total on it:
   an element's place is the number of those before it, and by the pigeonhole principle
   every place is taken. *)
LEMMA InOrderSorts ==
  ASSUME NEW S, IsFiniteSet(S), NEW before,
         \A x \in S : <<x, x>> \notin before,
         \A x, y \in S : x # y => <<x, y>> \in before \/ <<y, x>> \in before,
         \A x, y, z \in S : <<x, y>> \in before /\ <<y, z>> \in before => <<x, z>> \in before
  PROVE  /\ InOrder(S, before) \in [1 .. Cardinality(S) -> S]
         /\ \A x \in S : \E k \in 1 .. Cardinality(S) : InOrder(S, before)[k] = x
         /\ \A i, j \in 1 .. Cardinality(S) :
              i < j => <<InOrder(S, before)[i], InOrder(S, before)[j]>> \in before
<1> DEFINE n == Cardinality(S)
           Below(x) == {y \in S : <<y, x>> \in before}
           rank == [x \in S |-> Cardinality(Below(x))]
           s == InOrder(S, before)
<1>0. n \in Nat
  BY FS_CardinalityType
<1>1. ASSUME NEW x \in S PROVE IsFiniteSet(Below(x)) /\ rank[x] \in 0 .. n - 1 /\ rank[x] = Cardinality(Below(x))
  <2>1. Below(x) \in SUBSET (S \ {x})
    OBVIOUS
  <2>2. IsFiniteSet(S \ {x}) /\ Cardinality(S \ {x}) = n - 1
    BY FS_RemoveElement
  <2> HIDE DEF Below
  <2>3. IsFiniteSet(Below(x)) /\ Cardinality(Below(x)) <= n - 1
    BY <2>1, <2>2, FS_Subset
  <2>4. Cardinality(Below(x)) \in Nat
    BY <2>3, FS_CardinalityType
  <2> HIDE DEF n
  <2> QED BY <1>0, <2>3, <2>4
<1>2. ASSUME NEW x \in S, NEW y \in S, <<x, y>> \in before PROVE rank[x] < rank[y]
  <2>1. Below(x) \in SUBSET (Below(y) \ {x}) /\ x \in Below(y)
    BY <1>2
  <2>2. IsFiniteSet(Below(y)) /\ rank[y] = Cardinality(Below(y)) /\ rank[x] = Cardinality(Below(x))
        /\ rank[x] \in 0 .. n - 1 /\ rank[y] \in 0 .. n - 1
    BY <1>1
  <2> HIDE DEF Below, rank
  <2>3. IsFiniteSet(Below(y) \ {x}) /\ Cardinality(Below(y) \ {x}) = rank[y] - 1
    BY <2>1, <2>2, FS_RemoveElement
  <2>4. Cardinality(Below(x)) <= Cardinality(Below(y) \ {x})
    BY <2>1, <2>3, FS_Subset
  <2> HIDE DEF n
  <2> QED BY <1>0, <2>2, <2>3, <2>4
<1>3. ASSUME NEW x \in S, NEW y \in S, rank[x] = rank[y] PROVE x = y
  <2>1. rank[x] \in 0 .. n - 1 /\ rank[y] \in 0 .. n - 1
    BY <1>1
  <2> HIDE DEF rank, n
  <2>2. ~ (<<x, y>> \in before)
    <3> SUFFICES ASSUME <<x, y>> \in before PROVE FALSE
      OBVIOUS
    <3>1. rank[x] < rank[y]
      BY <1>2
    <3> QED BY <1>0, <1>3, <2>1, <3>1
  <2>3. ~ (<<y, x>> \in before)
    <3> SUFFICES ASSUME <<y, x>> \in before PROVE FALSE
      OBVIOUS
    <3>1. rank[y] < rank[x]
      BY <1>2
    <3> QED BY <1>0, <1>3, <2>1, <3>1
  <2> QED BY <2>2, <2>3
<1>4. ASSUME NEW k \in 0 .. n - 1 PROVE \E x \in S : rank[x] = k
  <2> SUFFICES ASSUME \A x \in S : rank[x] # k PROVE FALSE
    OBVIOUS
  <2> DEFINE T == (0 .. n - 1) \ {k}
  <2>1. IsFiniteSet(T) /\ Cardinality(T) < n
    <3>1. 0 \in Int /\ n - 1 \in Int /\ n > 0
      BY <1>0, <1>4
    <3>2. IsFiniteSet(0 .. n - 1) /\ Cardinality(0 .. n - 1) = n
      BY <1>0, <3>1, FS_Interval
    <3>3. IsFiniteSet(T) /\ Cardinality(T) = Cardinality(0 .. n - 1) - 1
      BY <1>4, <3>2, FS_RemoveElement
    <3> HIDE DEF n, T
    <3> QED BY <1>0, <3>2, <3>3
  <2>2. rank \in [S -> T]
    BY <1>1
  <2> HIDE DEF rank, T
  <2>3. \E x, y \in S : x # y /\ rank[x] = rank[y]
    BY <2>1, <2>2, FS_PigeonHole
  <2> QED BY <1>3, <2>3
<1>5. ASSUME NEW k \in 1 .. n PROVE s[k] \in S /\ rank[s[k]] = k - 1
  <2>1. s[k] = CHOOSE x \in S : Cardinality(Below(x)) = k - 1
    BY DEF InOrder
  <2>2. k - 1 \in 0 .. n - 1
    BY <1>0, <1>5
  <2>3. \E x \in S : rank[x] = k - 1
    BY <1>4, <2>2
  <2>4. \E x \in S : Cardinality(Below(x)) = k - 1
    BY <1>1, <2>3
  <2> HIDE DEF s, Below, rank, n
  <2>5. s[k] \in S /\ Cardinality(Below(s[k])) = k - 1
    BY <2>1, <2>4
  <2> QED BY <1>1, <2>5
<1>6. s \in [1 .. n -> S]
  <2> DEFINE at(k) == CHOOSE x \in S : Cardinality({y \in S : <<y, x>> \in before}) = k - 1
  <2>1. s = [k \in 1 .. n |-> at(k)]
    BY DEF InOrder
  <2> HIDE DEF s, n, at
  <2>2. \A k \in 1 .. n : at(k) \in S
    BY <1>5, <2>1
  <2> QED BY <2>1, <2>2
<1> HIDE DEF s, Below, rank, n
<1>7. ASSUME NEW x \in S PROVE \E k \in 1 .. n : s[k] = x
  <2> DEFINE k == rank[x] + 1
  <2>1. rank[x] \in 0 .. n - 1
    BY <1>1
  <2>2. k \in 1 .. n /\ k - 1 = rank[x]
    BY <1>0, <2>1
  <2> HIDE DEF k
  <2>3. s[k] \in S /\ rank[s[k]] = rank[x]
    BY <1>5, <2>2
  <2> QED BY <1>3, <2>2, <2>3
<1>8. ASSUME NEW i \in 1 .. n, NEW j \in 1 .. n, i < j PROVE <<s[i], s[j]>> \in before
  <2>1. s[i] \in S /\ s[j] \in S /\ rank[s[i]] = i - 1 /\ rank[s[j]] = j - 1
    BY <1>5
  <2>2. i \in Int /\ j \in Int
    BY <1>0
  <2>3. s[i] # s[j]
    BY <1>8, <2>1, <2>2
  <2>4. ~(<<s[j], s[i]>> \in before)
    <3> SUFFICES ASSUME <<s[j], s[i]>> \in before PROVE FALSE
      OBVIOUS
    <3>1. rank[s[j]] < rank[s[i]]
      BY <1>2, <2>1
    <3> QED BY <1>8, <2>1, <2>2, <3>1
  <2> QED BY <2>1, <2>3, <2>4
<1> QED BY <1>6, <1>7, <1>8 DEF s, n

-----------------------------------------------------------------------------
(* The comparison. *)

(* What a run may have compared: every error is a number. *)
Figured(mean) == \A m \in DOMAIN mean : mean[m] \in Nat

(* The groups are three stretches of the places. *)
LEMMA GroupsAre == Range(Groups) = {1 .. 4, 5 .. 7, 8 .. 9}
<1>1. DOMAIN Groups = {1, 2, 3} /\ Groups[1] = 1 .. 4 /\ Groups[2] = 5 .. 7 /\ Groups[3] = 8 .. 9
  BY DEF Groups
<1> HIDE DEF Groups
<1> QED BY <1>1 DEF Range

(* The rows of a comparison are the places of the methods compared. *)
LEMMA RowsAre ==
  ASSUME NEW mean
  PROVE  /\ MethodsInTable(mean) = {p \in 1 .. 9 : Methods[p] \in DOMAIN mean}
         /\ IsFiniteSet(MethodsInTable(mean))
<1>1. Range(Groups) = {1 .. 4, 5 .. 7, 8 .. 9}
  BY GroupsAre
<1>2. MethodsInTable(mean) = UNION {GroupRows(mean, group) : group \in Range(Groups)}
  BY DEF MethodsInTable, ComparisonView
<1>3. MethodsInTable(mean) = GroupRows(mean, 1 .. 4) \cup GroupRows(mean, 5 .. 7) \cup GroupRows(mean, 8 .. 9)
  BY <1>1, <1>2
<1>4. MethodsInTable(mean) = {p \in 1 .. 9 : Methods[p] \in DOMAIN mean}
  <2>1. 1 .. 9 = 1 .. 4 \cup 5 .. 7 \cup 8 .. 9
    OBVIOUS
  <2> QED BY <1>3, <2>1 DEF GroupRows
<1>5. IsFiniteSet(1 .. 9)
  <2>1. 1 \in Int /\ 9 \in Int
    OBVIOUS
  <2> QED BY <2>1, FS_Interval
<1> QED BY <1>4, <1>5, FS_Subset

(* The names at the places, each once. *)
LEMMA MethodNames ==
  /\ Methods \in [1 .. 9 -> Known]
  /\ \A p, q \in 1 .. 9 : Methods[p] = Methods[q] => p = q
  /\ \A m \in Known : \E p \in 1 .. 9 : Methods[p] = m
<1>1. DOMAIN Methods = 1 .. 9
  BY DEF Methods
<1>2. \A p, q \in 1 .. 9 : Methods[p] = Methods[q] => p = q
  BY DEF Methods
<1>3. Known = {Methods[p] : p \in DOMAIN Methods}
  BY DEF Known, Range
<1>4. Methods = [p \in DOMAIN Methods |-> Methods[p]]
  BY DEF Methods
<1> HIDE DEF Methods
<1> QED BY <1>1, <1>2, <1>3, <1>4

(* The ranking has every row once, the smallest error first. *)
LEMMA RankingSorts ==
  ASSUME NEW mean, Figured(mean)
  PROVE  /\ Ranked(mean) \in [1 .. Cardinality(MethodsInTable(mean)) -> MethodsInTable(mean)]
         /\ DOMAIN Ranked(mean) = 1 .. Cardinality(MethodsInTable(mean))
         /\ Range(Ranked(mean)) = MethodsInTable(mean)
         /\ \A i, j \in DOMAIN Ranked(mean) :
              i < j => /\ Ranked(mean)[i] # Ranked(mean)[j]
                       /\ Mean(mean, Ranked(mean)[i]) <= Mean(mean, Ranked(mean)[j])
         /\ \A p \in MethodsInTable(mean) : Mean(mean, p) \in Nat
<1> DEFINE S == MethodsInTable(mean)
           before == Better(mean)
           n == Cardinality(S)
<1>0. IsFiniteSet(S) /\ S \subseteq 1 .. 9
  BY RowsAre
<1>1. \A p \in S : Mean(mean, p) \in Nat
  BY RowsAre DEF Mean, Figured
<1>2. \A p, q \in S : <<p, q>> \in before <=>
        Mean(mean, p) < Mean(mean, q) \/ (Mean(mean, p) = Mean(mean, q) /\ p < q)
  BY DEF Better
<1> HIDE DEF S, before
<1>3. \A p \in S : p \in Int
  BY <1>0
<1>4. \A p \in S : <<p, p>> \notin before
  BY <1>1, <1>2, <1>3
<1>5. \A p, q \in S : p # q => <<p, q>> \in before \/ <<q, p>> \in before
  BY <1>1, <1>2, <1>3
<1>6. \A p, q, r \in S : <<p, q>> \in before /\ <<q, r>> \in before => <<p, r>> \in before
  BY <1>1, <1>2, <1>3
<1> DEFINE s == InOrder(S, before)
<1>7. /\ s \in [1 .. n -> S]
      /\ \A p \in S : \E k \in 1 .. n : s[k] = p
      /\ \A i, j \in 1 .. n : i < j => <<s[i], s[j]>> \in before
  BY <1>0, <1>4, <1>5, <1>6, InOrderSorts
<1>8. Ranked(mean) = s
  BY DEF Ranked, S, before
<1> HIDE DEF s, n
<1>9. Range(s) = S /\ DOMAIN s = 1 .. n
  BY <1>7 DEF Range
<1>10. ASSUME NEW i \in 1 .. n, NEW j \in 1 .. n, i < j
       PROVE  s[i] # s[j] /\ Mean(mean, s[i]) <= Mean(mean, s[j])
  <2>1. s[i] \in S /\ s[j] \in S /\ <<s[i], s[j]>> \in before
    BY <1>7, <1>10
  <2> QED BY <1>1, <1>2, <1>3, <2>1
<1> QED BY <1>1, <1>7, <1>8, <1>9, <1>10 DEF S, n

(* The largest of a set is any element that no other exceeds. *)
LEMMA MaxIs ==
  ASSUME NEW S, S \subseteq Int, NEW m \in S, \A x \in S : x <= m
  PROVE  Max(S) = m
<1>1. \E y \in S : \A x \in S : y >= x
  OBVIOUS
<1>2. Max(S) \in S /\ \A x \in S : Max(S) >= x
  BY <1>1 DEF Max
<1> DEFINE x == Max(S)
<1> HIDE DEF x
<1>3. x \in Int /\ m \in Int /\ x >= m /\ x <= m
  BY <1>2 DEF x
<1> QED BY <1>3 DEF x

(* More, no smaller a quotient. *)
LEMMA QuotientGrows ==
  ASSUME NEW m \in Int, NEW n \in Int, NEW k \in Nat \ {0}, m <= n
  PROVE  m \div k <= n \div k
<1> DEFINE a == m \div k
           b == n \div k
<1>1. a \in Int /\ b \in Int /\ k * a <= m /\ n < k * b + k
  BY Quotient
<1> HIDE DEF a, b
<1>2. k * b + k = k * (b + 1)
  BY <1>1
<1>3. a < b + 1
  <2> SUFFICES ASSUME b + 1 <= a PROVE FALSE
    BY <1>1
  <2>1. k * (b + 1) <= k * a
    BY <1>1
  <2> QED BY <1>1, <1>2, <2>1
<1>4. a <= b
  BY <1>1, <1>3
<1> QED BY <1>4 DEF a, b

(* All of it is 100 percent. *)
LEMMA AllOfIt ==
  ASSUME NEW k \in Nat \ {0}
  PROVE  (k * 100) \div k = 100
<1> DEFINE q == (k * 100) \div k
<1>1. q \in Int /\ k * q <= k * 100 /\ k * 100 < k * q + k
  BY Quotient
<1> HIDE DEF q
<1>2. q <= 100
  <2> SUFFICES ASSUME 101 <= q PROVE FALSE
    BY <1>1
  <2>1. k * 101 <= k * q
    BY <1>1
  <2> QED BY <1>1, <2>1
<1>3. 100 < q + 1
  <2> SUFFICES ASSUME q + 1 <= 100 PROVE FALSE
    BY <1>1
  <2>1. k * (q + 1) <= k * 100 /\ k * (q + 1) = k * q + k
    BY <1>1
  <2> QED BY <1>1, <2>1
<1>4. q = 100
  BY <1>1, <1>2, <1>3
<1> QED BY <1>4 DEF q

(* The longest bar is the last one's. *)
LEMMA LastIsLongest ==
  ASSUME NEW mean, Figured(mean)
  PROVE  /\ MaxMean(mean) \in Nat
         /\ \A p \in MethodsInTable(mean) : Mean(mean, p) <= MaxMean(mean)
         /\ Cardinality(MethodsInTable(mean)) \in Nat
         /\ Cardinality(MethodsInTable(mean)) # 0 =>
              Mean(mean, Ranked(mean)[Cardinality(MethodsInTable(mean))]) = MaxMean(mean)
<1> DEFINE S == MethodsInTable(mean)
           s == Ranked(mean)
           n == Cardinality(S)
           V == {Mean(mean, p) : p \in Range(s)} \cup {0}
<1>1. /\ s \in [1 .. n -> S] /\ DOMAIN s = 1 .. n /\ Range(s) = S
      /\ \A i, j \in DOMAIN s : i < j => Mean(mean, s[i]) <= Mean(mean, s[j])
      /\ \A p \in S : Mean(mean, p) \in Nat
  BY RankingSorts
<1>2. n \in Nat /\ IsFiniteSet(S)
  BY RowsAre, FS_CardinalityType
<1>3. MaxMean(mean) = Max(V)
  BY DEF MaxMean
<1> HIDE DEF S, s, n
<1>4. V \subseteq Int /\ V \subseteq Nat
  BY <1>1
<1>5. CASE n = 0
  <2>1. S = {}
    <3>1. Cardinality(S) = 0
      BY <1>5 DEF n
    <3> QED BY <1>2, <3>1, FS_EmptySet
  <2>2. V = {0}
    BY <1>1, <2>1
  <2>3. 0 \in V /\ \A x \in V : x <= 0
    BY <2>2
  <2> HIDE DEF V
  <2>4. Max(V) = 0
    BY <1>4, <2>3, MaxIs
  <2> QED BY <1>2, <1>3, <1>5, <2>1, <2>4 DEF S, n
<1>6. CASE n # 0
  <2> DEFINE m == Mean(mean, s[n])
  <2>1. n \in DOMAIN s /\ n \in Int /\ \A i \in DOMAIN s : i \in Int /\ i <= n
    BY <1>1, <1>2, <1>6
  <2>2. s[n] \in S /\ m \in Nat /\ m \in V
    BY <1>1, <2>1
  <2>3. \A p \in S : Mean(mean, p) <= m
    <3> TAKE p \in S
    <3>1. PICK i \in DOMAIN s : s[i] = p
      BY <1>1 DEF Range
    <3>2. i = n \/ i < n
      BY <2>1
    <3>3. Mean(mean, p) \in Nat
      BY <1>1
    <3> QED BY <1>1, <2>1, <2>2, <3>1, <3>2, <3>3
  <2>4. \A x \in V : x <= m
    BY <1>1, <2>2, <2>3
  <2> HIDE DEF V, m
  <2>5. Max(V) = m
    BY <1>4, <2>2, <2>4, MaxIs
  <2> QED BY <1>2, <1>3, <2>2, <2>3, <2>5 DEF S, n, m, s
<1> QED BY <1>5, <1>6

(* The larger of two. *)
LEMMA LargerOf ==
  ASSUME NEW a \in Int, NEW b \in Int
  PROVE  Max({a, b}) \in Int /\ Max({a, b}) = IF a <= b THEN b ELSE a
<1>1. {a, b} \subseteq Int /\ a \in {a, b} /\ b \in {a, b}
  OBVIOUS
<1>2. CASE a <= b
  <2>1. \A x \in {a, b} : x <= b
    BY <1>2
  <2> QED BY <1>1, <1>2, <2>1, MaxIs
<1>3. CASE ~ (a <= b)
  <2>1. \A x \in {a, b} : x <= a
    BY <1>3
  <2> QED BY <1>1, <1>3, <2>1, MaxIs
<1> QED BY <1>2, <1>3

(* A larger error has no shorter a bar, and the largest the whole width. *)
LEMMA BarsGrow ==
  ASSUME NEW mean, Figured(mean)
  PROVE  /\ \A p, q \in MethodsInTable(mean) :
              Mean(mean, p) <= Mean(mean, q) => Bar(mean, p) <= Bar(mean, q)
         /\ \A p \in MethodsInTable(mean) :
              Mean(mean, p) = MaxMean(mean) /\ MaxMean(mean) > 0 => Bar(mean, p) = 100
<1> DEFINE S == MethodsInTable(mean)
           M == MaxMean(mean)
           e(p) == Mean(mean, p)
           w(p) == (e(p) * 100) \div M
<1>1. M \in Nat /\ \A p \in S : e(p) \in Nat
  BY LastIsLongest, RankingSorts
<1>2. \A p \in S : Bar(mean, p) = IF M = 0 THEN 2 ELSE Max({w(p), 2})
  BY DEF Bar
<1> HIDE DEF S, M, e
<1>3. CASE M = 0
  <2>1. \A p \in S : Bar(mean, p) = 2
    BY <1>2, <1>3
  <2> QED BY <1>3, <2>1 DEF S, M, e
<1>4. CASE M # 0
  <2>1. M \in Nat \ {0} /\ \A p \in S : e(p) * 100 \in Int
    BY <1>1, <1>4
  <2>2. \A p \in S : w(p) \in Int
    BY <2>1, Quotient
  <2>3. \A p, q \in S : e(p) <= e(q) => w(p) <= w(q)
    <3> SUFFICES ASSUME NEW p \in S, NEW q \in S, e(p) <= e(q) PROVE w(p) <= w(q)
      OBVIOUS
    <3>1. e(p) * 100 <= e(q) * 100
      BY <1>1
    <3> QED BY <2>1, <3>1, QuotientGrows
  <2>4. \A p \in S : e(p) = M => w(p) = 100
    BY <2>1, AllOfIt
  <2> HIDE DEF w
  <2>5. \A p \in S : Bar(mean, p) = IF w(p) <= 2 THEN 2 ELSE w(p)
    <3> TAKE p \in S
    <3>1. w(p) \in Int /\ Bar(mean, p) = Max({w(p), 2})
      BY <1>2, <1>4, <2>2
    <3>2. 2 \in Int
      OBVIOUS
    <3>3. Max({w(p), 2}) = IF w(p) <= 2 THEN 2 ELSE w(p)
      BY <3>1, <3>2, LargerOf
    <3> QED BY <3>1, <3>3
  <2>6. \A p, q \in S : e(p) <= e(q) => Bar(mean, p) <= Bar(mean, q)
    BY <2>2, <2>3, <2>5
  <2>7. \A p \in S : e(p) = M => Bar(mean, p) = 100
    BY <2>4, <2>5
  <2> QED BY <2>6, <2>7 DEF S, M, e
<1> QED BY <1>3, <1>4

(* What the ranking says is true of the comparison. *)
LEMMA RankingIsTrue ==
  ASSUME NEW mean, Figured(mean)
  PROVE  RankingOK(mean)
<1> DEFINE S == MethodsInTable(mean)
           s == Ranked(mean)
           bars == Bars(mean)
           n == Cardinality(S)
<1>1. /\ s \in [1 .. n -> S] /\ DOMAIN s = 1 .. n /\ Range(s) = S
      /\ \A i, j \in DOMAIN s : i < j => s[i] # s[j] /\ Mean(mean, s[i]) <= Mean(mean, s[j])
  BY RankingSorts
<1>2. S = {p \in 1 .. 9 : Methods[p] \in DOMAIN mean}
  BY RowsAre
<1>3. \A i \in 1 .. n : bars[i] = Bar(mean, s[i])
  BY <1>1 DEF Bars
<1>4. n \in Nat /\ (n # 0 => Mean(mean, s[n]) = MaxMean(mean))
  BY LastIsLongest
<1>5. /\ \A p, q \in S : Mean(mean, p) <= Mean(mean, q) => Bar(mean, p) <= Bar(mean, q)
      /\ \A p \in S : Mean(mean, p) = MaxMean(mean) /\ MaxMean(mean) > 0 => Bar(mean, p) = 100
  BY BarsGrow
<1> HIDE DEF S, s, bars, n
<1>6. {Methods[p] : p \in Range(s)} = Known \cap DOMAIN mean
  BY <1>1, <1>2, MethodNames
<1>7. \A i, j \in DOMAIN s : i < j => /\ s[i] # s[j]
                                      /\ Mean(mean, s[i]) <= Mean(mean, s[j])
                                      /\ bars[i] <= bars[j]
  <2> SUFFICES ASSUME NEW i \in 1 .. n, NEW j \in 1 .. n, i < j PROVE bars[i] <= bars[j]
    BY <1>1
  <2>1. s[i] \in S /\ s[j] \in S /\ Mean(mean, s[i]) <= Mean(mean, s[j])
    BY <1>1
  <2> QED BY <1>3, <1>5, <2>1
<1>8. s # << >> => /\ Mean(mean, s[Len(s)]) = MaxMean(mean)
                   /\ MaxMean(mean) > 0 => bars[Len(s)] = 100
  <2>1. Len(s) = n
    BY <1>1, <1>4
  <2>2. CASE n = 0
    BY <1>1, <2>2
  <2>3. CASE n # 0
    <3>1. n \in 1 .. n
      BY <1>4, <2>3
    <3>2. s[n] \in S
      BY <1>1, <3>1
    <3> QED BY <1>3, <1>4, <1>5, <2>1, <2>3, <3>1, <3>2
  <2> QED BY <2>2, <2>3
<1> QED BY <1>6, <1>7, <1>8 DEF RankingOK, s, bars

(* The tables list what the ranking does: each method in the group it is in, and the one
   used marked alike. *)
LEMMA TablesAgree ==
  ASSUME NEW run, Figured(run.mean)
  PROVE  TablesOK(run)
<1> DEFINE mean == run.mean
           S == MethodsInTable(mean)
           shown == Range(Ranked(mean))
           rec(p) == [method |-> Methods[p], served |-> Methods[p] = run.served]
           rows == UNION MethodTable(run)
<1>1. shown = S
  BY RankingSorts
<1>2. S = UNION ComparisonView(mean)
  BY DEF MethodsInTable
<1>3. MethodTable(run) = {{rec(p) : p \in group} : group \in ComparisonView(mean)}
  BY DEF MethodTable
<1>4. rows = {rec(p) : p \in S}
  <2> HIDE DEF rec, mean, S
  <2> QED BY <1>2, <1>3
<1>5. {row.method : row \in rows} = {Methods[p] : p \in shown}
  <2>1. \A p \in S : rec(p).method = Methods[p]
    OBVIOUS
  <2> HIDE DEF rec, rows, S, shown
  <2> QED BY <1>1, <1>4, <2>1
<1>6. \A a, b \in ComparisonView(mean) : a = b \/ a \cap b = {}
  <2>1. \A a \in ComparisonView(mean) : \E group \in Range(Groups) : a = GroupRows(mean, group)
    BY DEF ComparisonView
  <2>2. \A group \in Range(Groups) : GroupRows(mean, group) \subseteq group
    BY DEF GroupRows
  <2>3. \A group, other \in Range(Groups) : group = other \/ group \cap other = {}
    <3>1. Range(Groups) = {1 .. 4, 5 .. 7, 8 .. 9}
      BY GroupsAre
    <3>2. (1 .. 4) \cap (5 .. 7) = {} /\ (1 .. 4) \cap (8 .. 9) = {} /\ (5 .. 7) \cap (8 .. 9) = {}
      OBVIOUS
    <3> DEFINE A == 1 .. 4
               B == 5 .. 7
               C == 8 .. 9
    <3> HIDE DEF A, B, C
    <3>3. Range(Groups) = {A, B, C} /\ A \cap B = {} /\ A \cap C = {} /\ B \cap C = {}
      BY <3>1, <3>2 DEF A, B, C
    <3>4. B \cap A = {} /\ C \cap A = {} /\ C \cap B = {}
      BY <3>3
    <3> QED BY ONLY <3>3, <3>4
  <2> QED BY <2>1, <2>2, <2>3
<1>7. {row.method : row \in {r \in rows : r.served}} = {Methods[p] : p \in {q \in shown : Marks(run, q)[1]}}
  <2>1. \A p \in S : rec(p).method = Methods[p] /\ (rec(p).served <=> Methods[p] = run.served)
    OBVIOUS
  <2>2. \A p \in S : Marks(run, p)[1] <=> Methods[p] = run.served
    BY DEF Marks
  <2>3. {q \in shown : Marks(run, q)[1]} = {q \in S : Methods[q] = run.served}
    BY <1>1, <2>2
  <2> HIDE DEF rec, rows, S, shown
  <2>4. {row.method : row \in {r \in rows : r.served}} = {Methods[p] : p \in {q \in S : Methods[q] = run.served}}
    BY <1>4, <2>1
  <2> QED BY <2>3, <2>4
<1>8. WeekColumns(run) \subseteq shown
  BY <1>1 DEF WeekColumns
<1>9. Evaluation(run).table # {} => Evaluation(run).basis
  <2>1. Evaluation(run).table = MethodTable(run) /\ (Evaluation(run).basis <=> DOMAIN mean # {})
    BY DEF Evaluation
  <2>2. MethodTable(run) # {} => \E group \in ComparisonView(mean) : TRUE
    BY <1>3
  <2>3. \A group \in ComparisonView(mean) : \E p \in group : Methods[p] \in DOMAIN mean
    BY DEF ComparisonView, GroupRows
  <2> HIDE DEF mean
  <2> QED BY <2>1, <2>2, <2>3
<1> QED BY <1>5, <1>6, <1>7, <1>8, <1>9 DEF TablesOK

-----------------------------------------------------------------------------
(* The days. *)

(* The first few of a set of days, by the number before each, are not more than asked for. *)
LEMMA FirstFew ==
  ASSUME NEW C, C \subseteq Int, IsFiniteSet(C), NEW h \in Nat \ {0},
         NEW D, D = {d \in C : Cardinality({e \in C : e < d}) < h}
  PROVE  IsFiniteSet(D) /\ Cardinality(D) \in Nat /\ Cardinality(D) <= h
<1> DEFINE Earlier(d) == {e \in C : e < d}
           rank == [d \in D |-> Cardinality(Earlier(d))]
<1>1. IsFiniteSet(D) /\ Cardinality(D) \in Nat
  <2>1. D \in SUBSET C
    OBVIOUS
  <2> QED BY <2>1, FS_Subset, FS_CardinalityType
<1>2. ASSUME NEW d \in C PROVE IsFiniteSet(Earlier(d)) /\ Cardinality(Earlier(d)) \in Nat
  <2>1. Earlier(d) \in SUBSET C
    OBVIOUS
  <2> HIDE DEF Earlier
  <2> QED BY <2>1, FS_Subset, FS_CardinalityType
<1>3. ASSUME NEW d \in C, NEW e \in C, d < e PROVE Cardinality(Earlier(d)) < Cardinality(Earlier(e))
  <2>0. d < e /\ ~ (d < d) /\ \A x \in C : x < d => x < e
    BY <1>3
  <2>1. d \in Earlier(e) /\ d \notin Earlier(d)
    BY ONLY <2>0, d \in C
  <2>2. Earlier(d) \subseteq Earlier(e)
    BY ONLY <2>0
  <2>3. Earlier(d) \in SUBSET (Earlier(e) \ {d})
    <3> HIDE DEF Earlier
    <3> QED BY <2>1, <2>2
  <2> HIDE DEF Earlier
  <2>4. IsFiniteSet(Earlier(e) \ {d}) /\ Cardinality(Earlier(e) \ {d}) = Cardinality(Earlier(e)) - 1
    BY <1>2, <2>1, FS_RemoveElement
  <2>5. Cardinality(Earlier(d)) <= Cardinality(Earlier(e) \ {d})
    BY <2>3, <2>4, FS_Subset
  <2> QED BY <1>2, <2>4, <2>5
<1> SUFFICES ASSUME h < Cardinality(D) PROVE FALSE
  BY <1>1
<1>4. IsFiniteSet(0 .. h - 1) /\ Cardinality(0 .. h - 1) = h
  <2>1. 0 \in Int /\ h - 1 \in Int /\ h > 0
    OBVIOUS
  <2> QED BY <2>1, FS_Interval
<1> DEFINE T == 0 .. h - 1
<1>5. rank \in [D -> T]
  <2>1. \A d \in D : d \in C /\ Cardinality(Earlier(d)) < h
    OBVIOUS
  <2>2. \A d \in D : Cardinality(Earlier(d)) \in Nat
    BY <1>2, <2>1
  <2> HIDE DEF Earlier
  <2>3. \A d \in D : Cardinality(Earlier(d)) \in T
    BY <2>1, <2>2
  <2> HIDE DEF T
  <2> QED BY <2>3
<1>6. \A d \in D : d \in C /\ d \in Int /\ rank[d] = Cardinality(Earlier(d))
  OBVIOUS
<1> HIDE DEF rank, Earlier
<1>7. PICK d \in D, e \in D : d # e /\ rank[d] = rank[e]
  <2>1. IsFiniteSet(T) /\ Cardinality(T) < Cardinality(D)
    BY <1>4
  <2> HIDE DEF T
  <2>2. \E x, y \in D : x # y /\ rank[x] = rank[y]
    BY ONLY <1>1, <1>5, <2>1, FS_PigeonHole
  <2> QED BY ONLY <2>2
<1>8. d < e \/ e < d
  BY <1>6, <1>7
<1>9. CASE d < e
  <2>1. Cardinality(Earlier(d)) < Cardinality(Earlier(e))
    BY <1>3, <1>6, <1>9
  <2>2. Cardinality(Earlier(d)) = Cardinality(Earlier(e)) /\ Cardinality(Earlier(d)) \in Nat
    BY <1>2, <1>6, <1>7
  <2> QED BY <2>1, <2>2
<1>10. CASE e < d
  <2>1. Cardinality(Earlier(e)) < Cardinality(Earlier(d))
    BY <1>3, <1>6, <1>10
  <2>2. Cardinality(Earlier(d)) = Cardinality(Earlier(e)) /\ Cardinality(Earlier(d)) \in Nat
    BY <1>2, <1>6, <1>7
  <2> QED BY <2>1, <2>2
<1> QED BY <1>8, <1>9, <1>10

(* The run loaded is one that may be saved, and the horizon one that may be chosen. *)
ReportInv ==
  /\ saved \in SavedRuns \cup {NoRun("none"), NoRun("unreachable")}
  /\ horizon \in Horizons

(* What a run that may be saved has. *)
LEMMA RunSaved ==
  ASSUME ReportInv
  PROVE  /\ saved.found \in {"unreachable", "none", "run"}
         /\ Figured(saved.mean)
         /\ DOMAIN saved.days \subseteq Int /\ IsFiniteSet(DOMAIN saved.days)
         /\ \A d \in DOMAIN saved.days : saved.days[d] \in {NoNumber, 1, 2}
<1>1. DayCount \in Nat /\ Errors \subseteq Nat
  BY ReportAssumption
<1>2. \A mean \in Comparisons : Figured(mean)
  BY <1>1 DEF Comparisons, Figured
<1>3. Figured(<< >>) /\ DOMAIN << >> = {} /\ IsFiniteSet({})
  BY FS_EmptySet DEF Figured
<1>4. \A days \in Weeks : /\ DOMAIN days \subseteq Int /\ IsFiniteSet(DOMAIN days)
                          /\ \A d \in DOMAIN days : days[d] \in {NoNumber, 1, 2}
  <2> TAKE days \in Weeks
  <2>1. PICK start \in {0, 1} : days \in [start .. start + DayCount - 1 -> {NoNumber, 1, 2}]
    BY DEF Weeks
  <2>2. start \in Int /\ start + DayCount - 1 \in Int
    BY <1>1
  <2>3. IsFiniteSet(start .. start + DayCount - 1)
    BY <2>2, FS_Interval
  <2> QED BY <2>1, <2>2, <2>3
<1>5. CASE saved \in {NoRun("none"), NoRun("unreachable")}
  <2>1. saved.found \in {"unreachable", "none"} /\ saved.mean = << >> /\ saved.days = << >>
    BY <1>5 DEF NoRun
  <2> QED BY <1>3, <2>1
<1>6. CASE \E mean \in Comparisons, served \in Compared, weeks \in BOOLEAN :
             saved = [found |-> "run", mean |-> mean, served |-> served, weeks |-> weeks, days |-> << >>]
  <2>1. saved.found = "run" /\ saved.mean \in Comparisons /\ saved.days = << >>
    BY <1>6
  <2> QED BY <1>2, <1>3, <2>1
<1>7. CASE \E days \in Weeks :
             saved = [found |-> "run", mean |-> << >>, served |-> CHOOSE m \in Compared : TRUE,
                      weeks |-> FALSE, days |-> days]
  <2>1. saved.found = "run" /\ saved.mean = << >> /\ saved.days \in Weeks
    BY <1>7
  <2> QED BY <1>3, <1>4, <2>1
<1> QED BY <1>5, <1>6, <1>7 DEF ReportInv, SavedRuns

(* The chart's days are as many as chosen, and the busiest has the most of them. *)
LEMMA DaysAreTrue == ReportInv => DaysOK
<1> SUFFICES ASSUME ReportInv PROVE DaysOK
  OBVIOUS
<1> DEFINE coming == {d \in DOMAIN saved.days : d >= 1}
           D == DaysShown
           N == Numbered
           values == {saved.days[d] : d \in N}
           g == [d \in D |-> Customers(d)]
<1>1. coming \subseteq Int /\ IsFiniteSet(coming) /\ coming \subseteq DOMAIN saved.days
  <2>1. coming \in SUBSET DOMAIN saved.days
    OBVIOUS
  <2>2. DOMAIN saved.days \subseteq Int /\ IsFiniteSet(DOMAIN saved.days)
    BY RunSaved
  <2> HIDE DEF coming
  <2> QED BY <2>1, <2>2, FS_Subset
<1>2. horizon \in Nat \ {0}
  BY ReportAssumption DEF ReportInv
<1>3. D = {d \in coming : Cardinality({e \in coming : e < d}) < horizon}
  BY DEF DaysShown
<1>4. D \subseteq coming /\ \A d \in D : d \in DOMAIN saved.days /\ d \in Int /\ d >= 1
  BY <1>1, <1>3
<1>5. \A d \in D : saved.days[d] \in {NoNumber, 1, 2}
  BY <1>4, RunSaved
<1> HIDE DEF coming, D
<1>6. IsFiniteSet(D) /\ Cardinality(D) \in Nat /\ Cardinality(D) <= horizon
  BY <1>1, <1>2, <1>3, FirstFew
<1>7. LabelEvery(Cardinality(D)) \in {1, 2, 5}
  BY <1>6 DEF LabelEvery
<1>8. N = {d \in D : saved.days[d] # NoNumber} /\ \A d \in D : Customers(d) = IF saved.days[d] = NoNumber THEN 0 ELSE saved.days[d]
  BY DEF Numbered, Customers, D
<1>9. g \in [D -> Nat]
  BY <1>5, <1>8
<1>10. PICK h : IsSum(h, g, D)
  <2> HIDE DEF g
  <2> QED BY <1>6, <1>9, SumExists
<1>11. TotalCustomers = h[D]
  <2>1. TotalCustomers = SumOf(g)
    BY DEF TotalCustomers, D
  <2> HIDE DEF g
  <2> QED BY <1>6, <1>9, <1>10, <2>1, SumOfIsSum
<1>12. N \in SUBSET D /\ IsFiniteSet(N)
  <2>1. N \in SUBSET D
    BY <1>8
  <2> QED BY <1>6, <2>1, FS_Subset
<1> HIDE DEF N
<1>13. CASE N = {}
  <2>1. Busiest = 0
    BY <1>13 DEF Busiest, N
  <2>2. \A d \in D : g[d] = 0
    BY <1>8, <1>13
  <2> HIDE DEF g
  <2>3. h[D] = 0
    BY <1>6, <1>10, <2>2, SumOfNothing
  <2> QED BY <1>6, <1>7, <1>11, <2>1, <2>3 DEF DaysOK, D
<1>14. CASE N # {}
  <2> DEFINE top == {d \in N : saved.days[d] = Highest}
  <2>1. values \subseteq {1, 2} /\ values # {} /\ \A d \in N : saved.days[d] \in values
    BY <1>5, <1>8, <1>14
  <2>2. values \subseteq Int /\ IsFiniteSet(values)
    <3>1. 1 \in Int /\ 2 \in Int /\ {1, 2} = 1 .. 2
      OBVIOUS
    <3>2. IsFiniteSet({1, 2})
      BY <3>1, FS_Interval
    <3>3. values \in SUBSET {1, 2}
      BY <2>1
    <3> HIDE DEF values
    <3>4. IsFiniteSet(values)
      BY <3>2, <3>3, FS_Subset
    <3> QED BY <2>1, <3>4
  <2>3. Highest = Max(values)
    BY DEF Highest, N
  <2>4. Highest \in values /\ \A x \in values : x <= Highest
    <3> HIDE DEF values
    <3> QED BY <2>1, <2>2, <2>3, MaxOfFinite
  <2>5. top # {}
    BY <2>4
  <2>6. top \subseteq Int /\ IsFiniteSet(top)
    <3>1. top \in SUBSET N
      OBVIOUS
    <3> HIDE DEF top
    <3> QED BY <1>4, <1>12, <3>1, FS_Subset
  <2>7. Busiest = Min(top)
    BY <1>14 DEF Busiest, N
  <2>8. Busiest \in top
    <3> HIDE DEF top
    <3> QED BY <2>5, <2>6, <2>7, MinOfFinite
  <2> DEFINE b == Busiest
  <2>9. b \in D /\ b \in N /\ saved.days[b] = Highest /\ b # 0
    BY <1>4, <1>12, <2>8
  <2> HIDE DEF b, top, values
  <2>10. Customers(b) = Highest /\ Highest \in {1, 2}
    BY <1>8, <2>1, <2>4, <2>9
  <2>11. \A d \in D : Customers(d) <= Customers(b)
    <3> TAKE d \in D
    <3>1. CASE saved.days[d] = NoNumber
      BY <1>8, <2>10, <3>1
    <3>2. CASE saved.days[d] # NoNumber
      <4>1. Customers(d) = saved.days[d] /\ saved.days[d] \in values
        BY <1>8, <2>1, <3>2
      <4> QED BY <2>4, <2>10, <4>1
    <3> QED BY <3>1, <3>2
  <2>12. TotalCustomers >= Customers(b)
    <3>1. h[{b}] <= h[D] /\ D \in SUBSET D /\ {b} \in SUBSET D
      <4>1. D \in SUBSET D /\ {b} \in SUBSET D
        BY <2>9
      <4> HIDE DEF g
      <4> QED BY <1>6, <1>9, <1>10, <4>1, SumOfMore
    <3>2. h[{b}] = g[b] + h[{b} \ {b}] /\ h[{}] = 0
      BY <1>10, <3>1 DEF IsSum
    <3>3. {b} \ {b} = {}
      OBVIOUS
    <3>4. g[b] = Customers(b) /\ g[b] \in Nat /\ h[D] \in Nat
      BY <1>9, <1>10, <2>9 DEF IsSum
    <3> QED BY <1>11, <3>1, <3>2, <3>3, <3>4
  <2> QED BY <1>6, <1>7, <2>9, <2>11, <2>12 DEF DaysOK, D, b
<1> QED BY <1>13, <1>14

(* Report: a report is the owner's, and true of the run. *)
LEMMA ReportTypes == ReportSpec => []ReportTypeOK
<1>1. ReportInit => ReportInv
  <2> SUFFICES ASSUME ReportInit PROVE ReportInv
    OBVIOUS
  <2>1. Horizons \subseteq Int /\ IsFiniteSet(Horizons) /\ Horizons # {}
    BY ReportAssumption
  <2>2. Min(Horizons) \in Horizons
    BY <2>1, MinOfFinite
  <2> QED BY <2>2 DEF ReportInit, ReportInv
<1>2. ReportInv /\ [ReportNext]_reportVars => ReportInv'
  BY DEF ReportInv, ReportNext, PickHorizon, reportVars, SavedRuns, NoRun, Weeks, Comparisons
<1>3. ReportInv => ReportTypeOK
  <2> SUFFICES ASSUME ReportInv PROVE ReportTypeOK
    OBVIOUS
  <2>1. saved.found \in {"unreachable", "none", "run"} /\ Figured(saved.mean) /\ horizon \in Horizons
    BY RunSaved DEF ReportInv
  <2>2. RankingOK(saved.mean) /\ TablesOK(saved) /\ DaysOK
    BY <2>1, RankingIsTrue, TablesAgree, DaysAreTrue
  <2>3. Screen \in {"weeks", "ranking"} => isOwner /\ Range(Ranked(saved.mean)) # {}
    <3> SUFFICES ASSUME Screen \in {"weeks", "ranking"} PROVE isOwner /\ Range(Ranked(saved.mean)) # {}
      OBVIOUS
    <3>1. isOwner /\ ComparisonView(saved.mean) # {}
      BY DEF Screen
    <3>2. MethodsInTable(saved.mean) # {}
      BY <3>1 DEF MethodsInTable, ComparisonView
    <3>3. Range(Ranked(saved.mean)) = MethodsInTable(saved.mean)
      BY <2>1, RankingSorts
    <3> QED BY <3>1, <3>2, <3>3
  <2> QED BY <2>1, <2>2, <2>3 DEF ReportTypeOK
<1> QED BY <1>1, <1>2, <1>3, PTL DEF ReportSpec

-----------------------------------------------------------------------------
(* PhoneParts: one part steps, the others stand still, so each part keeps what it
   promises by itself. *)

(* Every part starts as it does by itself. *)
LEMMA PartsStart ==
  PhonePartsInit => /\ AccessInit /\ QrInit /\ PcInit /\ PagesInit /\ DialogInit /\ CheckoutInit
                    /\ LogInit /\ DevicesInit /\ QrPageInit /\ DeckInit /\ ReportInit
BY DEF PhonePartsInit, Starts

(* Every step is one of each part, or leaves that part alone. *)
LEMMA PartsStep ==
  [PhonePartsNext]_vars =>
    /\ [AccessNext]_accessVars /\ [QrNext]_qrVars /\ [PcNext]_pcVars /\ [PagesNext]_pageVars
    /\ [DialogNext]_dialogVars /\ [CheckoutNext]_checkoutVars /\ [LogNext]_logVars
    /\ [DevicesNext]_devicesVars /\ [QrPageNext]_qrPageVars /\ [DeckNext]_deckVars
    /\ [ReportNext]_reportVars
<1> SUFFICES ASSUME [PhonePartsNext]_vars
             PROVE  /\ [AccessNext]_accessVars /\ [QrNext]_qrVars /\ [PcNext]_pcVars
                    /\ [PagesNext]_pageVars /\ [DialogNext]_dialogVars /\ [CheckoutNext]_checkoutVars
                    /\ [LogNext]_logVars /\ [DevicesNext]_devicesVars /\ [QrPageNext]_qrPageVars
                    /\ [DeckNext]_deckVars /\ [ReportNext]_reportVars
  OBVIOUS
<1>1. CASE UNCHANGED vars
  BY <1>1 DEF vars
<1>2. CASE PhonePartsNext
  BY <1>2 DEF PhonePartsNext, Step, StandsStill
<1> QED BY <1>1, <1>2

(* What each part promises holds of the phone as a whole. *)
THEOREM PhonePartsKeep ==
  PhonePartsSpec =>
    /\ [](PosOpens /\ PaidShownIsPaid /\ OneSalePerGesture /\ ListsAtRest /\ GuessesAreCapped)
    /\ HashIsTheImages
<1>1. PhonePartsSpec => AccessSpec /\ QrSpec /\ PagesSpec /\ DialogSpec /\ CheckoutSpec /\ DevicesSpec /\ QrPageSpec
  BY PartsStart, PartsStep, PTL
     DEF PhonePartsSpec, AccessSpec, QrSpec, PagesSpec, DialogSpec, CheckoutSpec, DevicesSpec, QrPageSpec
<1>2. DevicesAtRest /\ QrPageAtRest => ListsAtRest
  BY DEF ListsAtRest
<1> QED BY <1>1, <1>2, HashesFit, PagesOpen, PaidIsTheServers, OneGestureOneSale, ListIsTrue, AlbumIsTrue,
       GuessesStayCapped, PTL

(* Every part is of its type all along, and the lists, the chart and the ranking the
   owner reads are true of what they are made from: the pages of the log, one after the
   other, are the whole log, and the report is true of the run it shows. *)
THEOREM PhonePartTypes == PhonePartsSpec => []PhonePartsTypeOK
<1> DEFINE PartNamed == part \in PhonePartNames
<1>1. PhonePartsSpec => /\ AccessSpec /\ QrSpec /\ PcSpec /\ PagesSpec /\ DialogSpec /\ CheckoutSpec
                        /\ LogSpec /\ DevicesSpec /\ QrPageSpec /\ DeckSpec /\ ReportSpec
  BY PartsStart, PartsStep, PTL
     DEF PhonePartsSpec, AccessSpec, QrSpec, PcSpec, PagesSpec, DialogSpec, CheckoutSpec,
         LogSpec, DevicesSpec, QrPageSpec, DeckSpec, ReportSpec
<1>2. PhonePartsInit => PartNamed
  BY DEF PhonePartsInit
<1>3. PartNamed /\ [PhonePartsNext]_vars => PartNamed'
  BY DEF PhonePartsNext, Step, vars
<1>4. AccessSpec => []AccessTypeOK
  <2>1. AccessInv => AccessTypeOK
    BY DEF AccessInv
  <2> QED BY <2>1, AccessInvInit, AccessInvStep, PTL DEF AccessSpec
<1>5. CheckoutSpec => []CheckoutTypeOK
  <2>1. CheckoutInv => CheckoutTypeOK
    BY DEF CheckoutInv
  <2> QED BY <2>1, CheckoutInvariant, PTL
<1>6. DialogSpec => []DialogTypeOK
  <2>1. DialogInv => DialogTypeOK
    BY DEF DialogInv
  <2> QED BY <2>1, DialogInvariant, PTL
<1>7. PhonePartsSpec => []PartNamed
  <2> HIDE DEF PartNamed
  <2> QED BY <1>2, <1>3, PTL DEF PhonePartsSpec
<1>8. /\ PartNamed /\ AccessTypeOK /\ QrTypeOK /\ PcTypeOK /\ PagesTypeOK /\ DialogTypeOK /\ CheckoutTypeOK
      /\ LogTypeOK /\ DevicesTypeOK /\ QrPageTypeOK /\ DeckTypeOK /\ ReportTypeOK
      => PhonePartsTypeOK
  BY DEF PhonePartsTypeOK
<1> HIDE DEF PartNamed
<1> QED BY <1>1, <1>4, <1>5, <1>6, <1>7, <1>8, QrTypes, PcTypes, PagesTypes, LogTypes, DevicesTypes,
       QrPageTypes, DeckTypes, ReportTypes, PTL
=============================================================================
