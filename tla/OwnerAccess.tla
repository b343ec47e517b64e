---------------------------- MODULE OwnerAccess ----------------------------
(***************************************************************************)
(* The PIN doors: POST owner/unlock and POST devices/approve, each with a  *)
(* limiter of its own (lib/pin-attempts.ts), and the owner sessions the    *)
(* first one opens.  A request consults the limiter, awaits its body and   *)
(* only then has its PIN looked at, so requests overlap in between.  Times *)
(* are kept as ages: a tick is a fraction of the 15-minute window.         *)
(***************************************************************************)
EXTENDS Naturals, FiniteSets, FiniteSetsExt

CONSTANTS
  Clients,        \* pinClientKey
  PerClient,      \* limits.perClient
  ShopWide,       \* limits.shopWide
  Window,         \* limits.windowMs, in ticks
  LockTime,       \* limits.lockMs, in ticks
  SessionTime,    \* OWNER_SESSION_MS, in ticks
  Requests,       \* bound: requests under way at once
  NoClient

VARIABLES
  door,           \* "unlock" or "approve": whose limiter this is
  failures,       \* client -> age -> wrong PINs on record
  lockFor,        \* client -> ticks until lockedUntil
  shopFailures,   \* age -> wrong PINs on record
  shopLockFor,
  request,        \* request -> the client whose body is awaited, or NoClient
  session,        \* client -> ticks its owner cookie is still good for
  wrong           \* client -> age -> wrong PINs looked at (history)

accessVars == <<door, failures, lockFor, shopFailures, shopLockFor, request, session, wrong>>

ASSUME AccessAssumption ==
  /\ {PerClient, ShopWide, Window, LockTime, SessionTime} \subseteq Nat \ {0}
  /\ Window <= LockTime          \* both are 15 minutes
  /\ NoClient \notin Clients /\ IsFiniteSet(Requests)

Ages == 0 .. Window - 1
Nothing == [a \in Ages |-> 0]

Count(record) == MapThenSumSet(LAMBDA a : record[a], Ages)

(* recent(): a tick later the oldest ones have left the window. *)
Older(record) == [a \in Ages |-> IF a = 0 THEN 0 ELSE record[a - 1]]

OneMore(record) == [record EXCEPT ![0] = @ + 1]

CountDown(n) == IF n = 0 THEN 0 ELSE n - 1

AccessTypeOK ==
  /\ door \in {"unlock", "approve"}
  /\ failures \in [Clients -> [Ages -> 0 .. PerClient - 1]]
  /\ lockFor \in [Clients -> 0 .. LockTime]
  /\ shopFailures \in [Ages -> 0 .. ShopWide - 1]
  /\ shopLockFor \in 0 .. LockTime
  /\ request \in [Requests -> Clients \cup {NoClient}]
  /\ session \in [Clients -> 0 .. SessionTime]
  /\ wrong \in [Clients -> [Ages -> Nat]]

AccessInit ==
  /\ door \in {"unlock", "approve"}
  /\ failures = [c \in Clients |-> Nothing]
  /\ lockFor = [c \in Clients |-> 0]
  /\ shopFailures = Nothing
  /\ shopLockFor = 0
  /\ request = [r \in Requests |-> NoClient]
  /\ session = [c \in Clients |-> 0]
  /\ wrong = [c \in Clients |-> Nothing]

(* Time passes; every entry older than the window is dropped. *)
PassTime ==
  /\ failures' = [c \in Clients |-> Older(failures[c])]
  /\ lockFor' = [c \in Clients |-> CountDown(lockFor[c])]
  /\ shopFailures' = Older(shopFailures)
  /\ shopLockFor' = CountDown(shopLockFor)
  /\ session' = [c \in Clients |-> CountDown(session[c])]
  /\ wrong' = [c \in Clients |-> Older(wrong[c])]
  /\ UNCHANGED <<door, request>>

RetryAfter(c) == IF lockFor[c] > shopLockFor THEN lockFor[c] ELSE shopLockFor

(* While a lock is on the request is refused and not counted. *)
Ask(r, c) ==
  /\ request[r] = NoClient
  /\ RetryAfter(c) = 0
  /\ request' = [request EXCEPT ![r] = c]
  /\ UNCHANGED <<door, failures, lockFor, shopFailures, shopLockFor, session, wrong>>

(* Mutation of RecordFailure: the recent failures are the ones dropped. *)
RecordFailureAnew(c) ==
  /\ failures' = [failures EXCEPT ![c] = OneMore(Nothing)]
  /\ shopFailures' = OneMore(Nothing)
  /\ UNCHANGED <<lockFor, shopLockFor>>

(* Mutation of RecordFailure: the lock leaves the failures that led to it. *)
RecordFailureKept(c) ==
  LET own == OneMore(failures[c])
      all == OneMore(shopFailures) IN
  /\ failures' = [failures EXCEPT ![c] = own]
  /\ lockFor' = IF Count(own) >= PerClient THEN [lockFor EXCEPT ![c] = LockTime] ELSE lockFor
  /\ shopFailures' = all
  /\ shopLockFor' = IF Count(all) >= ShopWide THEN LockTime ELSE shopLockFor

RecordFailure(c) ==
  LET own == OneMore(failures[c])
      all == OneMore(shopFailures) IN
  /\ IF Count(own) >= PerClient
     THEN failures' = [failures EXCEPT ![c] = Nothing] /\ lockFor' = [lockFor EXCEPT ![c] = LockTime]
     ELSE failures' = [failures EXCEPT ![c] = own] /\ UNCHANGED lockFor
  /\ IF Count(all) >= ShopWide
     THEN shopFailures' = Nothing /\ shopLockFor' = LockTime
     ELSE shopFailures' = all /\ UNCHANGED shopLockFor

(* The map entry of the client is deleted, its lock included. *)
RecordSuccess(c) ==
  /\ failures' = [failures EXCEPT ![c] = Nothing]
  /\ lockFor' = [lockFor EXCEPT ![c] = 0]
  /\ UNCHANGED <<shopFailures, shopLockFor>>

(* The body is not JSON: answered without a look at the PIN. *)
BadBody(r) ==
  /\ request[r] # NoClient
  /\ request' = [request EXCEPT ![r] = NoClient]
  /\ UNCHANGED <<door, failures, lockFor, shopFailures, shopLockFor, session, wrong>>

WrongPin(r) ==
  /\ request[r] # NoClient
  /\ RecordFailure(request[r])
  /\ wrong' = [wrong EXCEPT ![request[r]] = OneMore(@)]
  /\ request' = [request EXCEPT ![r] = NoClient]
  /\ UNCHANGED <<door, session>>

(* The owner PIN, or at the approval door the approval PIN; unlocking sets the
   cookie, approving stores the phone's new secret (ShopServer). *)
RightPin(r) ==
  LET c == request[r] IN
  /\ c # NoClient
  /\ RecordSuccess(c)
  /\ wrong' = [wrong EXCEPT ![c] = Nothing]
  /\ session' = IF door = "unlock" THEN [session EXCEPT ![c] = SessionTime] ELSE session
  /\ request' = [request EXCEPT ![r] = NoClient]
  /\ UNCHANGED door

(* POST owner/lock clears the cookie of this device only. *)
LockDevice(c) ==
  /\ session[c] > 0
  /\ session' = [session EXCEPT ![c] = 0]
  /\ UNCHANGED <<door, failures, lockFor, shopFailures, shopLockFor, request, wrong>>

(* The server restarts: the counts live in memory.  With a new PIN or secret no
   cookie verifies any more. *)
RestartServer ==
  /\ failures' = [c \in Clients |-> Nothing]
  /\ lockFor' = [c \in Clients |-> 0]
  /\ shopFailures' = Nothing
  /\ shopLockFor' = 0
  /\ request' = [r \in Requests |-> NoClient]
  /\ wrong' = [c \in Clients |-> Nothing]
  /\ session' \in {session, [c \in Clients |-> 0]}
  /\ UNCHANGED door

AccessNext ==
  \/ PassTime
  \/ \E r \in Requests :
       \/ \E c \in Clients : Ask(r, c)
       \/ BadBody(r) \/ WrongPin(r) \/ RightPin(r)
  \/ \E c \in Clients : LockDevice(c)
  \/ RestartServer

AccessSpec == AccessInit /\ [][AccessNext]_accessVars

-----------------------------------------------------------------------------
(* "5 wrong PINs lock that client for 15 minutes" (pin-attempts.ts:5), though the
   limiter is asked before the body is awaited and told after it: in any window no
   more wrong PINs of a client are looked at than the limit and the requests that
   were already under way. *)
GuessesAreCapped ==
  \A c \in Clients : Count(wrong[c]) < PerClient + Cardinality(Requests)
=============================================================================
