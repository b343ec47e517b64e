------------------------------ MODULE LocalNet ------------------------------
(***************************************************************************)
(* How phones find the shop PC: the HTTPS gateway with its certificate     *)
(* (https-proxy.mjs) and the mDNS responder in it that answers for         *)
(* ruzzco.local on every network (mdns-responder.mjs).  Both follow the PC *)
(* from Wi-Fi to Wi-Fi.  One socket is modelled; the IPv6 one is the same. *)
(***************************************************************************)
EXTENDS Naturals, Sequences, SequencesExt

CONSTANTS
  Links,          \* network interfaces
  Addresses,      \* private IPv4 addresses they may get
  NoAddress,
  Gap,            \* MULTICAST_GAP_MS, in ticks
  MaxMoves,       \* bound: changes of the networks
  MaxQueue        \* bound: packets waiting on the socket

VARIABLES
  address,        \* os.networkInterfaces(): link -> address, or NoAddress
  gatewayOn,      \* the process runs
  nets,           \* the responder's last look at the networks
  limit,          \* lastMulticast: answer -> ticks until it may be sent again
  sendQueue,      \* packets waiting on the socket
  sending,        \* the first one is being sent
  outgoing,       \* the socket's multicast interface
  certFor,        \* server.cert.pem: the addresses it names
  keyFits,        \* server.key.pem is the key of that certificate
  proxyFor,       \* the certificate the proxy serves
  moves,
  heardLately,    \* history: answer -> ticks for which its last arrival counts
  unanswered,     \* history: a question was left without an answer
  gone,           \* history: a packet was dropped as its network had just gone
  notRenewed      \* history: the certificate could not be renewed

netVars ==
  <<address, gatewayOn, nets, limit, sendQueue, sending, outgoing, certFor, keyFits, proxyFor,
    moves, heardLately, unanswered, gone, notRenewed>>

ASSUME NetAssumption ==
  /\ NoAddress \notin Addresses \cup Links /\ Gap \in Nat \ {0}
  /\ IsFiniteSet(Links)
  /\ {MaxMoves, MaxQueue} \subseteq Nat /\ Cardinality(Links) <= MaxQueue

(* What a question asks for: the address, or whether there is another than IPv4. *)
Kinds == {"A", "NSEC"}
Packet == [link : Links, address : Addresses, kind : Kinds \cup {"query"}]

Loopback == "127.0.0.1"

(* localAddresses. *)
Here == ({Loopback} \cup {address[l] : l \in Links}) \ {NoAddress}

NetTypeOK ==
  /\ address \in [Links -> Addresses \cup {NoAddress}]
  /\ nets \in [Links -> Addresses \cup {NoAddress}]
  /\ limit \in [Packet -> 0 .. Gap] /\ heardLately \in [Packet -> 0 .. Gap]
  /\ Range(sendQueue) \subseteq Packet /\ Len(sendQueue) <= MaxQueue
  /\ outgoing \in Links \cup {NoAddress}
  /\ {certFor, proxyFor} \subseteq SUBSET (Addresses \cup {Loopback})
  /\ moves \in 0 .. MaxMoves
  /\ {gatewayOn, sending, keyFits, unanswered, gone, notRenewed} \subseteq BOOLEAN

Silent == [p \in Packet |-> 0]

NetInit ==
  /\ address \in [Links -> Addresses \cup {NoAddress}]
  /\ \A l, m \in Links : l # m => address[l] # address[m] \/ address[l] = NoAddress
  /\ gatewayOn = FALSE /\ nets = [l \in Links |-> NoAddress]
  /\ limit = Silent /\ heardLately = Silent
  /\ sendQueue = << >> /\ sending = FALSE /\ outgoing = NoAddress
  /\ certFor = {} /\ keyFits = TRUE /\ proxyFor = {}
  /\ moves = 0 /\ unanswered = FALSE /\ gone = FALSE /\ notRenewed = FALSE

(* Another Wi-Fi, a new address, none. *)
NetworkMoves(l, new) ==
  /\ moves < MaxMoves /\ new # address[l]
  /\ new # NoAddress => new \notin Here
  /\ address' = [address EXCEPT ![l] = new]
  /\ moves' = moves + 1
  /\ UNCHANGED <<gatewayOn, nets, limit, sendQueue, sending, outgoing, certFor, keyFits, proxyFor,
                 heardLately, unanswered, gone, notRenewed>>

-----------------------------------------------------------------------------
(* The certificate. *)

(* It names every address of now. *)
Fits == Here \subseteq certFor

(* certificates(): reuse, issue anew for the addresses of now, or fail; the key is
   written before the certificate. *)
Certificates(ok) ==
  \/ Fits /\ ok /\ UNCHANGED <<certFor, keyFits>>
  \/ ~Fits /\ ok /\ certFor' = Here /\ keyFits' = TRUE
  \/ ~Fits /\ ~ok /\ UNCHANGED certFor /\ keyFits' \in {keyFits, FALSE}

(* The packets that ask whether another device has the name. *)
Queries(links) == [i \in DOMAIN SetToSeq(links) |->
                     [link |-> SetToSeq(links)[i], address |-> address[SetToSeq(links)[i]], kind |-> "query"]]

Connected == {l \in Links : address[l] # NoAddress}

(* A key of another certificate stops the proxy at once. *)
StartLocal ==
  /\ ~gatewayOn
  /\ \E ok \in BOOLEAN :
       /\ Certificates(ok)
       /\ gatewayOn' = (ok /\ keyFits')
       /\ proxyFor' = certFor'
       /\ nets' = address
       /\ sendQueue' = IF gatewayOn' THEN Queries(Connected) ELSE << >>
  /\ limit' = Silent /\ sending' = FALSE /\ outgoing' = NoAddress
  /\ heardLately' = Silent
  /\ notRenewed' = FALSE
  /\ UNCHANGED <<address, moves, unanswered, gone>>

StopLocal ==
  /\ gatewayOn
  /\ gatewayOn' = FALSE
  /\ nets' = [l \in Links |-> NoAddress]
  /\ sendQueue' = << >> /\ sending' = FALSE /\ proxyFor' = {}
  /\ limit' = Silent /\ heardLately' = Silent
  /\ UNCHANGED <<address, outgoing, certFor, keyFits, moves, unanswered, gone, notRenewed>>

(* Every five seconds.  A network that was not known renews the certificate and is
   asked for others of the name. *)
FollowNetworks ==
  LET joined == {l \in Connected : nets[l] # address[l]} IN
  /\ gatewayOn /\ nets # address
  /\ nets' = address
  /\ Len(sendQueue) + Len(Queries(joined)) <= MaxQueue
  /\ sendQueue' = sendQueue \o Queries(joined)
  /\ \/ joined = {} /\ UNCHANGED <<certFor, keyFits, proxyFor, notRenewed>>
     \/ \E ok \in BOOLEAN :
          /\ joined # {}
          /\ Certificates(ok)
          /\ proxyFor' = IF ok /\ keyFits' THEN certFor' ELSE proxyFor
          /\ notRenewed' = ~(ok /\ keyFits')
  /\ UNCHANGED <<address, gatewayOn, limit, sending, outgoing, moves, heardLately, unanswered, gone>>

-----------------------------------------------------------------------------
(* The responder. *)

Lower(f) == [p \in Packet |-> IF f[p] = 0 THEN 0 ELSE f[p] - 1]

NetTick ==
  /\ gatewayOn
  /\ limit' = Lower(limit) /\ heardLately' = Lower(heardLately)
  /\ UNCHANGED <<address, gatewayOn, nets, sendQueue, sending, outgoing, certFor, keyFits, proxyFor,
                 moves, unanswered, gone, notRenewed>>

(* Mutation of Limited: one limit for a network, whatever was asked. *)
LimitedPerNetwork(a) == \E k \in Kinds : limit[[a EXCEPT !.kind = k]] > 0

(* Each kind of answer has a limit of its own. *)
Limited(a) == limit[a] > 0

ChosenNow(a) == outgoing

OnTheWay(a) == heardLately[a] > 0 \/ a \in Range(sendQueue)

(* handle: a question from a network the responder knows.  Direct answers (Android's
   one-shot questions, and where every question asks for one) go straight back. *)
Question(l, kind) ==
  LET a == [link |-> l, address |-> nets[l], kind |-> kind] IN
  /\ nets[l] # NoAddress /\ nets[l] = address[l]
  /\ IF Limited(a)
     THEN /\ unanswered' = (unanswered \/ ~OnTheWay(a))
          /\ UNCHANGED <<limit, sendQueue, outgoing>>
     ELSE /\ Len(sendQueue) < MaxQueue
          /\ limit' = [limit EXCEPT ![a] = Gap]
          /\ sendQueue' = Append(sendQueue, a)
          /\ outgoing' = ChosenNow(a)
          /\ UNCHANGED unanswered
  /\ UNCHANGED <<address, gatewayOn, nets, sending, certFor, keyFits, proxyFor, moves, heardLately,
                 gone, notRenewed>>

(* sendOn: one packet at a time chooses its network; the sending ends later. *)
BeginSend ==
  /\ sendQueue # << >> /\ ~sending
  /\ sending' = TRUE
  /\ outgoing' = Head(sendQueue).link
  /\ UNCHANGED <<address, gatewayOn, nets, limit, sendQueue, certFor, keyFits, proxyFor, moves,
                 heardLately, unanswered, gone, notRenewed>>

(* It leaves on the interface of this moment, if the network is still there. *)
Sent ==
  LET a == Head(sendQueue)
      there == address[a.link] = a.address IN
  /\ sending
  /\ sending' = FALSE
  /\ sendQueue' = Tail(sendQueue)
  /\ heardLately' = IF there /\ outgoing = a.link THEN [heardLately EXCEPT ![a] = Gap] ELSE heardLately
  /\ gone' = (gone \/ ~there)
  /\ UNCHANGED <<address, gatewayOn, nets, limit, outgoing, certFor, keyFits, proxyFor, moves,
                 unanswered, notRenewed>>

NetNext ==
  \/ \E l \in Links :
       \/ \E new \in Addresses \cup {NoAddress} : NetworkMoves(l, new)
       \/ \E kind \in Kinds : Question(l, kind)
  \/ StartLocal \/ StopLocal \/ FollowNetworks
  \/ NetTick \/ BeginSend \/ Sent

NetSpec == NetInit /\ [][NetNext]_netVars

-----------------------------------------------------------------------------
(* "each kind of answer has its own once-a-second limit, or the second question would go
   unanswered" (mdns-responder.mjs:264), "each packet leaves on the network chosen for
   it" (:206): a question the limit leaves without an answer had one of its kind arrive
   on its network within the last second, or on the way, unless that network went away
   while it was sent.  And what is answered works: "the number address needs a
   certificate that names it" (https-proxy.mjs:432), a running gateway serves one for
   every address the responder gives out, unless it could not be renewed. *)
QuestionsAreAnswered ==
  /\ unanswered => gone
  /\ gatewayOn /\ ~notRenewed => \A l \in Links : nets[l] \in proxyFor \cup {NoAddress}
=============================================================================
