----------------------------- MODULE SaleLedger -----------------------------
(***************************************************************************)
(* What phones and shop PC promise together about a sale, whatever happens *)
(* to requests, phones and barbers in between: once rung it keeps its      *)
(* barber, the shop books it at most once and for that barber, and the     *)
(* phone lets go of it only when it is booked.                             *)
(***************************************************************************)
CONSTANTS Sales, Barbers, None

VARIABLES
  rungFor,      \* sale -> the barber the POS showed when it was rung up
  bookedFor,    \* sale -> the barber the shop's books credit
  settled       \* sales the phone no longer tries to send

ledgerVars == <<rungFor, bookedFor, settled>>

Init ==
  /\ rungFor \in [Sales -> Barbers \cup {None}]
  /\ bookedFor = [x \in Sales |-> None]
  /\ settled = {}

RingUp(x, b) ==
  /\ rungFor[x] = None
  /\ rungFor' = [rungFor EXCEPT ![x] = b]
  /\ UNCHANGED <<bookedFor, settled>>

Book(x) ==
  /\ rungFor[x] # None
  /\ bookedFor[x] = None
  /\ bookedFor' = [bookedFor EXCEPT ![x] = rungFor[x]]
  /\ UNCHANGED <<rungFor, settled>>

Settle(xs) ==
  /\ \A x \in xs : bookedFor[x] # None
  /\ settled' = settled \cup xs
  /\ UNCHANGED <<rungFor, bookedFor>>

Next ==
  \/ \E x \in Sales : Book(x) \/ \E b \in Barbers : RingUp(x, b)
  \/ \E xs \in SUBSET Sales : Settle(xs)

Spec == Init /\ [][Next]_ledgerVars
=============================================================================
