------------------------------ MODULE ShopPc ------------------------------
(***************************************************************************)
(* useShopPc (components/ShopPcStatus.tsx): the page asks whether the shop *)
(* PC can record sales, and sends the waiting sales (onBack) when the PC   *)
(* answers again.  navigator.onLine says nothing of the PC.                *)
(***************************************************************************)
EXTENDS Naturals

VARIABLES
  pc,             \* the shop PC: "up", "slow", "database-down" or "off"
  phoneOnline,    \* navigator.onLine
  visible,        \* document.visibilityState
  checking,       \* a check is under way
  timer,          \* the next check is planned
  last,           \* the last answer, as shown
  owed            \* history: the PC was seen down and onBack has not run since

pcVars == <<pc, phoneOnline, visible, checking, timer, last, owed>>

Pcs == {"up", "slow", "database-down", "off"}
Answers == {"online", "unreachable", "database-down"}
Down == {"unreachable", "database-down"}      \* isShopPcDown

PcTypeOK ==
  /\ pc \in Pcs
  /\ {phoneOnline, visible, checking, timer, owed} \subseteq BOOLEAN
  /\ last \in Answers \cup {"checking"}

(* Mounting asks at once. *)
PcInit ==
  /\ pc \in Pcs
  /\ phoneOnline \in BOOLEAN
  /\ visible \in BOOLEAN
  /\ checking = TRUE
  /\ timer = FALSE
  /\ last = "checking"
  /\ owed = FALSE

(* check: one at a time; a planned one is taken back. *)
Check == checking' = TRUE /\ timer' = (timer /\ checking)

(* checkShopPc: no network, no answer in 5 s, 502 and 503 all count as down. *)
Answer ==
  IF ~phoneOnline THEN "unreachable"
  ELSE CASE pc = "up" -> "online"
         [] pc = "database-down" -> "database-down"
         [] OTHER -> "unreachable"

(* Mutation of Back: the last answer is already overwritten. *)
BackLate(answer) == answer = "online" /\ answer \in Down

Back(answer) == answer = "online" /\ last \in Down

Answered(answer) ==
  /\ checking
  /\ checking' = FALSE
  /\ last' = answer
  /\ owed' = ((owed \/ answer \in Down) /\ ~Back(answer))
  /\ timer' = visible
  /\ UNCHANGED <<pc, phoneOnline, visible>>

AnswerComes == Answered(Answer)

TimerFires ==
  /\ timer
  /\ Check
  /\ UNCHANGED <<pc, phoneOnline, visible, last, owed>>

(* The online and offline events ask again. *)
NetworkChanges ==
  /\ phoneOnline' = ~phoneOnline
  /\ Check
  /\ UNCHANGED <<pc, visible, last, owed>>

OnVisibility == Check

ComesToFront ==
  /\ ~visible
  /\ visible' = TRUE
  /\ OnVisibility
  /\ UNCHANGED <<pc, phoneOnline, last, owed>>

Hides ==
  /\ visible
  /\ visible' = FALSE
  /\ UNCHANGED <<pc, phoneOnline, checking, timer, last, owed>>

PcChanges ==
  /\ pc' \in Pcs \ {pc}
  /\ UNCHANGED <<phoneOnline, visible, checking, timer, last, owed>>

PcNext ==
  \/ AnswerComes
  \/ TimerFires \/ NetworkChanges \/ ComesToFront \/ Hides
  \/ PcChanges

PcSpec == PcInit /\ [][PcNext]_pcVars

-----------------------------------------------------------------------------

(* "send the waiting sales at once" (pos/page.tsx:281): when the PC stays up, the phone
   on its network and the page in front, the page shows it online and onBack has run
   for the last time it was seen down. *)
BackIsNoticed ==
  <>[](pc = "up" /\ phoneOnline /\ visible) => []<>(last = "online" /\ ~owed)
=============================================================================
