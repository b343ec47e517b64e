----------------------------- MODULE LedgerPage -----------------------------
(***************************************************************************)
(* The owner's ledger (app/ledger/page.tsx): one card per barber with the  *)
(* amounts paid, typed and saved card by card, and a summary beside them.  *)
(* Loads are never cancelled; their answers come in any order.             *)
(***************************************************************************)
EXTENDS Naturals

CONSTANTS
  LedgerDays,
  LedgerBarbers,
  NoPayDay,
  LedgerLoads     \* bound: loads out at once

VARIABLES
  payDay,         \* date (with base and period: what a load asks for)
  ledgerOpen,     \* unlocked
  cards,          \* barber -> the day its row was loaded for, and whether its amounts were typed over
  summaryOf,      \* the day of the summary shown, or NoPayDay
  ledgerLoad,     \* loads: their day, and the answers still out
  payoutOut,      \* barber -> the day of the payout being saved, or NoPayDay
  lastSaving      \* savingBarberId: the card whose button is disabled

ledgerVars == <<payDay, ledgerOpen, cards, summaryOf, ledgerLoad, payoutOut, lastSaving>>

ASSUME LedgerAssumption == NoPayDay \notin LedgerDays \cup LedgerBarbers

Answers == {"rows", "summary"}
NoLedgerLoad == [day |-> NoPayDay, out |-> {}]
NoCards == [b \in LedgerBarbers |-> [of |-> NoPayDay, typed |-> FALSE]]

LedgerTypeOK ==
  /\ payDay \in LedgerDays
  /\ ledgerOpen \in BOOLEAN
  /\ cards \in [LedgerBarbers -> [of : LedgerDays \cup {NoPayDay}, typed : BOOLEAN]]
  /\ summaryOf \in LedgerDays \cup {NoPayDay}
  /\ ledgerLoad \in [LedgerLoads -> [day : LedgerDays \cup {NoPayDay}, out : SUBSET Answers]]
  /\ payoutOut \in [LedgerBarbers -> LedgerDays \cup {NoPayDay}]
  /\ lastSaving \in LedgerBarbers \cup {NoPayDay}

LedgerInit ==
  /\ payDay \in LedgerDays
  /\ ledgerOpen = FALSE
  /\ cards = NoCards
  /\ summaryOf = NoPayDay
  /\ ledgerLoad = [l \in LedgerLoads |-> NoLedgerLoad]
  /\ payoutOut = [b \in LedgerBarbers |-> NoPayDay]
  /\ lastSaving = NoPayDay

(* load: the rows and the summary are asked for side by side. *)
LoadLedger(l, d) ==
  /\ ledgerLoad[l] = NoLedgerLoad
  /\ ledgerLoad' = [ledgerLoad EXCEPT ![l] = [day |-> d, out |-> Answers]]

(* The PIN is right: the page loads. *)
UnlockLedger(l) ==
  /\ ~ledgerOpen
  /\ ledgerOpen' = TRUE
  /\ LoadLedger(l, payDay)
  /\ UNCHANGED <<payDay, cards, summaryOf, payoutOut, lastSaving>>

PickPayDay(l, d) ==
  /\ ledgerOpen /\ d # payDay
  /\ payDay' = d
  /\ LoadLedger(l, d)
  /\ UNCHANGED <<ledgerOpen, cards, summaryOf, payoutOut, lastSaving>>

(* The reload button, another base or period. *)
ReloadLedger(l) ==
  /\ ledgerOpen
  /\ LoadLedger(l, payDay)
  /\ UNCHANGED <<payDay, ledgerOpen, cards, summaryOf, payoutOut, lastSaving>>

LedgerAnswers(l, answer) ==
  /\ answer \in ledgerLoad[l].out
  /\ ledgerLoad' = [ledgerLoad EXCEPT ![l] =
       IF @.out = {answer} THEN NoLedgerLoad ELSE [day |-> @.day, out |-> @.out \ {answer}]]

RowsArrive(l) ==
  /\ LedgerAnswers(l, "rows")
  /\ cards' = [b \in LedgerBarbers |-> [of |-> ledgerLoad[l].day, typed |-> FALSE]]
  /\ UNCHANGED <<payDay, ledgerOpen, summaryOf, payoutOut, lastSaving>>

(* The rows stay as they are; without an owner cookie the page locks. *)
RowsFail(l) ==
  /\ LedgerAnswers(l, "rows")
  /\ ledgerOpen' \in {ledgerOpen, FALSE}
  /\ UNCHANGED <<payDay, cards, summaryOf, payoutOut, lastSaving>>

(* A summary that fails is taken away. *)
SummaryArrives(l) ==
  /\ LedgerAnswers(l, "summary")
  /\ summaryOf' \in {ledgerLoad[l].day, NoPayDay}
  /\ UNCHANGED <<payDay, ledgerOpen, cards, payoutOut, lastSaving>>

TypeAmount(b) ==
  /\ ledgerOpen /\ cards[b].of # NoPayDay
  /\ cards' = [cards EXCEPT ![b].typed = TRUE]
  /\ UNCHANGED <<payDay, ledgerOpen, summaryOf, ledgerLoad, payoutOut, lastSaving>>

(* save: the POST carries the date chosen now and the card's amounts. *)
SavePayout(b) ==
  /\ ledgerOpen /\ cards[b].of # NoPayDay
  /\ lastSaving # b
  /\ payoutOut[b] = NoPayDay      \* bound: one save of a card out at once
  /\ payoutOut' = [payoutOut EXCEPT ![b] = payDay]
  /\ lastSaving' = b
  /\ UNCHANGED <<payDay, ledgerOpen, cards, summaryOf, ledgerLoad>>

(* Mutation of SavedRow: the list is put back as it was when the save began. *)
SavedRowSnapshot(b) ==
  cards' = [c \in LedgerBarbers |-> [of |-> payoutOut[b], typed |-> FALSE]]

(* setRows maps over the current rows: only this barber's is replaced, by the row
   the server answers with. *)
SavedRow(b) == cards' = [cards EXCEPT ![b] = [of |-> IF @.of = NoPayDay THEN @.of ELSE payoutOut[b],
                                              typed |-> FALSE]]

PayoutSaved(b) ==
  /\ payoutOut[b] # NoPayDay
  /\ SavedRow(b)
  /\ payoutOut' = [payoutOut EXCEPT ![b] = NoPayDay]
  /\ lastSaving' = NoPayDay
  /\ UNCHANGED <<payDay, ledgerOpen, summaryOf, ledgerLoad>>

(* The typed amounts stay for the next try. *)
PayoutNotSaved(b) ==
  /\ payoutOut[b] # NoPayDay
  /\ payoutOut' = [payoutOut EXCEPT ![b] = NoPayDay]
  /\ lastSaving' = NoPayDay
  /\ ledgerOpen' \in {ledgerOpen, FALSE}
  /\ UNCHANGED <<payDay, cards, summaryOf, ledgerLoad>>

LedgerNext ==
  \/ \E l \in LedgerLoads :
       \/ UnlockLedger(l) \/ ReloadLedger(l)
       \/ \E d \in LedgerDays : PickPayDay(l, d)
       \/ RowsArrive(l) \/ RowsFail(l) \/ SummaryArrives(l)
  \/ \E b \in LedgerBarbers :
       TypeAmount(b) \/ SavePayout(b) \/ PayoutSaved(b) \/ PayoutNotSaved(b)

LedgerSpec == LedgerInit /\ [][LedgerNext]_ledgerVars

-----------------------------------------------------------------------------
(* What the owner typed on a card is lost only to a load of the page or to the answer
   of the card's own save: saving one barber's payout, however late it is answered,
   does not undo the amounts typed on another's meanwhile. *)
TypedAmountsKept ==
  [][\A b \in LedgerBarbers :
       cards[b].typed /\ ~cards'[b].typed =>
         ledgerLoad' # ledgerLoad \/ payoutOut'[b] # payoutOut[b]]_ledgerVars
=============================================================================
