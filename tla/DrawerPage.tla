----------------------------- MODULE DrawerPage -----------------------------
(***************************************************************************)
(* End-of-Day Cash (app/reconciliation/page.tsx): the owner picks a day,   *)
(* its figures load, a counted amount is typed and saved, a flagged sale   *)
(* is given a date.  Every answer may come after the owner has moved on to *)
(* another day; what an amount is stands for the day it was typed for.     *)
(***************************************************************************)
EXTENDS Naturals, FiniteSets

CONSTANTS
  DrawerDays,
  NoDay,
  NoSave,
  MaxLoads        \* bound: runs of loadData out at once

VARIABLES
  day,            \* date
  figures,        \* the day expected, saved and staleness are of, or NoDay
  held,           \* the day needsReview is of, or NoDay
  counted,        \* the day countedCash was typed or loaded for, NoDay when empty
  locked,
  pinShown,       \* showOwnerUnlock
  loads,          \* runs of loadData whose answer is out: their day, whether it had a count, and active
  saving,         \* handleSubmit's POST, or NoSave
  reviewing,      \* reviewingId is set
  unlocking,      \* the PIN form's POST: "no", or what locked was when it was sent
  recorded,       \* server: days with a saved count
  crossed         \* history: a save was out when the day was changed

drawerVars ==
  <<day, figures, held, counted, locked, pinShown, loads, saving, reviewing, unlocking,
    recorded, crossed>>

DayLoad == [day : DrawerDays, active : BOOLEAN, had : BOOLEAN]
SaveRequest == [day : DrawerDays, count : DrawerDays, crossed : BOOLEAN]

ASSUME DrawerAssumption ==
  NoDay \notin DrawerDays /\ NoSave \notin SaveRequest /\ MaxLoads \in Nat \ {0}

DrawerTypeOK ==
  /\ day \in DrawerDays
  /\ {figures, held, counted} \subseteq DrawerDays \cup {NoDay}
  /\ {locked, pinShown, reviewing, crossed} \subseteq BOOLEAN
  /\ loads \subseteq DayLoad /\ Cardinality(loads) <= MaxLoads
  /\ saving \in SaveRequest \cup {NoSave}
  /\ unlocking \in {"no", "locked", "open"}
  /\ recorded \subseteq DrawerDays

(* The first effect asks for today's figures. *)
DrawerInit ==
  /\ day \in DrawerDays
  /\ recorded \in SUBSET DrawerDays
  /\ loads = {[day |-> day, active |-> TRUE, had |-> day \in recorded]}
  /\ figures = NoDay /\ held = NoDay /\ counted = NoDay
  /\ locked = FALSE /\ pinShown = FALSE
  /\ saving = NoSave /\ reviewing = FALSE /\ unlocking = "no"
  /\ crossed = FALSE

Cleared == figures' = NoDay /\ held' = NoDay

(* A change of date or refreshKey: the cleanup retires the run before, the new one
   clears the page and asks. *)
LoadDay(d) ==
  /\ Cardinality(loads) < MaxLoads
  /\ loads' = {[load EXCEPT !.active = FALSE] : load \in loads}
                \cup {[day |-> d, active |-> TRUE, had |-> d \in recorded]}
  /\ Cleared

IsLoading == \E load \in loads : load.active

PickDay(d) ==
  /\ d # day
  /\ day' = d
  /\ LoadDay(d)
  /\ crossed' = (saving # NoSave)
  /\ UNCHANGED <<counted, locked, pinShown, saving, reviewing, unlocking, recorded>>

RefreshDrawer ==
  /\ ~IsLoading
  /\ LoadDay(day)
  /\ UNCHANGED <<day, counted, locked, pinShown, saving, reviewing, unlocking, recorded, crossed>>

(* Mutation of Heeded: the cleanup does not retire the run. *)
HeededAlways(load) == TRUE

(* A run whose day was left changes nothing. *)
Heeded(load) == load.active

Answered401(load) ==
  /\ IF Heeded(load) THEN locked' = TRUE /\ pinShown' = TRUE ELSE UNCHANGED <<locked, pinShown>>
  /\ loads' = loads \ {load}
  /\ UNCHANGED <<day, figures, held, counted, saving, reviewing, unlocking, recorded, crossed>>

(* A saved count fills the form, or else the form is emptied; the server read it at
   some time since it was asked. *)
Filled(load) ==
  IF load.had THEN {load.day} ELSE IF load.day \in recorded THEN {load.day, NoDay} ELSE {NoDay}

LoadAnswered(load) ==
  /\ IF Heeded(load)
     THEN /\ locked' = FALSE
          /\ figures' = load.day /\ held' = load.day
          /\ counted' \in Filled(load)
          /\ crossed' = (crossed /\ saving # NoSave)
     ELSE UNCHANGED <<locked, figures, held, counted, crossed>>
  /\ loads' = loads \ {load}
  /\ UNCHANGED <<day, pinShown, saving, reviewing, unlocking, recorded>>

LoadFails(load) ==
  /\ loads' = loads \ {load}
  /\ UNCHANGED <<day, figures, held, counted, locked, pinShown, saving, reviewing, unlocking,
                 recorded, crossed>>

TypeCount ==
  /\ counted' \in {day, NoDay} \ {counted}
  /\ UNCHANGED <<day, figures, held, locked, pinShown, loads, saving, reviewing, unlocking,
                 recorded, crossed>>

-----------------------------------------------------------------------------
CanSave == saving = NoSave /\ counted # NoDay /\ figures # NoDay

(* The POST carries the date and the amount of this moment. *)
Submit ==
  /\ CanSave
  /\ saving' = [day |-> day, count |-> counted, crossed |-> crossed]
  /\ UNCHANGED <<day, figures, held, counted, locked, pinShown, loads, reviewing, unlocking,
                 recorded, crossed>>

(* The record is shown, whatever day is chosen by now. *)
SaveAnswered ==
  /\ saving # NoSave
  /\ recorded' = recorded \cup {saving.day}
  /\ figures' = saving.day
  /\ saving' = NoSave
  /\ UNCHANGED <<day, held, counted, locked, pinShown, loads, reviewing, unlocking, crossed>>

(* No owner cookie, an error, or no answer; without an answer the count may have been stored. *)
SaveRefused ==
  /\ saving # NoSave
  /\ saving' = NoSave
  /\ \/ pinShown' = TRUE /\ UNCHANGED recorded
     \/ recorded' \in {recorded, recorded \cup {saving.day}} /\ UNCHANGED pinShown
  /\ UNCHANGED <<day, figures, held, counted, locked, loads, reviewing, unlocking, crossed>>

(* The owner picks a flagged sale's day; one review at a time. *)
AskReview ==
  /\ held # NoDay /\ ~reviewing
  /\ reviewing' = TRUE
  /\ UNCHANGED <<day, figures, held, counted, locked, pinShown, loads, saving, unlocking,
                 recorded, crossed>>

(* The figures of the day chosen by now reload. *)
ReviewAnswered ==
  /\ reviewing
  /\ reviewing' = FALSE
  /\ LoadDay(day)
  /\ UNCHANGED <<day, counted, locked, pinShown, saving, unlocking, recorded, crossed>>

ReviewRefused ==
  /\ reviewing
  /\ reviewing' = FALSE
  /\ pinShown' \in {pinShown, TRUE}
  /\ UNCHANGED <<day, figures, held, counted, locked, loads, saving, unlocking, recorded, crossed>>

-----------------------------------------------------------------------------
(* The PIN dialog. *)

ShowPin ==
  /\ locked /\ ~pinShown
  /\ pinShown' = TRUE
  /\ UNCHANGED <<day, figures, held, counted, locked, loads, saving, reviewing, unlocking,
                 recorded, crossed>>

HidePin ==
  /\ pinShown
  /\ pinShown' = FALSE
  /\ UNCHANGED <<day, figures, held, counted, locked, loads, saving, reviewing, unlocking,
                 recorded, crossed>>

EnterPin ==
  /\ pinShown /\ unlocking = "no"
  /\ unlocking' = IF locked THEN "locked" ELSE "open"
  /\ UNCHANGED <<day, figures, held, counted, locked, pinShown, loads, saving, reviewing,
                 recorded, crossed>>

(* A page that was locked loads its day; else the owner saves again. *)
PinAccepted ==
  /\ unlocking # "no"
  /\ unlocking' = "no"
  /\ pinShown' = FALSE
  /\ IF unlocking = "locked" THEN locked' = FALSE /\ LoadDay(day)
                             ELSE UNCHANGED <<locked, loads, figures, held>>
  /\ UNCHANGED <<day, counted, saving, reviewing, recorded, crossed>>

PinRefused ==
  /\ unlocking # "no"
  /\ unlocking' = "no"
  /\ UNCHANGED <<day, figures, held, counted, locked, pinShown, loads, saving, reviewing,
                 recorded, crossed>>

DrawerNext ==
  \/ \E d \in DrawerDays : PickDay(d)
  \/ \E load \in loads : Answered401(load) \/ LoadAnswered(load) \/ LoadFails(load)
  \/ RefreshDrawer \/ TypeCount \/ Submit \/ SaveAnswered \/ SaveRefused
  \/ AskReview \/ ReviewAnswered \/ ReviewRefused
  \/ ShowPin \/ HidePin \/ EnterPin \/ PinAccepted \/ PinRefused

DrawerSpec == DrawerInit /\ [][DrawerNext]_drawerVars

-----------------------------------------------------------------------------
(* A counted amount is recorded for the day it was typed for: the form of a day left
   behind is never sent under the next one, however late the answers of loads come.
   The exception the code leaves is a save still out while the day is changed: its
   answer puts the old day's figures back and enables the button. *)
CountOnItsDay == saving # NoSave => saving.count = saving.day \/ saving.crossed
=============================================================================
