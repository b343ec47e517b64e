------------------------------ MODULE Forecast ------------------------------
(***************************************************************************)
(* The owner's forecast: a refresh asks the ml-service and saves a run     *)
(* with its days in one transaction, each date's row replaced by the       *)
(* latest writer; pages read the latest run and the rows one after the     *)
(* other (lib/forecast.ts, forecast routes, ForecastPanel.tsx).            *)
(***************************************************************************)
EXTENDS Naturals, FiniteSets

CONSTANTS
  Owners,         \* owner browsers
  LastDay,        \* bound: days that pass
  RunDays,        \* MAX_FORECAST_DAYS
  MaxRuns         \* bound: runs created

VARIABLES
  today,          \* manilaToday
  made,           \* forecastRun rows created, committed or not, numbered by createdAt
  savedRuns,      \* committed runs
  rows,           \* committed dailyRevenueForecast: date -> run, 0 if none
  saver,          \* owner -> the POST refresh it sent
  panel,          \* owner -> the run and days the page shows
  reading,        \* owner -> the page render between its two reads
  busyPanel,      \* owner -> the panel's busy flag
  overlapped,     \* history: runs whose save overlapped another's or asked before midnight
  torn            \* history: owner -> a save committed between the two reads

forecastVars ==
  <<today, made, savedRuns, rows, saver, panel, reading, busyPanel, overlapped, torn>>

ASSUME ForecastAssumption == LastDay \in Nat /\ RunDays \in Nat \ {0} /\ MaxRuns \in Nat

Dates == 0 .. LastDay + RunDays
Runs == 1 .. MaxRuns
NoDays == [d \in Dates |-> 0]
NoSaver == [at |-> "idle", start |-> 0, run |-> 0, next |-> 0]
NoPanel == [open |-> FALSE, run |-> 0, days |-> NoDays]

ForecastTypeOK ==
  /\ today \in 0 .. LastDay /\ made \in 0 .. MaxRuns
  /\ savedRuns \subseteq Runs
  /\ rows \in [Dates -> Runs \cup {0}]
  /\ saver \in [Owners -> [at : {"idle", "asking", "got", "saving"}, start : Dates,
                           run : Runs \cup {0}, next : Dates]]
  /\ panel \in [Owners -> [open : BOOLEAN, run : Runs \cup {0}, days : [Dates -> Runs \cup {0}]]]
  /\ reading \in [Owners -> [on : BOOLEAN, run : Runs \cup {0}]]
  /\ busyPanel \in [Owners -> BOOLEAN]
  /\ overlapped \subseteq Runs
  /\ torn \in [Owners -> BOOLEAN]

ForecastInit ==
  /\ today = 0 /\ made = 0 /\ savedRuns = {} /\ rows = NoDays
  /\ saver = [o \in Owners |-> NoSaver]
  /\ panel = [o \in Owners |-> NoPanel]
  /\ reading = [o \in Owners |-> [on |-> FALSE, run |-> 0]]
  /\ busyPanel = [o \in Owners |-> FALSE]
  /\ overlapped = {} /\ torn = [o \in Owners |-> FALSE]

(* A refresh and a page load take seconds: a day does not end more than once in one. *)
Midnight ==
  /\ today < LastDay
  /\ \A o \in Owners : saver[o].at # "idle" => saver[o].start = today
  /\ \A o \in Owners : ~reading[o].on
  /\ today' = today + 1
  /\ UNCHANGED <<made, savedRuns, rows, saver, panel, reading, busyPanel, overlapped, torn>>

-----------------------------------------------------------------------------
(* latestForecast. *)

LatestRun == IF savedRuns = {} THEN 0 ELSE CHOOSE r \in savedRuns : \A s \in savedRuns : s <= r

(* A page opens, or is loaded again, which forgets what it waited for. *)
ReadRun(o) ==
  /\ ~reading[o].on
  /\ reading' = [reading EXCEPT ![o] = [on |-> TRUE, run |-> LatestRun]]
  /\ panel' = [panel EXCEPT ![o] = NoPanel]
  /\ busyPanel' = [busyPanel EXCEPT ![o] = FALSE]
  /\ torn' = [torn EXCEPT ![o] = FALSE]
  /\ UNCHANGED <<today, made, savedRuns, rows, saver, overlapped>>

FromToday(days) == [d \in Dates |-> IF d < today THEN 0 ELSE days[d]]

ReadRows(o) ==
  /\ reading[o].on
  /\ panel' = [panel EXCEPT ![o] = [open |-> TRUE, run |-> reading[o].run, days |-> FromToday(rows)]]
  /\ reading' = [reading EXCEPT ![o] = [on |-> FALSE, run |-> 0]]
  /\ UNCHANGED <<today, made, savedRuns, rows, saver, busyPanel, overlapped, torn>>

-----------------------------------------------------------------------------
(* POST forecast/refresh. *)

(* The button, or on a stale panel once by itself; one at a time from a panel, but a
   page loaded again leaves the old request running. *)
Refresh(o) ==
  /\ panel[o].open /\ ~busyPanel[o]
  /\ saver[o].at = "idle"
  /\ busyPanel' = [busyPanel EXCEPT ![o] = TRUE]
  /\ saver' = [saver EXCEPT ![o] = [NoSaver EXCEPT !.at = "asking", !.start = today, !.next = today]]
  /\ UNCHANGED <<today, made, savedRuns, rows, panel, reading, overlapped, torn>>

(* parseForecastResponse takes only RunDays consecutive days from the start. *)
ServiceAnswers(o) ==
  /\ saver[o].at = "asking"
  /\ saver' = [saver EXCEPT ![o].at = "got"]
  /\ UNCHANGED <<today, made, savedRuns, rows, panel, reading, busyPanel, overlapped, torn>>

(* A save that fails is taken back. *)
Stops(o) ==
  /\ saver' = [saver EXCEPT ![o] = NoSaver]
  /\ busyPanel' = [busyPanel EXCEPT ![o] = FALSE]
  /\ UNCHANGED <<today, made, savedRuns, panel, reading, overlapped, torn>>

(* Unreachable, slow or invalid: 502, and the panel keeps what it shows. *)
ServiceFails(o) == saver[o].at = "asking" /\ Stops(o) /\ UNCHANGED rows

Saving == {o \in Owners : saver[o].at = "saving"}

CreateRun(o) ==
  /\ saver[o].at = "got" /\ made < MaxRuns
  /\ made' = made + 1
  /\ saver' = [saver EXCEPT ![o].at = "saving", ![o].run = made + 1]
  /\ overlapped' = overlapped \cup {saver[p].run : p \in Saving}
                    \cup (IF Saving = {} /\ saver[o].start = today THEN {} ELSE {made + 1})
  /\ UNCHANGED <<today, savedRuns, rows, panel, reading, busyPanel, torn>>

(* The row of a date stays locked until the transaction that wrote it ends. *)
RowLocked(d, o) ==
  \E p \in Saving \ {o} : d >= saver[p].start /\ d < saver[p].next

(* Mutation of Kept: a row is saved at once, not with its transaction. *)
KeptAtOnce(o) == [rows EXCEPT ![saver[o].next] = saver[o].run]

(* What the other connections see of an upsert. *)
Kept(o) == rows

UpsertDay(o) ==
  /\ saver[o].at = "saving" /\ saver[o].next < saver[o].start + RunDays
  /\ ~RowLocked(saver[o].next, o)
  /\ rows' = Kept(o)
  /\ saver' = [saver EXCEPT ![o].next = @ + 1]
  /\ UNCHANGED <<today, made, savedRuns, panel, reading, busyPanel, overlapped, torn>>

(* The commit: the rows appear together, and the page that asked shows its own run. *)
Commit(o) ==
  LET s == saver[o]
      own == [d \in Dates |-> IF d >= s.start /\ d < s.start + RunDays THEN s.run ELSE 0] IN
  /\ s.at = "saving" /\ s.next = s.start + RunDays
  /\ savedRuns' = savedRuns \cup {s.run}
  /\ rows' = [d \in Dates |-> IF own[d] # 0 THEN s.run ELSE rows[d]]
  /\ saver' = [saver EXCEPT ![o] = NoSaver]
  /\ panel' = IF busyPanel[o] THEN [panel EXCEPT ![o] = [open |-> TRUE, run |-> s.run, days |-> own]] ELSE panel
  /\ busyPanel' = [busyPanel EXCEPT ![o] = FALSE]
  /\ torn' = [p \in Owners |-> IF reading[p].on THEN TRUE
                               ELSE IF p = o /\ busyPanel[o] THEN FALSE ELSE torn[p]]
  /\ UNCHANGED <<today, made, reading, overlapped>>

(* The database refuses, or the server stops: nothing of the run stays. *)
SaveRollsBack(o) == saver[o].at \in {"got", "saving"} /\ Stops(o) /\ UNCHANGED rows

ForecastNext ==
  \/ Midnight
  \/ \E o \in Owners :
       \/ ReadRun(o) \/ ReadRows(o) \/ Refresh(o)
       \/ ServiceAnswers(o) \/ ServiceFails(o)
       \/ CreateRun(o) \/ UpsertDay(o) \/ Commit(o) \/ SaveRollsBack(o)

ForecastSpec == ForecastInit /\ [][ForecastNext]_forecastVars

-----------------------------------------------------------------------------
(* "Service unreachable or a bad answer: nothing is saved" (forecast/refresh/route.ts:11)
   and "one run and its days in a single transaction" (forecast.ts:99): the days a page
   shows are those of the run it names, never half of a failed save.  The code leaves
   two exceptions: saves that overlap, or of a refresh that was asked for before midnight
   (the later commit has the rows, the later createdAt is the run), and a save between a
   page's two reads. *)
DaysOfTheirRun ==
  \A o \in Owners :
    panel[o].open /\ ~torn[o] /\ panel[o].run \notin overlapped =>
      \A d \in Dates : panel[o].days[d] \in {panel[o].run, 0}
=============================================================================
