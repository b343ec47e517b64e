------------------------------ MODULE Training ------------------------------
(***************************************************************************)
(* How the forecast's model comes to be: the owner encodes the paper       *)
(* logbook, train.py turns it into a daily table (ml-service/pipeline.py), *)
(* tests every method on past weeks and writes three files, and the        *)
(* forecast service (app.py) loads two of them when it starts.  A fitted   *)
(* model is the days it was fitted on; the numbers it gives are left out.  *)
(***************************************************************************)
EXTENDS Integers, FiniteSets, FiniteSetsExt, Paydays

CONSTANTS
  LogDates,       \* days of the logbook, numbered
  PostGap,        \* POST_GAP_START
  TestFrom,       \* TEST_FROM
  BlockDays,      \* 7: days of a test week
  TestWeeks,      \* 4
  LastOpen,       \* 7: open days of the last-7 input
  WeekLength,     \* 7: days of the week
  Edited,         \* bound: days the owner still writes to
  MaxEdits,       \* bound: what the owner writes
  MaxTrainings,   \* bound: trainings started
  NoFile          \* a file that was never written

ASSUME TrainingAssumption ==
  /\ LogDates \subseteq Nat /\ IsFiniteSet(LogDates) /\ LogDates # {} /\ Edited \subseteq LogDates
  /\ {PostGap, TestFrom} \subseteq Int /\ {MaxEdits, MaxTrainings} \subseteq Nat
  /\ {BlockDays, TestWeeks, LastOpen, WeekLength} \subseteq Nat \ {0}

VARIABLES
  logbook,        \* Day_Check's status and the Entries of each day, which have amounts, any slip in the sheets
  edits,
  trainer,        \* train.py: idle, or which file it writes next
  trainings,
  files,          \* artifacts/
  service         \* the forecast service

trainingVars == <<logbook, edits, trainer, trainings, files, service>>

Statuses == {"Has entries", "Closed (written)", "No page found", "Not yet encoded", "other", "no row"}
Methods7 == {"average", "weekday", "last7", "naive", "evidence", "random_forest", "random_forest_last7"}
NotTraining == [next |-> "idle"]

TrainingTypeOK ==
  /\ logbook \in [status : [LogDates -> Statuses], rows : [LogDates -> 0 .. MaxEdits + 2], priced : SUBSET LogDates,
                   slip : BOOLEAN]
  /\ edits \in 0 .. MaxEdits /\ trainings \in 0 .. MaxTrainings
  /\ trainer.next \in {"idle", "evaluation", "model", "metadata"}
  /\ DOMAIN files = {"evaluation", "model", "metadata"}
  /\ service.state \in {"down", "loading", "up"}
  /\ service.model = NoFile <=> service.state = "down" \/ service.none

(* All but the last day are encoded. *)
TrainingInit ==
  LET done == LogDates \ {Max(LogDates)} IN
  /\ logbook = [status |-> [d \in LogDates |-> IF d \in done THEN "Has entries" ELSE "Not yet encoded"],
                rows |-> [d \in LogDates |-> IF d \in done THEN 1 ELSE 0],
                priced |-> LogDates, slip |-> FALSE]
  /\ edits = 0 /\ trainings = 0
  /\ trainer = NotTraining
  /\ files = [evaluation |-> NoFile, model |-> NoFile, metadata |-> NoFile]
  /\ service = [state |-> "down", model |-> NoFile, metadata |-> NoFile, none |-> FALSE]

-----------------------------------------------------------------------------
(* The owner. *)

Edit(book) ==
  /\ edits < MaxEdits
  /\ edits' = edits + 1
  /\ logbook' = book
  /\ UNCHANGED <<trainer, trainings, files, service>>

AddEntry(d) == Edit([logbook EXCEPT !.rows[d] = @ + 1])
DropEntries(d) == logbook.rows[d] > 0 /\ Edit([logbook EXCEPT !.rows[d] = 0])
MarkDay(d, s) == logbook.status[d] # s /\ Edit([logbook EXCEPT !.status[d] = s])
Slips == Edit([logbook EXCEPT !.slip = ~@])
NoAmounts == logbook.priced # {} /\ Edit([logbook EXCEPT !.priced = {}])

-----------------------------------------------------------------------------
(* load_workbook: an entry without a date, or a date twice in Day_Check, stops it. *)
Readable(book) == ~book.slip

(* build_daily_table. *)

Checkable(book) == {d \in LogDates : d >= PostGap /\ book.status[d] # "no row"}
HasEntries(book) == {d \in Checkable(book) : book.status[d] = "Has entries"}
DataTo(book) == Max(HasEntries(book))
InRange(book) == {d \in LogDates : PostGap <= d /\ d <= DataTo(book)}
Later(book) == {d \in LogDates : d > DataTo(book) /\ book.rows[d] > 0}

(* The two sheets disagree; after the range only days with rows are looked at. *)
Problems(book) ==
  LET st == book.status IN
  {d \in InRange(book) : st[d] \in {"no row", "Not yet encoded"} \/ (st[d] = "Has entries" /\ book.rows[d] = 0)}
  \cup {d \in InRange(book) \cup Later(book) :
          \/ st[d] \in {"Closed (written)", "No page found", "no row"} /\ book.rows[d] > 0
          \/ st[d] = "other"}

(* Closed days count no customers, days without a page are blank; only open days train. *)
DailyTable(book) ==
  [from |-> PostGap, to |-> DataTo(book), open |-> HasEntries(book),
   closed |-> {d \in InRange(book) : book.status[d] = "Closed (written)"},
   customers |-> [d \in HasEntries(book) |-> book.rows[d]]]

EntriesLeftOut(book) == Later(book)
TicketDays(book) == {d \in InRange(book) \cap book.priced : book.rows[d] > 0}

-----------------------------------------------------------------------------
(* The methods: which open days each one's guesses are made from. *)

Latest(S, n) == {d \in S : Cardinality({e \in S : e > d}) < n}

(* Mutation of Last7At: the first day of the block counts for its own value. *)
Last7AtInclusive(open, before) ==
  LET known == {d \in open : d <= before} IN
  IF Cardinality(known) < LastOpen THEN {} ELSE Latest(known, LastOpen)

(* last7_at: {} when there are too few. *)
Last7At(open, before) ==
  LET known == {d \in open : d < before} IN
  IF Cardinality(known) < LastOpen THEN {} ELSE Latest(known, LastOpen)

(* add_last7_mean: blocks are laid back from the last training day. *)
BlockFirst(train, d) == Max(train) - (((Max(train) - d) \div BlockDays) * BlockDays + BlockDays - 1)
WithLast7(train) == {d \in train : Last7At(train, BlockFirst(train, d)) # {}}
Last7Values(train) == [d \in WithLast7(train) |-> Last7At(train, BlockFirst(train, d))]

(* baseline_predictions, and the two Random Forests. *)
UsedFor(train, d, start) ==
  LET sameDay == {e \in train : e % WeekLength = d % WeekLength} IN
  [m \in Methods7 |->
     CASE m \in {"average", "evidence", "random_forest"} -> train
       [] m = "weekday" -> IF sameDay = {} THEN train ELSE sameDay
       [] m = "last7" -> Latest(train, LastOpen)
       [] m = "naive" -> {Max(train)}
       [] m = "random_forest_last7" ->
            WithLast7(train) \cup (UNION {Last7Values(train)[e] : e \in WithLast7(train)}) \cup Last7At(train, start)]

-----------------------------------------------------------------------------
(* walk_forward. *)

AnyDate == 0 - TestWeeks * BlockDays

Starts(table, testFrom) ==
  {start \in {table.to - (BlockDays * k + BlockDays - 1) : k \in 0 .. TestWeeks - 1} : start >= testFrom}

TrainBefore(table, start) == {d \in table.open : d < start}
Scored(table, start) == {d \in table.open : start <= d /\ d < start + BlockDays}

Untestable(table, start) ==
  \/ TrainBefore(table, start) = {} \/ Scored(table, start) = {}
  \/ WithLast7(TrainBefore(table, start)) = {}
  \/ Last7At(TrainBefore(table, start), start) = {}

Weeks(table, testFrom) ==
  {[start |-> start, scored |-> Scored(table, start), train |-> TrainBefore(table, start),
    values |-> Last7Values(TrainBefore(table, start)),
    used |-> [d \in Scored(table, start) |-> UsedFor(TrainBefore(table, start), d, start)]] :
     start \in Starts(table, testFrom)}

(* choose_evaluation: the test weeks, else the last weeks whatever their dates. *)
Basis(table) == IF Starts(table, TestFrom) # {} THEN "test" ELSE "reference"
Evaluation(table) == Weeks(table, IF Basis(table) = "test" THEN TestFrom ELSE AnyDate)

CanTrain(book) ==
  /\ Readable(book)
  /\ HasEntries(book) # {}
  /\ Problems(book) = {}
  /\ TicketDays(book) # {}
  /\ \A start \in Starts(DailyTable(book), AnyDate) : ~Untestable(DailyTable(book), start)

-----------------------------------------------------------------------------
(* train.py.  A file's figures follow from the table they were worked out from, so the
   table stands for them. *)

(* only: --evaluate-only. *)
Train(only) ==
  /\ trainer = NotTraining
  /\ trainings < MaxTrainings
  /\ trainings' = trainings + 1
  /\ CanTrain(logbook)
  /\ trainer' = [next |-> "evaluation", only |-> only, id |-> trainings', table |-> DailyTable(logbook)]
  /\ UNCHANGED <<logbook, edits, files, service>>

(* The sheets disagree, or there is too little to test on: nothing is written. *)
TrainRefuses ==
  /\ trainer = NotTraining
  /\ trainings < MaxTrainings
  /\ ~CanTrain(logbook)
  /\ trainings' = trainings + 1
  /\ UNCHANGED <<logbook, edits, trainer, files, service>>

Writes(file, content) ==
  /\ trainer.next = file
  /\ files' = [files EXCEPT ![file] = content]
  /\ UNCHANGED <<logbook, edits, trainings, service>>

WriteEvaluation ==
  /\ Writes("evaluation", trainer.table)
  /\ trainer' = IF trainer.only THEN NotTraining ELSE [trainer EXCEPT !.next = "model"]

WriteModel ==
  /\ Writes("model", [id |-> trainer.id, fitted |-> trainer.table.customers])
  /\ trainer' = [trainer EXCEPT !.next = "metadata"]

WriteMetadata ==
  /\ Writes("metadata", [id |-> trainer.id, table |-> trainer.table])
  /\ trainer' = NotTraining

TrainingCut ==
  /\ trainer # NotTraining
  /\ trainer' = NotTraining
  /\ UNCHANGED <<logbook, edits, trainings, files, service>>

-----------------------------------------------------------------------------
(* app.py: both files, or none, are loaded once. *)

StartService ==
  /\ service.state = "down"
  /\ LET none == NoFile \in {files.model, files.metadata} IN
     service' = [state |-> IF none THEN "up" ELSE "loading", none |-> none,
                 model |-> IF none THEN NoFile ELSE files.model, metadata |-> NoFile]
  /\ UNCHANGED <<logbook, edits, trainer, trainings, files>>

LoadMetadata ==
  /\ service.state = "loading"
  /\ service' = [service EXCEPT !.state = "up", !.metadata = files.metadata]
  /\ UNCHANGED <<logbook, edits, trainer, trainings, files>>

StopService ==
  /\ service.state # "down"
  /\ service' = [state |-> "down", model |-> NoFile, metadata |-> NoFile, none |-> FALSE]
  /\ UNCHANGED <<logbook, edits, trainer, trainings, files>>

TrainingNext ==
  \/ \E d \in Edited : AddEntry(d) \/ DropEntries(d) \/ \E s \in Statuses : MarkDay(d, s)
  \/ Slips \/ NoAmounts
  \/ \E only \in BOOLEAN : Train(only)
  \/ TrainRefuses
  \/ WriteEvaluation \/ WriteModel \/ WriteMetadata
  \/ TrainingCut
  \/ StartService \/ LoadMetadata \/ StopService

TrainingSpec == TrainingInit /\ [][TrainingNext]_trainingVars

-----------------------------------------------------------------------------
WeekIsHonest(w) ==
  /\ \A d \in w.scored, m \in Methods7 : w.used[d][m] # {} /\ \A e \in w.used[d][m] : e < w.start
  /\ \A d \in DOMAIN w.values :
       \A e \in w.values[d] : e < d /\ \A o \in DOMAIN w.values : w.values[o] = w.values[d] => e < o

(* "Each block trains only on open days before the block starts and is scored only on its
   open days" (pipeline.py:249), "the same value for the whole block, from dates before it"
   (pipeline.py:228): however the logbook was encoded and whenever train.py ran, no saved
   error was measured with a day the guess was made from, the test weeks don't overlap, the
   model and its figures rest on days that the logbook says were open, and the payday a
   date counts from is never ahead of it. *)
NothingAhead ==
  /\ files.evaluation # NoFile => \A weeks \in {Evaluation(files.evaluation)} :
       /\ weeks # {}
       /\ \A w \in weeks : WeekIsHonest(w) /\ (Basis(files.evaluation) = "test" => w.start >= TestFrom)
       /\ \A v, w \in weeks : v # w => v.scored \cap w.scored = {}
  /\ files.model # NoFile =>
       /\ \A d \in DOMAIN files.model.fitted : d >= PostGap /\ files.model.fitted[d] > 0
       /\ files.metadata # NoFile /\ files.metadata.id = files.model.id =>
            /\ files.metadata.table.to = Max(DOMAIN files.model.fitted)
            /\ \A w \in Evaluation(files.metadata.table) : w.scored \subseteq DOMAIN files.model.fitted
  /\ PaydaysAreLatest
=============================================================================
