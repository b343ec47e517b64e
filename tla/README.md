# Ruzzco: a TLA+ verification of the shop's point of sale

Ruzzco is a barber shop's point of sale. Phones (a Next.js page with Dexie and localStorage) ring
up sales without a network; a PC in the shop (Next.js API routes over Prisma and MySQL) keeps the
books and shows them to the owner; a small Python service forecasts customers. This directory models
the parts whose correctness depends on *order* (who was bound when, which answer came late, which
handler read before another wrote) and the figures that must add up to each other. TLC checks the
models on small instances; TLAPS proves the main safety results for any number of phones, pages,
barbers, sales, handlers, requests and faults.

Paths below are relative to `src/web/src/` unless they start with `src/`.

## 1. The system

| Part | State it keeps | Operations | Modelled in |
|---|---|---|---|
| Phone: binding, queue, sync (`lib/sync.ts`, `lib/db.ts`, `app/pos/page.tsx`, `app/shift-log/page.tsx`) | Dexie: binding, sales with `synced`/`syncError`; localStorage: device key, secret, pending bind; React: the displayed binding; one module-level run per page | approve, choose barber, register, ring up, `syncNow`, retry or dismiss a rejection, check the binding, reload | `Till`, `TillNet`, `ShiftLog` |
| Server: devices, assignments, sync (`app/api/v1/devices/*`, `transactions/sync`) | tables `devices`, `device_assignments`, `transactions` | bind, binding, approve, revoke, sync | `ShopServer` |
| QR Ph gateway (`lib/gateway.ts`, `payments/qrph*`, `webhooks/paymongo`, `components/QrPhCheckout.tsx`) | `gateway_payments`, `gateway_webhook_events`; PayMongo's intents and undelivered events; the dialog's phase, polls and countdown | charge, check, apply an event; show, poll, retry, close | `Gateway`, `QrDialog` |
| Reconciliation, payouts, date review (`lib/reconciliation.ts`, `lib/time-review.ts`, `reports/*`) | `shift_reconciliations`, `daily_payout_ledgers`, review fields of a sale | save a count, refresh and pay a day, review a date | `Books` |
| Pricing, commission, reports (`lib/pricing.ts`, `lib/commission.ts`, `lib/trends.ts`, `lib/ledger-summary.ts`) | none: sums over rows | price and discount, commission snapshot, every figure on the owner's pages | `Figures` |
| Insights (`app/insights/page.tsx`, `lib/insights-story.ts`, `components/InsightsPresentation.tsx`) | the rows a page has read; the slides and where the owner is in them | load query after query, work out, compare; choose sentences; present | `Insights`, `Story`, `Deck` |
| Owner's forms (`app/reconciliation`, `app/ledger`, `app/devices`, `app/payment-qr` pages) | amounts typed, requests out | load, save, review, revoke, upload | `DrawerPage`, `LedgerPage`, `DevicesPage`, `QrPage` |
| Owner access (`lib/owner-access.ts`, `lib/pin-attempts.ts`) | failure counts and locks in memory; a signed cookie | unlock, lock, approve with a PIN | `OwnerAccess` |
| Barbers' payment QRs (`lib/payment-qr*.ts`) | images on the server, copies in Dexie | upload, remove, list, refresh | `PaymentQr` |
| Sale button, shop-PC probe (`lib/submit-lock.ts`, `components/ShopPcStatus.tsx`) | a lock and the form; a timer | tap, confirm, save; probe | `Checkout`, `ShopPc` |
| Offline pages (`src/web/public/sw.js`) | page and file caches, the back-off | open a page, load a file | `OfflinePages` |
| Forecast (`lib/forecast*.ts`, `src/ml-service/`) | runs and days saved; the logbook, the model's files | refresh, read, compare; train, test, serve | `Forecast`, `Report`, `Training`, `Paydays` |
| Local network and start-up (`src/web/scripts/*.mjs`, `src/scripts/start-ruzzco.ps1`) | stamps of what is installed, migrated and built; certificate, sockets, answers withheld | start, update, serve; follow the network, answer a name | `Startup`, `LocalNet` |
| Scenery and shell, developer scripts, tests | nothing that others read | draw | not modelled |

**How the parts meet.** Phone and server share nothing but HTTP requests; the phone abandons a
request after `REQUEST_TIMEOUT_MS` while the server may still be working on it. Pages on one phone
share Dexie and localStorage but not the `syncNow` lock, which is a module variable. Server handlers
share MySQL and interleave at every `await`. A synced QRPH sale is the only link between the sales
path and the gateway; reconciliation, payouts and figures read what both write. The owner's pages
talk to the server only, and keep what was typed while answers come.

**What is hard.** Answers lost after the work was done; requests handled long after they were given
up; two pages, two owners or two phones at once; a phone re-bound, revoked or approved again while
its sales are under way; rows read in one database call and used in the next; an answer for the day,
sale or barber chosen before; a page or the PC switched off between two writes; webhooks twice, late
and in the wrong order; a transaction that times out while PayMongo is still creating the charge; the
same peso summed in six places. `PROJECT.json` lists each hazard at its line with the properties that
watch it, and a note where the code leaves a gap the properties step around (section 5 has them all).

## 2. The models

### `TillNet`, `Till`, `ShopServer`, composed by `SaleSync`

`TillNet` declares the names both sides use and the requests between them. A request occupies a
*slot* from the fetch that sends it until its answer is consumed or dropped; the slot also holds the
handler's local variables (`stage`, `found`, `ok`, `bad`). Slots are served in any order, so
requests are reordered freely. `Abandon` is what the abort of `fetchWithTimeout` and the closing of
a page do: nobody reads the answer, the server carries on. `Lose` is a request, handler or answer
that disappears (connection, HTTP 500, crash); the phone treats these like a time-out.

`Till` has one action for each stretch of code between two awaits of `lib/sync.ts` and of the POS
handlers. Each page (*tab*) has at most one run of `syncNow`, one bind of `handleBindDevice`, one
binding check and one approval under way: the four *jobs* of a tab.

| Code | Actions |
|---|---|
| `approveThisDevice` | `StartApproval`, `ApprovalAnswered/Refused/Fails` |
| `handleBindDevice`, `createLocalAssignment` | `ChooseBarber`, `SavePending` |
| `registerPendingAssignment` | `RegisterRequest`, `BindAccepted/NotApproved/Refused/Fails`, `DropBinding` |
| `createSale` | `Ring` |
| `retryRejected` (its `clearRejection`) | `ClearRejection`, then a `StartRun` |
| `runSync`, `sendChunk`, `triggerSync` | `StartRun`, `Collect`, `ChunkAnswered/NotApproved/Fails`, `EndRun` |
| `verifyCurrentAssignment` | `StartCheck`, `CheckAnswered/Fails` |
| page load, reload | `Reload` |

`ShopServer` has the routes: bind in two steps (look up; then write, or lose the race to a row
created meanwhile), sync in up to three kinds of step (prefetch; register unknown assignments;
record one sale at a time), and the one-step routes binding, approve and revoke. A barber leaving
and a gateway switched by a restart are external edits. A database transaction is one atomic step;
a write conflict rolls it back, which is no step (this is MySQL/InnoDB's promise, not checked here).

`SaleLedger` is the abstract specification: a sale keeps the barber it was rung up for, is booked at
most once and for that barber, and is let go by the phone only when booked. `SaleSync` shows that
phones, network and server implement it, with the mapping `Ledger`.

Modelling decisions a reader of the code should know:

- A run's second read of the pending bind and its snapshot of the queue are one step (`Collect`):
  IndexedDB orders the snapshot before any write that follows.
- `clearLocalBindingIfSame` reads, awaits and deletes; the model keeps the two steps apart
  (`BindRefused` or `CheckAnswered`, then `DropBinding`), so the binding it deletes may be newer.
- The reads a handler makes in a row, with no write of its own between them, are one step where what
  they read cannot change back (rows are never deleted, unique ids).
- "Refused" stands for every 4xx other than `DEVICE_NOT_APPROVED`. A wrong PIN is a refused approval.
- Left out: assignments from before assignment ids (`ensureAssignmentId`), a device key lost from the
  browser's storage, all display.

### `Gateway` and `QrDialog`

`Gateway` is one sale's way to a PayMongo charge and the way back of PayMongo's word on it. A *slot*
is a running handler; its `stage` says at which await it stands. `LockSale` is the `SELECT … FOR
UPDATE`; `CreateIntent`, `Attach`, `StoreCharge` are `createQrphCharge` and the insert inside the same
transaction; `TxTimesOut` ends that transaction while the handler keeps waiting for PayMongo;
`CheckPayment`, `Retrieve` are Check status and the reopening of a QR; `Deliver`, `ReadPayment`,
`Apply` are the webhook and `applyGatewayStatus` with its read outside the transaction. PayMongo and
the customer (`Pay`, `Decline`, `Expire`) are external: modelled as what `gateway.ts` relies on, a
payment after expiry included, since its comment says the money may have been taken. `RunOut` is the
shop PC's own clock passing the QR's `expiresAt`. The amount, the webhook's signature and live-mode
events are left out.

`QrDialog` is the phone's end: the sale is synced, a charge asked for, its stored status polled every
3 s while the dialog shows PENDING and checked on demand. Polls overlap and answer in any order; the
dialog may be closed at any time, and another sale may be put under an open one (`swapped`), because
the pages render it without a `key`. The server is reduced to the settling of a charge.

### `Books`

Each handler (save a count, review a date, load or pay a day) is a slot that steps from await to
await. A saved count is `BeginSave` (`reconciledAt` is taken), `ReadSales`, `ReadPayouts`,
`ReadLatest`, `CreateRevision` (the unique index makes the loser read again, up to `MAX_REVISION_ATTEMPTS`). A review is
`BeginReview`, `ReadReview`, `WriteReview` (the conditional update). A load is `BeginLoad`,
`ReadTotals`, then one `WriteRow` per barber, in whatever order the set of `syncLedgerRows`
gives them, and `FinishLoad`, which stores the owner's payment if the load is one. Around them sales are
stamped (`StampSale`), committed (`CommitSale`) and confirmed by the gateway, and the clock ticks.
`Stale` is computed as `reconciliation.ts` computes it, from timestamps. `AppendOnlyLog`
is the abstract specification of a day's revisions, `DayLog` the refinement mapping.

### `Totals`, `Figures`, `Insights` and `Story`

`Figures` computes, from one set of rows, what each screen shows: price and discount on phone and
server, the commission snapshot, a day's cash, the ledger rows and their summary on both bases, the
trends and the insights totals. Money is in centavos, rounding included. `Totals` is the one sum they
use, what `reduce` and `_sum` add up.

`Insights` is the page of `app/insights/page.tsx` while its loads are under way. A load is a set of
queries; `After` is the order their awaits impose (the saved count before the totals, the totals
before the six queries of one `Promise.all`), `Answer` reads the rows one query finds at that moment,
`Fail` is a load that is caught and shown as missing. Between the answers sales arrive, QR Ph
payments are confirmed, dates reviewed, payouts and counts saved (`Write`); `touched` remembers which
sales. The rest are operators on the rows read: the cards, the tapes that write a sum out line by
line, the table of barbers, the trend's change in percent, the forecast's section. One simplification:
the three counts of `computeStaleness` are read at one moment.

`Story` builds on `Figures`: the
slides that `insights-story.ts` chooses and the claim each sentence makes (about whom, which
direction, which number), with the thresholds as `Rules` and the ways the page may load as `Visits`.
A sentence is a record of what it claims; its wording is left out.

`Report` keeps rows as places in `METHOD_NAMES` and tables as sets of rows; `InOrder` is the sorted
list of a set, an element's place being the number of those before it, and the days shown are the
first `horizon` of those to come. `Array.sort` is stable, so methods with equal errors keep the order
of the table (`Better`).

### The pages and the smaller parts

| Module | State and actions follow |
|---|---|
| `DrawerPage` | `loadData` runs with their `active` flag, the counted amount and the day it was typed for, `handleSubmit`, reviews and the PIN dialog |
| `LedgerPage` | cards typed and saved one by one, two answers per load, nothing cancelled |
| `DevicesPage`, `QrPage` | requests out, what the server answered them, the two-tap confirmations |
| `Deck` | intro, keys, swipes, autoplay timer, a story replaced underneath |
| `ShiftLog` | pages of sales, overlapping syncs and retries, the message with its 3 s timer |
| `Checkout` | form, loyalty, dialogs and `createSubmitLock`; the tap that comes before the rendering that disables it |
| `ShopPc` | the probe with its timer, hidden pages, hanging answers |
| `OfflinePages` | every branch of `sw.js`: in time, late, timed out, redirected, backed off; new releases |
| `PaymentQr` | uploads in two steps, the phone's `run()` from list to download |
| `OwnerAccess` | one limiter of `pin-attempts.ts` in ages, requests between check and record, the cookie |
| `Forecast`, `Report` | refreshes saved in one transaction while pages read two queries; what the panel, the ranking and the owner's two comparison tables show |
| `Training`, `Paydays` | logbook edits, blocked test weeks, the three files, the service that loads two; the payday calendar |
| `Startup` | each step of `start-ruzzco.ps1` with its stamp, updates and interruptions at any point |
| `LocalNet` | certificate and sockets following the PC's networks; queries, the per-second limit, withheld answers |

`PhoneParts` and `ShopParts` put the parts that share no state into one specification each. `part`
names the one that runs; the others stand still at one initial state. Every behaviour of a part is a
behaviour of the composition with that `part` (a stuttering part constrains nothing), and a property
of one part mentions only its variables, so the composition satisfies it exactly when the part does;
TLC explores the sum of the state spaces and not their product. Parts that do interact are composed
properly: phone, network and server in `SaleSync`; sales, counts, payouts and reviews in `Books`; sums,
the page that reads them and the sentences in `Insights` and `Story`.

## 3. What is checked

The MC modules only name constants and symmetric sets. No run needs a state constraint: every counter
has a bound in the actions' guards.

| Run | Instance | Asks |
|---|---|---|
| `SaleSync` | 1 phone, 1 page, 2 barbers, 2 assignments, 2 sales, 2 slots | `NoSaleLost`, `Attribution`; refinement `KeepsLedger` |
| `SaleSyncTabs` | POS and shift log on one phone, 1 barber who may leave, 1 assignment, 1 sale, 3 slots | the inductive invariant `IInv`; `HeldUntilBound` with two runs at once |
| `SaleSyncPhones` | 2 phones (interchangeable with their pages), 2 assignments, 1 sale | `OneActiveBinding`, `OnlyBindBinds`, `RevokedIsFinal` |
| `SaleSyncShop` | 1 phone, 3 sales (one by QR Ph, one the database refuses, one from before assignment ids), a gateway switched off and on, batches of 2 | `RefusedNotBooked` |
| `SaleSyncLive` | 1 phone, 1 assignment, 1 sale, fair | `QueuedSaleSettles` |
| `SaleSyncLateBind` | as `SaleSync`, 1 sale | violation: `BoundMeansActive` |
| `SaleSyncLostPending` | as `SaleSync`, 1 sale | violation: `CurrentHeldUntilBound` |
| `Gateway` | 1 sale, 2 intents, 2 handlers, 2 faults | `OneChargeShown`, `StatusAgrees`, `PaidMeansTaken`, `PaidIsFinal` |
| `GatewayLive` | 1 sale, 1 intent, 2 handlers, 1 fault, fair | `TakenIsSettled` |
| `GatewaySwallowed` | 1 sale, 1 intent, 2 handlers, no fault | violation: `PaidEventIsApplied` |
| `PhoneParts` | the phone's parts, the PIN doors and the owner's lists, one at a time, fair | the eleven properties of the next table |
| `ShopParts` | the books and figures, the owner's forms, the forecast, start-up and network, one at a time | the fourteen properties of the table after it |

`PhoneParts`:

| Property | Says |
|---|---|
| `PhonePartsTypeOK` | the type invariant of every part; the pages of the shift log, one after the other, are the log; the ranking, tables and chart of a saved forecast are true of it |
| `GuessesAreCapped` | in any window no more wrong PINs are looked at than the limit and the requests already under way |
| `PosOpens` | with a copy on the phone, POS, shift log and start page always open on a page; a redirect does not wait for the PC again |
| `CopyCatchesUp` | if the PC answers now and then, if only ever late, the stored POS becomes the release it serves |
| `PaidShownIsPaid`, `PaidIsNoticed` | the dialog shows Paid only for a paid charge; a paid charge is shown while it waits |
| `OneSalePerGesture` | two sales come from taps at least the hold apart; one loyalty card discounts one sale |
| `ListsAtRest` | the lists of phones and QRs show what the server holds once every request has ended; a list left wrong by calls that crossed is right again after one load by itself |
| `HashIsTheImages`, `CopiesCatchUp` | a QR copy never lies under another's hash, and follows the server in the end |
| `BackIsNoticed` | the waiting sales are offered for sync once the PC answers again |

`ShopParts`:

| Property | Says |
|---|---|
| `ShopPartsTypeOK` | the type invariant of the part that runs |
| `RevisionsAreALog` | the table of counts refines `AppendOnlyLog`: gapless, never rewritten |
| `EveryChangeIsNoticed` | a sale counted today that the saved count did not see makes it stale |
| `PaidAsPosted`, `OwedIsEarned` | a posted payment survives the loads beside it; what a row says is owed was earned |
| `MoneyStaysOnItsDay` | money counted on a day never moves and is never counted on two |
| `FiguresAreTrue` | the same peso gives the same figure on every screen, each counted or asked about; the insights page, read query after query, misses nothing that was stored before and stayed, and what it writes out adds up |
| `StoryIsTrue` | no sentence of the presentation claims what the figures deny; what needs attention is asked for |
| `CountOnItsDay`, `TypedAmountsKept` | typed amounts go to the day and barber they were typed for, and are not lost to another's answer |
| `DaysOfTheirRun` | after overlapping refreshes the stored days are those of the run they name |
| `NothingAhead` | no training, test or input of the forecast reads a day at or after the one predicted; the payday input is the latest payday's |
| `RunningIsWhole` | what the window started runs with packages, schema, seed and build that belong together, whatever was cut short before (exceptions: gap 8) |
| `QuestionsAreAnswered` | a question for the shop's name is not silenced by an answer given on another network |

Several state their exceptions openly, as in `EveryChangeIsNoticed` or `ListsAtRest`: the exception is a
gap of the code, listed in section 5, not a convenience of the model.

`CHECK_DEADLOCK FALSE` everywhere: ids, faults and approvals are bounded, so an instance does stop
when they are used up.

**Bounds.** In `SaleSync`, `Slots` bounds the requests outstanding at once, abandoned ones included:
two are a request and the retry that overtakes it, three let two pages each overtake a third.
`MaxFaults` bounds time-outs, losses and reloads together; `MaxSecret` the approvals of a phone;
`ChunkSize` is 50 in the code; 1 makes a queue of two take two chunks, 2 puts a sale the server
refuses and one it stores in one batch. Two assignments are enough for "old" and "new", two sales for
one held and one sendable. In `Books`, `Mixes` says which handlers meet: saves with each other, with
reviews, with loads, and each with a sale that arrives in between. The limiter is 2 of 2 within a window of 2 (5
within 15 minutes in the code). In `Figures` and `Story` three sales of six kinds (loyalty, custom
amount, tip, flagged, unpaid QR Ph, legacy), a payout and a count reach every branch with thresholds
scaled down. In `Insights` one sale, one payout and one count may be there, one more write comes
between any two queries (`MaxMeanwhile`), and the day asked for is today; `ShopParts` has 628 816
states in all. `Training` has ten days and two test weeks of two, `Paydays` three whole years with
a leap year in the middle. What these bounds cannot show is proved without them for the properties of
section 4.

**Fairness.** `SaleSync!Fairness`: a function or handler that has started gets on (awaits settle, a
vanished request is noticed, MySQL answers), and a run is started again whenever that stays possible
again and again: `app/pos/page.tsx` retries every `AUTO_RETRY_MS` (60 s) while it is visible and
sales wait. So `QueuedSaleSettles` speaks of a phone with an open, visible page. Nothing is assumed
of barbers, owner or network; `MaxFaults` makes faults finite. `Gateway!Fairness`: handlers get on
and PayMongo redelivers an event until it is answered 200; nothing is assumed of cashiers, customers
or restarts. In `PhoneParts`: timers fire and requests end with or without an answer
(`PcFairness`, `DialogFairness`, `PagesFairness`); a phone refreshes its QR copies again and again
(on load, bind and reconnect, `QrFairness`); the POS is opened again and again and the PC answers it
now and then (`SF_vars`, since a time-out disables the answer in time but not the late one). Nothing
is assumed of owners, and faults are finite.

**What the three violations say.** They are disagreements between code and comments, with traces:

1. `SaleSyncLateBind`: `handleBindDevice` registers outside `syncNow`; when the server handles the
   newer of two binds first, the older one revokes it, and the phone, whose pending bind is cleared,
   works under a revoked assignment until its next binding check asks for the barber again. Its sales
   are still booked, and for the right barber (`Attribution` holds).
2. `SaleSyncLostPending`: a page closed between the Dexie write and the localStorage write of a new
   binding comes back bound with nothing to register; its sales reach the server before any bind.
3. `GatewaySwallowed`: the webhooks "expired" and "paid" both read PENDING; "expired" commits first,
   "paid" changes nothing, but its id is filed. A redelivery is a duplicate, Check status no longer
   asks PayMongo, and the sale stays EXPIRED though the customer paid.

Each property has a mutant: a plausible bug (an operator such as `ToSendUnheld` or `BooksAlone`
placed just before the definition it mutates) under which TLC must find the property violated.

## 4. What is proved

Eight modules hold proofs. Their assumptions are the `ASSUME`s of the component modules (types of the
constants, `None` and the other placeholders distinct from every value, at least one secret if a phone
starts approved, that only QR Ph sales start unpaid, which is the comment of
`lib/reconciliation.ts:51`, that a catalog price is at least two centavos, that a saved forecast has days
in a row from no later than today, and that what a run may load is bounded by numbers); TLC evaluates each in a passing run. All results hold for every value of
the constants, so for any number of phones, handlers, sales, days, requests, writes and faults.

| Theorem | Says |
|---|---|
| `SaleSyncProofs`: `Invariant`, `TypeCorrect` | `Spec => []IInv`, `Spec => []TypeOK` |
| `SalesAreNotLost`, `SalesAreAttributed`, `OneBindingPerPhone` | `NoSaleLost`, `Attribution`, `OneActiveBinding` always hold |
| `RevokedStaysRevoked`, `SyncNeverBinds` | the action properties `RevokedIsFinal`, `OnlyBindBinds` |
| `ImplementsLedger` | `Spec => KeepsLedger` (refinement) |
| `SaleSyncHeldProofs`: `PendingIsHeld` | `HeldUntilBound` if at most one page of each phone is a POS (`OnePos`) |
| `RefusalsAreTrue` | `RefusedNotBooked` if each phone has one page (`OnePage`) |
| `GatewayProofs`: `GatewayInvariant`, `GatewayTypeCorrect` | `Spec => []GatewayInv`, types |
| `OneChargePerSale`, `StatusIsThePayments`, `PaidWasTaken`, `PaidStaysPaid` | `OneChargeShown`, `StatusAgrees`, `PaidMeansTaken`, `PaidIsFinal` |
| `BooksProofs`: `BooksInvariant`, `BooksTypes` | `BooksSpec => []BooksInv`, types |
| `PaymentsAreKept`, `ChangesAreNoticed`, `MoneyStays`, `RowsNeverOverpay` | `PaidAsPosted`, `EveryChangeIsNoticed`, `MoneyStaysOnItsDay`, `OwedIsEarned` |
| `RevisionsImplementLog` | `BooksSpec => RevisionsAreALog` (refinement) |
| `FiguresProofs`: `PagesAgree`, `FiguresTypes` | `FiguresAgree`, types |
| `InsightsTellTruth`, `InsightsTypes` | `PageIsTrue`, types |
| `StoryTells` | `StoryIsTrue` for any rows, thresholds and ways to load the page |
| `PhonePartsProofs`: `GuessesStayCapped` | `GuessesAreCapped` for any limits and any number of clients |
| `CheckoutInvariant`, `OneGestureOneSale` | `OneSalePerGesture` for any hold and any number of taps |
| `DialogInvariant`, `PaidIsTheServers` | `PaidShownIsPaid` for any number of polls |
| `HashesFit`, `PagesOpen` | `HashIsTheImages`, `PosOpens` |
| `ListIsTrue`, `AlbumIsTrue` | `DevicesAtRest` and `QrPageAtRest`, the two halves of `ListsAtRest` |
| `PhonePartsKeep`, `PhonePartTypes` | all of them, and `PhonePartsTypeOK`, in the composition `PhoneParts` |
| `ShopPartsProofs`: `CountsStay`, `TypedStays`, `DrawerTypes` | `CountOnItsDay`, `TypedAmountsKept`, types |
| `WindowTellsTruth`, `PhonesFindThePc`, `NetTypes` | `RunningIsWhole`, `QuestionsAreAnswered`, types |
| `DaysAreOfTheirRun`, `NothingIsAhead`, `TrainingTypes`, `PaydaysAreRight` | `DaysOfTheirRun`, `NothingAhead`, types, the payday calendar for any range of years |
| `ShopPartsKeep`, `ShopFiguresAreTrue`, `ShopStoryIsTrue`, `ShopPartsTypes` | all of them, `FiguresAreTrue`, `StoryIsTrue` and `ShopPartsTypeOK` in the composition `ShopParts` |

`Sums` holds the lemmas on `Total` that the proofs about money share. Every invariant, action property
and refinement that a passing run checks is stated by one of these theorems.

**The arguments.** None of these properties is inductive alone; each proof strengthens it by what the
messages and handlers under way are worth.

- *Sales.* A phone marks synced what an *answer* says, and the answer may be old, so `NoSaleLost` needs
  `AnswersTrue`: every answer under way, even one nobody awaits, lists only booked sales. `Attribution`
  is about the barber of the assignment's row, so it needs `NamesFit`: pages, requests, sales and rows
  name an assignment only with the phone and barber it was generated for. `QueueTrue` ties the queue to
  what was rung up. `SaleSyncProofs` has one lemma per action for `IInv`, and maps each action to
  `RingUp`, `Book`, `Settle` or a stutter.
- *Held sales.* A sale of a pending assignment waits until the assignment is bound. `HeldInv` says so
  of every stage in between: a page that shows a binding nobody saved yet cannot sync under it
  (`SavingUntold`), and what is pending is in no request and no queue that a run took (`PendingHeld`). It
  needs `OnePos`: with two POS pages on one phone a reload of one forgets what the other is saving
  (`SaleSyncLostPending`).
- *Refusals.* A sale shown as rejected is not in the books. `RefusedInv` follows a refusal from the
  handler's answer (`AnswersBar`) to the phone (`RefusalsBar`) with the reason it stands on: a sale the
  database refuses is never booked (`BadUnbooked`); for a QR Ph sale every other request that carries
  it was given up and cannot book it before the gateway is on again, and the restart that takes cuts
  the request off (`Barred`). It needs `OnePage`: two pages may send one sale at once, one refused
  while the gateway is off and the other booked after the restart.
- *Gateway.* `CallsFit` says what a handler may rely on at the await it stands at: the intent it
  created is not on file, a transaction that lives still finds its sale PENDING and without a payment,
  what it was told by PayMongo stays true. `CallsApart` is the row lock: no two live transactions for
  one sale, no intent in two hands. `RowsFit` ties payment, sale and intent together.
- *Books.* For each save, and for each revision it made, `CountFits` says of every sale: it was seen,
  its write was under way (`open`), or it will carry a time not before `reconciledAt`. `Numbered` and
  the number a save has read give the refinement: the create that succeeds appends. `MoneyStays`
  needs that a review that writes found its sale still unreviewed (the conditional update). `OwedInv`:
  what a load read and has not yet written is at most what the sales of that day earn now, since
  sales that count never stop counting.
- *Sums.* Their laws cannot be proved by induction here, so each is proved by a smallest
  counterexample: if a law fails for a finite set it fails for a set all of whose smaller subsets obey
  it (`SmallestSet`), and taking one element away from that set is a contradiction.
- *Figures.* Every screen adds up one table in its own way. "A sum is the sum of its parts"
  (`SumOfParts`) takes trends by day, barber and method, the ledger and the drawer back to the total
  over the same sales; what remains is that each screen's filter selects those sales.
- *Insights.* `PageInv` says of each query that was answered: it found every sale that was not
  touched since the page was asked for, and nothing that no row explains; rows that can no longer change
  (paid, reviewed) stay, so what an earlier query found a later one finds too. Each sentence
  of `PageIsTrue` then follows from rows of one query, or from untouched sales.
- *Story.* There is no state to strengthen; every slide is taken through the branch that chose its
  sentence, and the sentence through the lemma on the figure it names. Percentages are never divided
  out: a rounded change is positive only if a product of the two averages is the larger one
  (`StoryCompares`). The busiest stretch is the largest of finitely many sums (`StoryHours`), the bars
  of a slide are a partition of the day's revenue (`StoryMoney`), and the list of things to do has an
  item for each thing the rows show (`StoryAsks`).
- *Shift log.* `FlattenSeq` is a recursive function, of which only its equation is known. The pages
  up to each one end where that one does: the first page where they did not is contradicted by the
  equation (`PagesAreLog`). A page shown stays one, since the log
  only grows (`LogInv`).
- *Ranking and chart.* A finite set in the order of a strict total order lists every element: ranks
  are injective, so by the pigeonhole principle each place is taken (`InOrderSorts`); the same
  argument bounds the days shown by the horizon (`FirstFew`). The last of the ranking has the largest
  error, so its bar has the full width, and bars grow with errors (`BarsGrow`).
- *PIN limits.* Since the last lock of a client the limiter's memory and the history of wrong PINs
  agree; while the lock is on, every further guess uses up one of the requests that were under way
  when it came (`AccessInv`).
- *Checkout.* The lock is free only when nothing is being written and a full hold has passed since the
  last tap (`LockFits`); the sale being written came from such a tap (`WritingFits`).
- *Dialog.* An answer under way was read for the sale shown, unless a sale was swapped in, and PAID,
  once read, stays true.
- *Owner's pages.* `DrawerInv`: after a change of day the old amount may stand in the form, but no
  figures are shown, so the button is off; only a save's answer could bring them back. `DevicesInv` and
  `QrPageInv`: a list read and not yet shown is true unless a write crossed it.
- *Copies and pages.* An image not replaced since the list was taken is the one listed (`CopiesInv`);
  a start page that goes to the POS does so only while the PC is known not to answer, or after it
  has been heard (`PagesInv`).
- *Start-up.* `StartupInv` has one part per stage: once the script is past a step, the step's stamp
  matches the files as they were when this start looked, and a stamp is written only after its work.
  A stamp of the lock file there is now vouches for what is installed, unless npm's own hidden lock
  file belies it or the lock file changed within two minutes of that install (`Overlooked`); barbers
  are there from the seed on, unless this run could not count them (`uncounted`).
- *Network.* `NetInv`: an answer under its limit was heard for as long, or is still to be sent, or
  its network went; what is being sent leaves on its own network.
- *Forecast.* `ForecastInv`: rows name the run that wrote them; two runs mix only if their saves
  crossed, which is the exception of the property. `TrainingInv`: what a model was fitted on lies before
  the block it is tested on, and the files on disk are those of a whole training. The paydays are
  compared with a reference calendar (`DaysBefore`) month by month.
- *Compositions.* Each step of a composition is a step of one part and a stutter of the others, so it
  implies every part's specification. `ShopParts` runs `Insights` under the name `Page`;
  `FiguresProofs` is a second instance of the same module, and `SamePage` matches the two definition by
  definition.

**Only model-checked.**

- Liveness (`QueuedSaleSettles`, `TakenIsSettled`, `CopiesCatchUp`, `CopyCatchesUp`, `BackIsNoticed`,
  `PaidIsNoticed`): fairness and `ENABLED` are out of the prover's reach.
- `HeldUntilBound` with two POS pages on one phone, and `RefusedNotBooked` with two pages, are *not*
  true of the code (gap 17); `SaleSyncTabs` and `SaleSyncShop` have the pages their theorems assume.

## 5. Gaps of the code met while modelling

The properties name these as exceptions, or the model leaves the step out; each is noted at its hazard.

1. `app/pos/page.tsx:544`: `handleQrphCheckout` awaits the gateway check before it takes the lock; two
   QR Ph taps answered more than the hold apart record two sales, and a loyalty card seen by a waiting
   QR Ph tap and by a cash tap discounts both.
2. `app/pos/page.tsx:707`, `app/shift-log/page.tsx:169`: `QrPhCheckout` has no `key`, so its phase
   survives a change of sale; polling stops at EXPIRED or FAILED, so a later PAID shows only on reopening.
3. `lib/payment-qr-cache.ts:38-51`: image B stored under A's hash stays if A is uploaded again.
4. `reports/reconciliation/route.ts:101`: a sale stamped before `reconciledAt` and committed after the
   totals are read is neither seen nor late; a QRPH payment is dated by PayMongo's `paid_at` and moves
   revenue without a late mark.
5. `app/reconciliation/page.tsx:166`: the answer to a save has no guard for a changed date.
6. `app/ledger/page.tsx:40-82`: loads are not cancelled and a save posts the date chosen now, so a
   payout typed on one day's row can be posted, or put back, on another.
7. `components/InsightsPresentation.tsx`: a story that shrinks while it is open leaves the index past
   its end; figures of separate reads may disagree.
8. `src/web/prisma/seed.ts:24`: a seed cut short after its first barber is never repeated; an update
   during a build or an install is not noticed until the next start. `start-ruzzco.ps1:562`: when the
   barbers cannot be counted the script warns and goes on, so an empty database is not seeded in that
   run. `start-ruzzco.ps1:516`: without a stamp, a lock file up to two minutes newer than npm's hidden
   one passes for it and is stamped (`:527`), so later starts do not install either.
9. `src/web/scripts/https-proxy.mjs:161`: the key is written before the certificate and the two are
   never compared; a failed renewal on a new network is not retried.
10. `lib/forecast.ts:143`: run and rows are read separately.
11. `ledger-summary/route.ts:100`: a day's remaining amount hides one barber's balance behind
    another's overpayment.
12. `lib/insights-story.ts:806`, `:815`: "Nothing needs attention" when the day could not be read;
    "so far" for sales stamped later than now; "already past" a typical day from 99.5 %.
13. `src/ml-service/train.py:135`: the model is written before its metadata, and `app.py:26` reads them
    one after the other.
14. `app/devices/page.tsx:72`, `app/payment-qr/page.tsx:34`: reloads are never disabled and one
    `workingSlot` serves all slots; a load that crosses a write leaves the list wrong (`mixedUp`,
    `qrMixedUp`) until the next load by itself. A write whose answer was lost is taken to have reached
    the server by then or never.
15. `app/shift-log/page.tsx`: an earlier message's timer clears a later message; `isSyncing` goes off
    with the first of two overlapping syncs.
16. `devices/bind/route.ts:81`: the barber may have left between the check and the write.
17. `lib/sync.ts`: the `syncNow` lock and the displayed binding are one page's. With two POS pages on
    one phone and a reload, sales of a bind never registered are sent (`OnePos`); two pages that send
    one QR Ph sale at once, across restarts that switch the gateway off and on, may show it as rejected
    though it was booked (`OnePage`).
18. `app/insights/page.tsx:67`: the queries of one load are separate reads, so the table of barbers and
    the day's totals may differ by a sale that came in between; `PageIsTrue` speaks of untouched sales.

## 6. Not modelled, and why

The numbers a fitted model gives (scikit-learn), the cells of the workbook (any slip in them is one
kind of slip in `Training`), page layout, drawing and wording (`ShopRoom.tsx`, charts, about page), the
forwarding of requests by the HTTPS proxy (its failures are lost requests of the other models), the
bytes of DNS packets and images, migrations, developer scripts and tests. MySQL, PayMongo, Docker, npm,
Prisma and the browser's service-worker life cycle are external: modelled as what the code relies on.
In the phone: assignments from before assignment ids and a device key lost from storage.

## 7. Plan

1. The forwarding of the HTTPS proxy and the first-run checks of `start-ruzzco.ps1` that ask the
   owner are the largest stretches of code that keep state and are not modelled.
2. `HeldUntilBound` without `OnePos` and `RefusedNotBooked` without `OnePage`, should the code close
   gap 17.
