# Formal model of the EV charging platform

TLA+ specifications of the repository's backend (`apps/backend/src`), of the
database rows and seed it works on (`packages/database/prisma`), of the charger
simulator, and of the parts of the driver's app (`apps/mobile-driver`) and of
the administration's web application (`apps/admin-web`) that keep state against
it; TLC configurations that check them on small instances; and TLAPS proofs of
what holds for every instance. Paths are relative to the repository;
`backend/` stands for `apps/backend/src/`, `app/` for `apps/mobile-driver/`.

    tlc -workers 2 -config MCServices.cfg MCServices     # a run of the table below
    tlapm ServicesProofs.tla                             # the proofs of one module

## The system

A driver (mobile app) creates, starts and stops charging sessions through the
REST API of a NestJS backend, and an operator works in the administration's web
application. The backend keeps everything in PostgreSQL (Prisma), uses Redis for
idempotency and locks, and talks to chargers through OCPP 1.6 WebSockets or to a
simulator over HTTP. Every request is an asynchronous handler: between two
`await`s any other handler may run, and several backends may run at once. Safety
rests on database transactions, on optimistic versions (`updateMany ... where
version`), on unique keys, on row locks (wallets) and on locks that expire
(Redis). A client does not know what other clients do, holds what it was once
answered, and may lose an answer.

| Component | State | Operations | Modules |
| --- | --- | --- | --- |
| Wallet and ledger (`backend/payments/wallet`, `ledger`) | wallets, reservations, ledger transactions with entries | credit, reserve, captureReserved, releaseReserved, refund, setBlocked, statement | `WalletLedger`, `Listings` |
| Charging sessions (`backend/charging`) | sessions, connectors | create, start, stop, handleChargerEvent, failSession | `ChargingSettlement`, `Lifecycles` |
| Payment policy, intents, receipts (`backend/payments/charging`, `intents`, `receipts`) | intents with status and version, receipts | authorize, settle, cancel; create, transition; issue | `ChargingSettlement`, `SettlementContract` |
| Refunds (`backend/payments/refunds`) | refunds | refundCapturedPayment | `Refunds` |
| Top-ups and webhooks (`backend/payments/topups`, `webhooks`) | top-up intents, webhook events | create, cancel, applyWebhook, handle, processEvent | `TopUps` |
| Automatic recharge (`backend/payments/auto-recharge`) | rules, intents, a lock | update, disable, evaluate | `AutoRecharge` |
| Reconciliation (`backend/payments/reconciliation`) | records, locks | run | `Reconciliation` |
| Payment methods (`backend/payments/methods`) | tokenised methods, one default | create, setDefault, remove | `PaymentMethods` |
| OCPP central system (`backend/ocpp`) | sockets, commands, transactions, message log | startSession, stopSession, calls, connect, disconnect | `OcppCentral`, `OcppConnections` |
| Idempotency and Redis (`backend/common`, `redis`) | results and locks | execute | `Idempotency` |
| Authentication (`backend/auth`, `backend/admin/access`) | families of refresh tokens, memberships | login, refresh, logout, block, disable | `RefreshTokens`, `DriverSession`, `AdminSession` |
| Vehicles, profiles (`backend/vehicles`, `users`) | vehicles with one default, user row | create, update, duplicate, setDefault, remove; updateProfile, requestAccountDeletion | `Garage`, `Profile` |
| Administration (`backend/admin`) | memberships, remote commands, tariffs, stations | assignRoles, disableOperator, createCommand, publishTariff, archive ... | `Operators`, `RemoteCommands`, `Tariffs`, `Stations`, `Listings`, `Reports` |
| Stations, history, dashboard (`backend/stations`, `charging-history`, `dashboard`) | read models | nearby, list, getTimeline, getMeterPoints, dashboard | `StationSearch`, `Listings`, `MeterSampling`, `Reports` |
| Charger simulator and gateways (`apps/charger-simulator`, `backend/charging/gateway`) | sessions and connectors in memory | start, stop, tick, fail, disconnect | `ChargingSettlement` |
| Driver app: charging (`app/app/(tabs)/charge`, `app/src/realtime`) | store, key of the visit, feed | prepare, start, watch, stop | `ChargeStart`, `ActiveCharge` |
| Driver app: location and search (`app/src/location`, `app/app/(tabs)/stations`) | watch of the phone, filters, cached answers | locate, refresh, watch; filter, search | `UserLocation`, `StationSearch` |
| Driver app: payments (`app/app/(tabs)/profile`) | cache of five queries, mutations | poll, add funds, cancel, save rule, methods | `WalletScreens` |
| Demonstration backend (`app/src/api/mock-api.ts`) | module variables | vehicles, methods, wallet, Pix, charging | `MockBackend` |
| Demonstration data (`packages/database/prisma/seed.ts`) | the seeded rows | every statement of a start | `Seed` |

### What is hard

* **Interleavings.** A session ends by a stop request, by the STOPPED event of
  the charger, by a failure event or by an error path, and these run at once.
  Two requests read one row and write it back in turn.
* **Failing transactions.** A serializable transaction of the wallet that
  conflicts three times throws, as any call of a database in trouble does, in the
  middle of a handler; some catch blocks make up for it, and some handlers just end.
* **Atomicity.** Session, connector, intent, reservation, wallet and receipt of
  one charge are written by up to eight transactions. The process may die
  between any two of them, and nothing scans for unfinished work afterwards.
* **Lost, late and repeated answers.** A gateway call that times out may have
  had its effect; a charge point repeats a call until it is answered; webhooks
  come repeated, reordered or not at all; an app retries what was already done.
* **Locks that expire** under the work they guard.
* **Stale state.** An answer is shown, stored or acted on after the row it
  describes has changed: cached queries, realtime events, snapshots of tariffs,
  refresh tokens read by two tabs.
* **Money is kept twice**, as balances and as ledger entries, and reported by
  queries that were written apart from each other.

`PROJECT.json` lists each hazard with its line and the properties about it.

## How the modules are built

One module per component: its rows and its handlers are VARIABLES, each step of
a handler between two `await`s that touches shared state is an action, and a
database transaction is one action when it is serializable or holds the lock of
its row, and a read and a versioned write otherwise. Definitions have the names
of the code where TLA+ allows it, and `PROJECT.json` maps each to its lines. An
action that a request may take although it has no effect (a replay, a refusal
before any change) is a stuttering step and is left out.

Modules whose components interact are composed by INSTANCE: the settlement,
refunds, top-ups and automatic recharge take their steps of money from
`WalletLedger`; driver's and operator's sessions run on `RefreshTokens`. The
remaining interactions are through one call each, whose caller sees any outcome
its own module allows.

Independent instances are checked side by side: an MC module has a variable
`focus` that names the one component which runs in a behaviour, while the
variables of the others are at rest. What is checked is the disjunction of the
instances, and a property of one of them reads `focus = "..." => ...`. The
proofs show that each component does there what it does alone.

| MC module | Focus |
| --- | --- |
| `MCFoundations` | `ledger` (`WalletLedger`), `connections` (`OcppConnections`), `sharing` and `written` (`ChargingSettlement` with two sessions) |
| `MCPayments` | `topups`, `refunds` |
| `MCOcppCentral` | `OcppCentral` alone |
| `MCClients` | `driver`, `admin`, `start`, `watch`, `location`, `wallet` |
| `MCServices` | `operators`, `commands`, `tariffs`, `stations`, `garage`, `methods`, `profile`, `idempotency`, `reconciliation`, `listings`, `sampling`, `recharge`, `seed`, `mock`, `search`, `reports` |

## Modules

### Money

**`WalletLedger`.** `wallet` holds `status`, `availableBalanceMinor`,
`reservedBalanceMinor`; `reservation[s]` is the reservation of session `s`
(`charging_session_id` is unique); `journal[k]` is the ledger transaction posted
under idempotency key `k`, with one debit, one credit and an amount. Each
operation is one serializable transaction under the wallet's row lock, so one
action. `CaptureReplays` and `ReleaseReplays` name the replays that callers
continue after. Balances by the ledger are cardinalities of sets of units, so
that they can be reasoned about without recursion. `createWallet` is folded into
`Init`.

**`ChargingSettlement`.** A *worker* is one request or charger event being
handled: the operation it is about to do, the session, what it has read, and where
its catch block leads. A transaction that reads a row and writes it later is two
steps, and its write commits only on the version that was read; otherwise it
throws and is rolled back. `Create` is one step: serializable, the connector only
from `AVAILABLE` at the version it read, and a partial unique index allows one
active session per connector. The order of a handler's steps is that of its
`await`s: create: `Create`, `CreateIntent`, pend, `ReserveMoney`, authorize,
`AuthorizeSession`; start: `StartPrepare`, `GatewayStart`, `StartCommit`; stop:
`StopPrepare`, `GatewayStop`, `Complete`, `Settle`, `Capture`, capture of the
intent, receipt, `AutoRecharge`; error paths: `FailSession`, `Cancel`,
`CancelReservation`, `Release`, cancellation of the intent; events: `HandleMeter`,
`HandleStopped` (then as stop), `HandleDisconnect`, failure. `GatewayStart` and
`GatewayStop` may have their effect and still end in the error path, which is what
a timeout is. `charger[s]` is the equipment. `Throw` is any of these transactions
rolled back with an error, the third conflict of `serializableTransaction` among
them; it leads where the catch block does (`AfterError`): create, start and stop
fail the session and give its money back, while the handler of a charger event,
and `failSession` itself, just end, and `abandoned` keeps the sessions this
happened to. `StatusNotification`, `ConnectionLost` and the operator's write set a
connector without looking at sessions. The cost of a session is any of `Costs`.
`Lifecycles` holds the two transition tables, and `SettlementContract` what the
platform promises about the money of a session, in five actions; the refinement
mapping is `Bill`, the property `ContractSpec`.

**`Refunds`.** One captured payment. A handler computes the remaining amount
from its read of the intent (`Begin`), creates or joins the refund row of its key
(`CreateRefund`), credits the wallet under the key of that row (`CreditWallet`),
and runs the last transaction: `Claim` updates the row, whose lock it keeps, and
reads the intent; `Book` writes what it computed, or rolls back. The hash of the
request is bound to the key by comparing amounts.

**`TopUps`.** `intent`, `event` and `journal` are the tables; `charge` and `sent`
are the provider outside: what became of the charge, and the outcomes it has a
webhook for, each delivered any number of times and in any order. A creation is
`Create`, `CreatePixCharge`, then transitions; a cancellation `Cancel`,
`CancelPixCharge`, a transition; a webhook `Deliver`, `MarkProcessing`, `Apply`,
then `Credit`, `MarkReview` or a transition, then `MarkProcessed` or `MarkFailed`.
An `altered` webhook is a validly signed one with another amount.

**`AutoRecharge`.** One rule, evaluated after each capture under a Redis lock
that may expire under it: lock, rule, balance, intent of the hour (its key is
made of rule and hour), charge of the card, credit, capture of the intent, rule.
The driver spends, changes and disables meanwhile, the provider's answer may be
lost, the backend may die, and any call of the database may throw (`Throw`):
nothing catches that but the `finally` block, which releases the lock. So an
approved charge whose credit threw stays PENDING, and only another evaluation of
the same hour, which repeats the key, credits it.

**`Reconciliation`, `PaymentMethods`, `Tariffs`.** A run with its expiring lock,
what it lists and what it records while intents and provider go on. The methods
of a driver with create and setDefault serializable and remove at READ COMMITTED,
row locks included. Tariffs with drafts, publication (reads before the row is
locked), archival (reads outside any transaction) and the snapshot a session
takes.

### Charge points

**`OcppCentral`.** One session on one OCPP charge point. `starter` and `stopper`
are where the driver's start and stop requests are; their timers may fire at any
time while they wait. `handler` holds the calls being handled: one at a time per
connection, plus those of a replaced connection. A handler reads the transaction,
writes it on the version it read, lets the event relay call the session, wakes
the stop request, and stores its answer, errors included. Row versions are not
counted: `txReaders` and `sessReaders` are those whose read is still current.
`cp` is the charge point outside: it repeats the call it has no answer to, gives
up a meter value for a newer one, and stops when its start is not accepted.

**`OcppConnections`.** Sockets of one charge point, verified before they are
registered in the place of the one before, under both duplicate policies; calls
repeated on the next socket while they are handled; answers whose insertion
outlives the process.

### Sign-in, services and reports

**`RefreshTokens`** with **`DriverSession`** (an app two drivers share: one
refresh for many refused requests, sign-out and kill in between) and
**`AdminSession`** (tabs that share a cookie). A statement that revokes a set of
rows sees the rows there are when it begins and skips those revoked when it
reaches them, which is what READ COMMITTED does.

**`Operators`, `RemoteCommands`, `Stations`, `Garage`, `Profile`, `Idempotency`.**
One place per request in flight; each request reads, and writes under the guard
its code has: serializable reads, a unique key, the version its caller gave, a
lock that expires.

**`Listings`, `MeterSampling`, `Reports`, `StationSearch`.** Pages read by cursor
while rows change: the driver's history (keyset and `asOf`), the administration's
lists (cursor looked up and skipped), the wallet's statement (keyset without
`asOf`). The sampled chart of a session. Dashboard, history, timeline and the
administration's dashboard over the rows that charging leaves behind, with local
time; a period may end a minute after the request (`Tolerance`), and a session
that still runs lasts until the end of the period on the dashboard and until the
request in the history, so `DashboardIsHistory` claims equal durations up to
exactly that difference. The search of stations from the filters and the debounced
text through the cached query to the two reads of the service and back through the
filters of the screen.

### Clients and demonstration

**`ChargeStart`, `ActiveCharge`.** The preparing screen with the key of its visit,
retries and relaunches, of which the backend keeps what its idempotency cache
answers; the active screen between polls, a feed that drops, delays and reorders,
and a stop under one key per session.

**`UserLocation`, `WalletScreens`.** Operations of the location hook that abort
each other at the awaits of the service below; five payment screens over one
query cache: polls, mutations, invalidations, and answers that cross.

**`MockBackend`, `Seed`.** Every call of the demonstration backend that changes
its variables, interleaved at its waits; every statement of the seed over the
rows the application changes, with starts cut off in between.

## Runs

Twelve runs: six must pass, and six must find one violation each (Findings). A
run's properties are those of its `.cfg`; every property of a passing run is
violated by at least one plausible bug in the modelled code (`mutants` in
`PROJECT.json`).

| Run | Instance | What it shows |
| --- | --- | --- |
| `foundations` | two wallets, two sessions, one credit and one refund key, amounts to 3; two sockets, one call, one restart; two sessions on one connector, also with one write of it by others | balances equal the ledger's, the reserved balance is the sum of open reservations, settled reservations are split as the ledger says and postings never change; one connection is open and every repetition gets the first answer; a connector has one session at most |
| `settlement` | one session, two handlers, costs within and above the authorization; one crash, one transaction that throws, or one foreign write of the connector | intent and receipt tell the truth about the money between any two steps; only the cost of a completed session is paid; stale writes undo nothing; every step is one of `SettlementContract`; an ended session is settled unless a crash or an error cut that off |
| `ocpp_central` | two calls at a time, meter to 3, one crash | a session charges only on a committed StartTransaction, completes with the charge point's final meter, and meters and sessions never go back |
| `payments` | one top-up, two handlers, exact and altered webhooks, one failing call, one crash; one captured payment, three requests of one key, two crashes | money comes in once and only for a paid charge, what a screen shows as captured is credited, refunds agree in row, wallet, intent and receipt; a payment whose webhook is repeated reaches the wallet or a review; a repeated refund is booked |
| `clients` | two drivers on one app, an operator with two tabs, three or four tokens; two launches and visits; one fault; three operations of the phone; screens of wallet and rule | one good token per family and none again once it died, none for a disabled operator; the app keeps a session it can refresh; a visit makes one session; the phone is watched for a mounted screen; screens at rest are true; the end of a charge and of a payment is shown |
| `services` | two requests of each service, bounds below | the tenant keeps an administrator, a command is dispatched once, a tariff is published once, point and archive of a station agree, one default method and one default vehicle, a key produces once, runs exclude each other, lists, charts and reports are faithful, recharges are right and do not pile up, fresh books agree, the demonstration is sound, the search is right, no edit is lost |

### Bounds

* **Handlers.** Every race in the code is between a handler and one other, so two
  at a time meet them all; refunds have three because a third request joins the
  row two others dispute. Handlers begin again after they end, so long sequences
  are covered.
* **Money** needs to tell apart nothing, less than, equal to and more than the
  authorization: amounts to 3. `MaxMinor` is the code's own limit and is met.
* **`MaxVersion`** of `ChargingSettlement` ends the only unbounded cycle, meter
  values and disconnections, after two of them beyond the start of the charge;
  `sharing` lowers it to 3, as it asks about contention, and has its one top-up
  before the first session (`MoneyFirst`). Elsewhere it bounds edits of one row:
  an edit, one that overtakes it and one that follows.
* **Faults.** `MaxCrashes`, `MaxErrors`, `MaxFaults`, `MaxExpired`, `MaxFailures`,
  `MaxLost` and `RechargeFaults` count crashes, transactions that throw, calls
  that fail with or without effect, locks that expire under their owner, and
  answers lost. One at any step covers what a restart can interrupt; a second is
  allowed where something is resumed (refunds, the idempotency cache).
* **Rows.** `MaxRows`, `MaxTokens`, `MaxVisits`, `MaxLaunches`, `MaxLocates`,
  `MaxSessions`, `MaxFetches`, `MaxChanges`, `MaxEdits`, `MaxCalls`: enough for a
  row, one that replaces it and one in between. `MaxValues` (40) passes the sizes
  at which the sampled chart changes its buckets for each value of `Points`.
* **Time.** `LastDay`, `LastHour`, `MaxTime`, `MaxClock`: before and after.
* **`Limit`** of a page is 1, so that a cursor passes every row.

Symmetry is used only for sockets, handlers and the sets of services whose
members no action or property tells apart, and never in a run that checks
liveness.

Deadlock is checked where the components run for ever. It is off where they may
stop: in `settlement` a connector that was put out of use leaves nothing to do
once the handlers have ended; in `payments`, `clients`, `services` and
`seed_starts_again` the bounded rows and faults are used up.

### Fairness

* `ChargingSettlement`: weak fairness of each handler. Node runs every resolved
  promise, Prisma calls return or fail, and gateway calls have timeouts. No
  request and no event is ever forced to arrive, so `EndedSessionsSettle` is
  claimed only of what a handler has begun, and only without a crash and without an
  error that ends the handler of a charger event or `failSession` (`abandoned`),
  since the code resumes nothing after either.
* `TopUps`: the same for handlers, and strong fairness of the redelivery of a
  payment's webhook, which providers repeat until they get a 2xx; it is strong
  because a delivery needs a free handler. `PaymentIsSettled` excepts crashes.
* `Refunds`: the same for handlers, and strong fairness of the repetition of an
  unanswered request by the administrator. `RepeatedIsBooked` holds with crashes.
* `ActiveCharge`, `WalletScreens`: weak fairness of polling alone
  (`refetchInterval`), never of the feed, the backend or the driver. `EndIsShown`
  also lets the driver leave the screen.

## Findings

Each is a run that finds what a text of the repository excludes.

* **A completed session may be free** (`completed_is_charged`). The gateway call
  of `stop` times out although the charger has stopped; the STOPPED event
  completes the session; the catch block of `stop` calls `failSession`, which sees
  a terminal session and still cancels its payment.
* **One payment may be refunded twice** (`refund_within_captured`). Two requests
  with different keys both read the full amount as remaining, and both credit
  before the booking compares.
* **A webhook interrupted by a crash is never applied** (`repeated_webhook`). Its
  repetitions are answered as duplicates; the payment stays uncredited.
* **A disabled recharge may come back** (`consent_stands`). An evaluation that
  fails writes `enabled` from the failure count it read.
* **Drafts are charged** (`draft_tariffs`). A session takes the station's newest
  valid tariff, published or not.
* **A seeded container may not start again** (`seed_starts_again`). The seed sets
  its own vehicle and method as default without clearing the driver's choice.

The models show more that contradicts no text, or that no run states on its own.

* *Settlement and charge points.* The same race one step later leaves a captured
  session with a cancelled intent and no receipt. The end of a session and the
  capture or release of its money are separate transactions, and nothing repeats
  the second after a crash, or after an error of it in the handler of a charger
  event or in `failSession`: the money stays reserved. If the intent's transition
  throws after the reservation, `authorize` marks it FAILED although the money is
  held, until the catch block of create gives it back. A start timer that fires
  just after StartTransaction committed fails the session while the charge point
  delivers and is never told to stop. `stopSession` sets STOPPING without a
  condition and can reopen a transaction completed since it was read. A STOPPED
  event that loses against another write is answered with an error which is
  stored, so the session waits for its driver. A connector can be set AVAILABLE
  under a running session, and an operator's OUT_OF_SERVICE set during a charge is
  overwritten at its end. `evse.status` is written by StatusNotification only. A
  completed session keeps the `failureReason` of an earlier disconnection.
* *Payments.* An automatic recharge that was approved and whose credit threw is
  never marked for review, and after its hour nobody credits it. A review mark of
  a webhook may be overwritten by the delivery that is still processed. The
  statement of the wallet shows AUTHORIZATION and CAPTURE both as DEBIT and
  RELEASE as CREDIT, so its rows do not add up to the balance. The Pix screen
  stops polling at neither CAPTURED nor FAILED (`isTerminal` leaves both out) and
  still shows the code to copy. The screen of additional funds calls its creation
  idempotent, but each press has a fresh key. Answers of save and disable that
  cross, or a fetch under way when the rule is disabled, leave the wrong rule on
  the screen at rest (`crossed` in `WalletScreens`); a first load in flight is not
  replaced by an invalidation; a new card's `isDefault` comes from a list that may
  be stale.
* *Administration.* `connectedChargePoints` of the dashboard is always 0: the
  update that would write `CONNECTED`
  (`backend/ocpp/ocpp16-central-system.service.ts:437`) is a lazy Prisma call
  under `void`, although README.md:206 says that the connection is persisted. With
  the duplicate policy `reject` the older socket is looked for before the password
  is compared.
* *Reports.* For a period that is over, or ends within the tolerated minute, the
  total duration of the dashboard differs from the sum over the history by the
  time between that end and now for each session that still runs
  (`dashboard.service.ts:182`, `charging-history.service.ts:37-43`). `lastSession`
  orders by `startedAt DESC`, where PostgreSQL puts NULLs first, so a session that
  never started shadows later ones. The screens compute the end of their period
  once, when they are loaded. A local midnight that occurs twice or not at all may
  put the start of a month an hour early, or after now. The first measurement of a
  timeline has the charger's clock.
* *Search.* The default price filter hides dearer stations even with "no filters";
  the server measures on a spheroid, the client on a sphere; the price shown for a
  station is of its newest tariff, drafts included. The app calls
  `/v1/reservations`, whose module in the backend is empty.
* *Demonstration.* The wallet is set to 29266 without a ledger entry; a seed that
  is cut off may leave a PENDING ledger transaction. In the mock, removal of the
  default method leaves none, setDefault of a removed one clears all, a processed
  start key answers an ended session as charging, pages by offset repeat a row
  when a top-up is credited in between, and the screen of a completed charge says
  the payment was captured whatever became of it.

## Proofs

Eight modules hold theorems; every leaf is checked by tlapm. `Spec => []Inv` is
proved throughout by an inductive strengthening, with one lemma per action, and under
it one step per conjunct that the action can disturb.

| Module | Theorems | Argument |
| --- | --- | --- |
| `WalletLedgerProofs` | `WalletAgreesWithLedger`, `ReservedBalanceIsHeld`, `SettlementsPosted`, `LedgerGrows`, `WalletTypes` | `LedgerInv`: a posting that exists has a positive amount and the accounts its key says, so a fresh key contributes nothing to any balance, and a reservation is open exactly as long as its reserve posting stands alone. Sums are cardinalities of units; lemmas on `Total` come from the library's theorems on cardinality. |
| `ChargingSettlementProofs` | `SettlementInvariant`, `IntentsTellTheTruth`, `OnlyCompletedIsPaid`, `WritesAreLegal`, `SettlementKeepsContract`, `SettlementUsesLedger`, `SettlementKeepsBooks`, `ConnectorsAreShared` | `SettlementInv`: what session, intent and reservation say together (`Coherent`), what each handler relies on at each operation (`Placed`), that what it read is a row the session has had (`Snapshot`), and that one handler creates a session (`CreatorsDiffer`). Until a session has its money only its creator may change it; once it has ended, what any handler relies on is final; `Advances` is what a step of another handler leaves. The refinement maps each step to one of the contract or a stutter. |
| `FoundationsProofs` | `ConnectorStaysShared`, `ComponentsRunAlone` | An instance of `ChargingSettlementProofs` with the parameters of the run; each component does there what it does alone. |
| `PaymentsProofs` | `PaymentsAreCredited`, `RefundsAgree`, `RefundsBalance`, `TopUpsUseLedger`, `RefundsUseLedger` | `TopUpInv`: what a handler decided on an old read stays true (`Relies`, `Keeps`), since a provider's answer is final, a posting is never taken back, and an intent that shows a payment leaves CAPTURED only for a review (`Shown`). `RefundInv`: a row and its posting bear one amount and the row is completed after it. `OneRefund`: for requests of one key; with two keys the property is false, as the run shows. |
| `OcppProofs` | `ChargingNeedsStart`, `CompletionIsMetered`, `SessionsGoForward`, `ConnectionIsAlone`, `AnswersAgree` | `OcppInv`: a transaction is started once (`StartsOnce`), calls are the charge point's (`CallsAreReal`), what a handler or request relies on follows from the start or from the final meter of a charge point that is off (`RestsOnStart`, `RestsOnStop`), and a current reader has the row (`ReadersAreCurrent`). |
| `ClientsProofs` | `VisitCreatesOneSession`, `TokensStayFew`, `DeadFamiliesStay`, `AppKeepsSession`, `WatchBelongsToScreen`, `RestingIsTrue`, `ScreensShowTruth` | `StartInv`: a session has the key of the start that made it. `RowsOK` and three kinds of step (a token is revoked, begins a family, or replaces the good one of its family), whoever calls and whatever was read. `DisabledCovered`: a good token of a disabled operator is one that a call under way will revoke. `StoresLast`: what the app presents and stores is the last of its family. `LocationInv`: an operation not aborted is the current one of a mounted screen. `WalletInv`: a query that is not `crossed` ends with what the backend holds unless a mutation of it is done and unanswered. |
| `AdministrationProofs` | `TenantKeepsAnAdmin`, `CommandsDispatchOnce`, `PointAndArchiveAgree`, `EditsAreKept`, `TariffIsPublishedOnce`, `OneMethodIsDefault`, `GarageKeepsDefault`, `SearchShowsWhatFits` | What a serializable transaction read of the other administrators is still so; the request that stored a key is the only one past the unique index; every publication under way has read no version. `GarageInv`: every write raises a version, so a version that is still current tells whether its vehicle is the default. `MethodsInv`: a removal that has written keeps its row's lock. `SearchInv`: an answer holds no station its own key excludes, and is exact for those that have not changed since it was asked for. |
| `ServicesProofs` | `KeyHolds`, `RunsExclude`, `RechargesAreRight`, `RechargesStayFew`, `FreshBooksAlwaysAgree`, `DemonstrationIsSound` | A producer at work is paid for by the lock or by a fault; a run with its lease owns its lock. `RechargeInv`: each step leaves what the next relies on, and the version of an intent tells whether it is PENDING, so what was approved is credited or under review unless an evaluation still does it, or a crash or an error cut one off. `PileInv`: a lone owner of the lease, so the balance it read can only fall until it credits. `SeedInv`: a start passes a ledger transaction only once it exists. `MockInv`: ids are distinct, exactly one vehicle is the main one, a top-up is listed and counted in the step that captures it, and sessions are numbered as they start. |

A theorem that states a property of an MC module is about the specification of its
run, where the other components are at rest, and most are about the component's own
specification as well (`ComponentsRunAlone`, `TakesSteps`, and the two conjuncts of
the theorems of `PaymentsProofs`, `AdministrationProofs` and `ServicesProofs`).

### Assumptions

Parameters are what the code leaves open, and are assumed no stronger than it
justifies: sets of sessions, keys and requests are finite where they are counted
(`FiniteAssumption`, `IsFiniteSet(Requests)`); `MaxMinor` is a natural number, and
at least 2 for the amounts of `MCFoundations`; `RefundBounds` and `RechargeBounds`
put amounts within the limits the services check; bounds such as `LastDay`,
`MaxRows`, `MaxVisits`, `MaxMeter` are natural numbers; `RefundsBalance` is about
the requests of one key. The rest keeps names apart that the models use for
nothing (`Nobody`, `NoAnswer`, `TabsAreApart`, `DriversAreApart`). Nothing else is
taken on trust.

### Only model-checked

* The liveness properties `EndedSessionsSettle`, `PaymentIsSettled`,
  `RepeatedIsBooked` and `EndIsShown`: liveness under fairness and ENABLED are out
  of the provers' reach.
* `HistoryIsFaithful`, on pages, charts and reports: they sort and fold sequences of
  rows, and what such a definition computes for every input needs induction over
  data, which the provers cannot instantiate.
* The violated properties, for which TLC's counterexample is the evidence.

## Not modelled

* The outbox: its rows are written with the change they report, and nothing in the
  repository consumes them.
* Signed receipts, the exports as CSV, the screens of the audit log, maintenance
  windows and the administration of charge points.
* Screens that only render or edit a form (vehicles, profile, trip planner, theme),
  and the pages of the administration's web application beyond its sign-in.
* Payload schemas, rate limits, upgrade authentication, heartbeats and several
  samples in one call of the OCPP server; the physics of the simulator; signatures
  of webhooks and the sandbox's own tables; passwords, JWT signatures and CSRF.
* Rounding and decimals of energy and price: `ChargingSettlement` takes any cost,
  `Reports` whole units.
* Coordinates, clusters and the camera of the map; precision of the phone.

## Order of work

1. `WalletLedger`, `ChargingSettlement` with `SettlementContract`: what moves money.
2. `Refunds`, `TopUps`, `OcppCentral`: the other flows and the charge points.
3. Services, sign-in and clients; then reports, search, the payment screens and the
   demonstration, each with its instance in an MC module.
4. Proofs in the same order. What would come next: rounding of prices against a
   reference, receipts, and maintenance windows.
