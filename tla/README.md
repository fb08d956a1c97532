# SwiftPayMe: TLA+ models, checks and proofs

SwiftPayMe turns physical assets into tokens and tokens into money: a set of
Node.js services behind an API gateway, each with its own MongoDB collections,
with Redis for caches, snapshots and events. This directory holds TLA+
specifications of the parts where concurrency, partial failure and long
sequences of legal calls decide whether balances, supplies and workflows end up
right, the TLC runs that check them, and TLAPS proofs of what matters most.

Every definition is translated from the TypeScript under `src/`, not from the
documentation; `PROJECT.json` ("map") names the lines each one stands for. All
paths below are relative to `src/`.

Contents: [1 The system](#1-the-system) ·
[2 How the code is modelled](#2-how-the-code-is-modelled) ·
[3 Modules](#3-modules) · [4 Runs](#4-runs) · [5 Proofs](#5-proofs) ·
[6 What the code does that its readers may not expect](#6-what-the-code-does-that-its-readers-may-not-expect) ·
[7 Not modelled](#7-not-modelled) · [8 Plan](#8-plan) ·
[9 Running it](#9-running-it)

## 1 The system

### Components

| Component | State it keeps | Operations | What makes it correct | Here |
|---|---|---|---|---|
| Account service, money operations (`services/account-service/src/services/AccountService.ts`, `models/`) | Account documents with one balance per currency; Transaction and CurrencyConversion records | create account, deposit, withdraw, transfer, convert, token conversion, charge, status changes | no balance is negative, a COMPLETED record is true, nothing interrupted makes money, a closed account is empty | AccountService, AtomicBank |
| API gateway, breaker and proxy (`services/api-gateway/src/utils/CircuitBreaker.ts`, `controllers/GatewayController.ts`) | one breaker object per service: state, counters, recovery timeout; one handler per request | canExecute, recordSuccess, recordFailure, open, close, reset; proxyRequest with retries | a failing service is cut off and probed again, one answer per request | CircuitBreaker, Gateway |
| Workflow engine (`shared/workflow/WorkflowEngine.ts`) | instances in memory, snapshots in Redis, timers, executions and approvals of each instance | startWorkflow, executeStep, approveStep, rejectStep, timeouts, retries, the monitor | no step is repeated without a reason, none is forgotten, manual steps wait for their approval | WorkflowEngine, WorkflowDefinitions |
| Tokenization service (`services/tokenization-service/src/TokenizationService.ts`, `models/Token.ts`) | Token, ReserveBalance, Deposit, minting, burning and withdrawal documents | create, mint, burn, deposit, withdraw, audit | supply and reserve agree, the supply stays in its limit, minting is backed by deposits | Tokenization |
| Payment orchestrator (`services/payment-service/src/services/PaymentOrchestrator.ts`) | two instances of the class, one in `index.ts` and one in `PaymentController.ts`, each with a map of active workflows; snapshots in Redis with a one day TTL | initiate three kinds of workflow, update a step, complete, fail, reload at start | what is reported is stored, a verdict is not overwritten, a restart resumes what it should | PaymentOrchestrator |
| Currency conversion (`services/currency-conversion-service/src/CurrencyConversionService.ts`, `services/PriceUpdateService.ts`) | rates in Redis, a direct and an inverse key per pair; price documents in MongoDB with a cached copy | timed and scheduled updates, lookups that fetch what they miss | a rate and its inverse are of one observation, a cached price is the latest document's, no conversion goes back to an older rate | ExchangeRates |
| Service discovery (`services/api-gateway/src/utils/ServiceDiscovery.ts`) | a map of instances in memory, a hash in Redis that outlives the process | register, unregister, health checks, reload, stop | the registry says what was registered, a removed service does not come back, a url is given out only if it has answered | ServiceDiscovery |
| Crypto service, asset service, asset approvals, event bus, sockets | see section 7 | | | not modelled |
| Ledger service, user service, notification, analytics, compliance, front ends, deployment | see section 7 | | | not modelled |

### How they interact

Clients reach a service through the gateway, which asks its breaker for that
service and forwards the request over HTTP; services call each other over HTTP
too (the account service calls the ledger and notification services and
swallows their errors; the tokenization service calls the compliance service).
Services share no database. Inside a service, each request is one asynchronous
handler; handlers of concurrent requests interleave at every `await` and share
the MongoDB documents, which they load, change in memory and save. There are no
transactions and no locks: Mongoose saves the modified paths of a document as
absolute values. It compares the version of a document only where an element of an
array is set or an array assigned: an account's balances, whose version never
changes after the insert, and the new findings of an audit. In the gateway and the
workflow engine the handlers share objects in memory instead, together with the
callbacks of timers; so do the health checks of the service registry. The two
classes that keep exchange rates share keys in Redis and know nothing of each
other.

### What is hard

* **Lost updates**: a balance, a reserve or a snapshot is computed from a copy
  that somebody else has changed since.
* **Halves of an operation**: a transfer saves two accounts, a mint saves the
  supply and the reserve; the second save can fail, or the process can die.
* **Checks on stale copies**: emptiness before closing, limits before minting,
  the breaker before the first of several sends, approvals before going on.
* **Two places for one fact**: a rate and its inverse, a document and its cached
  copy, a map and its hash are written one await after the other, by writers
  that overlap, from observations of different age.
* **Two instances of one class**: the payment orchestrator that is initialized and
  stopped, and the one in its controller that is neither, share the snapshots.
* **Late and repeated answers**: health checks of a service that was removed or
  has moved, failures of requests admitted before the
  breaker opened, timeouts of calls that were carried out, retries.
* **Error paths that fail**: catch blocks that throw, records left PROCESSING,
  a trailing save whose failure makes a finished step look failed.

`PROJECT.json` ("hazards") lists each at the line where it bites, with the
properties that would catch it going wrong.

## 2 How the code is modelled

**One step is one await.** JavaScript runs a handler without interruption from
one `await` to the next, so an action of a module is the code between two
awaits: the call that is awaited takes effect together with what the handler
does until it awaits again. `pc` (or `phase`, or the top frame of a stack) names
the await a handler stands at.

**Copies.** A handler works on its own copy of each document it has loaded
(`doc`, `copy`). A save writes the paths it has modified, as the copy has them,
over whatever is stored by then. Where Mongoose compares a version that can have
changed, which is when an audit has new findings, the model has the version.

**Faults.** `CallFails` lets any awaited database or service call reject without
having taken effect and follows the code's own catch blocks. `Crash` ends the
process: what it held in memory is gone, and, as in the code, nothing resumes
it. In the workflow engine, the payment orchestrator and the exchange rates a failed
command may or may not have been carried out. Redis keys, and MongoDB documents
with a TTL, may expire: a snapshot of a workflow after a day, a rate after
minutes, a price document after thirty days.

**Bounds.** Every bound is a CONSTANT that occurs in a guard: `MaxInFlight`,
`MaxFaults`, `MaxRestarts`, `MaxTotal`, `MaxManual`, `MaxChains`, `MaxEvents`,
`MaxCalls`, `MaxFlips`, `MaxTroubles`, and the finite sets of request slots;
`MaxVersion` caps a clock, beyond which observations are no longer told apart.
The proofs hold for all their values. One bound is a definition, because operations
have two legs at most: `MaxInitialBalances` (2) elements of `initialBalances`, also in
the proofs.

**History.** Variables that only properties read (`applied`, `posted`,
`overwritten`, `contended`, `issued`, `fresh`, `streak`, `probes`, `executed`,
`replies`, `asked`, `before`, `blind`, `expired`, `holders`, `lapsed`, `registered`,
`disturbed`, `answered`, and `known` and `touched` in `ExchangeRates`) are declared as
history and appear in no guard.

**Mutants.** Definitions commented "Mutant:" stand directly before the
definition they alter and are used by no action. Each is a plausible bug of that
code; putting one in place of its definition makes a property fail, which shows
that the property constrains the code.

## 3 Modules

| Module | Lines it stands for | Role |
|---|---|---|
| `AccountService` | `AccountService.ts`, `Account.ts`, `Transaction.ts`, `CurrencyConversion.ts` | the money operations |
| `AtomicBank` | none (abstract) | what clients count on, implemented by `AccountService` served serially |
| `MCAccountService`, `AccountServiceProofs`, `SerialServiceProofs` | | constants for TLC; proofs; proofs for serial service |
| `CircuitBreaker` | `CircuitBreaker.ts` | the methods of one breaker as operators on its variables |
| `Gateway` | `GatewayController.ts` (proxyRequest) | composes the handlers with the breaker (EXTENDS `CircuitBreaker`) |
| `MCGateway`, `GatewayProofs` | | constants for TLC; proofs |
| `WorkflowDefinitions` | `WorkflowEngine.ts`, the registered definitions | the four workflows as step graphs |
| `WorkflowEngine` | `WorkflowEngine.ts`, the engine | one instance and the activities working on it |
| `MCWorkflow`, `WorkflowProofs` | | composes the engine with the four definitions, and checks that none of them has a loop; proofs |
| `Tokenization` | `TokenizationService.ts`, `Token.ts` | one token, its reserve and its deposits |
| `MCTokenization`, `TokenizationProofs` | | constants for TLC; proofs |
| `PaymentOrchestrator` | `PaymentOrchestrator.ts`, `index.ts` (shutdown) | one payment workflow, its objects and its snapshot |
| `MCPayment`, `PaymentProofs` | | constants for TLC; proofs |
| `ServiceDiscovery` | `ServiceDiscovery.ts` | the registry, its hash and its health checks |
| `MCDiscovery`, `DiscoveryProofs` | | constants for TLC; proofs |
| `ExchangeRates` | `CurrencyConversionService.ts`, `PriceUpdateService.ts` | the keys and documents of rates and prices, and who writes them |
| `MCRates`, `RatesProofs` | | constants for TLC; proofs |

### AccountService

*State.* `accounts` holds the account documents (status, available balance per
currency), `records` the status of the up to three Transaction and
CurrencyConversion documents of each request. A request has what was asked
(`op`), the call it stands at (`pc`, `step`), its copies of the accounts (`doc`)
and of the record status (`memory`).

*Actions.* `Deposit` ... `CreateAccount` are the handlers of `AccountService.ts` being
called. They all follow the same order of awaited calls, which is what the
actions from `Load` to `InsertAccount` are: load one or two accounts and decide
(`Accepts`), insert the records (`CreateRecord`), save the balances one after the
other (`UpdateBalance`), stamp `balanceAfter` on the records (`SetBalanceAfter`),
complete them (`CompleteRecord`). An exception leads to the catch block
(`Catch`, `FailRecord`), which fails record after record and itself throws on one
that is completed in memory. Status changes have a save of their own
(`SetStatus`). A creation saves again and again: once for each initial
balance in a currency the document has not (`AddCurrency`), once for each that is
positive (`UpdateBalance`), and once at the end (`InsertAccount`). Whichever comes
first is the insert, at which the pre-save hook adds the remaining currencies and
the unique index on the user may refuse it (`InsertRefused`).

*Data.* An operation is its list of legs, (account, currency, delta). Amounts are
small naturals; the conversion rate and fee turn an amount into any other
amount. An account is created with up to two initial balances; they may be zero and
may name a currency twice. The kinds `token` and `detailed` (a currency conversion
with `assetTokenDetails`) insert a CurrencyConversion that the schema refuses
(`IsRefused`). Of the balance buckets only `available` is kept: the operations of the
service move no other.

### AtomicBank

An order is carried out in one step, refused, or at worst cut short after its first
leg (`CutShort`): the debit of a transfer or a conversion, or the first of two
initial balances. `AccountService!ImplementsBank` is the refinement mapping: the bank's
balance is the stored one with the first leg of a half done operation taken back
as long as it is in flight, and the outcome of an order is read off `pc` and
`applied`. An order is "done" once all its legs are saved, also when the handler
then fails or the process dies; "cut" once the handler has ended with some legs
saved and others not. The guards of that case distinction exclude each other,
because `CASE` promises no order.

### CircuitBreaker and Gateway

*State.* The breaker object: `state`, `failureCount`, `successCount`,
`totalRequests`, and whether the recovery timeout is unset, running or over
(`nextAttempt`). The error rate the code stores is recomputed before each use, so
it is the quotient of two counters here. The phase of each handler is the await
of `proxyRequest` it stands at.

*Actions.* `Arrive` asks `canExecute`, which lets the request pass, half opens the
circuit (`Probe`) or refuses. `Send`, `Answer`, `Count`, `Unsendable`, `TransportError`
and `Fail` are the rest of `proxyRequest`: the breaker is asked once and told the
outcome at the end, whatever has happened to it in between. `Tick` is the
recovery timeout, `Hour` the hourly reset of the counters, `Intervene` the
administrator's open, close and reset.

### WorkflowEngine and WorkflowDefinitions

*State.* The instance object (`instance`) with its status, executions and
approvals, its snapshot in Redis (`stored`), pending timers, and the activities
(`chains`). `executeStep` awaits its successor inside its own `try` block, so an
activity is a stack of frames, and the saves that end each step happen on the
way back, after all successors have run.

*Actions.* `StartWorkflow`; `HandlerAnswers` and `HandlerFails` (the step handler's
promise); `SaveAnswers` and `SaveFails` (a Redis save); `ApproveStep`, `RejectStep`,
`Timeout`, `LateTimeout`, `Retry` and `Monitor`, which start further activities on the
same object; `Expire`, because every save is a `setex` with 86400 seconds and
instances rest for longer than that (approvals wait for 48 and 72 hours, a wait
step for seven days).

*Data.* The conditions of the workflows read the context the instance was
started with, which no step changes: one Boolean. `makeHttpRequest` is a stub in
the code that always succeeds, so service calls do not fail here either; what
fails are Redis commands.

### Tokenization

*State.* `token` (supply, audit status, the findings of its last audit and
Mongoose's version of the document), `reserve` (total, available, locked and the
requests in its audit trail), `deposits`, and the status of each request's
document. `copy` holds the numbers a request has loaded.

*Actions.* The six operations arrive; then one action per awaited call:
`SaveToken`, `InitializeReserveBalance` (creation), `VerifyDeposit`,
`VerifyReserveAvailability`, `PerformCompliance`, `InsertDeposit`, `InsertRequest` (the
checks), `StartProcessing`, `LoadToken`, `UpdateSupply`, `LoadReserve`,
`UpdateReserves`, `CompleteRequest`, `CreateTokenTransaction`, `FailRequest`
(processMinting, processBurning and the lock of a withdrawal) and `SaveAudit`. An
audit with new findings assigns an array, so its save compares the version it
loaded and increases it: of two such audits side by side the second is refused
and throws.
`DepositIsVerified` is the environment: no code of the repository verifies a
deposit.

### PaymentOrchestrator

*State.* The workflow objects in memory (`object`, one per handler that created
one), which of them the map `activeWorkflows` of each instance of the class holds
(`active`), and the snapshot in Redis (`stored`). `call`, `at`, `pc`, `seen` and `ok` say
for each task which method it runs, on which instance, what it awaits, which
snapshot it has read and whether its save will succeed. Workflows are independent
of each other, so one is modelled. `Service` is the instance of `index.ts`; the
other `Instances` stand for the one of `PaymentController.ts` and for those of
further workers, which the service's README announces.

*Actions.* `Initiate` to `JobQueued` are the three initiations, which differ in the
services they ask (`BalanceAnswers`, `RecipientAnswers`, `PriceAnswers`,
`SubmissionAnswers`) and in what they save afterwards. `WorkerCalls`, `GetAnswers`,
`StepSaved`, `VerdictSaved` and `Told` are `updateWorkflowStep`, `completeWorkflow` and
`failWorkflow`, each with the `getWorkflow` it begins with: the object in the map of
the instance it runs on, or else a new one parsed from the snapshot as it was
when the read was issued (`Load`). `Stop`, `Exit`, `Crash`, `Start` and `Expire` are the
life of the process and of the snapshot; only the map of `Service` is saved by
`Stop` and filled by `Start`.

*Environment.* The queue workers are not in the repository. They know a workflow's
id once it has been handed out (to the asset service, or with a job), and may
call the public methods in any order, including on a workflow that has its
verdict. An answer and the change it leads to are one step where only
microtasks lie between.

### ServiceDiscovery

*State.* The map `services` and the hash `stored`, each with the url and the status
of a name; per slot the registration or health check under way (`check`), with
the url it asks and whether its object is still the one in the map; the reply of
a reload (`load`); whether the process runs and its connection is open; which urls
answer (`up`, the environment).

*Actions.* `Register` and `Unregister` change memory first and Redis next;
`FirstCheck`, `Answer`, `NoteHealthy` and `NoteUnhealthy` are a check, whose write may
fail after the object was changed and which writes its object to Redis even when
the map has dropped it; `Cycle` checks everything the map holds; `Initialize`,
`Discover` and `FinishLoad` reload the hash into the map; `Stop` and `Restart` end
and start the process.

### ExchangeRates

*State.* `stored` holds the Redis keys of the pairs, the documents of the prices and
their cached copies, each with a version, the order in which providers observed
it, and a form: the number a conversion expects or the JSON object that
`PriceUpdateService` writes under the very same keys. Which keys those are depends on
the base the provider answers in, `data.base || 'USD'`: what a list of prices is
about is a pair of base and currency (`PriceLists`, `PriceKey`), and a metal or a coin
has a key of its own. A `job` is a run of the timed update, of the price schedule
or of a conversion: what it has still to fetch (`plan`) and to write (`todo`).

*Actions.* `StartUpdate`, `StartPrices` and `Convert` begin a job; `LookInverse` is the
second lookup of a conversion; `Fetch` is an answer of the provider with any part
of what was asked for (`Parts`, `FetchBrings`), `FetchFails` is none; `Write` is one
awaited write, and `WriteRefused` one that fails, carried out (`Land`) or not;
`Expire`, of keys and of documents, and `Restart` are the environment. What a
failure ends (a batch, all metals, one price, the conversion) is `GiveUp`.

*Data.* The numbers are left out: a property here is about which observation a
place holds, never about its value.

## 4 Runs

Sizes are distinct states; each run takes between a second and two and a half
minutes with two workers.

| Run | Checks | Instance | States |
|---|---|---|---|
| `account_races` | `TypeOK`, `NonNegativeBalances`, `CompletedIsApplied`, `UncontendedBalancesAreExact`, `CutShortOnlyLoses` | 2 concurrent requests of any of the 8 operations, 3 users of whom one has no account, 2 currencies, up to 2 initial balances, 2 faults | 1,168,717 |
| `account_serial` | `ClosedAccountsAreEmpty`, `RequestsSettle`, `ImplementsBank` | the same, one request in flight, 1 fault | 737,075 |
| `account_close_race` | `ClosedAccountsAreEmpty` is violated | deposits and status changes, 2 in flight, no fault | |
| `gateway` | `TypeOK`, `TimerMatchesState`, `FailingServiceIsCutOff`, `AnsweredOnce`, `DrainsWhileOpen`, `ClosesOnEvidence`, `EveryRequestIsAnswered`, `OpenCircuitIsProbed` | 2 handlers, 2 sends per request, threshold 2, minimum 4, 1 intervention | 248,872 |
| `workflow_engine` | `TypeOK`, `RunningIsBeingRun`, `QuietMeansSaved`, `RerunsAreAccountedFor`, `StopsOnlyAtUndefinedSteps`, `ActivitiesEnd` | all 4 workflows, 2 activities at a time, 2 events, expiry at any time | 456,630 |
| `workflow_approval` | `ApprovedBeforeGoingOn` is violated | the asset workflow, nothing failing, nobody deciding | |
| `token_races` | `TypeOK`, `CompletedIsBacked`, `ReserveFollowsSupply`, `SupplyStaysInLimit`, `UncontendedBooksAreExact`, `AuditsAreRight`, `RequestsSettle` | 3 requests, 2 in flight, any operation, 1 fault, supply limit 2 | 1,090,125 |
| `token_double_mint` | `MintedAgainstDeposits` is violated | mints only, one at a time, no fault | |
| `payment_tasks` | `TypeOK`, `UpdatesAreKept`, `FoundWhileOpen`, `StoppedIsSaved`, `VerdictStands` | 3 tasks on 2 instances of the class, all three kinds of workflow, 1 fault, 1 planned restart | 2,820,253 |
| `payment_recovery` | `RestartsResume` is violated | 1 task initiating a transfer, 1 planned restart, no fault | |
| `discovery` | `UndisturbedIsAsRegistered`, `RoutesToWhatAnswered`, `StatusesSettle` | 2 services, 2 urls, 2 slots, 2 calls, 1 refused command, 1 restart, 1 service going up or down | 1,497,862 |
| `rates` | `PlacesAgree`, `ConversionsAreCurrent`, `UnreadableRatesAreReplaced` | USD, EUR and GBP, price lists in EUR; one update, one price run, one conversion either way; 1 refused write, expiry or restart; 2 versions | 543,123 |

### What they show

**Account service.** Saves of absolute values from stale copies lose updates, but
(`UncontendedBalancesAreExact`) only on the very balance two requests worked on:
other currencies of the same account, status changes and account creations do
not interfere, because a save writes the modified paths only. The check on the
copy and the saved value come from the same copy, so nothing goes negative
however stale it is (`NonNegativeBalances`); the version Mongoose compares does not
stop such a save, because no balance save changes it. Debits come first, so a
transfer or a conversion that is cut short loses money and never makes any, and a
creation that is cut short keeps the initial balances it began with and gets none
after one that failed (`CutShortOnlyLoses`). COMPLETED is reliable
(`CompletedIsApplied`); FAILED is not, because the catch block fails the records
and undoes no save. Served serially the service refines the atomic bank.
Concurrently it does not, and `account_close_race` shows one consequence: an account
closed while a deposit is in flight holds money.

**Gateway.** The breaker is asked before the first send only. What is in flight
when the circuit opens drains (`DrainsWhileOpen`), late outcomes neither close a
half open circuit without fresh evidence (`ClosesOnEvidence`) nor keep an open one
from being probed (`OpenCircuitIsProbed`), and in every interleaving with the
hourly reset the timeout is set exactly when it is needed (`TimerMatchesState`).
Fresh means recorded while the circuit was half open: a late success of a request
that was let in before the circuit opened counts as well, only counts left over
from before do not. That an hourly reset of a half open circuit delays its next
opening is something no property excludes.

**Workflow engine.** However activities interleave, the last save leaves Redis with
the instance as it is in memory, or with nothing a day later, and never with an
earlier state of it (`QuietMeansSaved`), except after a decision whose next step is
undefined, which nothing saves. Steps are repeated only for a
decision, a timeout or a failed command (`RerunsAreAccountedFor`). An instance that
rests without a verdict was sent to a step nobody has defined
(`StopsOnlyAtUndefinedSteps`). `workflow_approval`: a manual step reports success when
it has *asked* for the approval, so the asset workflow creates tokens, updates the
ledger and credits the account before anybody approves.

**Tokenization.** The trail is pushed and the numbers are overwritten, so supply
and reserve are exact only as long as no two requests raced on the same document
(`UncontendedBooksAreExact`), and then they differ by exactly the requests cut
short between their two saves. The trail never runs ahead of the supply
(`ReserveFollowsSupply`), mints racing on stale copies cannot pass the limit
(`SupplyStaysInLimit`), and an audit is right unless somebody saved behind it
(`AuditsAreRight`); what a stale audit may say, no property excludes.
`token_double_mint`: a verified deposit is checked and never
consumed, so it backs any number of mints of any amount.

**Payment orchestrator.** Every handler puts the object it has changed back into
the map of its instance, so that handlers that run side by side on one instance
work on one object and save all of it: nothing that a worker reports is lost
while the workflow is open (`UpdatesAreKept`), no open object can overwrite a
verdict in Redis (`VerdictStands`), and the workers that go on during a shutdown
save what they change (`StoppedIsSaved`). A verdict whose save fails stays in the
map, so the workflow can be found (`FoundWhileOpen`). All of that ends, with nothing
failing, as soon as a second instance has held the open workflow (`Shared`): the
process makes two, the one in `PaymentController.ts` and the one in `index.ts` that a
restart fills, and each then saves its own object over the other's. The same
happens on one instance after a reload at start has failed silently.
`payment_recovery`: an initiation moves its workflow to the next step in memory
only, while the job for that step is already queued; after any restart, also a
planned one, the workflow is back at the step before, because the instance that
is stopped is not the one that held it.

**Service discovery.** A name whose last registration or removal was carried out by
Redis and met neither a check of it nor a reload under way stays as it was
registered, in memory, in Redis and for every check that may still write, through
any number of later checks and restarts (`UndisturbedIsAsRegistered`). Those are the
only ways to lose it: a check that is late writes the record of a removed service
back, and the next start loads it. A url that never answered is never given out as
healthy (`RoutesToWhatAnswered`), and once services stop changing, late answers and
refused writes are made good by the next cycles (`StatusesSettle`).

**Currency conversion.** The two keys of a pair, and the cached price and its
documents, are of the same observation whenever no writer is half way and the last
one was neither refused, nor cut off, nor met by another (`PlacesAgree`); under the
same condition no conversion answers with an older rate than the one the pair was
written with (`ConversionsAreCurrent`). A refused write may have been carried out:
one that was the second half leaves the pair consistent, and one that was the
first half does not. Without that condition both properties fail: two writers that
overlap leave a direct rate of one observation and an inverse of another. The
objects that `PriceUpdateService` leaves under the keys of fiat rates make every
conversion of the pair fail until they are overwritten. The timed update does so,
for the pairs it brings (`UnreadableRatesAreReplaced`); for other pairs, such as EUR
to GBP from a provider that answers in EUR, nothing does.

### Why the bounds are enough

* *Two requests in flight.* Every race of these services is between one request's
  load and its save and another's save in between; a third request adds
  overlaps of the same pairs. The tokenization run has a third slot so that an
  audit or a burn can follow two racing requests. The proofs cover any number.
* *Two faults* reach a failing save followed by a failing catch block, or a crash
  in a catch block; one fault is enough where nothing catches.
* *Amounts of 1, initial balances of 1*: a balance is either enough for one request
  and not for two, which is what the checks distinguish.
* *Three users, two currencies* give a transfer between two accounts and a
  creation of the third, and a conversion. Two initial balances are the fewest
  between which a creation can be cut short, and may be of one currency or of two.
* *Three tasks* in the payment run: the initiation and two workers, or two workers
  that both miss the map. One fault reaches a failed reload, after a planned
  restart. What can go wrong is between two objects of one workflow, and two
  instances, or two workers that miss the map of one, make them.
* *Threshold 2, minimum 4 (or 2), rate 1/2*: threshold and minimum are reached in
  different orders, and the rate can hold without the threshold. `MaxTotal` stops
  arrivals, not counting: 6 is beyond the minimum, and the hourly reset starts
  the count again.
* *Two events and two activities* in the workflow engine: an approval racing with a
  save that fails, a rejection racing with a timeout, and so on for any pair.
  The unbounded part, the length of a workflow, is the real one.

* *Two calls, two slots* in the registry: a registration that moves a service, or a
  removal, against a check of it and a reload. Checks do not count as calls, so
  there is no bound on the cycles.
* *One update, one price run, one conversion*: each writes both keys of the pair, so
  every overlap of two writers, and of a writer with a reader, occurs. Two versions
  tell old from new. The price list has a pair the update refreshes and one it does
  not, in the base EUR. Metals, coins, several batches and several sources are in
  the proofs.

Deadlock is checked in every run. `AllServed` and `Waiting` are the stuttering steps
of a system that has nothing left to do, and are enabled in no other state.

### Fairness

* `WF_vars(Serve(r))` (account service, tokenization, gateway): the event loop
  resumes every awaited call, because a driver call resolves or rejects. Calls
  that fail are not fair: faults may or may not come.
* `WF_vars(Arrive(r))` (gateway only): clients keep sending. `OpenCircuitIsProbed` needs
  it, because the code half opens a circuit only when a request asks.
* `WF_vars(Tick)`, `WF_vars(Hour)`: `setTimeout` and `setInterval` fire. The hourly reset
  is what makes room under `MaxTotal` again.
* Workflow engine: weak fairness of the pending answers of each activity. Timers,
  decisions and the monitor are not fair.
* Service discovery: weak fairness of each check's steps, of the timer (`Cycle`), of
  the reload at start, and of the restart after a stop. Calls, refused commands
  and services that go down may or may not come.
* Currency conversion: weak fairness of the timer of the updates and of their
  awaited calls; strong fairness of a full answer to the fetch of each batch, as
  the providers answer in full again and again though any one request may fail or
  be answered in part.
* `RequestsSettle` is about behaviours without faults, as it says in its premise:
  with a failing catch block or a crash, records stay PROCESSING for ever.

## 5 Proofs

TLAPS proves these for every value of the constants that satisfies the named
assumptions (`AccountServiceAssumption`, `CircuitBreakerAssumption`,
`GatewayAssumption`, `TokenizationAssumption`, `EngineAssumption`,
`OrchestratorAssumption`, `DiscoveryAssumption`, `RatesAssumption`, `NoneAssumption`),
which say no more than that amounts are positive, bounds are numbers, the kinds
are those of the code, workflows are typed and start with a step they define, and
an absent value is none of the others. TLC evaluates them in every run. Three theorems
have a hypothesis of their own. `Serial` (`MaxInFlight <= 1`) says that one request is
served at a time; with two in flight both results are false (`account_close_race` is
a counterexample to the first). `GoesForward(togo)` says that no step of a
workflow comes back to itself over `onSuccess` and `onFailure`: `togo` counts the steps
that may follow one. A workflow with a loop does repeat its steps, so the hypothesis
cannot be dropped; `MCWorkflow` computes such a `togo` for the registered workflows and
assumes `GoesForward` of it (`RegisteredWorkflowsGoForward`), which TLC evaluates.

| Theorem | Module | States |
|---|---|---|
| `TypeCorrect` | `AccountServiceProofs` | `Spec => []TypeOK` |
| `CompletedRecordsAreTrue` | | `Spec => []CompletedIsApplied` |
| `CuttingShortMakesNoMoney` | | `Spec => []CutShortOnlyLoses` |
| `BalancesStayNonNegative` | | `Spec => []NonNegativeBalances` |
| `BalancesAreExact` | | `Spec => []UncontendedBalancesAreExact` |
| `ClosedHoldsNothing` | `SerialServiceProofs` | `Serial` implies `Spec => []ClosedAccountsAreEmpty` |
| `SerialServiceIsBank` | | `Serial` implies `Spec => ImplementsBank` |
| `TimeoutsMatch` | `GatewayProofs` | `Spec => []TimerMatchesState` |
| `FailingServicesAreCutOff` | | `Spec => []FailingServiceIsCutOff` |
| `EveryAnswerIsTheOnlyOne` | | `Spec => []AnsweredOnce` |
| `GatewayTypeCorrect` | | `Spec => []TypeOK` |
| `OpenCircuitsDrain` | | `Spec => DrainsWhileOpen` |
| `CircuitsCloseOnEvidence` | | `Spec => ClosesOnEvidence` |
| `TypeCorrect` | `TokenizationProofs` | `Spec => []TypeOK` |
| `CompletedRequestsAreBacked` | | `Spec => []CompletedIsBacked` |
| `TrailFollowsSupply` | | `Spec => []ReserveFollowsSupply` |
| `SupplyIsLimited` | | `Spec => []SupplyStaysInLimit` |
| `CurrentAuditsAreRight` | | `Spec => []AuditsAreRight` |
| `BooksOfTokenAreExact` | | `Spec => []UncontendedBooksAreExact` |
| `WorkflowTypeCorrect` | `WorkflowProofs` | `Spec => []TypeOK` |
| `RunningIsAlwaysBeingRun` | | `Spec => []RunningIsBeingRun` |
| `QuietAlwaysMeansSaved` | | `Spec => []QuietMeansSaved` |
| `StopsOnlyWhereUndefined` | | `Spec => []StopsOnlyAtUndefinedSteps` |
| `RerunsAreBounded` | | `GoesForward(togo)` implies `Spec => []RerunsAreAccountedFor` |
| `PaymentTypeCorrect` | `PaymentProofs` | `Spec => []TypeOK` |
| `ConcurrentUpdatesAreKept` | | `Spec => []UpdatesAreKept` |
| `OpenWorkflowsAreFound` | | `Spec => []FoundWhileOpen` |
| `PlannedRestartsLoseNothing` | | `Spec => []StoppedIsSaved` |
| `VerdictsAreFinal` | | `Spec => VerdictStands` |
| `DiscoveryTypeCorrect` | `DiscoveryProofs` | `Spec => []TypeOK` |
| `UndisturbedServicesAreAsRegistered` | | `Spec => []UndisturbedIsAsRegistered` |
| `RoutesAreToWhatAnswered` | | `Spec => []RoutesToWhatAnswered` |
| `RatesTypeCorrect` | `RatesProofs` | `Spec => []TypeOK` |
| `PlacesAgreeAlways` | | `Spec => []PlacesAgree` |
| `ConversionsAreAlwaysCurrent` | | `Spec => ConversionsAreCurrent` |

*Account service.* `TypeOK` is not inductive: a handler indexes its legs, accounts and
records with `step`. `Progress(r)` says, for each call a request may stand at, what
was asked, how far it has counted and what it has saved; `Inv1` is `TypeOK` with
`Progress` of every request, and is preserved by each action (one lemma per action,
`LoadInv1` ... `CrashInv1`). `Inv2` adds that the records tell the truth: an action
of one request leaves the records and legs of the others alone (`TruthfulFrame`),
and its own records become COMPLETED only from the call `complete`, where
`Progress` says that all legs are saved. `Inv3` adds the balances: the saved value is
the one that was checked. `Books` adds that copies counted as fresh are the
documents (`CopiesAreFresh`), that a copy once inserted stays in the collection
(`CopiesAreOlder`), and that an account nobody has inserted is untouched
(`AbsentIsUntouched`), so that the insert of a creation, at whichever of its saves,
overwrites no balance: a save from a fresh copy then adds exactly its leg, and a save
that is not fresh marks the balance as contended.

*Serial service.* `SerialInv` adds to that: at most one request is in flight
(`OneAtATime`), its copies are the documents themselves (`Copied`), it works on active
accounts, and an account about to be closed is empty (`Undisturbed`), and what it has
saved are its legs in order (`InOrder`). Under it each action is shown to be a step of
`AtomicBank` or to leave the bank as it is: the first save of two changes nothing
the bank sees, because the mapping takes the first leg back, the last save is the
bank's step, and an exception or a crash between the two is `CutShort`.

*Gateway.* `BreakerInv` joins typing, `TimerMatchesState`, `FailingServiceIsCutOff` and
`CountersCoverStreak` (the failures in a row are among those the counters know).
One lemma per method of the breaker shows that the method keeps it, and
`NextUsesMethods` that every step of the gateway is one of the methods or leaves
the breaker alone. `HandlerInv` relates phase, sends, executions and replies of a
request. `OpenCircuitsDrain` follows from it: an execution is started by a handler
that was let in, and an OPEN circuit lets nobody in. `CircuitsCloseOnEvidence` needs
`EvidenceInv`: the successes a half open circuit has counted were recorded while it
was half open, also when the hourly reset came in between.

*Tokenization.* `IInv` adds to the properties which kinds of request may wait for
which call (`KindsFit`), that the token and its reserve are created once and in
order (`CreatedOnce`), what a request has saved by where it stands
(`SavesInOrder`), and that an audit's copies agree with documents nobody has saved
since (`AuditCopies`). `QuietInv` deals once with all steps that change control
state only. `BooksOfTokenAreExact` is about sums over the requests that have saved.
They are defined by recursion over finite sets; that such a sum exists and grows by
one summand when one request is added (`TotalGrows`), and is the same when the
summands are (`TotalKept`), is proved by taking a set of least size without the
property. `Books` then says that a copy that is fresh agrees with the document
(`CopiesAgree`) and that no request is in the trail or counted as issued before the
call that saves it (`Placed`).

*Workflow engine.* A step of an activity is described once for all actions: from a
stack, an instance and timers that are `Ready`, a save, an execution, a verdict or
a catch block leads to the next await (`SaveMoves`, `ExecuteMoves`, `FinishMoves`,
`CatchMoves`), and each action is one of these. The invariant has two parts beyond
the types. `Fits` says that a frame waiting for its handler or in its try block knows
an execution in the history, no two frames the same one, and that the executions
recorded as running are those whose handler is under way; it is preserved when
frames are pushed, settled or dropped, one lemma each (`HandlerPushed`, `SavePushed`,
`Settled`, `Dropped`). `SavedOrWorking` says that what is not in Redis yet is saved by
a handler under way, on its way back, or has expired; it needs that a refused save is
counted as a fault (`RefusalsAreFaults`).

For the two theorems about what is executed every action is brought into one form
(`Acted`, `EveryStep`): on an instance that has lost no execution and no decision
(`Keeps`) the activity executes a step, does not because the step is not defined, or
gives a verdict (`Did`), and it does so because a handler has answered, a save was
answered or refused, or on a prompt or a retry. `Pursued` says that a workflow without
a verdict has a handler under way or was sent to an undefined step, and is inductive
as it stands. `InBudget` strengthens `RerunsAreAccountedFor`: to the executions of a step
it adds the activities that may still come to it and the retries that lead to it.
Each execution is paid for by what the activity could come to, by its retry, or by a
prompt (`Paid`), and costs no more than that (`DidCosts`); a refused command adds a
fault when it is issued, which pays for its catch block and its retry.

*Payment orchestrator.* Everything rests on `OneOpenObject`: as long as no reload has
failed and one instance only has held the open workflow (`Single`), there is at most
one object without a verdict, and it is in the map of an instance that has held it.
It is not inductive: a handler that found the map empty has issued a read, and what
it parses must already carry a verdict (`ParsedHasVerdict`, `MapIsEmptyAfterVerdict`,
`VerdictIsEverywhere`), or else its instance has joined the `holders`. `SavedOnce` says
who may count on a snapshot, `AskedIsKept` that the open object and its snapshot hold
what workers asked for, and `CallsFit` which call waits for which answer.

*Service discovery.* `AsRegistered(n)` strengthens `UndisturbedIsAsRegistered` with the
reply of a reload that is on its way, and with what a registration's first check
will find; `AnsweredInv` follows healthy records wherever they are held: map, hash,
reply, and a check that has its answer.

*Currency conversion.* `WritersBringNews`: what a writer is about to write is not
older than what it will replace, unless another writer has been there since its
fetch. With `HalfIsThere` (a writer half way finds its first half, or nothing) this
makes both places of what was just written in full the version that is `known`
(`PairsSettled`, `PricesSettled`), and keeps a pair's numbers from falling behind it
(`PairsKeepUp`). A refused write that was carried out is a write whose process goes
elsewhere (`Land`), so the two share their lemmas; no version is ahead of the clock
(`NothingIsAhead`).

### Only model-checked

* Liveness (`RequestsSettle`, `EveryRequestIsAnswered`, `OpenCircuitIsProbed`,
  `ActivitiesEnd`, `StatusesSettle`, `UnreadableRatesAreReplaced`): TLAPS does not
  reason about fairness and ENABLED.
* That the registered workflows go forward: they are data, and TLC evaluates the
  assumption.
* The four properties expected to be violated: counterexamples are TLC's.

Every invariant and every action property that a passing run checks is a theorem.

## 6 What the code does that its readers may not expect

Disagreements between the code and what it says of itself, each shown by a run
whose property is violated (`PROJECT.json`, "findings"):

* `account_close_race`: `close()` checks a copy while a deposit is in flight.
* `token_double_mint`: a deposit backs any number of mints.
* `workflow_approval`: the steps behind a manual approval run without it.
* `payment_recovery`: steps changed in memory only do not survive a restart, not even
  a planned one.

Behaviour that is in the models because it is in the code:

* Gateway: every HTTP answer counts as a success of the service, 5xx too; only
  transport errors are retried and counted, and they are retried for every
  method, whether it is idempotent or not.
* Account service: an operation whose stamp or completion of a record fails is
  FAILED although its balances are saved; nothing reconciles it.
* Account service: the schema refuses the conversion record of every token
  conversion (`TOKEN` is none of its currencies), and of a currency conversion whose
  request has `assetTokenDetails`, which carry no `tokenValue`. Either is refused
  outside of the `try` block: nothing moves, and the one or two transactions inserted
  before stay PROCESSING.
* Account service: a creation that fails half way leaves an account with its first
  initial balances, and a second attempt is refused because the account exists.
* Tokenization: the fees of a withdrawal are computed on what the HTTP body
  holds, a string, and throw; burning takes from what is available even when a
  withdrawal has locked it; the burner's own balance is checked by a stub that
  always succeeds; a request whose last insert fails turns from COMPLETED into
  FAILED although supply and reserve have changed; of two audits with new findings
  side by side the second is refused with a VersionError.
* Workflow engine: `retryCount` limits nothing, as the count is local to each
  execution; only `asset_processing_v1` can ever complete, because the others
  end in names of steps that are defined nowhere; the monitor fails completed
  instances, again every minute; a timeout of a wait step acts on whatever the
  instance waits for by then; snapshots are written and never read. Rejections
  that nobody awaits end their activity here; the process is taken to survive
  them.
* Payment orchestrator: the instance that is initialized and stopped (`index.ts`) is
  given to nobody, and the one the HTTP handlers have (`PaymentController.ts`) is
  neither; `stop()` saves what the former took up at its start over the snapshots
  the latter has saved since.
* Payment orchestrator: no method looks at the status, so a completed workflow can
  be failed and a failed one completed, and either re-enters the map for as long
  as the call takes (or, when its save fails, until the restart); the status
  never becomes `in_progress`; an initiation whose service call throws leaves an
  initiated workflow that nobody advances; asset deposits expire after seven days
  by their own field and after one day without a save in Redis.
* Service discovery: a check writes the object it holds to Redis, also when the
  service was removed meanwhile, which brings the service back at the next start;
  a check's answer is also believed when the write of it fails, and then noted as
  a failure of the service.
* Currency conversion: `PriceUpdateService` writes a JSON object to the key under
  which `CurrencyConversionService` expects a number; a conversion that finds one
  fails, with an error that is thrown outside of the `try` block around the lookup.
  Where the provider answers in another base than USD the objects lie under keys
  that no timed update writes, and the schedule, every 15 minutes, renews them when
  their 900 seconds are over. Metals are converted to fiat currencies only.
  `batchConvertCurrency` calls `convertCurrency` with arguments it does not take, and
  always fails.

## 7 Not modelled

* *Payment service around the orchestrator*: `index.ts` and `PaymentOrchestrator.ts`
  import a queue manager, processors, a Redis wrapper, routes and middleware that
  the repository does not contain; they are the environment of the model, used as
  the code uses them. `PaymentController` makes an orchestrator of its own (line 21) and
  calls `createPayment`, `retryWorkflow`, `processAssetDeposit`,
  `processBitcoinPurchase`, `processFiatTransfer` and `processCryptoTransfer` on it (44,
  238, 344, 384, 423, 463), none of which the class has; the `initiate` methods have no
  callers at all. The class also declares a field and a method of one name,
  `isInitialized`. The model takes the public methods of the class to be called, on
  either instance, as their signatures and comments intend.
* *Crypto transactions*: `sendTransaction` calls `wallet.balance.lt`, and the balance of
  `CryptoWallet.ts` is a subdocument without such a method, so a send throws before
  it reaches the node and none of the later states exists.
* *Crypto node clients*: the RPC pool of `EnhancedBitcoinService` is a counter and a
  retry loop that only initialization, the monitors and the health checks reach;
  nothing calls the methods that broadcast, and nothing stores what they would
  return.
* *Asset service*: `index.ts` passes the methods of its controllers unbound, so
  `this` is undefined in them and every request throws before it touches a document;
  the older currency routes are mounted the same way.
* *Asset approvals*: no route mounts the controller and nothing creates an approval
  document; `approveAsset` requires a status nothing sets (`UNDER_REVIEW`).
* *Event bus and sockets* (`shared/events/event-bus.ts`, `shared/websocket`): nothing
  imports either, so there are no callers to model them with. `unsubscribe` removes
  nothing, `publishAssetEvent` emits locally once per target, and the socket
  manager sends commands over a connection in subscriber mode.
* *HTTP layers, validation, authentication, rate limits, logging, encryption,
  sockets, front ends, deployment*: routing and I/O around the operations that
  are modelled. What validation guarantees appears as the range of the inputs.
* *Model methods no code calls*: balance reservation, freezing and release,
  cancel, reverse and addFee of transactions, execute and cancel of conversions.
* *Ledger service, `models/Payment.ts`, `models/admin/AdminUser.ts`,
  `models/EventSubscription.ts`*: each declares a name both as a virtual and as a
  method (`isBalanced`, `isExpired` and `canRetry`, `isLocked`, `isInQuietHours`),
  which Mongoose refuses when it compiles the model; no state of these is one the
  program can be in.
* *Notification service*: its persistence is a set of stubs. *Analytics*:
  read-only. *Compliance service*: a health check and placeholders.
* *User service*: its routes pass the controller's methods unbound too, and the catch
  blocks use `this` as well, so every request that passes validation throws at
  its first line.
* *API gateway, start-up*: the constructor registers the services before
  `initialize()`, so `redis.connect()` finds a connection under way and rejects, and
  the process exits; several utilities it imports are not in the repository.
  `unregisterService` and `discoverServices` have no callers. `ServiceDiscovery` models
  the class as its public methods allow it to be used, and `Gateway` the handlers
  once they serve. The rate limiter refuses nothing (see the hazards).
* *Currency conversion*: two models (`CryptocurrencyPrice`, `PreciousMetalPrice`), two
  middlewares (logging, rate limit) and the utilities (errors, event bus, HTTP client,
  logger, Redis client) that it imports are not in the repository and are modelled
  from their use, and `models/ExchangeRate.ts:40` gives a field a type that Mongoose does
  not accept; the documents are modelled as the schemas mean them. The circuit
  breakers around the providers are left out, because a provider may fail at any
  time anyway.
* *Imports that are missing*: other services too import modules that the repository
  does not contain (the rate limit middleware of the account service; the service
  registry, the validator, the cache, logging and other middleware, and the metrics
  of the gateway). The models take them to be there and to change no state of
  the component.
* Within the modelled components: response times and metrics of the breaker,
  read-only queries, totals that no decision reads.

## 8 Plan

Done: the account service, the gateway, the tokenization service, the workflow
engine, the payment orchestrator, the service registry and the exchange rates, each
modelled, checked and with proofs. Everything else in the repository either cannot
run or keeps no state of its own (section 7).

Left, should the code or the time allow:

1. A recovery of workflow instances, once the code reads the snapshots it writes:
   `QuietMeansSaved` says what it could rely on: only at rest, and for a day.
2. The asset and user services, once their routes are bound.

## 9 Running it

    tlasany M.tla                          parse a module
    tlc -workers 2 -config X.cfg M         check a run; PROJECT.json names M and X
    tlapm AccountServiceProofs.tla         check the proofs of a module
