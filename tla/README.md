# Verification of superform-go-utils

TLA+ specifications, TLC models and TLAPS proofs for the stateful parts of this
repository and for the algorithms whose result is hard to test: the EVM transaction
manager, the event indexer, the HTTP transport with the provider clients on top of it,
and the caches, sessions and selections inside those clients.

`PROJECT.json` lists every component, run, mutant, theorem, hazard and finding, and
maps each definition to the source lines it models.

## 1. The system

| Part | Source | State it owns | Modules |
|---|---|---|---|
| lane processing | `evm/txmngr/txmngr.go` | per-batch nonce lane, local row copies | `TxManager`, `NonceLane`, `EthNode`, `TxContract` |
| fees | `evm/txmngr/txmngr.go` | none | `GasFee`, `FeeLadder` |
| status notifications | `evm/txmngr/txmngr.go` | outbox columns of terminal rows | `Outbox` |
| submission | `evm/txmngr/txmngr.go` | operation keys | `Submission` |
| transaction store | `evm/txmngr/txmngr_provider` | rows, attempts, lane locks | `TxStore`, `Submission` |
| error classification | `evm/txmngr/txmngr.go` | none | `BroadcastErrors` |
| event indexer | `evm/eventindexer` | registrations, channels, goroutines | `EventIndexer` |
| HTTP transport | `pkg/http_client` | retry loop, body limit | `HttpTransport`, `ProviderCall` |
| provider clients | `providers/*` | none, beyond the next rows | `ProviderClients`, `ProviderCall` |
| exchange rates | `providers/frankfurter` | cache of rates, of failures, gate | `RateCache`, `Evidence` |
| share statistics | `providers/yahoo` | crumb session | `ShareSession` |
| company facts | `providers/sec` | ticker table | `TickerTable`, `Evidence` |
| CoreWriter evidence, scaling | `providers/hyperliquid/hypercore` | none | `Evidence`, `CoreScaling` |
| orders | `utils/polymarket` | none | `OrderAmounts` |

How the transaction manager works. `SendTxAsync` inserts a pending row. Each
replica ticks `processTxs`, which runs `processLaneBatch` for some chains. A batch
takes the lane lock (one signer on one chain), reads the highest assigned nonce,
loads at most 25 due rows in nonce order and calls `processTransactionStep` on each.
A step loads the row's signed attempts, looks for a receipt, settles an earlier
rejection, or assigns a nonce, signs, commits the attempt, commits the row and
sends. The reply is an acceptance or one of six dispositions. A second loop delivers
terminal rows to a status callback.

What makes it hard: replicas interleave; the process may die between any two
writes; a write may commit and still report an error; a reply may be lost after the
node took the envelope; the endpoint lags the network; another service may spend the
account's nonces; rows of an older schema have no attempts, senders or nonces; and
a signing key may have been rotated.

The event indexer runs one goroutine per registered contract and one watcher.
Registrations share output channels, which the indexer closes. The provider clients
are used concurrently; most keep nothing between calls, three keep a cache or session.

## 2. Modules

| Module | Models | Extends |
|---|---|---|
| `NonceLane` | `nonceLane`: observe, reserve, isTip | |
| `GasFee` | bumpGasPrice, suggestGasPrice, suggestEIP1559GasFee | |
| `TxStore` | rows, attempts, lane lock; the store's atomic operations | `NonceLane` |
| `EthNode` | the network behind the RPC endpoint (external) | |
| `TxManager` | the replicas' batches, composed with store, fees and network | `TxStore`, `GasFee`, `EthNode` |
| `TxContract` | what a caller is promised: the abstract specification | |
| `FeeLadder` | the fees of one row's successive attempts | `GasFee` |
| `Outbox` | notification delivery by several publishers | |
| `Submission` | SendTxAsync, InsertOrGet, WaitTxCompleted | |
| `BroadcastErrors` | classifyBroadcastError and its predicates | |
| `EventIndexer` | the indexer's operations, watcher and goroutines | |
| `HttpTransport` | what the transport makes of one reply | |
| `ProviderClients` | one record per operation of a provider client | `HttpTransport` |
| `ProviderCall` | one call of such an operation, and the server | `ProviderClients` |
| `RateCache`, `ShareSession`, `TickerTable` | state shared by concurrent callers | |
| `Evidence` | decodeRates, latest facts, DecodeCoreWriterRawActions | |
| `OrderAmounts`, `CoreScaling` | BuildOrder's amounts; EVM and core units | |
| `MCTxManager`, `MCTxLiveness`, `MCOutbox`, `MCEventIndexer` | instances for TLC | |
| `Algorithms` | the algorithms above, one at a time | `FeeLadder`, `Evidence`, `OrderAmounts`, `CoreScaling`, `BroadcastErrors` |
| `Clients` | calls, shared state and submission, one part at a time | `ProviderCall`, `RateCache`, `ShareSession`, `TickerTable`, `Submission` |
| `MCAlgorithms`, `MCClients` | instances of these two | |
| `TxManagerTypes`, `TxManagerProofs`, `LaneProofs`, `ContractProofs` | theorems about the manager, each using the one before | `TxManager` |
| `EventIndexerProofs` | theorems about the indexer | `EventIndexer` |
| `ClientsProofs` | theorems about provider calls and the rate cache | `Clients` |
| `SharedStateProofs` | theorems about the session, the table, submission and the outbox | `ShareSession`, `TickerTable`, `Submission`, `Outbox` |
| `AlgorithmProofs` | theorems about the algorithms | `Algorithms` |

### TxManager

A row keeps what decides its transitions: status, sender, assigned nonce, canonical
envelope, `BroadcastPending`, `RejectedAttemptHash`, and whether `NonceConsumedAt` is
set. Messages and timestamps are left out. An envelope is its signer, payload, nonce
and fee, which is what its hash depends on, so two rows with one payload can sign
the same envelope.

A manager has a program counter with eight stages, the lane, the rows it loaded
(`snap`), the row in work (`cur`, `tx`), the broadcast policy and the reply. A step
is cut at each durable write and at `SendTransaction`; the RPC reads that lead to a
write are part of the action of that write. Each write has a branch in which it
commits and the caller still sees an error (`Fail`), and `StepError` is an error
with nothing written. `Crash` is possible at any stage.

| Code | Actions |
|---|---|
| `processLaneBatch` | `LockLane`, `UnlockLane`, `ParkUnprocessable`, `Reschedule` |
| `processTransactionStep` | `RecoverLegacy`, `FinalizeReceipt`, `ResumeReconciliation`, `pollConsumedNonce`, `Defer`, `ExpireUnsigned`, `ResumeBroadcast`, `AssignNonce`, `AwaitNodeNonce`, `BeginAttempt` |
| `createAndBroadcastAttempt`, `persistUniqueAttempt` | `SignAttempt`, `RecordAttempt` |
| `broadcastAndSchedule` | `Broadcast`, `Accepted` |
| `handleBroadcastFailure` | `Unconfirmed`, `RecordRejection`, `ReconcileRejection` |
| `reconcileRejectedSubmission` | operator of that name, used by two actions |

Time decides only three things. Whether a row is due, and whether its next bump has
come, are choices. `aged` says that the latest attempt has outlived
`recoveredAttemptRejectionGrace`, `elapsed` that a consumed nonce has outlived
`consumedNonceGrace`.

### EthNode: what is assumed of the network

- The endpoint may lag: an envelope in some pool need not be known to it (`seen`),
  and a mined one need not have a receipt there.
- What the endpoint has seen it keeps until the network drops it.
- `PendingNonceAt` answers a nonce up to which the pool it sees is contiguous, or an
  older, smaller one.
- `StableRejection`: what one backend rejects permanently no backend admits later. The
  code releases a nonce on this ground.
- The grace periods are long enough: `Age` waits until an admitted attempt has
  reached the endpoint, `Elapse` until a mined one has its receipt.
- A mined block stays; the code does not handle reorganisations.

### Outbox, FeeLadder, Submission, BroadcastErrors

`Outbox` abstracts a row to terminal, acknowledged, due and the number of its failed attempts.
Publishers take no lock, so each works on a copy. A callback that fails, times out or
panics may or may not have reached the consumer. A recorded result writes the
copy's counter and schedule, as `UpdateNotification` does.

`FeeLadder` signs up to five attempts. The node's suggestions, the base fee and the
collision floor are chosen anew for each. Prices are unbounded naturals like `big.Int`.

`Submission` separates the execution of an insert from its commit: a second insert of
the same key waits for the first, as PostgreSQL's unique index makes it, and sees its
row or its rollback. Callers repeat a submission whose reply was lost. Old rows have a
key and no payload hash. A manager whose queue is scoped to another sender is refused.
The error returns of `WaitTxCompleted` are left out.

`BroadcastErrors` takes an error as its JSON-RPC code, if any, and the set of phrase
lists its text matches; every combination occurs.

### EventIndexer

A registration is a slot with the state of its goroutine, its subscription and its
retry signal. The mutex is a variable because `AddContract` dials while it holds it;
every other critical section is one action. Callers start, add, remove and stop at any
time, contexts end, subscriptions break and a dial may hang until its context ends.
`LateSharing` says whether a channel may be passed to a second `AddContract`. The run
excludes it: reusing a channel the indexer has closed makes a later send panic.
`Offered` only chooses which unused channel a caller passes.

| Code | Actions |
|---|---|
| `Start`, `Stop`, `shutdown` | `Start`, `BeginStop`, `StopLocked`, `StopReturns` |
| `AddContract` | `CallAdd`, `AddLocked`, `AddRefused`, `Dialed`, `DialFailed`, `AddRegisters` |
| `RemoveContract` | `RemoveLocked`, `RemoveReturns` |
| `watch` | `WatchTick`, `WatchCancelled`, `WatchShutdown`, `WatchStopped` |
| `processLogs` | `TakeRetry`, `Resubscribed`, `ResubscribeFailed`, `SubscriptionFailed`, `TakeLog`, `Deliver`, `Quit`, `Cleanup` |

### HttpTransport, ProviderClients, ProviderCall

`ProviderClients` describes each operation by a record: the client that sends it and
how often, what it checks first, which statuses it accepts, how it decodes a body,
which answers it refuses and how many answers make up its result. Operations that
differ in nothing but their URL appear once. `ProviderCall` runs one of them against a
server that may lose a request, execute it and lose the reply, or execute it after the
client has given up. How many answers there are (`whole`) is chosen at the start, and
the call has those it keeps (`kept`). Of a well-formed answer without what was asked for
only the kinds an operation never takes are told apart (`refuses`); of the others it may
take or refuse any. Statuses stand for their classes and bodies for what a decoder can
tell apart. Durations are integers of a given width. A redirect that is followed turns a
POST into a GET or sends it again, as the status says.

### RateCache, ShareSession, TickerTable

Each models the callers of one client that share state. `RateCache` has a clock, the
cache of days in order of storing, the remembered failures and the gate; rates are
known by their date. The returns of `GetRate` before it looks at the cache are left
out. `ShareSession` has the session with its generation, the fetch others wait for and
the crumbs the provider has revoked. `TickerTable` has the table and the mutex held
while it is loaded.

### Evidence, OrderAmounts, CoreScaling

`Evidence` feeds one element per step to each loop and compares what the loop holds with
a definition over everything read. Of `DecodeCoreWriterRawActions` only the loop is
modelled; the checks of the receipt precede it. `OrderAmounts` and `CoreScaling` are pure.

## 3. Runs

| Run | Instance | Properties | Shows |
|---|---|---|---|
| `lane` | 2 replicas, 2 rows, 1 foreign transaction, failing receipt reads | `TypeOK`, `NonceHasOneOwner`, `NoCascade`, `BroadcastIsDurable`, `ReleasesOnlyTip` | the lane lock and the node's pending nonce keep the lane in order |
| `attempts` | 1 replica, 1 row, 2 attempts, prices 0 and 1, eviction, 1 foreign transaction, lost locks | `MinedAtMostOnce`, `AbandonedNeverMined`, `NeverParked`, `ImplementsContract` | one row's whole life is correct |
| `legacy` | 2 signed rows of the old schema, one by a rotated-out key | `AttemptInv`, `ImplementsContract` | old rows are adopted, not executed again |
| `liveness` | 1 row, 2 attempts, 1 foreign transaction, 2 faults | `EveryTransactionCompletes` | a row completes |
| `livelane` | a new row and an unsigned old one, 1 fault | `EveryTransactionCompletes` | rows on one lane do not block each other |
| `outbox` | 2 publishers, 3 rows, batches of 1 | `AcknowledgedWasDelivered`, `AcknowledgementIsFinal`, `EventuallyAcknowledged` | at-least-once delivery |
| `indexer` | 2 callers, 2 registrations, 2 channels, 3 chains of which 1 has no client | `ChannelOpenWhileUsed`, `RegisteredIffWatched`, `StopIsFinal`, `StopEventuallyReturns`, `RemoveEventuallyReturns`, `SubscriptionRestored` | no send on a closed channel, no orphan, progress |
| `clients` | every operation once; 2 or 3 callers of each shared state; 3 submitters | calls: `WriteExecutesAtMostOnce`, `RejectionIsDefinitive`, `ExecutedWasRecorded`, `SuccessIsWhole`; rates: `RateIsRecent`, `FailureSuppressesRetries`; session: `RefusedCrumbIsNotReused`; table: `UnknownIsTheTablesAnswer`; submission: `SentAgree`; all: `EveryCallReturns` | nothing is written twice, shared state stays consistent, every call returns |
| `algorithms` | 5 fee attempts; rows, facts and logs in any order; all orders and transfers on small scales; all error codes and texts | `CapCoversTip`, `ReplacementOutbids`, `RatesAreUnambiguous`, `FactsAreLatest`, `NoEvidenceIsLost`, `OrdersAreExact`, `TransfersAreWhole`, `RejectionsAreUncontradicted` | the algorithms agree with their definitions |

`receipts`, `lockloss` and `fallback` state what a comment of the code says and show
that the code does something else (section 6).

The property names are explained where they are defined. `ImplementsContract` is a
refinement: with the status as `outcome` and the number of mined envelopes of a row
as `executions`, every behaviour of `TxManager` is one of `TxContract`. In `Clients` and
`Algorithms` the machines do not interact: `focus` chooses one at the start.

### Bounds

- Rows and replicas: two of each give every interleaving of a lock holder with a
  successor, of an owner of a nonce with a follower, and of two rows that collide on
  an envelope. Rows and replicas of `lane` are interchangeable, hence the symmetry;
  liveness runs use none.
- `MaxNonce = 2` bounds the pending nonces tried; with two rows and one foreign
  transaction, a row that still needs a nonce never needs a larger one.
- `maxFeeReplacements` is 1 or 2 instead of 5. 2 has a first attempt, a replacement
  and the resend at the cap; `FeeLadder` has the full 5.
- `maxTransactionsPerLane` is the number of rows; which of them are due is a choice,
  so smaller batches occur as well.
- `MaxForeign` bounds the account's other transactions, `MaxFaults` the faults of the
  liveness runs, `MaxAttempts` the failures of a notification.
- `ReceiptReadsFail` and `LockLoss` are switched on where the property does not
  depend on them. A single replica (`attempts`) is immune to losing its lock, since
  nobody else takes it.
- `indexer`: two registrations can share a channel, and one can replace another whose
  goroutine is still ending. A registration slot is used once.
- `clients`: at most three pages are asked for (`MaxPages`) of lists of one to four, so a
  list ends before, at and after the cap; a second is 4 ticks and a
  duration 8 bits, so 30 seconds fit and `Afters` contains a value above `maxRetryAfter`.
- Rates: three days in months of two, half-day ticks, a cache of two days, one caller
  more than the gate admits, three calls. Session: one crumb revoked and one fetch
  failed, which is a first fetch, a refresh and a retry. Table: three calls.
  Submission: three inserts of a new and an old key with two payloads.
- `algorithms`: four rows, three facts, two logs; the price scale 40 with grid 10 has
  the structure of the source's 10^6 with 10^4. `MaxUint256` and `MaxCoreWei` are small
  and exceeded by some inputs.

### Fairness

`MCTxLiveness` counts faults (a crash, an error, a lost answer, a transient rejection)
and allows `MaxFaults` of them, at any time. For the steps without fault it assumes:

- weak fairness of each manager's steps: `runLoop` ticks until it is stopped;
- strong fairness of selecting a row, since `NextActionAt` always passes again, and of
  attempting it and of settling a rejection: the code retries those without limit, and
  the admission hook, the bump clock and a lagging node do not say "later" for ever;
- weak fairness of mining, propagation, receipts and the two grace periods.

`Outbox` assumes that the loops keep polling and that of infinitely many tries to
load a row, to call back and to record the result, by any publisher, some succeed.

`EventIndexer`: goroutines run, so a step that stays enabled is taken. `sync.Mutex`
starves nobody and `select` picks at random among ready cases, hence strong fairness of
taking the lock and of the cases for a cancelled context. A dial returns once its
context ends, and otherwise need not. Nobody has to read a channel. For
`SubscriptionRestored` alone, some of infinitely many dials succeed.

`MCClients`: every caller's own steps are weakly fair (goroutines run, timers fire, the
mutex, the gate and the channels are handed over), every request is answered or times
out, and every statement of the database ends. Nothing is assumed of cancellation or of
success.

## 4. Proofs

TLAPS proves every safety and action property of the passing runs for all values of the
constants: any number of rows, replicas, attempts, callers, registrations and elements.
Each proof starts from the named assumption of its module, which TLC evaluates in the runs:

- `TxManagerAssumptions`: nil differs from every value, prices and bounds are natural,
  old rows are rows, and no row has the payload that stands for another user's.
- `OutboxAssumption`: intents are rows. `SubmitConstants`: old keys are finitely many
  keys, and no payload is the missing hash. `TableConstants`: nil is not a table.
- `EventIndexerAssumptions`: finitely many registrations; a request names contracts.
- `OperationsAreProper`: an operation makes at least one request, and one that writes
  makes exactly one, with a client or a method that is not tried again. TLC evaluates
  this on every operation of `ProviderClients`.
- `RateConstants`, `EvidenceConstants`, `FeesAreNaturals`, `AmountsAreNaturals`,
  `CoreWeiIsBounded`: numbers are natural. `GridsMatch`: one step of the size grid and
  one of a price grid make a whole amount, as the source's constants do.

### Transaction manager

| Theorem | Further assumption | Inductive invariant and argument |
|---|---|---|
| `TypeCorrect`: `TypeOK` | none | `TypeInv` adds the types of the copies a manager works on at each stage: a row being signed has a nonce, one being sent has an envelope |
| `DurableBeforeBroadcast`: `BroadcastIsDurable` | no old rows | `Durable`: no two rows own one envelope, what is in a pool or a block is owned or foreign, and the envelope in hand is an attempt of its row. Locks play no role: it is the store's unique hash |
| `AttemptInvHolds`: `AttemptInv` | no lost locks | inductive with the types: whoever works holds the lock, so no attempt is inserted between loading a row's attempts and signing the next; the repair step takes nonce and key from the attempts; the chain takes one envelope per nonce |
| `NoDoubleExecution`: `MinedAtMostOnce` | `Exclusive`: no lost locks, or one replica | `CompetingInv`, which is `AttemptInv` without the claim that a lone replica holds its lock: nobody else can insert an attempt. Attempts of one row share key and nonce, mined envelopes do not |
| `ReportsAreMined`: `ReportIsMined`, `CompletedForGood`: `CompletionIsFinal` | none | `ReportInv`: receipts are of mined envelopes, and no copy a manager holds says succeeded or failed, so such a status is only written together with the receipt behind it. `UpdateIfActive` refuses the write of a stale copy, whoever holds the lock |
| `OneOwnerPerNonce`, `OnlyTheTipIsReleased`, `NothingIsParked` | `Exclusive`, no old rows | `LaneInv`: every copy a manager works on agrees with the stored row, the rows left in its batch are as stored, and its counter is above every assigned nonce. `reserve` then yields an unused nonce, a release is of the highest, and a row never contradicts its attempts |
| `NonceNeverCascades`: `NoCascade` | the same, no eviction | what the network has admitted it keeps, and a nonce is assigned only at the node's pending nonce, below which all is admitted |
| `AbandonedForGood`: `AbandonedNeverMined` | `Reliable`: the same as for `LaneInv`, stable rejections, receipt reads that succeed | `VerdictInv`: every verdict in a row is justified. A consumed nonce is below the chain's; rejection evidence is written only when every attempt in the network is known to the endpoint; after a grace period what is mined has a receipt; what was refused for good is nowhere |
| `ContractImplemented`: `ImplementsContract` | `Reliable` | initial states map to initial states. `SendTxAsync` maps to `Submit`, mining a row's attempt to `Execute`, the write of a terminal status to `Complete` or `Abandon`, as `VerdictInv` justifies, and every other step stutters: signing adds an envelope that is not mined |

The assumptions are needed. `lockloss`, with two replicas, and `receipts` (section 6) are
the counterexamples for lost locks and failing reads. Eviction makes `NoCascade` false by
design: a dropped envelope below an assigned nonce is sent again.

### Event indexer

| Theorem | Further assumption | Inductive invariant and argument |
|---|---|---|
| `RegistrationsAreWatched`, `StopEndsEverything` | none | `IndexerInv`: what has been dialed belongs to the `AddContract` that holds the mutex and its keys are all different and free; `outputs` counts the goroutines of each channel; nothing is dialed once `stopped` is set |
| `NoSendOnClosed`: `ChannelOpenWhileUsed` | `~LateSharing` | `OpenInv`: a closed channel has no users, and one that is being passed to `AddContract` is open and passed once |

### Clients and shared state

| Theorem | Inductive invariant and argument |
|---|---|
| `WritesExecuteOnce`, `RejectionsAreDefinitive`, `RecordedBeforeExecuted`, `SuccessesAreWhole` | `CallInv`: a request is under way exactly while the call awaits its answer; executions and requests that may still execute add up to at most one for a write, and to none after a definitive rejection; the hook has run before anything is sent; the answers kept are those of the parts before the one asked for now, decoded and in order, and no more parts are asked for than there are |
| `RatesAreRecent`, `FailuresSuppress` | `RateInv`: under a day only rates are stored that may be returned for that day, fallbacks included; who is behind the gate holds it, and has found the failure gone under it. `cachedStaleRate` takes the latest date of those stored, whose existence is a least-element argument |
| `FetchesAreExclusive`, `RefusedIsReplaced` | `ShareInv`: the pending fetch and the fetching caller determine each other, and generations only grow, so the session that ends a wait is newer than the one refused |
| `TableIsLoadedOnce`, `UnknownIsTrue` | `TableInv`: who loads holds the mutex and has found the table nil under it |
| `KeyNamesOneRow`, `SubmissionIsIdempotent`, `ConflictsAreReal` | `SubmissionInv`: a key has one row, the row a caller holds exists with the payload it compared, and a row is shared only under a key and once it is committed |
| `OutboxTypeCorrect`, `DeliveredBeforeAcknowledged`, `AcknowledgedForGood` | `OutboxInv`: a publisher about to record a success has delivered; an acknowledged row is never written again |
| `PartsAreThemselves` | a step of `Clients` is a step of one part and leaves the others alone |

### Algorithms

| Theorem | Argument |
|---|---|
| `LadderTypeCorrect`, `CapAlwaysCoversTip`, `ReplacementsOutbid` | the floor takes maxima of caps and of tips, which keeps caps above tips. `BumpOutbids`: with a coefficient of at least 30 the bump, rounded down, is still a tenth. The first replacement has 30; 15 would not do, since it turns 11 wei into 12 |
| `RoundingIsAgainstMaker`, `OrdersHaveExactPrice`, `EveryOrderIsExact` | division lemmas; on matching grids the product of price and size is a multiple of the scale |
| `ScalingIsExact`, `EveryTransferIsWhole` | division lemmas, for every amount and bound. The first is for every number of decimals, the second for the -2 to 2 of `Transfers`. That `Pow10` is positive is an induction over a set of numbers (`ClosedSetIsNat`: its complement has no least element), on which the function's existence rests too |
| `EveryRejectionStandsAlone` | the classification of a part of the text, case by case |
| `RatesAreFromOneRow` | `RatesInv`: `seen` holds the days and currencies some row named, and a rate is held exactly if one row named it |
| `LatestFactIsSelected` | `FactsInv`: the fact held is not beaten by any that was read. The comparison of durations is not transitive when a start does not parse, so the invariant has one part for the last end and one for the shortest among those |
| `EveryLogIsEvidence` | `LogsInv`: the actions and errors held are those of the CoreWriter logs read, in order |
| `AlgorithmsRunAlone` | a step of `Algorithms` is a step of one algorithm |

The loops are proved for inputs of any length by taking one element per step: the
induction is over steps, and the definition they are compared with is over everything read.

Each inductive proof has one step per action. Proved and in no run: the type invariants of
`Outbox` and `FeeLadder`, `OneRowPerKey`, `ConflictIsReal`, `OneFetchUnderWay`,
`LoadedAtMostOnce`, `ReportIsMined` and `CompletionIsFinal`.

### Only model-checked

- Liveness: `EveryTransactionCompletes`, `EventuallyAcknowledged`, `EveryCallReturns`,
  `StopEventuallyReturns`, `RemoveEventuallyReturns`, `SubscriptionRestored`. They rest on
  fairness and ENABLED, which the prover does not handle.
- `ImplementsContract` for rows of the old schema (`legacy`): `LaneInv` does not hold of
  such a row before it is repaired.

## 5. What is not modelled

- Messages, redaction, logs, metrics, URLs, headers and the fields of decoded answers.
- Row-local corruption (an attempt whose hash, nonce or signer contradicts its raw
  transaction): nothing in the code writes such rows.
- Clocks that differ between replicas, reorganisations, more than one chain. The
  rotation of `nextWorkChainIDs` and the start of the loops only decide when a lane is
  worked on, which is a choice in the model.
- RPC reads are not interleaved with other actors separately from the write they
  lead to. Under the lane lock no one else writes these rows, and the endpoint's lag
  stands for the delay. With a lost lock and several replicas this leaves out
  interleavings, so there only facts that the database enforces by itself are claimed.
- `RemoveContract` or `Stop` called from the indexer's own error callback. Such a call
  waits for the goroutine it runs on.
- The byte at the limit of a body: bodies are within or over it.
- `CreateOrDeriveCredentials` of polymarket, which falls back from one request to another.
- Modelled, but the subject of no property: how long `RoundTrip` waits between attempts,
  the eviction order of the rate cache, the number of session fetches, the redirect of a
  Slack post, and the notification counter, which two failing publishers can move back.
- Encodings and conversions without state: ABI and multicall encoding, action hashing,
  typed-data signatures, KMS signatures, tokens, config hooks, `utils/units` but for
  `Pow10`, the row encoding of the store. Their models would spell out strings and bytes.
- `pkg/backoff`, which nothing in the repository calls, and generated code.

## 6. Findings

| Run | The code | The comment |
|---|---|---|
| `receipts` | after `consumedNonceGrace` a single failed receipt read abandons a row whose attempt is mined: `processTransactionStep` drops the read's error for rows without rejection evidence | "abandonTransaction records a transaction that can never be mined" |
| `lockloss` | a replica whose lock session died goes on assigning nonces | "so nonce assignment is serialized across manager instances" |
| `fallback` | a stale rate that stands in for a failed request is stored under the requested day and served as a hit after the failure's TTL, without another request | "WithFailureTTL sets how long a failed monthly request suppresses identical retries" |

Met while modelling, without a run of their own:

- A recovered attempt's nonce is known only to the batch that loads it
  (`txmngr.go:593`); the comment says "A durable signed attempt reserves its nonce even
  when the legacy parent row predates assigned_nonce".
- The pending flag of a recovered row is kept in memory only (`txmngr.go:579`), so after
  a crash the row is replaced, not replayed; "fee replacement must wait until that
  ambiguity is resolved".
- `bumpGasPrice` turns zero into zero (`txmngr.go:1891`); "always by at least one wei".
- A `Retry-After` whose seconds overflow a duration is ignored, or shortened
  (`http.go:459`); "A longer Retry-After stops retrying and surfaces the error".
- Without `SetNoRedirect` a 3xx response is neither followed nor final but retried
  (`http.go:418`); the comment of `SetNoRedirect` says "instead of following them".
- The transport's attempts share one request body, which nothing rewinds
  (`http.go:401`): after an attempt that read it, the retried POST goes out without its
  body and is taken to fail. This concerns `PostJSON` and merkl's `EncodeCampaign`; no
  operation modelled as a write is retried.
- A page of opportunities that is `null` or empty ends the list as a success
  (`merkl.go:181`), whatever `CountOpportunities` says; nothing else tells a list that
  ends from one that is broken off.
- frankfurter, sec and merkl declare error types for statuses that the client built by
  their `New` does not return, because the transport reports the status first
  (`frankfurter.go:354`).
- A channel that the indexer has closed can be registered again
  (`event_indexer.go:183`), and the next event then panics.
- `backoff.Exponential` with `max` 0 returns nil without calling its action.
