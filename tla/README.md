# Formal model of the collateral settlement gateway

This directory holds TLA+ specifications of the gateway in this repository: the
custody contract, the backend services that settle and pay out amounts through
it, the indexer that copies the contract's books into the backend's ledger, the
trading example, and the store under the ledger. TLC model-checks them on small
instances; TLAPS proves the central safety properties for every instance. All
paths below are relative to the repository; `backend/` stands for
`src/backend/src/`.

How to run (inside this directory):

    tlc -workers 2 -config MCSettlementFaulty.cfg MCSettlementService
    tlapm SettlementServiceTheorems.tla

`PROJECT.json` lists the runs with their properties, the source lines behind
every definition, a mutation per property, the hazards and the theorems.


## 1. Inventory

### 1.1 The parts and how they interact

    clients, apps, admin                 wallets (users)
         | HTTP                               | transactions
         v                                    v
    routes -> services -----operator's tx--> CollateralVault (+ MockUSDC)
         |      |   ^                              |
         |      v   | receipts (await)             | event logs (polled)
         |   GatewayLedger <--- BlockchainIndexer <-
         |      |
         |      v
         |   SQLite (or memory) store
         v
    TradingEngine, RiskService, market data (the example app)

The backend is one Node process, one event loop. Between two `await`s a handler
runs alone; at each `await` every other handler, the indexer and the timers may
run. There are no locks and no SQL transactions around a handler: what keeps
handlers apart are in-memory marks (`settlementInFlight`), status fields of
records, the unique keys of tables, and the contract's `usedSettlements`.

| Component | State | Operations | Interacts with |
|---|---|---|---|
| `CollateralVault` (`src/contracts/CollateralVault.sol`), `MockUSDC` | token balances, `balances`, `pendingWithdrawals`, `approvedWithdrawals`, `totalLiabilities`, `insuranceBalance`, `usedSettlements`, `operator` | deposit, fundInsurance, requestWithdraw(For), approveWithdraw, withdraw / withdrawApproved, settle / settlePnl, setOperator | called by users and by the backend's operator key; read through logs and receipts |
| `SettlementService` (`backend/core/settlement/`) | none of its own: handlers in progress | submitSettlement, settleUser, validation of linked intents, audit report | ledger, vault through viem (writeContract, waitForTransactionReceipt) |
| `GatewayLedger` (`backend/core/storage/gatewayLedger.ts`) | user balances with pending P&L and in-flight mark, settlement records, intents, nonces, orders, positions; all mirrored in the store | begin / record submitted / clear settlement, the `applyIndexed...` family, event claims, cursor, intents and nonces | called by every service, the indexer and the trading engine |
| `BlockchainIndexer` (`backend/core/blockchain/blockchainIndexer.ts`) | seen logs, the watcher's position; in the store: claims, cursor | start, historical sync, watcher, handling of one log, stop | reads the chain, writes the ledger |
| `WithdrawalService` (`backend/core/withdrawals/`) | handlers in progress | requestWithdrawal, approveWithdrawal | risk checks, signed intents, vault, ledger; it applies its own receipts' logs like the indexer does |
| `SignedIntentService` (`backend/core/auth/`) | nonces, intents (in the ledger) | issueNonce, verifySignedIntent | ledger; consumers of intents are the settlement and withdrawal services and the trading engine |
| `TradingEngine` (`backend/examples/trading/`) | orders, positions, trades (in the ledger) | place, match, fill, cancel | risk service, market data, ledger's pending P&L |
| `RiskService` | none | order and withdrawal checks | reads the ledger |
| `ReconciliationService` | none | compares ledger and vault | reads both |
| SQLite and memory stores | tables | one statement at a time | used by the ledger only |
| Money helpers (`backend/core/money/money.ts`) | none | rounding and conversion of micro-USDC | everywhere |
| App registry, admin auth (`backend/core/auth/`) | the registered apps of the running process | per-request authorisation of settlements and intents | routes, settlement service |
| Market data, websocket hub, demo, dashboard, admin and health routes, OpenAPI | feeds, connections | views and scripted clients | read the services |

### 1.2 The behaviours that are hard

* **Interleaving of handlers.** `submitSettlement` tests the in-flight mark and
  the linked intents, then awaits the deployment file, then tests only the mark
  again. It awaits the node twice more. Any other request, the indexer or a
  trade may run in each gap.
* **Two writers of one fact.** The handler (from its receipt) and the indexer
  (from the log) both confirm the same settlement, in either order; the same
  holds for the withdrawal service.
* **Unreliable answers.** The node may have broadcast a transaction and its
  answer be lost; waiting for the receipt may time out; the transaction may
  revert when mined.
* **Restarts and kills.** Handlers and marks live in memory, records on disk.
  A clean stop falls between two turns of the event loop, a kill between any two
  SQL statements.
* **Ordering of events.** A settlement *overwrites* the ledger's collateral by
  the balance in its log, deposits and withdrawals *add* and *subtract*; applied
  out of chain order these do not commute.
* **Two number formats.** The API and the ledger count to the eighth decimal, the
  vault to the sixth. Every request is rounded on its way to the chain, and what
  the vault cannot settle is left over or dropped.
* **Mixed counters on chain.** A gain, a loss, a payout and a donation change
  different subsets of balances, liabilities and insurance.

`PROJECT.json` lists each hazard at its line with the properties that would
catch it.

### 1.3 What makes each part correct

* Vault: liabilities are the sum of the balances; the tokens held are exactly
  what the books account for; approved and covered money can be paid whatever
  others do; one settlement per id; the logs tell the whole story.
* Settlement path: one settlement of a user at a time; the pending P&L is taken
  off exactly once per confirmed settlement; a confirmed record is true and
  final, and states what the chain moved; the caller is told the truth; intents are consumed by confirmed
  settlements and back only one; nobody stays blocked; every applied settlement
  ends up on record, with its own audit data.
* Indexer: no log twice, none out of order, none forgotten; the ledger shows
  books the vault had.
* Withdrawals: what is filed on chain is what was signed, to the nearest unit of the
  token; a consumed intent stays
  consumed; the ledger counts every log once and never offers more than the
  vault would accept.
* Signed intents: a nonce backs one intent, an intent one order.
* Trading and risk: what is filled is what was signed, once, at a price the market
  had; the P&L of the fills is what is pending or settled; a settled trade has its
  signature linked, unless that expired first; settling leaves nothing that would block a withdrawal.
* Money: rounding errs by at most half a unit, conversion by less than the
  token's smallest unit.
* Store: a restarted process continues with the books the last one had; the file
  explains its own P&L; the memory backend behaves like SQLite.
* Reconciliation: an alarm is always news.
* App registry: an app settles what it may and links only intents signed for it; the
  audit report tells who settled.


## 2. Plan

Done, in this order:

1. `FiniteSums`, `ArithmeticTheorems`: sums over finite sets and their laws,
   since both the vault's liabilities and the settled P&L are sums, and the laws of
   rounding, on which every amount that goes to the chain depends.
2. `CustodyPromise` (abstract) and `CollateralVault` (detailed), the refinement
   between them, `CollateralVaultTheorems`.
3. `SettlementService`, on top of `CustodyPromise` as its chain, and
   `SettlementServiceTheorems`.
4. `BlockchainIndexer`, composed with the whole of `CollateralVault`.
5. `WithdrawalService` with the nonce and intent lifecycle of
   `SignedIntentService`, composed with the whole of `CollateralVault`.

6. `Rounding`, `Money` and `TradingEngine` with the order checks of `RiskService`, market
   data, the order variant of `SignedIntentService` and what `settleUser` takes
   from the trades; `TradingEngineTheorems`, about both.
7. `GatewayStore`: the ledger's writes statement by statement, on SQLite and on
   the memory store, with kills.
8. `Reconciliation`, on top of `BlockchainIndexer`.
9. `WithdrawalServiceTheorems`, `BlockchainIndexerTheorems` and the intents of
   `SettlementServiceTheorems`.
10. `AppRegistry`: authorisation of settlements, and the audit report about it.
11. The theorems that need an argument over several layers: what the logs explain,
    order and completeness of the indexer, the ledgers of indexer and withdrawals,
    answers and single flight, the sums over trades.
12. `GatewayStoreTheorems`: references, cache, consumption, twin and books of the
    store, in this order, each layer on top of the one before.
13. `AppRegistryTheorems`.

To come:

14. A gateway module that composes settlement, withdrawals and indexer on one
    ledger, so that settlements and withdrawals of a user race with each other.


## 3. The modules

### 3.1 CollateralVault and CustodyPromise

One action is one successful transaction, named as in the contract; `receipt`
holds its logs in log order. A reverting transaction changes nothing and is a
stuttering step. `nonReentrant` and a token without callbacks justify atomic
transactions. `_assertSolvent` is evaluated on the successor state, as the
contract calls it last. Checked arithmetic appears as guards on subtraction.
`Mint` and `TransferDirectly` are the token's own operations: the second sends
tokens to the vault behind its back and is counted in the history variable
`donated`. The caller is `sender` where the contract tests it.

`MoveSettlement` states the three branches of `_applySettlement` at once: the
insurance moves by `-amountDelta`, balance and liabilities by `+amountDelta`,
under the branch's guards.

Left out: `OperatorUpdated` and ownership logs and transfer of ownership (the
owner only appoints operators), tests for the zero address, `uint256` width
(every sum is bounded by the token supply).

`CustodyPromise` is what a user may rely on, without books: a claim per user, a
pool of the house and four ways for money to move. `CollateralVault` implements
it with `claim <- balances`, `authorised <- approvedWithdrawals`,
`pool <- insuranceBalance`, `applied <- usedSettlements`, `wallet` = the users'
tokens. Requests, operator changes and logs become stuttering steps.

### 3.2 SettlementService

Actors: the handlers of any number of requests, the operator's transactions on
their way through the mempool, other senders of the vault, the indexer as
deliverer of logs (each log once, in order), trades, deadlines and restarts.

A handler's segments between two awaits are actions:

| Action | Code |
|---|---|
| `Post`, `SettleUser` | `submitSettlement` up to `await loadUsableContracts`: intents validated, amount not zero, nothing in flight |
| `Begin` | `beginOnchainSettlement`: the mark is tested again and set; the transaction is handed to the node |
| `Refuse` | the same test fails, or the deployment is unusable |
| `RecordSubmitted` | the hash is back: `recordOnchainSettlementSubmitted` |
| `Confirm` | the receipt is there: `applyIndexedSettlement`, intents consumed, answer |
| `SendFails`, `SendLost`, `ReceiptReverted`, `ReceiptLost` | the catch block (`Abandon`): the user's mark is cleared, whoever set it |
| `ExpireIntent` | a refused request marks an overdue intent `EXPIRED` |
| `Broadcast`, `Mine` | the node accepts (after gas estimation) and mines or reverts the transaction, in nonce order |
| `Deliver` | the indexer applies the next log |
| `RealizePnl` | `addPendingSettlementPnl`, called by the trading engine |
| `Restart` | handlers and marks are gone, the database stays |

The chain is `CustodyPromise`, which `CollateralVault` is shown to implement, so
that the handler sees a contract with all freedom the promise leaves. A request
draws a fresh settlement id and sends at most one transaction, so one name stands
for request, id and transaction.

The chain and its logs count in units of the token, the backend in last decimals.
A request has any of the decimals the API admits; `Broadcast` and `Mine` use
`ToMicroUsdc` of its amount, as `parseSettlementAmount` does, and the record, the
P&L and the collateral take `FromMicroUsdc` of the log's amounts. What is left of the
P&L below a unit is dropped (`DropDust`). The in-flight mark keeps the amount
requested, so that it is found by amount only if the request needed no rounding.

`Faults` selects which failures the environment may produce: `SendLost`,
`ReceiptLost`, `Restart`. A mined transaction may always revert, and a send may
always fail before the broadcast.

### 3.3 BlockchainIndexer

`CollateralVault`'s own actions fill the block under construction (`Transact`);
`SealBlock` makes its logs visible. `Start` reads the range behind the cursor up
to the head and leads to phase `syncing`; `Watch` starts viem's contract watcher,
whose first poll notes the head; `Poll` fetches the blocks sealed since.
`HandleLog` is `processLog` with the handler it dispatches to: claim
(`recordIndexedChainEvent`), balance, settlement record, cursor. `WriteUpTo(k, n)`
is the database after the first n of these four writes; `HandleLog` does all,
`Kill` may stop at any n or between two logs of a batch. `Stop` is a clean
shutdown, `StartFails` the start error that `app.ts` logs and swallows.

`Faults` selects `MinedDuringSync` (a block is sealed between the sync's reading
of the head and the watcher's first poll), `Kill` and `StartFails`. The first
is no exotic failure: on a live chain it happens whenever a block falls into
that window. It is a switch so that the runs without it isolate what holds
otherwise; section 6 says what it costs.

viem's watcher is external and modelled as used: it delivers every log of the
blocks after its first poll, in order. A node that loses a filter, and chain
reorganisations (the code has no handling of them), are not modelled.

### 3.4 WithdrawalService

Handlers of any number of API calls, the operator's transactions in the mempool,
the users' own transactions, the indexer, deadlines, trades and restarts. The
chain is the whole of `CollateralVault`, as request and approval are judged
by its books. The risk checks of an approval are `checkWithdrawAllowed`.

| Action | Code |
|---|---|
| `IssueNonce` | `issueNonce` |
| `VerifyIntent` | `verifySignedIntent` up to the recovery of the signer |
| `RecordIntent`, `RejectIntent` | the rest: `consumeIntentNonce` and `recordVerifiedIntent`, or the nonce is unknown or used |
| `RequestWithdrawal` | `requestWithdrawal` up to its first await: `validateWithdrawalIntentBasics`, `assertWithdrawalRequestAllowed` |
| `ApproveWithdrawal` | `approveWithdrawal` up to its first await: `checkWithdrawAllowed` |
| `Send`, `Refuse` | the deployment is loaded, the payload compared with the intent's (`PayloadMatches`), the transaction handed to the node; or an error |
| `AwaitReceipt`, `SendFails`, `ReceiptFails` | answers, errors and timeouts of the node |
| `Finish` | the handler claims and applies its own log, a request consumes its intent |
| `ExpireIntent` | a refused request marks an overdue intent `EXPIRED` |
| `Deliver` | the indexer handles the next log |
| `Broadcast`, `Mine`, `UserTransacts` | the node, the vault and the users' own transactions |

`call[c].ref` names the nonce of a verification and the intent of a request; an
intent is named by the call that recorded it. `atRisk` stands for an open
position or unsettled P&L and changes at any time. `delivered` is how far the
indexer has come; it skips and repeats nothing here (section 3.3 has the rest).
Settlements are left to `SettlementService`: they are the events that make the
collateral drift (section 6), and would hide what this module is about.

A posted amount is rounded to the last decimal (`RoundMoney`), which is what the ledger
tests and what is compared with the signed payload; `Filed` is what the transaction
asks for, the same rounded to a unit of the token. An amount that is rounded to
nothing is refused by the vault, after the ledger has accepted it.

### 3.5 Rounding and Money

`money.ts` turns decimals into integers of the eighth decimal, computes with
these and turns the result back; `Money` has the integers only. `Scale` is one
unit, `MicroUnit` the token's smallest amount, `Fine` the steps of an input number
below the last decimal. `DivRound` in `Rounding` is `divRound` (halves away from zero),
`RoundMoney` the rounding of an input, `WeightedAveragePrice` cuts the two costs
as the code's bigint division does and rounds their quotient. Beyond 2^53 units
JavaScript numbers are inexact; the code does not check this and the model stays
below. The settlement and withdrawal services and the trading engine all extend it.

### 3.6 TradingEngine

One user and one symbol; requests that post orders, calls of `settleUser`, the
market and the feed.

| Action | Code |
|---|---|
| `PostOrder` | `verifySignedTradingOrder` up to the recovery of the signer: the intent is not overdue |
| `ExecuteOrder` | the rest of `POST /examples/trading/orders`: the nonce is used, the intent recorded, `placeOrder`, all without a pause |
| `PlaceOrder` | `assertUniqueClientOrderId`, `applyLongOnlyFill`, `checkOrderAllowed`, the writes; a refused order leaves a verified intent |
| `IngestQuote` | an answer of the provider, of any age and in any order: the timer does not wait for the last request |
| `SetPrice` | the admin's price with any timestamp, for the mock provider |
| `SettleUser` | `settleUser` up to its first await: the pending amount, every trade that moved the P&L, every verified order intent, none of them overdue |
| `ExpireIntent` | `settleUser`, or another request that links the intent, is refused over it and marks it `EXPIRED`; the next call passes it over |
| `BeginSettlement`, `IndexSettlement`, `FinishSettlement`, `AbandonSettlement` | `submitSettlement` and the indexer, as in section 3.2, without lost answers |
| `Tick` | time passes on the market |

`ApplySettlement` moves whole units of the token and drops from the pending P&L
what is too small for one. The ledger is taken to agree with the vault here.

### 3.7 GatewayStore

The ledger keeps each user in memory and writes through. A turn of the event
loop (`Turn`) changes the memory at once and queues its repository calls in
`todo`; `BeginCall` starts the next one with its first statement, `ContinueCall`
runs one of those left in `running`; the next turn starts when all are done.
`Kill` may fall anywhere: memory and queues are gone, the file stays, and `Load`
reads a user back (`View`). So turns are atomic for each other, as
on the event loop, and not for a kill, as nothing wraps them in a transaction.

| Definition | Code |
|---|---|
| `Statements` | which statements a repository call consists of, in order |
| `Sqlite`, `References` | the effect of a statement on its table (`INSERT OR IGNORE`, upserts, unique keys) and what its foreign keys need |
| `Memory` and the `Memory...` operators | `memoryStore.ts`: the same calls on maps |
| `Load`, `View` | `getOrCreate` |
| `IssueNonce`, `VerifyIntent`, `ExpireIntent` | the intents' lifecycle |
| `Buy`, `Sell` (`Fill`) | the writes of `placeOrder` |
| `IndexDeposit`, `IndexSettlement` | the indexer's handlers: claim, balance, record |
| `BeginSettlement`, `RecordSubmitted`, `ConfirmSettlement`, `AbandonSettlement` | the settlement handler's calls of the ledger |

`twin` is a memory store that is given the same calls until the first kill. `torn`
records the users a kill has caught in one of the two windows in which the code
leaves one half of what belongs together (`HalfWritten`): the position of a fill
written and its P&L not; the balance of a confirmed settlement written and its
record not.

### 3.8 Reconciliation

`reconcileUser` copies the ledger (`StartReport`), then awaits two calls of the
vault, each answered from the latest block at its own moment (`ReadBalance`,
`ReadPendingWithdrawals`) or failing (`ReadFails`); `Status` is the report's
verdict. The rest of the step relation is the indexer's and the contract's, so
blocks are sealed and logs handled between any two of these.

### 3.9 AppRegistry

The registry is read from the environment at every start (`Restart` may change
it). `VerifyIntent` asks it for the intent's app; `Post` is `POST /settlements` with
its headers: the admin token, an app's id and secret, or neither, and the body's
`appId`, type, intents and metadata. `AuthorizedAs` is
`authorizeSettlementRequest`, `Submit` the linking of the intents and the audit
metadata that `decorateSettlementMetadata` adds to what the caller sent,
`RecordSubmitted`, `IndexSettlement`, `Confirm` and `Abandon` the records as in
section 3.2. `SettlementReport` is the report, read back from the record.
Users' signatures, amounts and lost answers are left to the other modules; the
process stops only while no request is at work.


## 4. The runs

| Run | Instance | States | Shows |
|---|---|---|---|
| `vault` | 2 users, 2 operators, 2 ids, amounts 0..2, deltas -2..2, supply 4 | 36 thousand | `LiabilitiesMatchBalances`, `BackingIsExact`, `ApprovedFundsArePayable`, `CoverageLostOnlyByLoss`, `LogsExplainTransaction`, `ImplementsCustody` |
| `settlement_calm` | 1 user, 2 requests, 1 intent, amounts of half a token unit and a whole one, `Faults = {}` | 2.0 million | `SingleFlight`, `AnswerIsTrue`, `AuditDataIsOwn` |
| `settlement_faulty` | the same, all faults, any number of restarts | 3.1 million | `PnlAccountedOnce`, `ConfirmedIsOnChain`, `IntentsFollowRecords`, `ConfirmedRecordIsFinal` |
| `settlement_live` | the same without intents and with a third of a unit, all faults | 34 thousand | `InFlightReleased`, `AppliedIsConfirmed` |
| `trading` | 2 posting requests, 4 signed orders over 3 nonces and 3 client order ids, 2 settlements, 2 prices, a deadline that passes, mock and Pyth | 1.5 million | `BooksExplainTrades`, `ClosedPositionMadeItsCash`, `FilledAsSigned`, `FilledAtRecentPrice`, `SettledTradesAreLinked`, `SettlingClears` |
| `store` | 1 user, 2 orders, 1 intent, 1 deposit, 1 settlement with its handler and its two logs, 2 kills between any two statements | 4.3 million | `CacheMatchesStore`, `BackendsAgree`, `NoStatementRefused`, `BooksBalance`, `ConsumedIsLinked` |
| `indexer_calm` | 1 user, 4 logs, 3 blocks, 1 clean restart, fair | 0.2 million | `LedgerIsPastVault`, `CaughtUpIsComplete`, `EveryLogTakesEffect` |
| `indexer_faulty` | with reconciliation: 3 logs, 2 blocks, 2 kills, restarts or failed starts | 0.8 million | `NeverAppliedTwice`, `AppliedInChainOrder`, `MismatchIsNews` |
| `withdrawals` | 1 user, 3 calls, 1 nonce, 3 posted amounts, the user's own of 1..2 units, supply 2, 3 logs of the user, all faults, any number of restarts | 0.7 million | `LedgerFollowsClaims`, `CaughtUpLedgerIsCautious`, `NonceBacksOneIntent`, `FiledAsSigned`, `ConsumedIntentIsFinal` |
| `registry` | 2 users, 2 apps and the system's id, 1 intent, 2 settlements, 1 restart with another registry | 70 thousand | `AppSettlementsAreSigned`, `ReportIsTrue`, `ReportShowsConsumption` |
| `intent_reuse`, `ledger_drift` | | | counterexamples, section 6 |

Why the bounds are enough.

* *vault.* A call touches one user, so two users cover "somebody else's call in
  between". Supply 4 and amounts up to 2 let one user hold a claim while the
  other is funded, and insurance, a balance and a donation be non-zero at once.
  Two ids allow a replay and a second settlement. Amount 0 and delta 0 are among
  the inputs. `MaxSupply` is the only cut.
* *settlement.* The in-flight mark, the records and the catch block couple
  requests of one user pairwise, hence two requests and one user. The deltas
  -1 and 2 with `MicroUnit` 2 make two requests with equal amounts and with opposite
  ones: -1 is rounded to a whole unit and leaves dust, 2 is exact, so that a log
  can clear another request's mark by its amount. In `settlement_live` `MicroUnit` is 3,
  and -1 becomes a settlement of nothing. `MaxPnl` bounds what trades realize, `MaxSupply` the
  tokens and `MaxLogs` the deposits and payouts (settlement logs always fit), 1
  with faults and 2 without. One intent is enough for two requests to share it.
* *indexer.* A log touches its own user's books only. One transaction can emit
  three logs (`settlePnl` with a gain), so 3 or 4 logs and 2 or 3 blocks allow
  several logs in a block, several blocks in a batch, and a cut inside a block.
  `MaxRestarts` is 2 with kills, so that a process can be stopped once more after
  it resumed behind a cut. One user's report is enough: a new one may start at any
  time, and two blocks let its reads fall on both sides of one.
* *withdrawals.* Three calls allow a verification and two requests with its
  intent, one signature posted twice, a verification with a request and its
  approval, and approvals of what the user requested directly. The posted
  amounts 1, 7 and 9, in steps of half a last decimal, become 1, 4 and 5 decimals and, with
  `MicroUnit` 3, none, one (rounded down) and two units (rounded up); a request may
  differ from what was signed by a single last decimal. Supply 2 lets the user deposit
  twice or request in parts; `MaxLogs` is 3 for a deposit, a request and a payout.
* *trading.* Three fills open, enlarge and close a position; of the four orders two
  share a nonce and two a client order id, and their quantities are rounded up,
  down and to nothing. With `Scale` 4 and `MicroUnit` 2 every helper rounds and
  settlements leave dust. Prices 41 and 403 give a gain, a loss and an order
  the limits refuse; with `MaxPriceAge` 0 a quote of time 1 is stale at time 2, when the one order with
  deadline 1 is overdue too: it opens the position that the third order closes.
  Two settlements race with each other and with the orders.
* *store.* Rows of two users never meet, so one user suffices. Two orders open and
  close a position with a gain, a loss or nothing, which covers the row that is
  deleted; each may be posted again after a kill. One settlement has three
  writers (its handler and its two logs) in every order. The second kill may
  strike what the first has left behind. `MaxQuantity`, `MaxCollateral` and
  `MaxPnl` cut the books at one unit.
* *registry.* Two settlements may want one intent, two users and two apps may take
  each other's; one restart changes the registry between verification and
  settlement, or between settlement and report. `MaxRestarts` is 1.

Requests, calls, users, operators and ids are symmetric where a cfg declares
`SYMMETRY`; the runs with liveness declare none.

Deadlock is not checked in `trading` and `store`, where the requests are finite
and every one of them may be done; in the other runs traders, owners and
deadlines never let the system stop for good.

### Fairness

`SettlementService!Fairness`: weak fairness of each handler segment (the event
loop runs what is ready; every RPC call ends with an answer or a timeout, which
is the disjunction under one `WF`), of `Mine` (the chain mines what it accepted)
and of `Deliver` (the indexer polls for ever). Not of callers, trades, other
senders, `Broadcast` (the node may refuse instead) or restarts. `AppliedIsConfirmed`
therefore rests on an indexer that handles every log; section 6 says when it does not.

`BlockchainIndexer!Fairness`: weak fairness of `Start`, `Watch`, `Poll` and
`HandleLog` in `indexer_calm`, whose `CalmNext` has neither kills nor failed starts
(the service manager restarts the process, `docs/deployment.md`; the watcher polls
on a timer). Not of the chain or stops.

### Mutations

Beside the definitions stand mutated forms (their comments start with
"Mutation"), each the kind of slip a change of the code could introduce: a
dropped test, a swapped order of writes, an off-by-one. No action uses them. For
each property `PROJECT.json` names one that breaks it: replacing the definition
by it makes TLC report that property.


## 5. What is proved

All theorems hold for every value of the constants allowed by the named `ASSUME`s
(`VaultAssumption`, `ServiceAssumption`, `NoneAssumption`, `WithdrawalAssumption`,
`IndexerAssumption`, `MoneyAssumption`, `TradingAssumption`, `StoreAssumption`,
`RegistryAssumption`): finite sets of users, requests, settlements and intents,
naturals as amounts, integers as deltas, distinct "none" values, intents that belong
to a user and an app, positive prices and quantities, a token unit that divides the
money unit.

`ArithmeticTheorems`: `SumOver(S, f)` adds up a function over a finite set, along an
arbitrary numbering of it; it moves with a point update of `f`, is zero for zero
`f`, and is not below any of its terms for naturals. `SumTo(f, n)` adds up the first
`n` terms of a sequence, `SumWithin(f, S, n)` those of them in a set: two sequences
that differ in one term have sums that differ by as much (`SumToDifference`,
`SumDifference`), a new last term is added (`SumExtend`, `SumWithinAdds`). Induction over data
is not available to these provers, as the library's induction theorems take an
operator; the lemmas take the least number for which the claim would fail.

About rounding it has `RoundingError` (`DivRound` is off by half the divisor at most, for
either sign), `NearestMultiple` (an amount rounded to the token and back is off by
half a unit at most).

`CollateralVaultTheorems`:

* `TypeCorrect`, `LiabilitiesTheorem`, `BackingTheorem`. The inductive invariant
  is the type invariant with liabilities = sum of balances and tokens =
  liabilities + insurance + donations. The type invariant is not inductive
  alone: that a payout leaves naturals needs the sum.
* `PayableTheorem` (`ApprovedFundsArePayable`) follows from it: the balance is one term of the sum.
* `CoverageTheorem` (`CoverageLostOnlyByLoss`): per action, from the guards of requests and approvals.
* `CustodyTheorem` (`ImplementsCustody`): initial states map to initial states and every step to a
  promised movement or a stutter.
* `LogsTheorem` (`LogsExplainTransaction`): per action, from its one, two or three logs.

`SettlementServiceTheorems`, under all faults and for any number of decimals:

* `TypeCorrect`.
* `PnlTheorem` (`PnlAccountedOnce`) and `ConfirmedTheorem` (`ConfirmedIsOnChain`). The inductive invariant `AccountingInv`
  adds that requests on record, in the mempool or in a log have started
  (`RequestsStarted`) and that every settlement log is the log of a request, with
  its user and its amount rounded to the token (`LogsAreRequests`). Without the second
  a log could confirm a record of another user, and the share taken off the P&L would
  be filed under the wrong one. `ConfirmedTheorem` then has two parts: the record
  states what the log says, whoever wrote it first, and `NearestMultiple` bounds how far
  that is from the request. In `PnlTheorem` each confirmation adds its amount to the sum
  and drops at most `MicroUnit - 1`, once.
* `FinalRecordTheorem` (`ConfirmedRecordIsFinal`) from the same invariant.
* `IntentsTheorem` (`IntentsFollowRecords`). The invariant `ConsumedInv` adds that a
  caller is told of success only once the record is confirmed; it is kept because
  confirmed records never change.

and with the hypotheses under which the runs check them:

* `AnswerTheorem` (`AnswerIsTrue`) if no answer of the node is lost (`SendLost`,
  `ReceiptLost` not in `Faults`; restarts are allowed). `AnswerInv` follows every
  transaction: queued once, then applied or reverted, and a request that was told of
  a failure has none. With a lost answer the caller is told of a failure while
  the transaction is on its way, so the hypothesis is needed.
* `SingleFlightTheorem`, `AuditTheorem` (`AuditDataIsOwn`) for `Faults = {}`. `MarkInv` says
  that from `Begin` to the confirmation of its record a request holds its user's
  mark, so that no other begins and a log finds its own context. A restart drops
  the marks of transactions still under way, so `Restart` is excluded as well.

The lemma `ApplyEffect` says what `applyIndexedSettlement` does to records and
P&L whoever calls it; handler (`Confirm`) and indexer (`Deliver`) both cite it.

`WithdrawalServiceTheorems`, under all faults:

* `NonceTheorem` (`NonceBacksOneIntent`), `FiledTheorem` (`FiledAsSigned`), `ConsumedTheorem`
  (`ConsumedIntentIsFinal`). The inductive invariant `IntentInv` says that a recorded
  intent is a finished verification that has used its nonce, so that no second one
  with the nonce can be recorded; that a request names a recorded intent of its
  user; that the payload of what is sent or in the mempool was compared with that
  intent to the last decimal (`PayloadsCompared`); and that a log tells of the call whose
  transaction emitted it, with its amount rounded to the token (`LogsTellCalls`), from
  which `FiledTheorem` bounds the difference to half a unit.
* `LedgerTheorem` (`LedgerFollowsClaims`) and `CautionTheorem` (`CaughtUpLedgerIsCautious`). `LedgerInv` adds that
  the vault's balances are what its logs add up to, now (`LogsReplay`) and without
  debts after every earlier log (`NeverOverdrawn`), and that handlers claim ahead of
  the indexer only logs that neither add to a balance nor pay out (`ClaimOrder`).
  The last two together keep the saturating subtractions of collateral and
  approved amounts exact; for pending amounts only the inequality remains.

`BlockchainIndexerTheorems`, over `CollateralVault`'s theorems:

* `OnceTheorem` (`NeverAppliedTwice`). The invariant `ClaimInv` adds that every applied log
  is claimed. It holds although a kill may separate the two writes, as the claim
  comes first. No fault is excluded.
* `OrderTheorem` (`AppliedInChainOrder`), unless `Kill` and `MinedDuringSync` come
  together. `OrderInv`: what waits in the batch is newer than everything claimed
  (`BatchIsAhead`), and a log older than a claimed one that was never claimed is behind
  the cursor for good (`SkippedIsLost`, `FetchedIsQueued`). With both faults this is
  false, and so is the property: a skipped block may be read again after a kill in
  the writes of a newer log, whose cursor was not yet saved.
* `CompleteTheorem` (`CaughtUpIsComplete`) without either fault, for any number of clean
  restarts and failed starts: nothing handled is missing behind what was fetched
  (`NothingLost`). Each of the two faults alone refutes it (section 6).
* `LedgerTheorem` (`LedgerIsPastVault`), without either: `BooksInv` says that each handled log leads
  from the books after the handled log before it to its own, which is shown for
  each transaction of the vault; that logs without a handler leave the books as they are; and
  that a settlement id occurs in one transaction only, so that its second log
  finds its record and changes nothing. `LedgerInv`: the ledger is the books after
  the last log applied.
* `MismatchTheorem` (`MismatchIsNews`), under the condition of `OrderTheorem`. `ReportInv`: an
  answer shows the books at the end of a block not older than what had taken
  effect when the report was begun. It needs `BooksInv` and the order, not completeness.

`TradingEngineTheorems`, first about `Money`: `ConversionLeavesDust`, from `RoundingError`; where
the results of the helpers lie; and how far a notional, a realized P&L and an
average price are off the exact value (`NotionalError`, `PnlError`,
`AveragePriceError`). Then about `TradingEngine`:

* `TypeCorrect` (`TypeOK`). `TypeInv` adds that trades and settlements are typed and
  that what a settlement names is on record.
* `SettlingTheorem` (`SettlingClears`) from `ConversionLeavesDust`: what is left of an
  amount settled in whole is less than a unit, and such a rest is dropped.
* `SignedTheorem` (`FilledAsSigned`) from `FillsAreRecorded`: every fill's nonce is
  used for its order, and its client order id is on record.
* `PriceTheorem` (`FilledAtRecentPrice`) from `QuoteWasOnMarket`: with Pyth the
  quote's price and time belong together, however late it arrives.
* `LinkTheorem` (`SettledTradesAreLinked`) from two invariants: a consumed intent is
  linked to an applied settlement (`ConsumedAreLinked`); each trade a settlement
  names has its intent linked to it or to an applied one, or expired
  (`SettlementsLinkTrades`); and an expired intent is past its deadline for good
  (`ExpiredAreOverdue`), as time does not run back and the nonce keeps its order. A
  settlement that was built before the refusal still consumes the intent it has linked.
* `ExplainTheorem` (`BooksExplainTrades`): the property itself is inductive with the types.
  A fill adds the same term to both sides; a settlement moves whole units and drops
  less than one, whatever happened since its amount was read.
* `CashTheorem` (`ClosedPositionMadeItsCash`). `CostInv` follows the gap between realized
  P&L plus the position's cost at its average price and the cash that moved: each
  fill adds the errors of the helpers, the average's multiplied by the position,
  which is no larger than what was bought.

`GatewayStoreTheorems`, for any number of users, orders, intents, settlements and
kills. The invariants are layered, each proved on top of those before:

* `TypeInv` types the tables, the memory and the queues, and says which calls of a turn
  may follow which (`MayFollow`). The order matters: a settlement is stored before
  its intents are marked, and a position before the balance. The lemma `Steps` then
  reduces every step to four cases: `BeginCall`, `ContinueCall`, `Kill`, or a turn of a
  user, of which `Turned(u)` says all that the later proofs need (what it queues, and
  how memory and queues belong together).
* `RefusalTheorem` (`NoStatementRefused`). `ReferencesInv`: each call still to be made finds
  its rows, because a statement before it in the same turn, or in an earlier one, has
  inserted them; no statement deletes a row that something refers to.
* `CacheTheorem` (`CacheMatchesStore`). `CacheInv`: a value still to be written is memory's,
  and where none is left the file has it. The links of a settlement are
  deleted and inserted again, so `LinksToBe` is what they are once the call is through.
* `ConsumedTheorem` (`ConsumedIsLinked`), between any two statements, and not only between turns.
  `ConsumedInv`: the call that marks an intent has the one that links it
  before it, and a confirmed row is never written again, so that no later
  rewriting opens a gap. It needs `CacheInv`: whether a settlement is already
  confirmed is read from memory.
* `TwinTheorem` (`BackendsAgree`). `TwinInv`: the memory backend is where SQLite will be
  when the current call is through (`Ahead`), and each call is one on which the two
  agree (`Expected`): no client order id is added twice, although only
  SQLite's key forbids it, and no missing nonce or intent is marked.
* `BooksTheorem` (`BooksBalance`). The file balances only at the end of a turn, so
  `BooksInv` adds up what the calls still to be made will leave of realized,
  pending and settled P&L (`BooksKept`), and demands the balance itself of every user
  that is not `HalfWritten`. That is what a kill finds, so that a user not in `torn` is balanced
  after it as well. It needs `ConsumedInv`: a row confirmed twice would be summed once.

`AppRegistryTheorems`, for any registries, credentials, intents and restarts:
`SignedTheorem` (`AppSettlementsAreSigned`), `ReportTheorem` (`ReportIsTrue`) and
`ConsumptionTheorem` (`ReportShowsConsumption`) from one invariant, `RegistryInv`: a
request carries the gateway's own audit entry and links intents of its user and app
only (`RequestsVouched`); a record is that of its request, whether handler or indexer
wrote it (`RecordsFollowRequests`); a consumed intent names a confirmed
settlement that links it (`ConsumersConfirmed`), also after a second
settlement with the same intent has put its own name there; and an answered call has
consumed its intents (`AnswersConsumed`). The registry does not occur in it: what it
says decides whether a request is taken, and nothing the report shows is read
from it later.

Model-checked only: liveness and everything about fairness (out of the prover's
reach), and the two runs that end in a counterexample.


## 6. Where the code disagrees with its documentation

Each is a run that ends in a counterexample.

* `intent_reuse`: an intent is tested before the first await and consumed after
  the receipt. The indexer's confirmation clears the mark in between, so a
  second request with the same intent passes. `docs/architecture.md:74` promises
  unconsumed intents.
* `ledger_drift`: the handler overwrites the collateral by the log's balance while
  an earlier deposit is still unread by the indexer, which then adds it again.
  `docs/architecture.md:70` promises that the ledger reflects deposits.

Met on the way, without a run of their own:

* A block sealed between the historical sync and the watcher's first poll is read
  by neither, although `docs/architecture.md:70` says that the ledger reflects
  deposits: the instance of `indexer_calm` with `Faults = {"MinedDuringSync"}` breaks
  `CaughtUpIsComplete`.
* A kill between the claim of a log and its effect, or between two logs of one
  block, loses them for good: the same with `Faults = {"Kill"}` and `SPECIFICATION
  Spec`, as the fair specification has no kills.
* A reverted transaction leaves its record `ONCHAIN_SUBMITTED` for ever
  (`settlementService.ts:218`). A failed start of the indexer is logged and
  swallowed (`app.ts:193`), as intended: no log is handled until the next restart.
* Each overdue order intent makes `settleUser` fail once and is marked `EXPIRED`
  (`settlementService.ts:491`); the next call filters it out (`:303`) but settles its
  trade's P&L and names the trade, so that no settlement links the signature behind
  it. `SettledTradesAreLinked` without its second case shows it in the run `trading`.
* `POST /settlements` and the withdrawal routes accept more decimals than the token has.
  The vault settles and files the rounded amount: 1.00000051 becomes 1.000001, more
  than was asked for or signed, and a confirmed record shows that instead of the
  request's amount (`gatewayLedger.ts:405`). `ConfirmedIsOnChain` and `FiledAsSigned` state
  the bound of half a unit; equality instead of it fails in the same runs.
* A withdrawal intent is, like a settlement's, tested before the awaits and
  consumed after them: two requests, or a retry after a lost answer, file twice
  with one signature. `FiledAsSigned` is what remains.
* After a lost answer of the node the settlement's context is gone; the indexer
  records it as `GENERIC` without intents, or with the context of the next request
  in flight: `settlement_calm` with `Faults = {"SendLost"}` breaks `AuditDataIsOwn`.
* The risk checks of an approval precede its first await; an order filled or a P&L
  realized before the transaction is sent is not seen (`RiskChanges` after
  `ApproveWithdrawal`).
* A kill between the position and the order of a fill lets the retried order be
  filled twice; a kill between the balance and the record of a confirmed
  settlement lets its other log take the P&L off again. `BooksBalance` without
  `torn` shows both.
* The report of a user's second settlement sums up the P&L of all trades so far, as
  `settlementTradeIds` names settled trades again.
* Reconciliation compares collateral and pending amounts, not approved ones, and
  takes amounts for equal that differ by less than its tolerance.
* A quote of CoinGecko carries the time its answer arrived, so that a slow answer
  passes for a fresh price.
* An approval that its handler applies before the indexer has handled the
  request leaves the ledger's pending amount too high for ever, as
  `Math.max(0, ...)` drops the difference. `CaughtUpLedgerIsCautious` bounds it:
  the error is always on the side of caution.

The properties that hold "calm" hold only without these causes:
`AuditDataIsOwn` without lost answers, `CaughtUpIsComplete` and
`LedgerIsPastVault` without gap and kill. `NeverAppliedTwice` and
`AppliedInChainOrder` survive kills; with the gap *and* a kill the order can
break as well, as a skipped block may be read after a later one.


## 7. What is not modelled

* `SettlementService`, `WithdrawalService` and `TradingEngine` are not composed. In
  the first, intents start `VERIFIED`, trades are `RealizePnl` and withdrawals are
  transactions of the vault; the second has no settlements and open risk is a flag;
  the third has no lost handlers, deposits or withdrawals.
* Kills inside a turn of the withdrawal handlers (claim, effect, intent). `GatewayStore`
  has them for orders, settlements and deposits, `BlockchainIndexer` for all logs.
* `GatewayStore` leaves out the withdrawal columns of a balance, which are saved with
  the others, the cursor, and fees. Two users are never in one run: no
  statement touches rows of two.
* `TradingEngine` has one symbol and one user; limits per symbol do not interact.
  Parsing of providers' answers, and numbers beyond 2^53 units, are left out.
* Code without a caller: `applyMockSettlement`, `applyIndexedPnlSettlement`,
  `applyWithdraw`, `assertWithdrawalApprovalAllowed`, the order nonces of ledger and stores.
* The warnings of a reconciliation report over positions and pending P&L.
* The P&L and the trades an audit report shows for a second settlement.
* Chain reorganisations, lost filters of the node, several operator processes
  sharing one key (the code handles none of them).
* Routes other than those named, their schemas, the admin's authorisation beyond its
  token, websocket hub, demo, dashboard, health: views, stateless checks and clients
  of the services above.
