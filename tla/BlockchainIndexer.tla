------------------------- MODULE BlockchainIndexer -------------------------
(***************************************************************************)
(* The BlockchainIndexer (blockchainIndexer.ts) copies the vault's books   *)
(* into the backend's ledger by replaying event logs.  This module         *)
(* composes it with the contract: CollateralVault's transactions fill      *)
(* blocks, and the indexer reads sealed blocks, first by a historical sync *)
(* from its stored cursor and then through viem's contract watcher.        *)
(*                                                                         *)
(* Handling a batch of logs is one uninterrupted turn of the event loop,   *)
(* but it writes to SQLite statement by statement without a transaction,   *)
(* so a kill of the process can fall between any two writes.  What is in   *)
(* the ledger's memory equals the database except during such a turn.      *)
(***************************************************************************)
EXTENDS FiniteSums, SequencesExt

CONSTANTS
  Users, Operators, VaultAddress, SettlementIds, Amounts, Deltas, MaxSupply, NoId,
  Faults,         \* what may go wrong around the indexer
  MaxLogs,        \* bound on the vault's logs
  MaxBlocks,      \* bound on the chain's length
  MaxRestarts     \* bound on the restarts of the backend

FaultKinds == {"MinedDuringSync", "Kill", "StartFails"}

ASSUME IndexerAssumption ==
  /\ IsFiniteSet(Users)
  /\ VaultAddress \notin Users
  /\ Amounts \subseteq Nat
  /\ Deltas \subseteq Int
  /\ MaxSupply \in Nat
  /\ NoId \notin SettlementIds
  /\ Faults \subseteq FaultKinds
  /\ MaxLogs \in Nat /\ MaxBlocks \in Nat /\ MaxRestarts \in Nat

VARIABLES
  \* the contract
  tokens, operator, totalLiabilities, insuranceBalance, balances,
  pendingWithdrawals, approvedWithdrawals, usedSettlements, receipt, donated,
  \* the chain
  head,          \* number of the latest sealed block
  logs,          \* all logs, with the block they belong to
  truth,         \* history: the vault's books after the transaction of each log
  \* the backend's database
  ledger,        \* collateral and withdrawal amounts of each user
  confirmed,     \* settlement records with status ONCHAIN_CONFIRMED
  claimed,       \* rows of indexed_chain_events
  cursor,        \* lastProcessedBlock, 0 if there is none
  applied,       \* history: the logs whose effect was written, in order
  \* the backend's memory
  phase, batch, polled, seenLogs,
  restarts       \* how often the backend was stopped or killed

vaultVars == <<tokens, operator, totalLiabilities, insuranceBalance, balances,
               pendingWithdrawals, approvedWithdrawals, usedSettlements, receipt, donated>>
chainVars == <<vaultVars, head, logs, truth>>
database == <<ledger, confirmed, claimed, cursor, applied>>
memory == <<phase, batch, polled, seenLogs>>
vars == <<chainVars, database, memory, restarts>>

Vault == INSTANCE CollateralVault

Books == [Users -> [collateral : Int, pending : Int, approved : Int]]

\* The vault's own books in the ledger's terms.
VaultBooks(u) ==
  [collateral |-> balances[u], pending |-> pendingWithdrawals[u],
   approved |-> approvedWithdrawals[u]]

EmptyBooks == [u \in Users |-> [collateral |-> 0, pending |-> 0, approved |-> 0]]

Init ==
  /\ Vault!Init
  /\ head = 0 /\ logs = <<>> /\ truth = <<>>
  /\ ledger = EmptyBooks /\ confirmed = {} /\ claimed = {} /\ cursor = 0 /\ applied = <<>>
  /\ phase = "down" /\ batch = <<>> /\ polled = 0 /\ seenLogs = {}
  /\ restarts = 0

-----------------------------------------------------------------------------
(* The chain. *)

\* A transaction joins the block under construction and leaves its logs there.
Transact ==
  /\ Vault!Next
  /\ Len(logs) + Len(receipt') <= MaxLogs
  /\ logs' = logs \o [i \in DOMAIN receipt' |-> [event |-> receipt'[i], block |-> head + 1]]
  /\ truth' = truth \o [i \in DOMAIN receipt' |-> [u \in Users |-> VaultBooks(u)']]
  /\ UNCHANGED <<head, database, memory, restarts>>

\* The block is sealed: only now are its logs visible, all at once.
SealBlock ==
  /\ head < MaxBlocks
  /\ phase = "syncing" => "MinedDuringSync" \in Faults
  /\ head' = head + 1
  /\ UNCHANGED <<vaultVars, logs, truth, database, memory, restarts>>

\* How many logs the blocks up to this one hold: as logs are numbered in the
\* order of the chain, these are the logs 1 to LogsUpTo(block).
LogsUpTo(block) == Cardinality({k \in DOMAIN logs : logs[k].block <= block})

\* Mutation: the logs arrive newest first.
NewestFirst(low, high) ==
  [i \in 1..(LogsUpTo(high) - LogsUpTo(low)) |-> LogsUpTo(high) + 1 - i]

\* The numbers of the logs in the blocks after low and up to high, in order.
LogsBetween(low, high) ==
  [i \in 1..(LogsUpTo(high) - LogsUpTo(low)) |-> LogsUpTo(low) + i]

-----------------------------------------------------------------------------
(* The indexer's life. *)

\* Mutation: the sync starts one block late.
StartTooLate ==
  /\ phase = "down"
  /\ phase' = "syncing"
  /\ batch' = LogsBetween(cursor + 1, head)
  /\ UNCHANGED <<chainVars, database, polled, seenLogs, restarts>>

\* start() with syncHistoricalEvents up to the arrival of the logs: from the
\* block after the cursor, or from the deployment block, to the current head.
Start ==
  /\ phase = "down"
  /\ phase' = "syncing"
  /\ batch' = LogsBetween(cursor, head)
  /\ UNCHANGED <<chainVars, database, polled, seenLogs, restarts>>

\* An RPC call of start() fails; app.ts goes on without an indexer.
StartFails ==
  /\ "StartFails" \in Faults
  /\ phase = "down"
  /\ phase' = "off"
  /\ UNCHANGED <<chainVars, database, batch, polled, seenLogs, restarts>>

\* watchContractEvent: its first poll notes the head of that moment, and only
\* blocks sealed later are watched.
Watch ==
  /\ phase = "syncing" /\ batch = <<>>
  /\ phase' = "watching"
  /\ polled' = head
  /\ UNCHANGED <<chainVars, database, batch, seenLogs, restarts>>

\* A later poll fetches the logs of the blocks sealed since.
Poll ==
  /\ phase = "watching" /\ batch = <<>>
  /\ polled < head
  /\ batch' = LogsBetween(polled, head)
  /\ polled' = head
  /\ UNCHANGED <<chainVars, database, phase, seenLogs, restarts>>

\* The process ends; everything in memory is gone.
Terminate ==
  /\ phase # "down" /\ restarts < MaxRestarts
  /\ restarts' = restarts + 1
  /\ phase' = "down" /\ batch' = <<>> /\ polled' = 0 /\ seenLogs' = {}
  /\ UNCHANGED chainVars

\* A clean shutdown waits for the current turn of the event loop.
Stop ==
  /\ batch = <<>>
  /\ Terminate
  /\ UNCHANGED database

-----------------------------------------------------------------------------
(* One log: processLog and the handlers it dispatches to. *)

\* Mutation: one event has no handler.
HandledButApprovals == {"Deposited", "WithdrawRequested", "Withdrawn", "SettlementApplied", "PnlSettled"}

Handled == {"Deposited", "WithdrawRequested", "WithdrawApproved", "Withdrawn",
            "SettlementApplied", "PnlSettled"}

IsSettlement(event) == event.name \in {"SettlementApplied", "PnlSettled"}

Excess(x, y) == IF x > y THEN x - y ELSE 0

\* The applyIndexed... methods: a user's books after an event.  A settlement
\* overwrites the collateral, unless its record is confirmed already.
Effect(book, event) ==
  CASE event.name = "Deposited" ->
         [book EXCEPT !.collateral = @ + event.amount]
    [] event.name = "WithdrawRequested" ->
         [book EXCEPT !.pending = @ + event.amount]
    [] event.name = "WithdrawApproved" ->
         [book EXCEPT !.pending = Excess(@, event.amount), !.approved = @ + event.amount]
    [] event.name = "Withdrawn" ->
         [book EXCEPT !.collateral = Excess(@, event.amount),
                      !.approved = Excess(@, event.amount)]
    [] IsSettlement(event) ->
         IF event.settlementId \in confirmed THEN book
         ELSE [book EXCEPT !.collateral = event.newBalance]

\* recordIndexedChainEvent claims the log: seen before in this process, or a
\* row from an earlier one, and it is dropped.
Fresh(k) ==
  /\ k \notin seenLogs
  /\ logs[k].event.name \in Handled
  /\ k \notin claimed

\* Mutation: the log is claimed after its effects instead of before.
ClaimLast(k, n) ==
  LET event == logs[k].event IN
  /\ claimed' = IF n >= 4 THEN claimed \union {k} ELSE claimed
  /\ ledger' = IF n >= 1 THEN [ledger EXCEPT ![event.user] = Effect(@, event)] ELSE ledger
  /\ applied' = IF n >= 1 THEN Append(applied, k) ELSE applied
  /\ confirmed' = IF n >= 2 /\ IsSettlement(event)
                  THEN confirmed \union {event.settlementId} ELSE confirmed
  /\ cursor' = IF n >= 3 THEN logs[k].block ELSE cursor

\* The handler's database after its first n writes: the claim, the balance,
\* the settlement record and the cursor.
WriteUpTo(k, n) ==
  LET event == logs[k].event IN
  /\ claimed' = IF n >= 1 THEN claimed \union {k} ELSE claimed
  /\ ledger' = IF n >= 2 THEN [ledger EXCEPT ![event.user] = Effect(@, event)] ELSE ledger
  /\ applied' = IF n >= 2 THEN Append(applied, k) ELSE applied
  /\ confirmed' = IF n >= 3 /\ IsSettlement(event)
                  THEN confirmed \union {event.settlementId} ELSE confirmed
  /\ cursor' = IF n >= 4 THEN logs[k].block ELSE cursor

AllWrites == 4

HandleLog ==
  LET k == Head(batch) IN
  /\ batch # <<>>
  /\ batch' = Tail(batch)
  /\ seenLogs' = seenLogs \union {k}
  /\ IF Fresh(k) THEN WriteUpTo(k, AllWrites) ELSE UNCHANGED database
  /\ UNCHANGED <<chainVars, phase, polled, restarts>>

\* The process is killed: between two turns, between two logs of a batch, or
\* between two writes for one log.
Kill ==
  /\ "Kill" \in Faults
  /\ Terminate
  /\ \/ UNCHANGED database
     \/ /\ batch # <<>>
        /\ Fresh(Head(batch))
        /\ \E n \in 1..AllWrites - 1 : WriteUpTo(Head(batch), n)

-----------------------------------------------------------------------------
\* As long as no process is killed and none fails to start.
CalmNext ==
  \/ Transact \/ SealBlock
  \/ Start \/ Watch \/ Poll \/ HandleLog
  \/ Stop

Next == CalmNext \/ StartFails \/ Kill

Spec == Init /\ [][Next]_vars

\* A started process makes progress and polling never ends; the chain and clean
\* stops are free to happen or not.
Fairness == WF_vars(Start) /\ WF_vars(Watch) /\ WF_vars(Poll) /\ WF_vars(HandleLog)

FairSpec == Init /\ [][CalmNext]_vars /\ Fairness
-----------------------------------------------------------------------------
\* No log is ever applied to the ledger twice: not by an overlap of sync and
\* watcher, not after a restart that re-reads blocks, not after a kill between
\* the writes of one log.
NeverAppliedTwice == IsInjective(applied)

\* Logs take effect in the order of the chain, also across restarts; the
\* overwriting of the collateral by settlements relies on it.
AppliedInChainOrder ==
  \A i, j \in DOMAIN applied : i < j => applied[i] < applied[j]

\* Whatever was handled last, the ledger shows for every user exactly what the
\* vault's books showed after that transaction: it lags, but it never shows a
\* state the vault was not in.
LedgerIsPastVault ==
  ledger = IF applied = <<>> THEN EmptyBooks ELSE truth[Last(applied)]

\* The watcher has fetched all blocks and everything fetched was handled.
CaughtUp == phase = "watching" /\ polled = head /\ batch = <<>>

\* When the indexer has caught up with the chain, every deposit, withdrawal and
\* settlement in a sealed block is in the ledger.
CaughtUpIsComplete ==
  CaughtUp => \A k \in DOMAIN logs :
    logs[k].block <= head /\ logs[k].event.name \in Handled => k \in Range(applied)

\* Every log of a sealed block eventually takes effect in the ledger.
EveryLogTakesEffect ==
  \A k \in 1..MaxLogs :
    k \in DOMAIN logs /\ logs[k].block <= head /\ logs[k].event.name \in Handled
      ~> k \in Range(applied)
=============================================================================
