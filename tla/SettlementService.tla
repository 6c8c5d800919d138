------------------------- MODULE SettlementService -------------------------
(***************************************************************************)
(* A settlement's way through the gateway: the HTTP handler                *)
(* SettlementService.submitSettlement, the ledger records it shares with   *)
(* the BlockchainIndexer (gatewayLedger.ts), and the chain in between.     *)
(*                                                                         *)
(* The backend is one JavaScript event loop.  A handler runs without       *)
(* interruption between two awaits, and everything else may run while it   *)
(* waits, so one action below is one such segment:                         *)
(*   Post / SettleUser   up to  await loadUsableContracts                  *)
(*   Begin or Refuse     up to  await writeContract                        *)
(*   RecordSubmitted     up to  await waitForTransactionReceipt            *)
(*   Confirm             to the response                                   *)
(*   Abandon             the catch block, from either of the last awaits.  *)
(* A request draws its own settlementId (a hash over a fresh nanoid) and   *)
(* sends at most one transaction: the request's name stands for all three. *)
(* A call that is answered with an error before any await changes nothing  *)
(* and is a stuttering step, except ExpireIntent.                          *)
(*                                                                         *)
(* The vault is CustodyPromise, which CollateralVault implements.  It and  *)
(* its logs count in units of the token, the backend in last decimals      *)
(* (Money): a request is rounded to the token when it is sent.             *)
(***************************************************************************)
EXTENDS FiniteSums, Money, Sequences

CONSTANTS
  Users,
  Requests,        \* the calls of submitSettlement
  Intents,         \* signed intents that were verified and stored
  OrderIntents,    \* those of intentType TRADING_ORDER
  Apps,
  TradingApp,      \* "trading-example"
  IntentUser,      \* the wallet that signed an intent
  IntentApp,       \* the app it was signed for
  Amounts,         \* token amounts moved on chain by others
  Deltas,          \* amountDelta of settlements and P&L of trades, in last decimals
  Faults,          \* which failures the environment may produce
  MaxSupply,       \* bound on the tokens in existence
  MaxPnl,          \* bound on a user's realized P&L
  MaxLogs,         \* bound on the vault's event log
  None             \* an undefined settlementInFlight

FaultKinds == {"SendLost", "ReceiptLost", "Restart"}

ASSUME ServiceAssumption ==
  /\ IsFiniteSet(Users) /\ IsFiniteSet(Requests)
  /\ OrderIntents \subseteq Intents
  /\ IntentUser \in [Intents -> Users]
  /\ IntentApp \in [Intents -> Apps]
  /\ \A i \in OrderIntents : IntentApp[i] = TradingApp
  /\ TradingApp \in Apps
  /\ Amounts \subseteq Nat
  /\ Deltas \subseteq Int
  /\ Faults \subseteq FaultKinds
  /\ MaxSupply \in Nat /\ MaxPnl \in Nat /\ MaxLogs \in Nat

VARIABLES
  \* the chain
  wallet, claim, authorised, insurance, applied,
  mempool,        \* the operator's broadcast transactions, in nonce order
  reverted,       \* those mined without effect
  logs,           \* the vault's event log
  \* the backend's database
  collateral, pendingSettlementPnl, settlements, intentStatus,
  delivered,      \* how many logs the indexer has handled
  \* the backend's memory
  settlementInFlight,
  pc,             \* how far each request has come
  request,        \* the normalized request of each call
  \* the world
  overdue,        \* intents whose deadline has passed
  realized        \* history: all P&L a user's trades have realized

vault == <<wallet, claim, authorised, insurance, applied>>
chain == <<vault, mempool, reverted, logs>>
ledger == <<collateral, pendingSettlementPnl, settlements, settlementInFlight>>
world == <<overdue, realized>>
vars == <<chain, ledger, intentStatus, delivered, pc, request, world>>

Types == {"TRADING_PNL", "GENERIC"}

NormalizedRequests ==
  [user : Users, app : Apps, type : Types, delta : Int, intents : SUBSET Intents]

NoRecord == [status |-> "NONE", type |-> "GENERIC", delta |-> 0, intents |-> {}]

InFlightMarks == [id : Requests, type : Types, delta : Int, intents : SUBSET Intents]

ASSUME NoneAssumption ==
  None \notin Requests /\ None \notin NormalizedRequests /\ None \notin InFlightMarks

Vault == INSTANCE CustodyPromise WITH SettlementIds <- Requests, pool <- insurance

\* One log of the vault; only settlements carry an id and the resulting balance.
\* Its two amounts are in units of the token.
Log(name, user, amount, newBalance, id) ==
  [name |-> name, user |-> user, amount |-> amount, newBalance |-> newBalance, id |-> id]

Init ==
  /\ Vault!Init
  /\ mempool = <<>> /\ reverted = {} /\ logs = <<>>
  /\ collateral = [u \in Users |-> 0]
  /\ pendingSettlementPnl = [u \in Users |-> 0]
  /\ settlements = [r \in Requests |-> NoRecord]
  /\ intentStatus = [i \in Intents |-> "VERIFIED"]
  /\ delivered = 0
  /\ settlementInFlight = [u \in Users |-> None]
  /\ pc = [r \in Requests |-> "unsent"]
  /\ request = [r \in Requests |-> None]
  /\ overdue = {}
  /\ realized = [u \in Users |-> 0]

-----------------------------------------------------------------------------
(* Requests arrive. *)

\* validateSettlementSignedIntents accepts the linked intents.
Usable(i, user, app) ==
  /\ intentStatus[i] = "VERIFIED"
  /\ IntentUser[i] = user
  /\ IntentApp[i] = app
  /\ i \notin overdue

\* The first segment of submitSettlement, for a request already normalized.
Arrive(r, user, app, type, delta, intents) ==
  /\ pc[r] = "unsent"
  /\ \A i \in intents : Usable(i, user, app)
  /\ delta # 0
  /\ settlementInFlight[user] = None
  /\ request' = [request EXCEPT ![r] =
       [user |-> user, app |-> app, type |-> type, delta |-> delta, intents |-> intents]]
  /\ pc' = [pc EXCEPT ![r] = "loading"]
  /\ UNCHANGED <<chain, ledger, intentStatus, delivered, world>>

\* POST /settlements.  A caller with app credentials must link an intent, the
\* admin need not: which of the two it was matters for nothing else.
Post(r, user, app, type, delta, intents) == Arrive(r, user, app, type, delta, intents)

\* settleUser: the whole pending P&L, backed by every verified order intent.
SettleUser(r, user) ==
  Arrive(r, user, TradingApp, "TRADING_PNL", pendingSettlementPnl[user],
         {i \in OrderIntents : IntentUser[i] = user /\ intentStatus[i] = "VERIFIED"})

\* A request is refused over a linked intent whose deadline has passed; the
\* refusal itself marks the intent EXPIRED.
ExpireIntent(i) ==
  /\ intentStatus[i] = "VERIFIED" /\ i \in overdue
  /\ intentStatus' = [intentStatus EXCEPT ![i] = "EXPIRED"]
  /\ UNCHANGED <<chain, ledger, delivered, pc, request, world>>

-----------------------------------------------------------------------------
(* The handler after its first await. *)

InFlight(r) ==
  [id |-> r, type |-> request[r].type, delta |-> request[r].delta, intents |-> request[r].intents]

\* Mutation: the in-flight mark is not tested again after the await.
BeginUnchecked(r) ==
  /\ pc[r] = "loading"
  /\ settlementInFlight' = [settlementInFlight EXCEPT ![request[r].user] = InFlight(r)]
  /\ pc' = [pc EXCEPT ![r] = "sending"]
  /\ UNCHANGED <<chain, collateral, pendingSettlementPnl, settlements, intentStatus,
                 delivered, request, world>>

\* beginOnchainSettlement: the in-flight mark is tested again, the intents and
\* the amount are not.
Begin(r) ==
  LET user == request[r].user IN
  /\ pc[r] = "loading"
  /\ settlementInFlight[user] = None
  /\ settlementInFlight' = [settlementInFlight EXCEPT ![user] = InFlight(r)]
  /\ pc' = [pc EXCEPT ![r] = "sending"]
  /\ UNCHANGED <<chain, collateral, pendingSettlementPnl, settlements, intentStatus,
                 delivered, request, world>>

\* SETTLEMENT_ALREADY_IN_FLIGHT, or the deployment file is unusable or names
\* another operator; thrown before the try block, so nothing is cleared.
Refuse(r) ==
  /\ pc[r] = "loading"
  /\ pc' = [pc EXCEPT ![r] = "refused"]
  /\ UNCHANGED <<chain, ledger, intentStatus, delivered, request, world>>

\* Mutations: the record is confirmed by the hash alone; a record the indexer
\* made first is overwritten.
SubmitAs(r, status, writes) ==
  /\ pc[r] = "sending"
  /\ r \in applied \union reverted \union Range(mempool)
  /\ settlements' = IF writes THEN [settlements EXCEPT ![r] =
       [status |-> status, type |-> request[r].type,
        delta |-> request[r].delta, intents |-> request[r].intents]] ELSE settlements
  /\ settlementInFlight' = [settlementInFlight EXCEPT ![request[r].user] = InFlight(r)]
  /\ pc' = [pc EXCEPT ![r] = "waiting"]
  /\ UNCHANGED <<chain, collateral, pendingSettlementPnl, intentStatus, delivered, request, world>>

ConfirmedByHash(r) == SubmitAs(r, "ONCHAIN_CONFIRMED", settlements[r].status = "NONE")

OverwritingSubmit(r) == SubmitAs(r, "ONCHAIN_SUBMITTED", TRUE)

\* recordOnchainSettlementSubmitted: the node has answered with the hash.  A
\* record the indexer made first is left as it is.
RecordSubmitted(r) ==
  LET user == request[r].user IN
  /\ pc[r] = "sending"
  /\ r \in applied \union reverted \union Range(mempool)
  /\ IF settlements[r].status # "NONE"
     THEN UNCHANGED <<settlements, settlementInFlight>>
     ELSE /\ settlements' = [settlements EXCEPT ![r] =
               [status |-> "ONCHAIN_SUBMITTED", type |-> request[r].type,
                delta |-> request[r].delta, intents |-> request[r].intents]]
          /\ settlementInFlight' = [settlementInFlight EXCEPT ![user] = InFlight(r)]
  /\ pc' = [pc EXCEPT ![r] = "waiting"]
  /\ UNCHANGED <<chain, collateral, pendingSettlementPnl, intentStatus, delivered, request, world>>

\* Mutations: the settlement in flight is not consulted; a confirmed record is
\* confirmed once more; the in-flight mark stays.
ApplyLog(log, context, mark) ==
  /\ collateral' = [collateral EXCEPT ![log.user] = FromMicroUsdc(log.newBalance)]
  /\ pendingSettlementPnl' = [pendingSettlementPnl EXCEPT ![log.user] =
       IF context.type = "TRADING_PNL" THEN DropDust(@ - FromMicroUsdc(log.amount)) ELSE @]
  /\ settlementInFlight' = [settlementInFlight EXCEPT ![log.user] = mark]
  /\ settlements' = [settlements EXCEPT ![log.id] =
       [status |-> "ONCHAIN_CONFIRMED", type |-> context.type,
        delta |-> FromMicroUsdc(log.amount), intents |-> context.intents]]

FlyingOr(log, record) ==
  IF settlements[log.id].status # "NONE" THEN settlements[log.id]
  ELSE IF settlementInFlight[log.user] # None THEN settlementInFlight[log.user] ELSE record

ApplyWithoutFlying(log) ==
  IF settlements[log.id].status = "ONCHAIN_CONFIRMED" THEN UNCHANGED ledger
  ELSE ApplyLog(log, settlements[log.id], None)

ApplyAgain(log) == ApplyLog(log, FlyingOr(log, NoRecord), None)

ApplyKeepingMark(log) ==
  IF settlements[log.id].status = "ONCHAIN_CONFIRMED" THEN UNCHANGED ledger
  ELSE ApplyLog(log, FlyingOr(log, NoRecord), settlementInFlight[log.user])

\* applyIndexedSettlement, as called by the handler and by the indexer.  What
\* the log does not say is taken from the record or else from whatever
\* settlement of the user is in flight; the record takes the log's amount, and
\* what is left of the P&L below the token's unit is dropped.
ApplyIndexedSettlement(log) ==
  LET user == log.user
      amount == FromMicroUsdc(log.amount)
      existing == settlements[log.id]
      flying == settlementInFlight[user]
      context == IF existing.status # "NONE" THEN existing
                 ELSE IF flying # None THEN flying ELSE NoRecord
  IN  IF existing.status = "ONCHAIN_CONFIRMED" THEN UNCHANGED ledger
      ELSE /\ collateral' = [collateral EXCEPT ![user] = FromMicroUsdc(log.newBalance)]
           /\ pendingSettlementPnl' = IF context.type = "TRADING_PNL"
                THEN [pendingSettlementPnl EXCEPT ![user] = DropDust(@ - amount)]
                ELSE pendingSettlementPnl
           /\ settlementInFlight' = [settlementInFlight EXCEPT ![user] =
                IF @ # None /\ (@.id = log.id \/ @.delta = amount) THEN None ELSE @]
           /\ settlements' = [settlements EXCEPT ![log.id] =
                [status |-> "ONCHAIN_CONFIRMED", type |-> context.type,
                 delta |-> amount, intents |-> context.intents]]

\* Mutation: the linked intents are not consumed.
ConfirmWithoutConsuming(r) ==
  /\ pc[r] = "waiting"
  /\ \E k \in DOMAIN logs :
       logs[k].name = "SettlementApplied" /\ logs[k].id = r /\ ApplyIndexedSettlement(logs[k])
  /\ pc' = [pc EXCEPT ![r] = "confirmed"]
  /\ UNCHANGED <<chain, intentStatus, delivered, request, world>>

\* The receipt arrived in time and reports success: the record is confirmed
\* and its intents are consumed.
Confirm(r) ==
  /\ pc[r] = "waiting"
  /\ \E k \in DOMAIN logs :
       /\ logs[k].name = "SettlementApplied" /\ logs[k].id = r
       /\ ApplyIndexedSettlement(logs[k])
  /\ intentStatus' = [i \in Intents |->
       IF i \in settlements'[r].intents THEN "CONSUMED" ELSE intentStatus[i]]
  /\ pc' = [pc EXCEPT ![r] = "confirmed"]
  /\ UNCHANGED <<chain, delivered, request, world>>

\* The catch block: whatever settlement of the user is in flight is forgotten.
Abandon(r) ==
  /\ settlementInFlight' = [settlementInFlight EXCEPT ![request[r].user] = None]
  /\ pc' = [pc EXCEPT ![r] = "failed"]
  /\ UNCHANGED <<chain, collateral, pendingSettlementPnl, settlements, intentStatus,
                 delivered, request, world>>

\* writeContract throws and nothing was broadcast.
SendFails(r) ==
  /\ pc[r] = "sending"
  /\ r \notin applied \union reverted \union Range(mempool)
  /\ Abandon(r)

\* The transaction is out, but the node's answer is lost or times out.
SendLost(r) ==
  /\ "SendLost" \in Faults
  /\ pc[r] = "sending"
  /\ r \in applied \union reverted \union Range(mempool)
  /\ Abandon(r)

\* Mutation: no receipt yet counts as a reverted one.
ImpatientReceipt(r) == pc[r] = "waiting" /\ r \notin applied /\ Abandon(r)

ReceiptReverted(r) ==
  /\ pc[r] = "waiting"
  /\ r \in reverted
  /\ Abandon(r)

\* waitForTransactionReceipt times out or its RPC call fails.
ReceiptLost(r) ==
  /\ "ReceiptLost" \in Faults
  /\ pc[r] = "waiting"
  /\ Abandon(r)

-----------------------------------------------------------------------------
(* The chain. *)

\* The node accepts the operator's transaction, which asks for the amount
\* rounded to the token.  The client estimates its gas first, which fails if it
\* would revert at that moment.
Broadcast(r) ==
  /\ pc[r] = "sending"
  /\ r \notin applied \union reverted \union Range(mempool)
  /\ Vault!Settleable(request[r].user, ToMicroUsdc(request[r].delta), r)
  /\ mempool' = Append(mempool, r)
  /\ UNCHANGED <<vault, reverted, logs, ledger, intentStatus, delivered, pc, request, world>>

Mine ==
  LET r == Head(mempool)
      user == request[r].user
      delta == ToMicroUsdc(request[r].delta)
  IN  /\ mempool # <<>>
      /\ mempool' = Tail(mempool)
      /\ \/ /\ Vault!Settle(user, delta, r)
            /\ logs' = Append(logs, Log("SettlementApplied", user, delta, claim'[user], r))
            /\ UNCHANGED reverted
         \/ /\ ~ Vault!Settleable(user, delta, r)
            /\ reverted' = reverted \union {r}
            /\ UNCHANGED <<vault, logs>>
      /\ UNCHANGED <<ledger, intentStatus, delivered, pc, request, world>>

\* Transactions of other senders; the logs that change no balance are left out.
Fund(user, amount) ==
  /\ insurance + SumOver(Users, claim) + SumOver(Users, wallet) + amount <= MaxSupply
  /\ Vault!WalletChanges(user, amount)
  /\ UNCHANGED <<mempool, reverted, logs, ledger, intentStatus, delivered, pc, request, world>>

FundInsurance(user, amount) ==
  /\ amount # 0
  /\ Vault!FillPool(user, amount)
  /\ UNCHANGED <<mempool, reverted, logs, ledger, intentStatus, delivered, pc, request, world>>

Deposit(user, amount) ==
  /\ amount # 0 /\ Len(logs) < MaxLogs
  /\ Vault!Deposit(user, amount)
  /\ logs' = Append(logs, Log("Deposited", user, amount, 0, None))
  /\ UNCHANGED <<mempool, reverted, ledger, intentStatus, delivered, pc, request, world>>

ApproveWithdraw(user, amount) ==
  /\ amount # 0
  /\ Vault!Authorise(user, amount)
  /\ UNCHANGED <<mempool, reverted, logs, ledger, intentStatus, delivered, pc, request, world>>

Withdraw(user, amount) ==
  /\ amount # 0 /\ Len(logs) < MaxLogs
  /\ Vault!PayOut(user, amount)
  /\ logs' = Append(logs, Log("Withdrawn", user, amount, 0, None))
  /\ UNCHANGED <<mempool, reverted, ledger, intentStatus, delivered, pc, request, world>>

-----------------------------------------------------------------------------
(* The indexer, the trading engine, time and restarts. *)

Excess(x, y) == IF x > y THEN x - y ELSE 0

\* Mutation: the log of a settlement without a record is skipped.
DeliverKnown ==
  LET log == logs[delivered + 1] IN
  /\ delivered < Len(logs)
  /\ delivered' = delivered + 1
  /\ IF log.name = "SettlementApplied" /\ settlements[log.id].status # "NONE"
     THEN ApplyIndexedSettlement(log) ELSE UNCHANGED ledger
  /\ UNCHANGED <<chain, intentStatus, pc, request, world>>

\* The indexer handles the next log.  Each log once and in order is what
\* BlockchainIndexer is meant to ensure.
Deliver ==
  LET log == logs[delivered + 1] IN
  /\ delivered < Len(logs)
  /\ delivered' = delivered + 1
  /\ \/ /\ log.name = "Deposited"
        /\ collateral' = [collateral EXCEPT ![log.user] = @ + FromMicroUsdc(log.amount)]
        /\ UNCHANGED <<pendingSettlementPnl, settlements, settlementInFlight>>
     \/ /\ log.name = "Withdrawn"
        /\ collateral' = [collateral EXCEPT ![log.user] = Excess(@, FromMicroUsdc(log.amount))]
        /\ UNCHANGED <<pendingSettlementPnl, settlements, settlementInFlight>>
     \/ log.name = "SettlementApplied" /\ ApplyIndexedSettlement(log)
  /\ UNCHANGED <<chain, intentStatus, pc, request, world>>

\* addPendingSettlementPnl, when a trade closes a position.
RealizePnl(user, pnl) ==
  /\ realized[user] + pnl \in -MaxPnl..MaxPnl
  /\ realized' = [realized EXCEPT ![user] = @ + pnl]
  /\ pendingSettlementPnl' = [pendingSettlementPnl EXCEPT ![user] = @ + pnl]
  /\ UNCHANGED <<chain, collateral, settlements, settlementInFlight, intentStatus,
                 delivered, pc, request, overdue>>

DeadlinePasses(i) ==
  /\ overdue' = overdue \union {i}
  /\ UNCHANGED <<chain, ledger, intentStatus, delivered, pc, request, realized>>

\* The process ends between two turns of the event loop and is started again:
\* handlers and in-flight marks are gone, the database is not.
Restart ==
  /\ "Restart" \in Faults
  /\ settlementInFlight' = [u \in Users |-> None]
  /\ pc' = [r \in Requests |-> IF pc[r] \in {"loading", "sending", "waiting"} THEN "lost" ELSE pc[r]]
  /\ UNCHANGED <<chain, collateral, pendingSettlementPnl, settlements, intentStatus,
                 delivered, request, world>>

-----------------------------------------------------------------------------
ArrivalStep ==
  \E r \in Requests, u \in Users :
    \/ SettleUser(r, u)
    \/ \E a \in Apps, t \in Types, d \in Deltas, s \in SUBSET Intents : Post(r, u, a, t, d, s)

HandlerStep ==
  \E r \in Requests :
    \/ Begin(r) \/ Refuse(r) \/ RecordSubmitted(r) \/ Confirm(r)
    \/ SendFails(r) \/ SendLost(r) \/ ReceiptReverted(r) \/ ReceiptLost(r)

OperatorChainStep == Mine \/ \E r \in Requests : Broadcast(r)

OtherChainStep ==
  \E u \in Users, a \in Amounts :
    \/ Fund(u, a) \/ FundInsurance(u, a) \/ Deposit(u, a)
    \/ ApproveWithdraw(u, a) \/ Withdraw(u, a)

WorldStep ==
  \/ \E u \in Users, d \in Deltas : RealizePnl(u, d)
  \/ \E i \in Intents : DeadlinePasses(i) \/ ExpireIntent(i)

Next ==
  \/ ArrivalStep \/ HandlerStep \/ OperatorChainStep \/ OtherChainStep
  \/ Deliver \/ WorldStep \/ Restart

Spec == Init /\ [][Next]_vars

\* The event loop runs what is ready, every RPC call is answered or times out,
\* the chain mines what it accepted and the indexer keeps polling.  Nothing is
\* assumed of callers, traders, other senders or restarts.
Fairness ==
  /\ \A r \in Requests :
       /\ WF_vars(Begin(r) \/ Refuse(r))
       /\ WF_vars(RecordSubmitted(r) \/ SendFails(r) \/ SendLost(r))
       /\ WF_vars(Confirm(r) \/ ReceiptReverted(r) \/ ReceiptLost(r))
  /\ WF_vars(Mine)
  /\ WF_vars(Deliver)

FairSpec == Spec /\ Fairness
-----------------------------------------------------------------------------
SettlementRecords ==
  [status : {"NONE", "ONCHAIN_SUBMITTED", "ONCHAIN_CONFIRMED"}, type : Types,
   delta : Int, intents : SUBSET Intents]

Logs ==
  [name : {"Deposited", "Withdrawn", "SettlementApplied"}, user : Users, amount : Int,
   newBalance : Int, id : Requests \union {None}]

\* Every variable of the backend holds a value of its type, and a request that
\* has started has its normalized form.
TypeOK ==
  /\ claim \in [Users -> Int]
  /\ applied \subseteq Requests
  /\ reverted \subseteq Requests
  /\ mempool \in Seq(Requests)
  /\ logs \in Seq(Logs)
  /\ collateral \in [Users -> Int]
  /\ pendingSettlementPnl \in [Users -> Int]
  /\ settlements \in [Requests -> SettlementRecords]
  /\ intentStatus \in [Intents -> {"VERIFIED", "EXPIRED", "CONSUMED"}]
  /\ delivered \in 0..Len(logs)
  /\ settlementInFlight \in [Users -> InFlightMarks \union {None}]
  /\ pc \in [Requests -> {"unsent", "loading", "sending", "waiting",
                          "refused", "failed", "confirmed", "lost"}]
  /\ request \in [Requests -> NormalizedRequests \union {None}]
  /\ overdue \subseteq Intents
  /\ realized \in [Users -> Int]

Confirmed(r) == settlements[r].status = "ONCHAIN_CONFIRMED"

\* The confirmed trading settlements of the user, and the P&L each settled.
SettledPnl(u) ==
  {r \in Requests :
     Confirmed(r) /\ settlements[r].type = "TRADING_PNL" /\ request[r].user = u}

PnlShare(u) == [r \in Requests |-> IF r \in SettledPnl(u) THEN settlements[r].delta ELSE 0]

\* Every trading settlement on record was taken off the user's pending P&L
\* exactly once, although the handler and the indexer both confirm it, in
\* either order, and either may be cut off: what remains pending is what the
\* trades realized less what the confirmed records settled, up to the dust
\* below the token's unit that each of them may have dropped.
PnlAccountedOnce ==
  \A u \in Users :
    Magnitude(pendingSettlementPnl[u] - (realized[u] - SumOver(Requests, PnlShare(u))))
      <= (MicroUnit - 1) * Cardinality(SettledPnl(u))

\* A confirmed record is backed by the vault: a settlement was applied to the
\* requesting user, the record states the amount that moved, whether it was
\* first written from the request or from the log, and that amount is the
\* requested one but for half a unit of the token.
ConfirmedIsOnChain ==
  \A r \in Requests : Confirmed(r) =>
    /\ r \in applied
    /\ 2 * Magnitude(settlements[r].delta - request[r].delta) <= MicroUnit
    /\ \E k \in DOMAIN logs :
         /\ logs[k] = Log("SettlementApplied", request[r].user, logs[k].amount,
                          logs[k].newBalance, r)
         /\ settlements[r].delta = FromMicroUsdc(logs[k].amount)

\* A confirmed record is final: no late answer of the node, second log or
\* restart changes it again.
ConfirmedRecordIsFinal ==
  [][\A r \in Requests : Confirmed(r) => settlements'[r] = settlements[r]]_vars

\* Intents are consumed by settlements that happened: a consumed intent is
\* linked to a confirmed record, and once a caller is told that the settlement
\* is confirmed every intent of its record is consumed.
IntentsFollowRecords ==
  /\ \A i \in Intents : intentStatus[i] = "CONSUMED" =>
       \E r \in Requests : Confirmed(r) /\ i \in settlements[r].intents
  /\ \A r \in Requests : pc[r] = "confirmed" =>
       \A i \in settlements[r].intents : intentStatus[i] = "CONSUMED"

\* The requests of a user whose transaction may still move money.
Outstanding(u) == {r \in Requests : request[r] # None /\ request[r].user = u /\
                                    (r \in Range(mempool) \/ pc[r] \in {"sending", "waiting"}) /\
                                    r \notin applied}

\* As long as every RPC call is answered, a user has at most one settlement
\* under way, however requests, the indexer and the chain interleave.
SingleFlight == \A u \in Users : Cardinality(Outstanding(u)) <= 1

\* As long as every RPC call is answered, the caller is told the truth: a
\* request answered with an error moved no money and one answered with success
\* did.
AnswerIsTrue ==
  \A r \in Requests :
    /\ pc[r] \in {"failed", "refused"} => r \notin applied \union Range(mempool)
    /\ pc[r] = "confirmed" => r \in applied /\ Confirmed(r)

\* The audit record names the type and the intents of its own request, whoever
\* wrote it: nothing of another settlement slips in and nothing is lost.
AuditDataIsOwn ==
  \A r \in Requests : settlements[r].status # "NONE" =>
    settlements[r].type = request[r].type /\ settlements[r].intents = request[r].intents

\* No signed intent authorizes two settlements.
IntentBacksOneSettlement ==
  \A r, s \in applied : r # s => request[r].intents \intersect request[s].intents = {}

\* Once the indexer has handled every log and no handler is at work, the
\* ledger's collateral is the user's balance in the vault.
LedgerReflectsVault ==
  delivered = Len(logs) /\ (\A r \in Requests : pc[r] \notin {"sending", "waiting"})
    => \A u \in Users : collateral[u] = FromMicroUsdc(claim[u])

\* No user stays blocked: an in-flight mark is eventually removed, whichever of
\* the handler, the indexer, another request's failure or a restart gets there.
InFlightReleased ==
  \A u \in Users : settlementInFlight[u] # None ~> settlementInFlight[u] = None

\* Every settlement the vault applied is eventually confirmed on record, even
\* when the handler that sent it failed or vanished.
AppliedIsConfirmed == \A r \in Requests : r \in applied ~> Confirmed(r)
=============================================================================
