------------------------- MODULE WithdrawalService -------------------------
(***************************************************************************)
(* Withdrawals through the gateway: a wallet's signed intent is verified   *)
(* (SignedIntentService), a request files it on chain, the admin approves  *)
(* it (WithdrawalService), and the indexer reads the same logs that the    *)
(* handlers take from their receipts.                                      *)
(*                                                                         *)
(* As in SettlementService an action is a handler's segment between two    *)
(* awaits.  A call of the API is named by a member of Calls, which also    *)
(* names the intent it records or the one transaction it sends.  Calls     *)
(* answered with an error before any await are stuttering steps, except    *)
(* ExpireIntent; so are signatures that do not recover to their user.      *)
(* The chain is CollateralVault; settlements are left to SettlementService.*)
(*                                                                         *)
(* The vault counts units of the token, the ledger and the calls the last  *)
(* decimal of Money; an amount posted to the API has steps of Fine to it.  *)
(***************************************************************************)
EXTENDS Money, FiniteSums, SequencesExt

CONSTANTS
  Users, Operators, VaultAddress, SettlementIds, Amounts, Deltas, MaxSupply, NoId,
  PostedAmounts,   \* amounts in the API's requests
  Calls,       \* the API calls
  Nonces,      \* nonces the backend draws
  Faults,      \* which failures the environment may produce
  MaxLogs,     \* bound on the logs of transactions the gateway did not send
  None         \* no nonce owner, no call

FaultKinds == {"SendLost", "ReceiptLost", "Restart"}

ASSUME WithdrawalAssumption ==
  /\ Amounts \subseteq Nat /\ PostedAmounts \subseteq Nat
  /\ IsFiniteSet(Calls)
  /\ None \notin Users /\ None \notin Calls
  /\ Faults \subseteq FaultKinds
  /\ MaxLogs \in Nat

VARIABLES
  \* the contract
  tokens, operator, totalLiabilities, insuranceBalance, balances,
  pendingWithdrawals, approvedWithdrawals, usedSettlements, receipt, donated,
  \* the chain
  mempool,        \* the operator's broadcast transactions, in nonce order
  reverted,       \* those mined without effect
  logs,           \* the vault's logs with the call whose transaction emitted them
  \* the backend's database
  ledger,         \* collateral and withdrawal amounts of each user
  claimed,        \* the logs recorded in indexed_chain_events
  delivered,      \* how many logs the indexer has handled
  nonceOwner,     \* the wallet a nonce was issued to
  usedNonces,
  intentStatus,   \* of the intents recorded, named by their verification
  \* the backend's memory
  pc,             \* how far each call has come
  call,           \* what each call asked for
  \* the world
  overdue,        \* intents whose deadline has passed
  atRisk          \* users with an open position or unsettled P&L

vault == <<tokens, operator, totalLiabilities, insuranceBalance, balances,
           pendingWithdrawals, approvedWithdrawals, usedSettlements, receipt, donated>>
chain == <<vault, mempool, reverted, logs>>
books == <<ledger, claimed>>
intents == <<nonceOwner, usedNonces, intentStatus>>
world == <<overdue, atRisk>>
vars == <<chain, books, delivered, intents, pc, call, world>>

Vault == INSTANCE CollateralVault

\* A call: what it is, for whom, how much after roundMoney, and the nonce or
\* intent it names.
Call(kind, user, amount, ref) == [kind |-> kind, user |-> user, amount |-> amount, ref |-> ref]

EmptyBook == [collateral |-> 0, pending |-> 0, approved |-> 0]

Init ==
  /\ Vault!Init
  /\ mempool = <<>> /\ reverted = {} /\ logs = <<>>
  /\ ledger = [u \in Users |-> EmptyBook] /\ claimed = {} /\ delivered = 0
  /\ nonceOwner = [n \in Nonces |-> None] /\ usedNonces = {}
  /\ intentStatus = [c \in Calls |-> "NONE"]
  /\ pc = [c \in Calls |-> "unsent"] /\ call = [c \in Calls |-> None]
  /\ overdue = {} /\ atRisk = [u \in Users |-> FALSE]

-----------------------------------------------------------------------------
(* Signed intents. *)

IssueNonce(n, user) ==
  /\ nonceOwner[n] = None
  /\ nonceOwner' = [nonceOwner EXCEPT ![n] = user]
  /\ UNCHANGED <<chain, books, delivered, usedNonces, intentStatus, pc, call, world>>

\* The first segment of any call.
Arrive(c, kind, user, amount, ref) ==
  /\ pc[c] = "unsent"
  /\ call' = [call EXCEPT ![c] = Call(kind, user, amount, ref)]
  /\ pc' = [pc EXCEPT ![c] = "loading"]
  /\ UNCHANGED <<chain, books, delivered, intents, world>>

\* verifySignedIntent up to the recovery of the signer: what the user signed is
\* the payload of a withdrawal request of the amount, with the nonce.  (A payload
\* of an amount with more decimals would match no request.)
VerifyIntent(c, user, amount, n) == Arrive(c, "verify", user, amount, n)

\* Mutation: a used nonce is accepted again.
NonceIssued(c) == nonceOwner[call[c].ref] = call[c].user

NonceUsable(c) == nonceOwner[call[c].ref] = call[c].user /\ call[c].ref \notin usedNonces

\* The rest of it: consumeIntentNonce and recordVerifiedIntent.
RecordIntent(c) ==
  /\ pc[c] = "loading" /\ call[c].kind = "verify"
  /\ NonceUsable(c)
  /\ usedNonces' = usedNonces \union {call[c].ref}
  /\ intentStatus' = [intentStatus EXCEPT ![c] = "VERIFIED"]
  /\ pc' = [pc EXCEPT ![c] = "done"]
  /\ UNCHANGED <<chain, books, delivered, nonceOwner, call, world>>

\* The call ends with an error and leaves nothing behind.
Fail(c) ==
  /\ pc' = [pc EXCEPT ![c] = "failed"]
  /\ UNCHANGED <<chain, books, delivered, intents, call, world>>

RejectIntent(c) ==
  /\ pc[c] = "loading" /\ call[c].kind = "verify"
  /\ ~ NonceUsable(c)
  /\ Fail(c)

\* Mutation: any intent whose deadline has passed is marked.
ExpireAny(i) ==
  /\ intentStatus[i] # "NONE" /\ i \in overdue
  /\ intentStatus' = [intentStatus EXCEPT ![i] = "EXPIRED"]
  /\ UNCHANGED <<chain, books, delivered, nonceOwner, usedNonces, pc, call, world>>

\* A request is refused over an intent whose deadline has passed; the refusal
\* itself marks the intent EXPIRED.
ExpireIntent(i) ==
  /\ intentStatus[i] = "VERIFIED" /\ i \in overdue
  /\ intentStatus' = [intentStatus EXCEPT ![i] = "EXPIRED"]
  /\ UNCHANGED <<chain, books, delivered, nonceOwner, usedNonces, pc, call, world>>

-----------------------------------------------------------------------------
(* Requests and approvals. *)

\* requestWithdrawal up to its first await: the intent is usable and the
\* ledger shows enough collateral neither pending nor approved.
RequestWithdrawal(c, user, posted, i) ==
  LET amount == RoundMoney(posted) IN
  /\ intentStatus[i] = "VERIFIED" /\ call[i].user = user /\ i \notin overdue
  /\ amount # 0
  /\ ledger[user].collateral - (ledger[user].pending + ledger[user].approved) >= amount
  /\ Arrive(c, "request", user, amount, i)

\* approveWithdrawal up to its first await, with the risk checks.
ApproveWithdrawal(c, user, posted) ==
  LET amount == RoundMoney(posted) IN
  /\ amount # 0
  /\ ~ atRisk[user]
  /\ ledger[user].collateral >= amount /\ ledger[user].pending >= amount
  /\ Arrive(c, "approve", user, amount, None)

\* Mutation: the payload is not compared.
PayloadIgnored(c) == call[c].kind \in {"request", "approve"}

\* validateWithdrawalIntentPayload: the amount is the one that was signed, to
\* the last decimal.
PayloadMatches(c) == call[c].kind = "request" => call[call[c].ref].amount = call[c].amount

\* The deployment is loaded and usable, the payload matches, and the
\* transaction is handed to the node.  Nothing else is tested again.
Send(c) ==
  /\ pc[c] = "loading" /\ call[c].kind # "verify"
  /\ PayloadMatches(c)
  /\ pc' = [pc EXCEPT ![c] = "sending"]
  /\ UNCHANGED <<chain, books, delivered, intents, call, world>>

\* The payload differs, or the deployment is unusable or names another operator.
Refuse(c) ==
  /\ pc[c] = "loading" /\ call[c].kind # "verify"
  /\ Fail(c)

OnItsWay(c) == c \in reverted \union Range(mempool) \/ \E k \in DOMAIN logs : logs[k].tx = c

\* writeContract throws and nothing was broadcast; or it was, and the answer is lost.
SendFails(c) ==
  /\ pc[c] = "sending"
  /\ OnItsWay(c) => "SendLost" \in Faults
  /\ Fail(c)

AwaitReceipt(c) ==
  /\ pc[c] = "sending" /\ OnItsWay(c)
  /\ pc' = [pc EXCEPT ![c] = "waiting"]
  /\ UNCHANGED <<chain, books, delivered, intents, call, world>>

\* The transaction reverted; or waiting for its receipt timed out.
ReceiptFails(c) ==
  /\ pc[c] = "waiting"
  /\ c \in reverted \/ "ReceiptLost" \in Faults
  /\ Fail(c)

\* Math.max(0, x - y).
Excess(x, y) == IF x > y THEN x - y ELSE 0

\* The applyIndexed... methods: a user's book after an event.
Effect(book, event) ==
  LET amount == FromMicroUsdc(event.amount) IN
  CASE event.name = "Deposited" -> [book EXCEPT !.collateral = @ + amount]
    [] event.name = "WithdrawRequested" -> [book EXCEPT !.pending = @ + amount]
    [] event.name = "WithdrawApproved" ->
         [book EXCEPT !.pending = Excess(@, amount), !.approved = @ + amount]
    [] event.name = "Withdrawn" ->
         [book EXCEPT !.collateral = Excess(@, amount), !.approved = Excess(@, amount)]

\* Mutation: a claimed log is applied again.
ApplyAlways(k) ==
  LET event == logs[k].event IN
  /\ claimed' = claimed \union {k}
  /\ ledger' = [ledger EXCEPT ![event.user] = Effect(@, event)]

\* recordIndexedChainEvent and, if the log was not claimed before, its effect.
ClaimAndApply(k) ==
  LET event == logs[k].event IN
  /\ claimed' = claimed \union {k}
  /\ ledger' = IF k \in claimed THEN ledger
               ELSE [ledger EXCEPT ![event.user] = Effect(@, event)]

\* The receipt reports success: the handler claims and applies the log of its
\* own transaction, a request then consumes its intent.
Finish(c) ==
  /\ pc[c] = "waiting"
  /\ \E k \in DOMAIN logs : logs[k].tx = c /\ ClaimAndApply(k)
  /\ intentStatus' = IF call[c].kind = "request"
       THEN [intentStatus EXCEPT ![call[c].ref] = "CONSUMED"] ELSE intentStatus
  /\ pc' = [pc EXCEPT ![c] = "done"]
  /\ UNCHANGED <<chain, delivered, nonceOwner, usedNonces, call, world>>

\* Mutation: logs the gateway's own transactions emitted are skipped.
DeliverOthers ==
  /\ delivered < Len(logs)
  /\ delivered' = delivered + 1
  /\ IF logs[delivered + 1].tx = None THEN ClaimAndApply(delivered + 1) ELSE UNCHANGED books
  /\ UNCHANGED <<chain, intents, pc, call, world>>

\* The indexer handles the next log.
Deliver ==
  /\ delivered < Len(logs)
  /\ delivered' = delivered + 1
  /\ ClaimAndApply(delivered + 1)
  /\ UNCHANGED <<chain, intents, pc, call, world>>

-----------------------------------------------------------------------------
(* The chain. *)

\* What the call's transaction says: whole units of the token.
Filed(c) == ToMicroUsdc(call[c].amount)

\* The contract accepts the call's transaction in the present state.
Accepted(c) ==
  LET user == call[c].user
      reserved == pendingWithdrawals[user] + approvedWithdrawals[user]
  IN  /\ Filed(c) # 0
      /\ CASE call[c].kind = "request" -> Vault!Excess(balances[user], reserved) >= Filed(c)
           [] call[c].kind = "approve" ->
                /\ pendingWithdrawals[user] >= Filed(c)
                /\ Vault!Excess(balances[user], approvedWithdrawals[user]) >= Filed(c)

Logged(tx) == logs' = logs \o [i \in DOMAIN receipt' |-> [event |-> receipt'[i], tx |-> tx]]

\* The node accepts the transaction, unless it would revert at that moment.
Broadcast(c) ==
  /\ pc[c] = "sending" /\ ~ OnItsWay(c)
  /\ Accepted(c)
  /\ mempool' = Append(mempool, c)
  /\ UNCHANGED <<vault, reverted, logs, books, delivered, intents, pc, call, world>>

Mine ==
  LET c == Head(mempool) IN
  /\ mempool # <<>>
  /\ mempool' = Tail(mempool)
  /\ \/ /\ call[c].kind = "request"
        /\ Vault!RequestWithdrawFor(operator, call[c].user, Filed(c))
        /\ Logged(c) /\ UNCHANGED reverted
     \/ /\ call[c].kind = "approve"
        /\ Vault!ApproveWithdraw(operator, call[c].user, Filed(c))
        /\ Logged(c) /\ UNCHANGED reverted
     \/ /\ ~ Accepted(c)
        /\ reverted' = reverted \union {c}
        /\ UNCHANGED <<vault, logs>>
  /\ UNCHANGED <<books, delivered, intents, pc, call, world>>

\* Transactions of the users themselves.
UserTransacts ==
  /\ \E u \in Users, a \in Amounts :
       \/ Vault!Mint(u, a) \/ Vault!Deposit(u, a)
       \/ Vault!RequestWithdraw(u, a) \/ Vault!WithdrawApproved(u, a)
  /\ Cardinality({k \in DOMAIN logs : logs[k].tx = None}) + Len(receipt') <= MaxLogs
  /\ Logged(None)
  /\ UNCHANGED <<mempool, reverted, books, delivered, intents, pc, call, world>>

-----------------------------------------------------------------------------
(* Time, trades and restarts. *)

DeadlinePasses(i) ==
  /\ intentStatus[i] # "NONE"
  /\ overdue' = overdue \union {i}
  /\ UNCHANGED <<chain, books, delivered, intents, pc, call, atRisk>>

\* Orders fill, positions close, P&L is settled.
RiskChanges(user) ==
  /\ atRisk' = [atRisk EXCEPT ![user] = ~ @]
  /\ UNCHANGED <<chain, books, delivered, intents, pc, call, overdue>>

\* The process ends between two turns of the event loop and is started again.
Restart ==
  /\ "Restart" \in Faults
  /\ pc' = [c \in Calls |-> IF pc[c] \in {"loading", "sending", "waiting"} THEN "lost" ELSE pc[c]]
  /\ UNCHANGED <<chain, books, delivered, intents, call, world>>

-----------------------------------------------------------------------------
ArrivalStep ==
  \E c \in Calls, u \in Users, posted \in PostedAmounts :
    \/ \E n \in Nonces : VerifyIntent(c, u, RoundMoney(posted), n)
    \/ \E i \in Calls : RequestWithdrawal(c, u, posted, i)
    \/ ApproveWithdrawal(c, u, posted)

HandlerStep ==
  \E c \in Calls :
    \/ RecordIntent(c) \/ RejectIntent(c) \/ Send(c) \/ Refuse(c)
    \/ SendFails(c) \/ AwaitReceipt(c) \/ ReceiptFails(c) \/ Finish(c)

ChainStep == Mine \/ UserTransacts \/ \E c \in Calls : Broadcast(c)

WorldStep ==
  \/ \E n \in Nonces, u \in Users : IssueNonce(n, u)
  \/ \E i \in Calls : ExpireIntent(i) \/ DeadlinePasses(i)
  \/ \E u \in Users : RiskChanges(u)

Next == ArrivalStep \/ HandlerStep \/ ChainStep \/ Deliver \/ WorldStep \/ Restart

Spec == Init /\ [][Next]_vars
-----------------------------------------------------------------------------
\* What each log adds to the three balances a user has in the vault.
BalanceEffects(u) == [k \in DOMAIN logs |-> Vault!BalanceEffect(logs[k].event, u)]
PendingEffects(u) == [k \in DOMAIN logs |-> Vault!PendingEffect(logs[k].event, u)]
ApprovedEffects(u) == [k \in DOMAIN logs |-> Vault!ApprovedEffect(logs[k].event, u)]

\* Handlers and indexer apply the same logs, a handler ahead of the indexer's
\* turn.  Whatever the order, collateral and approved amounts are those of the
\* claimed logs, each counted once, and pending amounts are at least that: an
\* approval applied before its request is lost by Math.max(0, ...).
LedgerFollowsClaims ==
  \A u \in Users :
    /\ ledger[u].collateral = FromMicroUsdc(SumWithin(BalanceEffects(u), claimed, Len(logs)))
    /\ ledger[u].approved = FromMicroUsdc(SumWithin(ApprovedEffects(u), claimed, Len(logs)))
    /\ ledger[u].pending >= FromMicroUsdc(SumWithin(PendingEffects(u), claimed, Len(logs)))

\* Once the indexer has handled every log the ledger offers a user no more for
\* withdrawal than the vault would accept.
CaughtUpLedgerIsCautious ==
  delivered = Len(logs) =>
    \A u \in Users :
      /\ ledger[u].collateral = FromMicroUsdc(balances[u])
      /\ ledger[u].approved = FromMicroUsdc(approvedWithdrawals[u])
      /\ ledger[u].pending >= FromMicroUsdc(pendingWithdrawals[u])

\* A nonce backs at most one intent, though the verification of a signature
\* posted twice waits between its tests and the use of the nonce.
NonceBacksOneIntent ==
  \A i, j \in Calls :
    i # j /\ intentStatus[i] # "NONE" /\ intentStatus[j] # "NONE" => call[i].ref # call[j].ref

\* What the operator's key files on chain as a request is what the wallet
\* signed, in an intent that was verified: its owner, and its amount to the
\* nearest unit of the token (the payload has decimals the vault has not).
FiledAsSigned ==
  \A k \in DOMAIN logs :
    LET event == logs[k].event
        c == logs[k].tx
    IN  c # None /\ event.name = "WithdrawRequested" =>
          /\ intentStatus[call[c].ref] # "NONE"
          /\ call[call[c].ref].user = event.user
          /\ 2 * Magnitude(FromMicroUsdc(event.amount) - call[call[c].ref].amount) <= MicroUnit

\* A consumed intent stays consumed: no deadline, second request or late
\* receipt makes it usable or expired again.
ConsumedIntentIsFinal ==
  [][\A i \in Calls : intentStatus[i] = "CONSUMED" => intentStatus'[i] = "CONSUMED"]_vars

=============================================================================
