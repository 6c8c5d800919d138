-------------------------- MODULE CollateralVault ---------------------------
(***************************************************************************)
(* The custody contract contracts/CollateralVault.sol together with the    *)
(* ERC-20 token it holds (contracts/MockUSDC.sol).                         *)
(*                                                                         *)
(* One action is one successful transaction; a transaction that reverts    *)
(* changes nothing and is a stuttering step.  Transactions are atomic: all *)
(* entry points are nonReentrant and the token has no transfer callbacks.  *)
(* Amounts are naturals, not uint256 words: every quantity the contract    *)
(* adds up is bounded by the token's supply, and Solidity 0.8 arithmetic   *)
(* reverts instead of wrapping, which the guards on subtraction state.     *)
(***************************************************************************)
EXTENDS FiniteSums, Sequences

CONSTANTS
  Users,           \* wallet addresses
  Operators,       \* addresses the owner may appoint as operator
  VaultAddress,    \* address(this)
  SettlementIds,   \* bytes32 settlement identifiers
  Amounts,         \* the uint256 arguments tried, in token units
  Deltas,          \* the int256 settlement amounts tried
  MaxSupply,       \* bound on the tokens ever minted
  NoId             \* settlementId field of events that carry none

ASSUME VaultAssumption ==
  /\ IsFiniteSet(Users)
  /\ VaultAddress \notin Users
  /\ Amounts \subseteq Nat
  /\ Deltas \subseteq Int
  /\ MaxSupply \in Nat
  /\ NoId \notin SettlementIds

VARIABLES
  tokens,               \* the ERC-20 balances of the wallets and of the vault
  operator,
  totalLiabilities,
  insuranceBalance,
  balances,
  pendingWithdrawals,
  approvedWithdrawals,
  usedSettlements,      \* the settlementIds whose flag is set
  receipt,              \* logs of the latest transaction, in log order
  donated               \* history: tokens sent to the vault outside its entry points

accounting == <<totalLiabilities, insuranceBalance, balances>>
withdrawals == <<pendingWithdrawals, approvedWithdrawals>>
vars == <<tokens, operator, totalLiabilities, insuranceBalance, balances,
          pendingWithdrawals, approvedWithdrawals, usedSettlements, receipt, donated>>

Accounts == Users \union {VaultAddress}

EventNames == {"Deposited", "WithdrawRequested", "WithdrawApproved", "Withdrawn",
               "InsuranceFunded", "InsuranceUsed", "SettlementApplied", "PnlSettled"}

Events == [name : EventNames, user : Users, amount : Int,
           newBalance : Nat, settlementId : SettlementIds \union {NoId}]

\* A log that names a user and an amount only.
Event(name, user, amount) ==
  [name |-> name, user |-> user, amount |-> amount, newBalance |-> 0, settlementId |-> NoId]

\* SettlementApplied and PnlSettled also carry the resulting balance and the id.
SettlementEvent(name, user, amountDelta, newBalance, settlementId) ==
  [name |-> name, user |-> user, amount |-> amountDelta,
   newBalance |-> newBalance, settlementId |-> settlementId]

-----------------------------------------------------------------------------
\* _assertSolvent, evaluated on the state the transaction would leave behind.
AssertSolvent == tokens'[VaultAddress] >= totalLiabilities' + insuranceBalance'

\* The ERC-20 movements; a transfer beyond the sender's balance reverts.
TransferFrom(from, amount) ==
  /\ tokens[from] >= amount
  /\ tokens' = [tokens EXCEPT ![from] = @ - amount, ![VaultAddress] = @ + amount]

TransferTo(to, amount) ==
  /\ tokens[VaultAddress] >= amount
  /\ tokens' = [tokens EXCEPT ![VaultAddress] = @ - amount, ![to] = @ + amount]

Supply == SumOver(Accounts, tokens)

-----------------------------------------------------------------------------
Init ==
  /\ tokens = [a \in Accounts |-> 0]
  /\ operator \in Operators
  /\ totalLiabilities = 0
  /\ insuranceBalance = 0
  /\ balances = [u \in Users |-> 0]
  /\ pendingWithdrawals = [u \in Users |-> 0]
  /\ approvedWithdrawals = [u \in Users |-> 0]
  /\ usedSettlements = {}
  /\ receipt = <<>>
  /\ donated = 0

\* MockUSDC.mint, capped by MaxSupply.
Mint(to, amount) ==
  /\ Supply + amount <= MaxSupply
  /\ tokens' = [tokens EXCEPT ![to] = @ + amount]
  /\ receipt' = <<>>
  /\ UNCHANGED <<operator, accounting, withdrawals, usedSettlements, donated>>

\* A plain ERC-20 transfer to the vault's address: the contract never hears of it.
TransferDirectly(from, amount) ==
  /\ TransferFrom(from, amount)
  /\ donated' = donated + amount
  /\ receipt' = <<>>
  /\ UNCHANGED <<operator, accounting, withdrawals, usedSettlements>>

SetOperator(newOperator) ==
  /\ operator' = newOperator
  /\ receipt' = <<>>
  /\ UNCHANGED <<tokens, accounting, withdrawals, usedSettlements, donated>>

Deposit(user, amount) ==
  /\ amount # 0
  /\ TransferFrom(user, amount)
  /\ balances' = [balances EXCEPT ![user] = @ + amount]
  /\ totalLiabilities' = totalLiabilities + amount
  /\ UNCHANGED <<operator, insuranceBalance, withdrawals, usedSettlements, donated>>
  /\ AssertSolvent
  /\ receipt' = <<Event("Deposited", user, amount)>>

FundInsurance(funder, amount) ==
  /\ amount # 0
  /\ TransferFrom(funder, amount)
  /\ insuranceBalance' = insuranceBalance + amount
  /\ UNCHANGED <<operator, totalLiabilities, balances, withdrawals, usedSettlements, donated>>
  /\ AssertSolvent
  /\ receipt' = <<Event("InsuranceFunded", funder, amount)>>

\* Saturating difference, the "x > y ? x - y : 0" of the two availability checks.
Excess(x, y) == IF x > y THEN x - y ELSE 0

\* Mutation: an approved amount may be requested once more.
RequestIgnoringApprovals(user, amount) ==
  /\ amount # 0
  /\ Excess(balances[user], pendingWithdrawals[user]) >= amount
  /\ pendingWithdrawals' = [pendingWithdrawals EXCEPT ![user] = @ + amount]
  /\ receipt' = <<Event("WithdrawRequested", user, amount)>>
  /\ UNCHANGED <<tokens, operator, accounting, approvedWithdrawals, usedSettlements, donated>>

\* _requestWithdraw, shared by requestWithdraw and requestWithdrawFor.
RecordWithdrawRequest(user, amount) ==
  /\ amount # 0
  /\ Excess(balances[user], pendingWithdrawals[user] + approvedWithdrawals[user]) >= amount
  /\ pendingWithdrawals' = [pendingWithdrawals EXCEPT ![user] = @ + amount]
  /\ receipt' = <<Event("WithdrawRequested", user, amount)>>
  /\ UNCHANGED <<tokens, operator, accounting, approvedWithdrawals, usedSettlements, donated>>

RequestWithdraw(user, amount) == RecordWithdrawRequest(user, amount)

RequestWithdrawFor(sender, user, amount) ==
  /\ sender = operator
  /\ RecordWithdrawRequest(user, amount)

ApproveWithdraw(sender, user, amount) ==
  /\ sender = operator
  /\ amount # 0
  /\ pendingWithdrawals[user] >= amount
  /\ Excess(balances[user], approvedWithdrawals[user]) >= amount
  /\ pendingWithdrawals' = [pendingWithdrawals EXCEPT ![user] = @ - amount]
  /\ approvedWithdrawals' = [approvedWithdrawals EXCEPT ![user] = @ + amount]
  /\ receipt' = <<Event("WithdrawApproved", user, amount)>>
  /\ UNCHANGED <<tokens, operator, accounting, usedSettlements, donated>>

\* _withdrawApproved, the body of both withdraw and withdrawApproved.
WithdrawApproved(user, amount) ==
  /\ amount # 0
  /\ approvedWithdrawals[user] >= amount
  /\ balances[user] >= amount
  /\ totalLiabilities >= amount
  /\ approvedWithdrawals' = [approvedWithdrawals EXCEPT ![user] = @ - amount]
  /\ balances' = [balances EXCEPT ![user] = @ - amount]
  /\ totalLiabilities' = totalLiabilities - amount
  /\ TransferTo(user, amount)
  /\ UNCHANGED <<operator, insuranceBalance, pendingWithdrawals, usedSettlements, donated>>
  /\ AssertSolvent
  /\ receipt' = <<Event("Withdrawn", user, amount)>>

-----------------------------------------------------------------------------
\* Mutations: a gain is not added to the liabilities; a loss is not credited to
\* the insurance.
MoveWithoutLiability(user, amountDelta) ==
  /\ amountDelta > 0 => insuranceBalance >= amountDelta
  /\ amountDelta < 0 => balances[user] >= -amountDelta /\ totalLiabilities >= -amountDelta
  /\ insuranceBalance' = insuranceBalance - amountDelta
  /\ balances' = [balances EXCEPT ![user] = @ + amountDelta]
  /\ totalLiabilities' = IF amountDelta > 0 THEN totalLiabilities ELSE totalLiabilities + amountDelta

MoveWithoutInsurance(user, amountDelta) ==
  /\ amountDelta > 0 => insuranceBalance >= amountDelta
  /\ amountDelta < 0 => balances[user] >= -amountDelta /\ totalLiabilities >= -amountDelta
  /\ insuranceBalance' = IF amountDelta > 0 THEN insuranceBalance - amountDelta ELSE insuranceBalance
  /\ balances' = [balances EXCEPT ![user] = @ + amountDelta]
  /\ totalLiabilities' = totalLiabilities + amountDelta

\* The three branches of _applySettlement: a gain is paid by the insurance, a
\* loss is paid into it, and a zero delta only burns the settlementId.
MoveSettlement(user, amountDelta) ==
  /\ amountDelta > 0 => insuranceBalance >= amountDelta
  /\ amountDelta < 0 => balances[user] >= -amountDelta /\ totalLiabilities >= -amountDelta
  /\ insuranceBalance' = insuranceBalance - amountDelta
  /\ balances' = [balances EXCEPT ![user] = @ + amountDelta]
  /\ totalLiabilities' = totalLiabilities + amountDelta

\* Mutation: a settlementId is recorded but not checked.
ApplyRepeatedly(user, amountDelta, settlementId) ==
  /\ usedSettlements' = usedSettlements \union {settlementId}
  /\ MoveSettlement(user, amountDelta)
  /\ UNCHANGED <<tokens, operator, withdrawals, donated>>
  /\ AssertSolvent

\* _applySettlement without its events.
ApplySettlement(user, amountDelta, settlementId) ==
  /\ settlementId \notin usedSettlements
  /\ usedSettlements' = usedSettlements \union {settlementId}
  /\ MoveSettlement(user, amountDelta)
  /\ UNCHANGED <<tokens, operator, withdrawals, donated>>
  /\ AssertSolvent

\* The log _applySettlement itself emits, for gains only.
InsuranceLog(user, amountDelta) ==
  IF amountDelta > 0 THEN <<Event("InsuranceUsed", user, amountDelta)>> ELSE <<>>

\* Mutation: the log carries the balance from before the settlement.
SettleLoggingOldBalance(sender, user, amountDelta, settlementId) ==
  /\ sender = operator
  /\ ApplySettlement(user, amountDelta, settlementId)
  /\ receipt' = InsuranceLog(user, amountDelta) \o
       <<SettlementEvent("SettlementApplied", user, amountDelta, balances[user], settlementId)>>

Settle(sender, user, amountDelta, settlementId) ==
  /\ sender = operator
  /\ ApplySettlement(user, amountDelta, settlementId)
  /\ receipt' = InsuranceLog(user, amountDelta) \o
       <<SettlementEvent("SettlementApplied", user, amountDelta, balances'[user], settlementId)>>

\* The legacy alias logs the same settlement twice.
SettlePnl(sender, user, pnl, settlementId) ==
  /\ sender = operator
  /\ ApplySettlement(user, pnl, settlementId)
  /\ receipt' = InsuranceLog(user, pnl) \o
       <<SettlementEvent("SettlementApplied", user, pnl, balances'[user], settlementId),
         SettlementEvent("PnlSettled", user, pnl, balances'[user], settlementId)>>

-----------------------------------------------------------------------------
TokenStep ==
  \E u \in Users, a \in Amounts : Mint(u, a) \/ TransferDirectly(u, a)

UserStep ==
  \E u \in Users, a \in Amounts :
    \/ Deposit(u, a)
    \/ FundInsurance(u, a)
    \/ RequestWithdraw(u, a)
    \/ WithdrawApproved(u, a)

OperatorStep ==
  \E o \in Operators, u \in Users :
    \/ \E a \in Amounts : RequestWithdrawFor(o, u, a) \/ ApproveWithdraw(o, u, a)
    \/ \E d \in Deltas, id \in SettlementIds : Settle(o, u, d, id) \/ SettlePnl(o, u, d, id)

OwnerStep == \E o \in Operators : SetOperator(o)

Next == TokenStep \/ UserStep \/ OperatorStep \/ OwnerStep

Spec == Init /\ [][Next]_vars
-----------------------------------------------------------------------------
\* Every storage slot holds a value of its Solidity type.
TypeOK ==
  /\ tokens \in [Accounts -> Nat]
  /\ operator \in Operators
  /\ totalLiabilities \in Nat
  /\ insuranceBalance \in Nat
  /\ balances \in [Users -> Nat]
  /\ pendingWithdrawals \in [Users -> Nat]
  /\ approvedWithdrawals \in [Users -> Nat]
  /\ usedSettlements \subseteq SettlementIds
  /\ receipt \in Seq(Events)
  /\ donated \in Nat

\* The running counter totalLiabilities is, after any sequence of calls, the sum
\* of what the vault owes its users; no branch updates one without the other.
LiabilitiesMatchBalances == totalLiabilities = SumOver(Users, balances)

\* The vault's tokens are exactly what its books account for plus what was sent
\* to it directly: _assertSolvent checks one direction only (no shortfall), this
\* also excludes users' money that drops out of the books.
BackingIsExact == tokens[VaultAddress] = totalLiabilities + insuranceBalance + donated

\* An approved amount the user's balance covers can always be paid: neither the
\* checked subtraction of totalLiabilities, nor the token transfer, nor
\* _assertSolvent can revert it, whatever other users did in between.
ApprovedFundsArePayable ==
  \A u \in Users : \A a \in Amounts :
    a <= approvedWithdrawals[u] /\ a <= balances[u] =>
      /\ a <= totalLiabilities
      /\ a <= tokens[VaultAddress]
      /\ (totalLiabilities - a) + insuranceBalance <= tokens[VaultAddress] - a

\* A user's open requests and approvals are covered by the balance.
ReservationsCovered(u) ==
  pendingWithdrawals[u] + approvedWithdrawals[u] <= balances[u]

\* A user's reservations stop being covered only through a losing settlement of
\* that same user; no request, approval, payout or other user's call does it.
CoverageLostOnlyByLoss ==
  [][\A u \in Users :
       ReservationsCovered(u) /\ ~ ReservationsCovered(u)' =>
         \E i \in DOMAIN receipt' :
           /\ receipt'[i].name = "SettlementApplied"
           /\ receipt'[i].user = u
           /\ receipt'[i].amount < 0]_vars

\* What a reader of the logs adds to each of a user's three balances for one
\* log.  PnlSettled repeats a SettlementApplied and InsuranceUsed a part of one:
\* both count for nothing.
BalanceEffect(log, u) ==
  IF log.user # u THEN 0
  ELSE IF log.name \in {"Deposited", "SettlementApplied"} THEN log.amount
  ELSE IF log.name = "Withdrawn" THEN -log.amount ELSE 0

PendingEffect(log, u) ==
  IF log.user # u THEN 0
  ELSE IF log.name = "WithdrawRequested" THEN log.amount
  ELSE IF log.name = "WithdrawApproved" THEN -log.amount ELSE 0

ApprovedEffect(log, u) ==
  IF log.user # u THEN 0
  ELSE IF log.name = "WithdrawApproved" THEN log.amount
  ELSE IF log.name = "Withdrawn" THEN -log.amount ELSE 0

\* Replaying the logs of a transaction reproduces its effect on every user's
\* balance, pending and approved amounts, and a settlement log carries the
\* balance it left: the events alone suffice to rebuild the vault's books.
LogsExplainTransaction ==
  [][\A u \in Users :
       LET logs == receipt' IN
       /\ balances'[u] - balances[u] =
            SumOver(DOMAIN logs, [i \in DOMAIN logs |-> BalanceEffect(logs[i], u)])
       /\ pendingWithdrawals'[u] - pendingWithdrawals[u] =
            SumOver(DOMAIN logs, [i \in DOMAIN logs |-> PendingEffect(logs[i], u)])
       /\ approvedWithdrawals'[u] - approvedWithdrawals[u] =
            SumOver(DOMAIN logs, [i \in DOMAIN logs |-> ApprovedEffect(logs[i], u)])
       /\ \A i \in DOMAIN logs :
            logs[i].user = u /\ logs[i].settlementId # NoId
              => logs[i].newBalance = balances'[u]]_vars

\* The users' view of the vault: requests, counters, the vault's own token
\* account, the operator and the logs are hidden.
Custody == INSTANCE CustodyPromise WITH
  wallet <- [u \in Users |-> tokens[u]],
  claim <- balances,
  authorised <- approvedWithdrawals,
  pool <- insuranceBalance,
  applied <- usedSettlements

\* Every transaction is one of the money movements CustodyPromise allows, or
\* moves no money: an approval is spent by the payout it covers, a settlementId
\* moves money at most once and the two sides of a settlement balance.
ImplementsCustody == Custody!Spec
=============================================================================
