----------------------- MODULE CollateralVaultTheorems ----------------------
(***************************************************************************)
(* What holds of CollateralVault for every finite set of users, every set  *)
(* of amounts and every supply.                                            *)
(***************************************************************************)
EXTENDS CollateralVault, ArithmeticTheorems, SequenceTheorems

USE VaultAssumption DEF Accounts

\* The state after ApplySettlement, spelled out: what the three branches of
\* _applySettlement have in common.
LEMMA SettlementEffect ==
  ASSUME TypeOK, NEW user \in Users, NEW delta \in Deltas, NEW id \in SettlementIds,
         ApplySettlement(user, delta, id)
  PROVE  /\ id \notin usedSettlements
         /\ usedSettlements' = usedSettlements \union {id}
         /\ insuranceBalance' = insuranceBalance - delta
         /\ insuranceBalance' \in Nat
         /\ balances' = [balances EXCEPT ![user] = balances[user] + delta]
         /\ balances' \in [Users -> Nat]
         /\ totalLiabilities' = totalLiabilities + delta
         /\ totalLiabilities' \in Nat
         /\ UNCHANGED <<tokens, operator, withdrawals, donated>>
<1> USE DEF ApplySettlement, MoveSettlement, TypeOK
<1>1. delta \in Int /\ balances[user] \in Nat OBVIOUS
<1>2. insuranceBalance - delta \in Nat /\ balances[user] + delta \in Nat
      /\ totalLiabilities + delta \in Nat
  BY <1>1
<1> QED BY <1>1, <1>2

\* A transfer between a wallet and the vault moves the amount and nothing else.
LEMMA TransferEffect ==
  ASSUME TypeOK, NEW user \in Users, NEW amount \in Amounts
  PROVE  /\ TransferFrom(user, amount) =>
              /\ tokens' \in [Accounts -> Nat]
              /\ tokens[user] >= amount
              /\ tokens'[VaultAddress] = tokens[VaultAddress] + amount
              /\ \A u \in Users : tokens'[u] = tokens[u] - (IF u = user THEN amount ELSE 0)
         /\ TransferTo(user, amount) =>
              /\ tokens' \in [Accounts -> Nat]
              /\ tokens[VaultAddress] >= amount
              /\ tokens'[VaultAddress] = tokens[VaultAddress] - amount
              /\ \A u \in Users : tokens'[u] = tokens[u] + (IF u = user THEN amount ELSE 0)
<1>1. user # VaultAddress /\ amount \in Nat OBVIOUS
<1>2. tokens \in [Accounts -> Nat] BY DEF TypeOK
<1>3. ASSUME TransferFrom(user, amount)
      PROVE  /\ tokens' \in [Accounts -> Nat]
             /\ tokens[user] >= amount
             /\ tokens'[VaultAddress] = tokens[VaultAddress] + amount
             /\ \A u \in Users : tokens'[u] = tokens[u] - (IF u = user THEN amount ELSE 0)
  BY <1>1, <1>2, <1>3 DEF TransferFrom
<1>4. ASSUME TransferTo(user, amount)
      PROVE  /\ tokens' \in [Accounts -> Nat]
             /\ tokens[VaultAddress] >= amount
             /\ tokens'[VaultAddress] = tokens[VaultAddress] - amount
             /\ \A u \in Users : tokens'[u] = tokens[u] + (IF u = user THEN amount ELSE 0)
  BY <1>1, <1>2, <1>4 DEF TransferTo
<1> QED BY <1>3, <1>4

\* The logs of a settlement are well formed.
LEMMA SettlementLogsType ==
  ASSUME NEW user \in Users, NEW delta \in Int, NEW balance \in Nat, NEW id \in SettlementIds
  PROVE  LET applied == SettlementEvent("SettlementApplied", user, delta, balance, id)
             legacy == SettlementEvent("PnlSettled", user, delta, balance, id)
         IN  /\ InsuranceLog(user, delta) \o <<applied>> \in Seq(Events)
             /\ InsuranceLog(user, delta) \o <<applied, legacy>> \in Seq(Events)
<1> DEFINE applied == SettlementEvent("SettlementApplied", user, delta, balance, id)
           legacy == SettlementEvent("PnlSettled", user, delta, balance, id)
<1>1. applied \in Events /\ legacy \in Events /\ Event("InsuranceUsed", user, delta) \in Events
  BY DEF SettlementEvent, Event, Events, EventNames
<1>2. InsuranceLog(user, delta) \in Seq(Events)
  BY <1>1 DEF InsuranceLog
<1> QED BY <1>1, <1>2

\* A transaction keeps the types.
LEMMA TypeStep == TypeOK /\ [Next]_vars => TypeOK'
<1>1. TypeOK /\ [Next]_vars => TypeOK'
  <2> SUFFICES ASSUME TypeOK, [Next]_vars PROVE TypeOK' OBVIOUS
  <2>1. ASSUME NEW name \in EventNames, NEW u \in Users, NEW a \in Amounts
        PROVE  <<Event(name, u, a)>> \in Seq(Events)
    BY DEF Event, Events
  <2>2. ASSUME NEW u \in Users, NEW a \in Amounts, Mint(u, a) PROVE TypeOK'
    BY <2>2 DEF Mint, TypeOK, accounting, withdrawals
  <2>3. ASSUME NEW u \in Users, NEW a \in Amounts, TransferDirectly(u, a) PROVE TypeOK'
    BY <2>3, TransferEffect DEF TransferDirectly, TypeOK, accounting, withdrawals
  <2>4. ASSUME NEW u \in Users, NEW a \in Amounts, Deposit(u, a) PROVE TypeOK'
    <3>1. tokens' \in [Accounts -> Nat] BY <2>4, TransferEffect DEF Deposit
    <3>2. receipt' \in Seq(Events) BY <2>1, <2>4 DEF Deposit, EventNames
    <3>3. a \in Nat OBVIOUS
    <3>4. balances' \in [Users -> Nat] BY <2>4, <3>3 DEF Deposit, TypeOK
    <3>5. totalLiabilities' \in Nat BY <2>4, <3>3 DEF Deposit, TypeOK
    <3> QED BY <2>4, <3>1, <3>2, <3>4, <3>5 DEF Deposit, TypeOK, withdrawals
  <2>5. ASSUME NEW u \in Users, NEW a \in Amounts, FundInsurance(u, a) PROVE TypeOK'
    <3>1. tokens' \in [Accounts -> Nat] BY <2>5, TransferEffect DEF FundInsurance
    <3>2. receipt' \in Seq(Events) BY <2>1, <2>5 DEF FundInsurance, EventNames
    <3>3. a \in Nat OBVIOUS
    <3> QED BY <2>5, <3>1, <3>2, <3>3 DEF FundInsurance, TypeOK, withdrawals
  <2>6. ASSUME NEW u \in Users, NEW a \in Amounts, RecordWithdrawRequest(u, a) PROVE TypeOK'
    BY <2>1, <2>6 DEF RecordWithdrawRequest, TypeOK, EventNames, accounting
  <2>7. ASSUME NEW u \in Users, NEW a \in Amounts, WithdrawApproved(u, a) PROVE TypeOK'
    <3>1. tokens' \in [Accounts -> Nat] BY <2>7, TransferEffect DEF WithdrawApproved
    <3>2. receipt' \in Seq(Events) BY <2>1, <2>7 DEF WithdrawApproved, EventNames
    <3>3. a \in Nat OBVIOUS
    <3>4. balances' \in [Users -> Nat] /\ approvedWithdrawals' \in [Users -> Nat]
      BY <2>7, <3>3 DEF WithdrawApproved, TypeOK
    <3>5. totalLiabilities' \in Nat BY <2>7, <3>3 DEF WithdrawApproved, TypeOK
    <3> QED BY <2>7, <3>1, <3>2, <3>4, <3>5 DEF WithdrawApproved, TypeOK
  <2>8. ASSUME NEW o, NEW u \in Users, NEW a \in Amounts, ApproveWithdraw(o, u, a) PROVE TypeOK'
    BY <2>1, <2>8 DEF ApproveWithdraw, TypeOK, EventNames, accounting
  <2>9. ASSUME NEW o, NEW u \in Users, NEW d \in Deltas, NEW id \in SettlementIds,
               Settle(o, u, d, id) \/ SettlePnl(o, u, d, id)
        PROVE  TypeOK'
    <3>1. ApplySettlement(u, d, id) BY <2>9 DEF Settle, SettlePnl
    <3>2. receipt' \in Seq(Events)
      <4>1. balances'[u] \in Nat /\ d \in Int BY <3>1, SettlementEffect
      <4> QED BY <2>9, <4>1, SettlementLogsType DEF Settle, SettlePnl
    <3>3. /\ tokens' = tokens /\ operator' = operator /\ donated' = donated
          /\ usedSettlements' = usedSettlements \union {id}
          /\ UNCHANGED <<pendingWithdrawals, approvedWithdrawals>>
          /\ insuranceBalance' \in Nat /\ totalLiabilities' \in Nat /\ balances' \in [Users -> Nat]
      BY <3>1, SettlementEffect DEF withdrawals
    <3> QED BY <3>2, <3>3 DEF TypeOK
  <2>10. ASSUME NEW o \in Operators, SetOperator(o) PROVE TypeOK'
    BY <2>10 DEF SetOperator, TypeOK, accounting, withdrawals
  <2>11. CASE UNCHANGED vars
    BY <2>11 DEF TypeOK, vars
  <2> QED
    BY <2>2, <2>3, <2>4, <2>5, <2>6, <2>7, <2>8, <2>9, <2>10, <2>11
    DEF Next, TokenStep, UserStep, OperatorStep, OwnerStep, RequestWithdraw, RequestWithdrawFor
<1> QED BY <1>1

\* Every storage slot keeps its type: no subtraction of the contract goes below
\* zero, whatever the order of the calls.
THEOREM TypeCorrect == Spec => []TypeOK
<1>1. Init => TypeOK
  BY DEF Init, TypeOK
<1> QED BY <1>1, TypeStep, PTL DEF Spec
-----------------------------------------------------------------------------
\* A change of one balance changes the sum of the balances by the same amount.
LEMMA BalanceSum ==
  ASSUME TypeOK, NEW u \in Users, NEW d \in Int,
         balances' = [balances EXCEPT ![u] = balances[u] + d]
  PROVE  SumOver(Users, balances') = SumOver(Users, balances) + d
<1>1. balances \in [Users -> Int] /\ balances[u] + d \in Int /\ balances[u] \in Int
  BY DEF TypeOK
<1>2. SumOver(Users, balances) \in Int BY <1>1, SumType
<1>3. SumOver(Users, [balances EXCEPT ![u] = balances[u] + d])
        = SumOver(Users, balances) + (balances[u] + d) - balances[u]
  <2>1. IsFiniteSet(Users) OBVIOUS
  <2>2. \A v \in Int : SumOver(Users, [balances EXCEPT ![u] = v])
                         = SumOver(Users, balances) + v - balances[u]
    BY <1>1, <2>1, SumUpdate
  <2> QED BY <1>1, <2>2
<1> QED BY <1>1, <1>2, <1>3

\* totalLiabilities is the sum of the user balances in every reachable state.
THEOREM LiabilitiesTheorem == Spec => []LiabilitiesMatchBalances
<1>1. Init => LiabilitiesMatchBalances
  BY SumOfZeros DEF Init, LiabilitiesMatchBalances
<1>2. TypeOK /\ LiabilitiesMatchBalances /\ [Next]_vars => LiabilitiesMatchBalances'
  <2> SUFFICES ASSUME TypeOK, LiabilitiesMatchBalances, [Next]_vars
               PROVE  totalLiabilities' = SumOver(Users, balances')
    BY DEF LiabilitiesMatchBalances
  <2>1. totalLiabilities \in Int /\ totalLiabilities = SumOver(Users, balances)
    BY DEF TypeOK, LiabilitiesMatchBalances
  <2>2. CASE UNCHANGED <<totalLiabilities, balances>>
    BY <2>1, <2>2
  <2>3. ASSUME NEW u \in Users, NEW d \in Int,
               balances' = [balances EXCEPT ![u] = balances[u] + d],
               totalLiabilities' = totalLiabilities + d
        PROVE  totalLiabilities' = SumOver(Users, balances')
    BY <2>1, <2>3, BalanceSum
  <2>4. ASSUME NEW u \in Users, NEW a \in Amounts, Deposit(u, a)
        PROVE  totalLiabilities' = SumOver(Users, balances')
    <3>1. a \in Int OBVIOUS
    <3> QED BY <2>3, <2>4, <3>1 DEF Deposit
  <2>5. ASSUME NEW u \in Users, NEW a \in Amounts, WithdrawApproved(u, a)
        PROVE  totalLiabilities' = SumOver(Users, balances')
    <3>1. -a \in Int /\ balances[u] - a = balances[u] + (-a)
          /\ totalLiabilities - a = totalLiabilities + (-a)
      BY <2>1 DEF TypeOK
    <3>2. balances' = [balances EXCEPT ![u] = balances[u] + (-a)]
          /\ totalLiabilities' = totalLiabilities + (-a)
      BY <2>5, <3>1 DEF WithdrawApproved
    <3> QED BY <2>3, <3>1, <3>2
  <2>6. ASSUME NEW o, NEW u \in Users, NEW d \in Deltas, NEW id \in SettlementIds,
               Settle(o, u, d, id) \/ SettlePnl(o, u, d, id)
        PROVE  totalLiabilities' = SumOver(Users, balances')
    <3>1. ApplySettlement(u, d, id) /\ d \in Int BY <2>6 DEF Settle, SettlePnl
    <3> QED BY <3>1, <2>3, SettlementEffect
  <2>7. ASSUME NEW u \in Users, NEW a \in Amounts,
               Mint(u, a) \/ TransferDirectly(u, a) \/ FundInsurance(u, a)
               \/ RecordWithdrawRequest(u, a) \/ \E o \in Operators : ApproveWithdraw(o, u, a)
        PROVE  UNCHANGED <<totalLiabilities, balances>>
    BY <2>7 DEF Mint, TransferDirectly, FundInsurance, RecordWithdrawRequest,
                ApproveWithdraw, accounting
  <2>8. ASSUME NEW o \in Operators, SetOperator(o)
        PROVE  UNCHANGED <<totalLiabilities, balances>>
    BY <2>8 DEF SetOperator, accounting
  <2>9. CASE UNCHANGED vars
    BY <2>2, <2>9 DEF vars
  <2> QED
    BY <2>2, <2>4, <2>5, <2>6, <2>7, <2>8, <2>9
    DEF Next, TokenStep, UserStep, OperatorStep, OwnerStep, RequestWithdraw, RequestWithdrawFor
<1> QED BY <1>1, <1>2, TypeCorrect, PTL DEF Spec

\* The vault holds exactly its books plus what was sent to it directly.
THEOREM BackingTheorem == Spec => []BackingIsExact
<1>1. Init => BackingIsExact
  BY DEF Init, BackingIsExact
<1>2. TypeOK /\ BackingIsExact /\ [Next]_vars => BackingIsExact'
  <2> SUFFICES ASSUME TypeOK, BackingIsExact, [Next]_vars PROVE BackingIsExact' OBVIOUS
  <2>1. tokens[VaultAddress] \in Nat /\ totalLiabilities \in Nat
        /\ insuranceBalance \in Nat /\ donated \in Nat
        /\ tokens[VaultAddress] = totalLiabilities + insuranceBalance + donated
    BY DEF TypeOK, BackingIsExact
  <2> USE DEF BackingIsExact
  <2>2. ASSUME NEW u \in Users, NEW a \in Amounts, Mint(u, a) PROVE BackingIsExact'
    <3>1. tokens'[VaultAddress] = tokens[VaultAddress] BY <2>2 DEF Mint, TypeOK
    <3> QED BY <2>1, <2>2, <3>1 DEF Mint, accounting
  <2>3. ASSUME NEW u \in Users, NEW a \in Amounts, TransferDirectly(u, a) PROVE BackingIsExact'
    BY <2>1, <2>3, TransferEffect DEF TransferDirectly, accounting
  <2>4. ASSUME NEW u \in Users, NEW a \in Amounts, Deposit(u, a) PROVE BackingIsExact'
    BY <2>1, <2>4, TransferEffect DEF Deposit
  <2>5. ASSUME NEW u \in Users, NEW a \in Amounts, FundInsurance(u, a) PROVE BackingIsExact'
    BY <2>1, <2>5, TransferEffect DEF FundInsurance
  <2>6. ASSUME NEW u \in Users, NEW a \in Amounts, WithdrawApproved(u, a) PROVE BackingIsExact'
    BY <2>1, <2>6, TransferEffect DEF WithdrawApproved
  <2>7. ASSUME NEW o, NEW u \in Users, NEW d \in Deltas, NEW id \in SettlementIds,
               Settle(o, u, d, id) \/ SettlePnl(o, u, d, id)
        PROVE  BackingIsExact'
    <3>1. ApplySettlement(u, d, id) /\ d \in Int BY <2>7 DEF Settle, SettlePnl
    <3> QED BY <2>1, <3>1, SettlementEffect
  <2>8. ASSUME NEW u \in Users, NEW a \in Amounts,
               RecordWithdrawRequest(u, a) \/ \E o \in Operators : ApproveWithdraw(o, u, a)
        PROVE  BackingIsExact'
    BY <2>1, <2>8 DEF RecordWithdrawRequest, ApproveWithdraw, accounting
  <2>9. ASSUME NEW o \in Operators, SetOperator(o) PROVE BackingIsExact'
    BY <2>1, <2>9 DEF SetOperator, accounting
  <2>10. CASE UNCHANGED vars
    BY <2>1, <2>10 DEF vars
  <2> QED
    BY <2>2, <2>3, <2>4, <2>5, <2>6, <2>7, <2>8, <2>9, <2>10
    DEF Next, TokenStep, UserStep, OperatorStep, OwnerStep, RequestWithdraw, RequestWithdrawFor
<1> QED BY <1>1, <1>2, TypeCorrect, PTL DEF Spec

\* An approved and covered amount can be paid in every reachable state.
THEOREM PayableTheorem == Spec => []ApprovedFundsArePayable
<1>1. TypeOK /\ LiabilitiesMatchBalances /\ BackingIsExact => ApprovedFundsArePayable
  <2> SUFFICES ASSUME TypeOK, LiabilitiesMatchBalances, BackingIsExact,
                      NEW u \in Users, NEW a \in Amounts, a <= balances[u]
               PROVE  /\ a <= totalLiabilities
                      /\ a <= tokens[VaultAddress]
                      /\ (totalLiabilities - a) + insuranceBalance <= tokens[VaultAddress] - a
    BY DEF ApprovedFundsArePayable
  <2>1. balances[u] <= totalLiabilities
    BY SumBoundsMembers DEF TypeOK, LiabilitiesMatchBalances
  <2> QED BY <2>1 DEF TypeOK, BackingIsExact
<1> QED BY <1>1, TypeCorrect, LiabilitiesTheorem, BackingTheorem, PTL
-----------------------------------------------------------------------------
\* Only a losing settlement of the same user takes the cover away from open
\* withdrawal requests and approvals.
THEOREM CoverageTheorem == Spec => CoverageLostOnlyByLoss
<1> DEFINE LossOf(u) == \E i \in DOMAIN receipt' :
             /\ receipt'[i].name = "SettlementApplied"
             /\ receipt'[i].user = u
             /\ receipt'[i].amount < 0
           Keeps == \A u \in Users : ReservationsCovered(u) /\ ~ ReservationsCovered(u)' => LossOf(u)
<1>1. TypeOK /\ [Next]_vars => [Keeps]_vars
  <2> SUFFICES ASSUME TypeOK, Next PROVE Keeps
    BY DEF vars
  <2> SUFFICES ASSUME NEW u \in Users, ReservationsCovered(u), ~ LossOf(u)
               PROVE  ReservationsCovered(u)'
    OBVIOUS
  <2>1. /\ balances[u] \in Nat /\ pendingWithdrawals[u] \in Nat /\ approvedWithdrawals[u] \in Nat
        /\ pendingWithdrawals[u] + approvedWithdrawals[u] <= balances[u]
    BY DEF TypeOK, ReservationsCovered
  <2>2. ASSUME \E d \in Nat : /\ balances'[u] = balances[u] + d
                               /\ UNCHANGED withdrawals
        PROVE  ReservationsCovered(u)'
    BY <2>1, <2>2 DEF ReservationsCovered, withdrawals
  <2>3. ASSUME UNCHANGED <<balances, withdrawals>> PROVE ReservationsCovered(u)'
    BY <2>1, <2>3 DEF ReservationsCovered, withdrawals
  <2>4. ASSUME NEW v \in Users, NEW a \in Amounts, Deposit(v, a) PROVE ReservationsCovered(u)'
    <3>1. balances'[u] = balances[u] + (IF u = v THEN a ELSE 0) BY <2>1, <2>4 DEF Deposit, TypeOK
    <3> QED BY <2>2, <2>4, <3>1 DEF Deposit
  <2>5. ASSUME NEW v \in Users, NEW a \in Amounts, RecordWithdrawRequest(v, a)
        PROVE  ReservationsCovered(u)'
    <3>1. a \in Nat OBVIOUS
    <3>2. CASE u = v
      <4>1. pendingWithdrawals'[u] = pendingWithdrawals[u] + a
            /\ UNCHANGED <<balances, approvedWithdrawals>>
        BY <2>5, <3>2 DEF RecordWithdrawRequest, accounting, TypeOK
      <4>2. pendingWithdrawals[u] + approvedWithdrawals[u] + a <= balances[u]
        BY <2>1, <2>5, <3>1, <3>2 DEF RecordWithdrawRequest, Excess
      <4> QED BY <2>1, <3>1, <4>1, <4>2 DEF ReservationsCovered
    <3>3. CASE u # v
      <4>1. pendingWithdrawals'[u] = pendingWithdrawals[u] /\ UNCHANGED <<balances, approvedWithdrawals>>
        BY <2>5, <3>3 DEF RecordWithdrawRequest, accounting, TypeOK
      <4> QED BY <2>1, <4>1 DEF ReservationsCovered
    <3> QED BY <3>2, <3>3
  <2>6. ASSUME NEW o, NEW v \in Users, NEW a \in Amounts, ApproveWithdraw(o, v, a)
        PROVE  ReservationsCovered(u)'
    <3> DEFINE x == IF u = v THEN a ELSE 0
    <3>1. /\ pendingWithdrawals'[u] = pendingWithdrawals[u] - x
          /\ approvedWithdrawals'[u] = approvedWithdrawals[u] + x
          /\ UNCHANGED balances
      BY <2>1, <2>6 DEF ApproveWithdraw, TypeOK, accounting
    <3>2. x \in Nat OBVIOUS
    <3> HIDE DEF x
    <3> QED BY <2>1, <3>1, <3>2 DEF ReservationsCovered
  <2>7. ASSUME NEW v \in Users, NEW a \in Amounts, WithdrawApproved(v, a)
        PROVE  ReservationsCovered(u)'
    <3> DEFINE x == IF u = v THEN a ELSE 0
    <3>1. /\ balances'[u] = balances[u] - x
          /\ approvedWithdrawals'[u] = approvedWithdrawals[u] - x
          /\ UNCHANGED pendingWithdrawals
      BY <2>1, <2>7 DEF WithdrawApproved, TypeOK
    <3>2. x \in Nat OBVIOUS
    <3> HIDE DEF x
    <3> QED BY <2>1, <3>1, <3>2 DEF ReservationsCovered
  <2>8. ASSUME NEW o, NEW v \in Users, NEW d \in Deltas, NEW id \in SettlementIds,
               Settle(o, v, d, id) \/ SettlePnl(o, v, d, id)
        PROVE  ReservationsCovered(u)'
    <3>1. ApplySettlement(v, d, id) /\ d \in Int BY <2>8 DEF Settle, SettlePnl
    <3>2. /\ UNCHANGED withdrawals
          /\ balances'[u] = balances[u] + (IF u = v THEN d ELSE 0)
      <4>1. /\ UNCHANGED <<tokens, operator, withdrawals, donated>>
            /\ balances' = [balances EXCEPT ![v] = balances[v] + d]
        BY <3>1, SettlementEffect
      <4> QED BY <2>1, <3>1, <4>1 DEF TypeOK
    <3>3. CASE u # v \/ d >= 0
      <4>1. \E x \in Nat : balances'[u] = balances[u] + x
        BY <2>1, <3>1, <3>2, <3>3
      <4> QED BY <2>2, <3>2, <4>1
    <3>4. CASE u = v /\ d < 0
      <4> DEFINE applied == SettlementEvent("SettlementApplied", v, d, balances'[v], id)
      <4>1. receipt'[1] = applied /\ 1 \in DOMAIN receipt'
        <5>1. InsuranceLog(v, d) = <<>> BY <3>1, <3>4 DEF InsuranceLog
        <5>2. receipt' = <<>> \o <<applied>> \/
              receipt' = <<>> \o <<applied, SettlementEvent("PnlSettled", v, d, balances'[v], id)>>
          BY <2>8, <5>1 DEF Settle, SettlePnl
        <5> HIDE DEF applied
        <5> QED BY <5>2
      <4>2. applied.name = "SettlementApplied" /\ applied.user = u /\ applied.amount < 0
        BY <3>4 DEF SettlementEvent
      <4> QED BY <4>1, <4>2
    <3> QED BY <3>1, <3>3, <3>4
  <2>9. ASSUME NEW v \in Users, NEW a \in Amounts,
               Mint(v, a) \/ TransferDirectly(v, a) \/ FundInsurance(v, a)
        PROVE  ReservationsCovered(u)'
    BY <2>3, <2>9 DEF Mint, TransferDirectly, FundInsurance, accounting
  <2>10. ASSUME NEW o \in Operators, SetOperator(o) PROVE ReservationsCovered(u)'
    BY <2>3, <2>10 DEF SetOperator, accounting
  <2> QED
    BY <2>4, <2>5, <2>6, <2>7, <2>8, <2>9, <2>10
    DEF Next, TokenStep, UserStep, OperatorStep, OwnerStep, RequestWithdraw, RequestWithdrawFor
<1>2. QED BY <1>1, TypeCorrect, PTL DEF Spec, CoverageLostOnlyByLoss

-----------------------------------------------------------------------------
(* What a transaction's logs tell. *)

\* A transaction that leaves the users' books alone.
Quiet ==
  /\ UNCHANGED <<balances, withdrawals, usedSettlements>>
  /\ receipt' = <<>> \/ \E u \in Users, a \in Amounts : receipt' = <<Event("InsuranceFunded", u, a)>>

\* A transaction of one log that adds to the books of one user.
Moves(name, user, amount, toBalance, toPending, toApproved) ==
  /\ receipt' = <<Event(name, user, amount)>>
  /\ balances' = [balances EXCEPT ![user] = balances[user] + toBalance]
  /\ pendingWithdrawals' = [pendingWithdrawals EXCEPT ![user] = pendingWithdrawals[user] + toPending]
  /\ approvedWithdrawals' = [approvedWithdrawals EXCEPT ![user] = approvedWithdrawals[user] + toApproved]
  /\ UNCHANGED usedSettlements

MovesBooks(user, amount) ==
  \/ Moves("Deposited", user, amount, amount, 0, 0)
  \/ Moves("WithdrawRequested", user, amount, 0, amount, 0)
  \/ Moves("WithdrawApproved", user, amount, 0, -amount, amount)
  \/ Moves("Withdrawn", user, amount, -amount, 0, -amount)

\* A settlement: the log of the insurance if there is one, the settlement's, and
\* the legacy one if the alias was called.
Applied(user, delta, id) == SettlementEvent("SettlementApplied", user, delta, balances'[user], id)

Legacy(user, delta, id) == SettlementEvent("PnlSettled", user, delta, balances'[user], id)

Settles(user, delta, id) ==
  /\ id \notin usedSettlements /\ usedSettlements' = usedSettlements \union {id}
  /\ balances' = [balances EXCEPT ![user] = balances[user] + delta]
  /\ UNCHANGED withdrawals
  /\ LET insurance == Event("InsuranceUsed", user, delta)
         applied == Applied(user, delta, id)
         legacy == Legacy(user, delta, id)
     IN  \/ receipt' = <<applied>> \/ receipt' = <<applied, legacy>>
         \/ receipt' = <<insurance, applied>> \/ receipt' = <<insurance, applied, legacy>>

LEMMA LogsJoined ==
  ASSUME NEW x, NEW y, NEW z
  PROVE  /\ <<>> \o <<y>> = <<y>> /\ <<>> \o <<y, z>> = <<y, z>>
         /\ <<x>> \o <<y>> = <<x, y>> /\ <<x>> \o <<y, z>> = <<x, y, z>>
<1> DEFINE S == {x, y, z}
<1>1. <<>> \in Seq(S) /\ <<x>> \in Seq(S) /\ <<y>> \in Seq(S) /\ <<y, z>> \in Seq(S)
      /\ <<x, y>> \in Seq(S) /\ <<x, y, z>> \in Seq(S)
  OBVIOUS
<1> HIDE DEF S
<1>2. <<>> \o <<y>> = <<y>> /\ <<>> \o <<y, z>> = <<y, z>>
  BY <1>1
<1>3. <<x>> \o <<y>> = <<x, y>>
  <2> DEFINE joined == <<x>> \o <<y>>
  <2>1. joined \in Seq(S) /\ Len(joined) = 2 /\ joined[1] = x /\ joined[2] = y
    BY <1>1, ConcatProperties
  <2> HIDE DEF joined
  <2>2. \A i \in 1..Len(joined) : joined[i] = <<x, y>>[i]
    BY <2>1
  <2>3. joined = <<x, y>>
    BY <1>1, <2>1, <2>2, SeqEqual
  <2> QED
    BY <2>3 DEF joined
<1>4. <<x>> \o <<y, z>> = <<x, y, z>>
  <2> DEFINE joined == <<x>> \o <<y, z>>
  <2>1. joined \in Seq(S) /\ Len(joined) = 3 /\ joined[1] = x /\ joined[2] = y /\ joined[3] = z
    BY <1>1, ConcatProperties
  <2> HIDE DEF joined
  <2>2. \A i \in 1..Len(joined) : joined[i] = <<x, y, z>>[i]
    BY <2>1
  <2>3. joined = <<x, y, z>>
    BY <1>1, <2>1, <2>2, SeqEqual
  <2> QED
    BY <2>3 DEF joined
<1> QED
  BY <1>2, <1>3, <1>4

\* Every transaction has one of these shapes.
LEMMA TransactionShape ==
  ASSUME TypeOK, Next
  PROVE  \/ Quiet
         \/ \E u \in Users, a \in Amounts : MovesBooks(u, a)
         \/ \E u \in Users, d \in Deltas, id \in SettlementIds : Settles(u, d, id)
<1>1. /\ balances \in [Users -> Nat]
      /\ pendingWithdrawals \in [Users -> Nat] /\ approvedWithdrawals \in [Users -> Nat]
  BY DEF TypeOK
<1>2. ASSUME NEW u \in Users, NEW a \in Amounts,
             Mint(u, a) \/ TransferDirectly(u, a) \/ FundInsurance(u, a)
      PROVE  Quiet
  BY <1>2 DEF Mint, TransferDirectly, FundInsurance, Quiet, accounting
<1>3. ASSUME NEW o \in Operators, SetOperator(o)
      PROVE  Quiet
  BY <1>3 DEF SetOperator, Quiet, accounting
<1>4. ASSUME NEW u \in Users, NEW a \in Amounts,
             Deposit(u, a) \/ RecordWithdrawRequest(u, a)
             \/ (\E o \in Operators : ApproveWithdraw(o, u, a)) \/ WithdrawApproved(u, a)
      PROVE  MovesBooks(u, a)
  <2>1. /\ a \in Nat /\ -a \in Int
        /\ balances[u] \in Nat /\ pendingWithdrawals[u] \in Nat /\ approvedWithdrawals[u] \in Nat
    BY <1>1
  <2>2. /\ \A x \in Nat : x + 0 = x /\ x - a = x + (-a)
        /\ [balances EXCEPT ![u] = balances[u]] = balances
        /\ [pendingWithdrawals EXCEPT ![u] = pendingWithdrawals[u]] = pendingWithdrawals
        /\ [approvedWithdrawals EXCEPT ![u] = approvedWithdrawals[u]] = approvedWithdrawals
    BY <1>1, <2>1
  <2>3. CASE Deposit(u, a)
    BY <2>1, <2>2, <2>3 DEF Deposit, MovesBooks, Moves, withdrawals
  <2>4. CASE RecordWithdrawRequest(u, a)
    BY <2>1, <2>2, <2>4 DEF RecordWithdrawRequest, MovesBooks, Moves, accounting
  <2>5. CASE \E o \in Operators : ApproveWithdraw(o, u, a)
    BY <2>1, <2>2, <2>5 DEF ApproveWithdraw, MovesBooks, Moves, accounting
  <2>6. CASE WithdrawApproved(u, a)
    BY <2>1, <2>2, <2>6 DEF WithdrawApproved, MovesBooks, Moves
  <2> QED
    BY <1>4, <2>3, <2>4, <2>5, <2>6
<1>5. ASSUME NEW o, NEW u \in Users, NEW d \in Deltas, NEW id \in SettlementIds,
             Settle(o, u, d, id) \/ SettlePnl(o, u, d, id)
      PROVE  Settles(u, d, id)
  <2> DEFINE insurance == Event("InsuranceUsed", u, d)
             applied == Applied(u, d, id)
             legacy == Legacy(u, d, id)
  <2>1. ApplySettlement(u, d, id)
    BY <1>5 DEF Settle, SettlePnl
  <2>2. InsuranceLog(u, d) = <<>> \/ InsuranceLog(u, d) = <<insurance>>
    BY DEF InsuranceLog
  <2>3. receipt' = InsuranceLog(u, d) \o <<applied>> \/ receipt' = InsuranceLog(u, d) \o <<applied, legacy>>
    BY <1>5 DEF Settle, SettlePnl, Applied, Legacy
  <2> HIDE DEF insurance, applied, legacy
  <2>4. /\ <<>> \o <<applied>> = <<applied>> /\ <<>> \o <<applied, legacy>> = <<applied, legacy>>
        /\ <<insurance>> \o <<applied>> = <<insurance, applied>>
        /\ <<insurance>> \o <<applied, legacy>> = <<insurance, applied, legacy>>
    BY LogsJoined
  <2>5. \/ receipt' = <<applied>> \/ receipt' = <<applied, legacy>>
        \/ receipt' = <<insurance, applied>> \/ receipt' = <<insurance, applied, legacy>>
    BY <2>2, <2>3, <2>4, Zenon
  <2> QED
    BY <2>1, <2>5, SettlementEffect DEF Settles, insurance, applied, legacy
<1> QED
  BY <1>2, <1>3, <1>4, <1>5
  DEF Next, TokenStep, UserStep, OperatorStep, OwnerStep, RequestWithdraw, RequestWithdrawFor

\* The effects of one log are amounts, and what a sequence of logs adds up to if
\* at most one of them has an effect.
Effects(log, u) == <<BalanceEffect(log, u), PendingEffect(log, u), ApprovedEffect(log, u)>>

Totals(logs, u) ==
  <<SumOver(DOMAIN logs, [i \in DOMAIN logs |-> BalanceEffect(logs[i], u)]),
    SumOver(DOMAIN logs, [i \in DOMAIN logs |-> PendingEffect(logs[i], u)]),
    SumOver(DOMAIN logs, [i \in DOMAIN logs |-> ApprovedEffect(logs[i], u)])>>

LEMMA EffectType ==
  ASSUME NEW log \in Events, NEW u
  PROVE  BalanceEffect(log, u) \in Int /\ PendingEffect(log, u) \in Int /\ ApprovedEffect(log, u) \in Int
<1>1. log.amount \in Int
  BY DEF Events
<1> QED
  BY <1>1 DEF BalanceEffect, PendingEffect, ApprovedEffect

LEMMA OneLogCounts ==
  ASSUME NEW logs \in Seq(Events), NEW u, NEW i \in DOMAIN logs,
         \A j \in DOMAIN logs \ {i} : Effects(logs[j], u) = <<0, 0, 0>>
  PROVE  Totals(logs, u) = Effects(logs[i], u)
<1> DEFINE S == DOMAIN logs
           f == [j \in S |-> BalanceEffect(logs[j], u)]
           g == [j \in S |-> PendingEffect(logs[j], u)]
           h == [j \in S |-> ApprovedEffect(logs[j], u)]
<1>1. IsFiniteSet(S)
  BY FS_Interval
<1>2. \A j \in S : logs[j] \in Events
  OBVIOUS
<1>3. f \in [S -> Int] /\ g \in [S -> Int] /\ h \in [S -> Int]
  BY <1>2, EffectType
<1>4. \A j \in S \ {i} : f[j] = 0 /\ g[j] = 0 /\ h[j] = 0
  BY DEF Effects
<1>5. /\ f[i] = BalanceEffect(logs[i], u) /\ g[i] = PendingEffect(logs[i], u)
      /\ h[i] = ApprovedEffect(logs[i], u)
  OBVIOUS
<1>6. Totals(logs, u) = <<SumOver(S, f), SumOver(S, g), SumOver(S, h)>>
  BY DEF Totals
<1>7. i \in S
  OBVIOUS
<1> HIDE DEF S, f, g, h
<1>8. SumOver(S, f) = f[i] /\ SumOver(S, g) = g[i] /\ SumOver(S, h) = h[i]
  BY <1>1, <1>3, <1>4, <1>7, SumOfOne
<1> QED
  BY <1>5, <1>6, <1>8 DEF Effects

LEMMA NoLogCounts ==
  ASSUME NEW logs \in Seq(Events), NEW u,
         \A j \in DOMAIN logs : Effects(logs[j], u) = <<0, 0, 0>>
  PROVE  Totals(logs, u) = <<0, 0, 0>>
<1>1. CASE logs = <<>>
  <2>1. IsFiniteSet(DOMAIN logs)
    BY <1>1, FS_EmptySet
  <2>2. Totals(logs, u) = <<SumOver(DOMAIN logs, [j \in DOMAIN logs |-> 0]),
                            SumOver(DOMAIN logs, [j \in DOMAIN logs |-> 0]),
                            SumOver(DOMAIN logs, [j \in DOMAIN logs |-> 0])>>
    BY <1>1 DEF Totals
  <2>3. SumOver(DOMAIN logs, [j \in DOMAIN logs |-> 0]) = 0
    BY <2>1, SumOfZeros
  <2> QED
    BY <2>2, <2>3
<1>2. CASE logs # <<>>
  <2>1. 1 \in DOMAIN logs
    BY <1>2
  <2> QED
    BY <2>1, OneLogCounts
<1> QED
  BY <1>1, <1>2

\* Replaying a transaction's logs reproduces its effect on every user's balance,
\* pending and approved amounts, and a settlement's logs carry the new balance.
THEOREM LogsTheorem == Spec => LogsExplainTransaction
<1> DEFINE Change(u) == <<balances'[u] - balances[u],
                          pendingWithdrawals'[u] - pendingWithdrawals[u],
                          approvedWithdrawals'[u] - approvedWithdrawals[u]>>
           Carried(u) == \A i \in DOMAIN receipt' :
             receipt'[i].user = u /\ receipt'[i].settlementId # NoId
               => receipt'[i].newBalance = balances'[u]
           Explained == \A u \in Users : Change(u) = Totals(receipt', u) /\ Carried(u)
<1>1. TypeOK /\ [Next]_vars => [Explained]_vars
  <2> SUFFICES ASSUME TypeOK, Next, NEW u \in Users
               PROVE  Change(u) = Totals(receipt', u) /\ Carried(u)
    BY DEF vars
  <2>1. /\ balances \in [Users -> Nat]
        /\ pendingWithdrawals \in [Users -> Nat] /\ approvedWithdrawals \in [Users -> Nat]
    BY DEF TypeOK
  <2>2. receipt' \in Seq(Events)
    BY TypeStep DEF TypeOK
  <2>3. balances[u] \in Nat /\ pendingWithdrawals[u] \in Nat /\ approvedWithdrawals[u] \in Nat
    BY <2>1
  <2>4. CASE Quiet
    <3>1. Change(u) = <<0, 0, 0>>
      BY <2>3, <2>4 DEF Quiet, withdrawals
    <3>2. \A j \in DOMAIN receipt' :
            /\ Effects(receipt'[j], u) = <<0, 0, 0>> /\ receipt'[j].settlementId = NoId
      BY <2>4 DEF Quiet, Event, Effects, BalanceEffect, PendingEffect, ApprovedEffect
    <3> QED
      BY <2>2, <3>1, <3>2, NoLogCounts
  <2>5. ASSUME NEW v \in Users, NEW a \in Amounts, MovesBooks(v, a)
        PROVE  Change(u) = Totals(receipt', u) /\ Carried(u)
    <3>1. a \in Nat
      OBVIOUS
    <3>2. DOMAIN receipt' = {1} /\ receipt'[1].settlementId = NoId
      BY <2>5 DEF MovesBooks, Moves, Event
    <3>3. Change(u) = Effects(receipt'[1], u)
      BY <2>1, <2>3, <2>5, <3>1
      DEF MovesBooks, Moves, Event, Effects, BalanceEffect, PendingEffect, ApprovedEffect
    <3>4. Totals(receipt', u) = Effects(receipt'[1], u)
      BY <2>2, <3>2, OneLogCounts
    <3> QED
      BY <3>2, <3>3, <3>4
  <2>6. ASSUME NEW v \in Users, NEW d \in Deltas, NEW id \in SettlementIds, Settles(v, d, id)
        PROVE  Change(u) = Totals(receipt', u) /\ Carried(u)
    <3> DEFINE insurance == Event("InsuranceUsed", v, d)
               applied == Applied(v, d, id)
               legacy == Legacy(v, d, id)
    <3>1. d \in Int
      OBVIOUS
    <3>2. Change(u) = Effects(applied, u)
      BY <2>1, <2>3, <2>6, <3>1
      DEF Settles, Applied, SettlementEvent, withdrawals, Effects, BalanceEffect, PendingEffect, ApprovedEffect
    <3>3. /\ Effects(insurance, u) = <<0, 0, 0>> /\ Effects(legacy, u) = <<0, 0, 0>>
          /\ insurance.settlementId = NoId
          /\ applied.user = u => applied.newBalance = balances'[u]
          /\ legacy.user = u => legacy.newBalance = balances'[u]
      BY DEF Applied, Legacy, Event, SettlementEvent, Effects, BalanceEffect, PendingEffect, ApprovedEffect
    <3>4. \/ receipt' = <<applied>> \/ receipt' = <<applied, legacy>>
          \/ receipt' = <<insurance, applied>> \/ receipt' = <<insurance, applied, legacy>>
      BY <2>6 DEF Settles
    <3> HIDE DEF insurance, applied, legacy
    <3>5. PICK i \in DOMAIN receipt' :
            /\ receipt'[i] = applied
            /\ \A j \in DOMAIN receipt' \ {i} : receipt'[j] \in {insurance, legacy}
      <4>1. CASE receipt' = <<applied>> \/ receipt' = <<applied, legacy>>
        BY <4>1
      <4>2. CASE receipt' = <<insurance, applied>> \/ receipt' = <<insurance, applied, legacy>>
        <5>1. 2 \in DOMAIN receipt' /\ receipt'[2] = applied
              /\ \A j \in DOMAIN receipt' \ {2} : receipt'[j] \in {insurance, legacy}
          BY <4>2
        <5> QED
          BY <5>1
      <4> QED
        BY <3>4, <4>1, <4>2
    <3>6. Totals(receipt', u) = Effects(applied, u)
      BY <2>2, <3>3, <3>5, OneLogCounts
    <3>7. Carried(u)
      BY <3>3, <3>5
    <3> QED
      BY <3>2, <3>6, <3>7
  <2> QED
    BY <2>4, <2>5, <2>6, TransactionShape
<1>2. [Explained]_vars => [\A u \in Users :
       LET logs == receipt' IN
       /\ balances'[u] - balances[u] =
            SumOver(DOMAIN logs, [i \in DOMAIN logs |-> BalanceEffect(logs[i], u)])
       /\ pendingWithdrawals'[u] - pendingWithdrawals[u] =
            SumOver(DOMAIN logs, [i \in DOMAIN logs |-> PendingEffect(logs[i], u)])
       /\ approvedWithdrawals'[u] - approvedWithdrawals[u] =
            SumOver(DOMAIN logs, [i \in DOMAIN logs |-> ApprovedEffect(logs[i], u)])
       /\ \A i \in DOMAIN logs :
            logs[i].user = u /\ logs[i].settlementId # NoId
              => logs[i].newBalance = balances'[u]]_vars
  BY DEF Totals
<1> QED BY <1>1, <1>2, TypeCorrect, PTL DEF Spec, LogsExplainTransaction

-----------------------------------------------------------------------------
\* The vault implements its promise: initial states map to initial states, every
\* transaction to one money movement or to none.
THEOREM CustodyTheorem == Spec => ImplementsCustody
<1> DEFINE wallet == [u \in Users |-> tokens[u]]
<1>1. Init => Custody!Init
  BY DEF Init, Custody!Init
<1>2. TypeOK /\ [Next]_vars => [Custody!Next]_(Custody!vars)
  <2> SUFFICES ASSUME TypeOK, [Next]_vars
               PROVE  Custody!Next \/ UNCHANGED Custody!vars
    OBVIOUS
  <2>1. \A u \in Users : tokens[u] \in Nat /\ balances[u] \in Nat /\ approvedWithdrawals[u] \in Nat
    BY DEF TypeOK
  <2>2. ASSUME NEW u \in Users, NEW a \in Amounts, Mint(u, a)
        PROVE  Custody!WalletChanges(u, a)
    <3>1. wallet' = [wallet EXCEPT ![u] = wallet[u] + a] BY <2>2 DEF Mint, TypeOK
    <3>2. tokens[u] + a >= 0
      <4>1. a \in Nat OBVIOUS
      <4> QED BY <2>1, <4>1
    <3> QED BY <2>2, <3>1, <3>2 DEF Mint, accounting, withdrawals, Custody!WalletChanges, Custody!Moved
  <2>3. ASSUME NEW u \in Users, NEW a \in Amounts, TransferFrom(u, a)
        PROVE  tokens[u] >= a /\ wallet' = [wallet EXCEPT ![u] = wallet[u] + (-a)]
    <3>1. \A v \in Users : tokens'[v] = IF v = u THEN tokens[v] + (-a) ELSE tokens[v]
      BY <2>1, <2>3, TransferEffect
    <3> QED BY <2>3, <3>1 DEF TransferFrom
  <2>4. ASSUME NEW u \in Users, NEW a \in Amounts, TransferDirectly(u, a)
        PROVE  Custody!WalletChanges(u, -a)
    <3>1. TransferFrom(u, a) BY <2>4 DEF TransferDirectly
    <3>2. tokens[u] + (-a) >= 0
      <4>1. a \in Nat /\ tokens[u] >= a BY <2>3, <3>1
      <4> QED BY <2>1, <4>1
    <3> QED BY <2>3, <2>4, <3>1, <3>2
         DEF TransferDirectly, accounting, withdrawals, Custody!WalletChanges, Custody!Moved
  <2>5. ASSUME NEW u \in Users, NEW a \in Amounts, Deposit(u, a)
        PROVE  Custody!Deposit(u, a)
    BY <2>3, <2>5 DEF Deposit, withdrawals, Custody!Deposit, Custody!Moved
  <2>6. ASSUME NEW u \in Users, NEW a \in Amounts, FundInsurance(u, a)
        PROVE  Custody!FillPool(u, a)
    BY <2>3, <2>6 DEF FundInsurance, withdrawals, Custody!FillPool, Custody!Moved
  <2>7. ASSUME NEW o, NEW u \in Users, NEW a \in Amounts, ApproveWithdraw(o, u, a)
        PROVE  Custody!Authorise(u, a)
    <3>1. approvedWithdrawals[u] + a <= balances[u]
      <4>1. a \in Nat OBVIOUS
      <4> QED BY <2>1, <2>7, <4>1 DEF ApproveWithdraw, Excess
    <3> QED BY <2>7, <3>1 DEF ApproveWithdraw, accounting, Custody!Authorise, Custody!Moved
  <2>8. ASSUME NEW u \in Users, NEW a \in Amounts, WithdrawApproved(u, a)
        PROVE  Custody!PayOut(u, a)
    <3>1. wallet' = [wallet EXCEPT ![u] = wallet[u] + a]
      <4>1. \A v \in Users : tokens'[v] = IF v = u THEN tokens[v] + a ELSE tokens[v]
        BY <2>1, <2>8, TransferEffect DEF WithdrawApproved
      <4> QED BY <4>1
    <3>2. balances[u] - a = balances[u] + (-a)
          /\ approvedWithdrawals[u] - a = approvedWithdrawals[u] + (-a)
      BY <2>1
    <3>3. a <= approvedWithdrawals[u] /\ a <= balances[u]
      BY <2>1, <2>8 DEF WithdrawApproved
    <3>4. /\ approvedWithdrawals' = [approvedWithdrawals EXCEPT ![u] = approvedWithdrawals[u] + (-a)]
          /\ balances' = [balances EXCEPT ![u] = balances[u] + (-a)]
      BY <2>8, <3>2 DEF WithdrawApproved
    <3> HIDE DEF wallet
    <3> QED BY <2>8, <3>1, <3>3, <3>4 DEF WithdrawApproved, Custody!PayOut, Custody!Moved, wallet
  <2>9. ASSUME NEW o, NEW u \in Users, NEW d \in Deltas, NEW id \in SettlementIds,
               Settle(o, u, d, id) \/ SettlePnl(o, u, d, id)
        PROVE  Custody!Settle(u, d, id)
    <3>1. ApplySettlement(u, d, id) /\ d \in Int BY <2>9 DEF Settle, SettlePnl
    <3>2. d <= insuranceBalance /\ -d <= balances[u]
      BY <2>1, <3>1 DEF ApplySettlement, MoveSettlement, TypeOK
    <3> QED BY <3>1, <3>2, SettlementEffect DEF withdrawals, Custody!Settle, Custody!Settleable, Custody!Moved
  <2>10. ASSUME NEW u \in Users, NEW a \in Amounts, RecordWithdrawRequest(u, a)
         PROVE  UNCHANGED Custody!vars
    BY <2>10 DEF RecordWithdrawRequest, accounting, Custody!vars
  <2>11. ASSUME NEW o \in Operators, SetOperator(o) PROVE UNCHANGED Custody!vars
    BY <2>11 DEF SetOperator, accounting, withdrawals, Custody!vars
  <2>12. CASE UNCHANGED vars
    BY <2>12 DEF vars, Custody!vars
  <2> HIDE DEF wallet
  <2> QED
    BY <2>2, <2>4, <2>5, <2>6, <2>7, <2>8, <2>9, <2>10, <2>11, <2>12
    DEF Next, TokenStep, UserStep, OperatorStep, OwnerStep, RequestWithdraw, RequestWithdrawFor,
        Custody!Next
<1> QED BY <1>1, <1>2, TypeCorrect, PTL DEF Spec, ImplementsCustody, Custody!Spec
=============================================================================
