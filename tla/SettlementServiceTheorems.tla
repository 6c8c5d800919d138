---------------------- MODULE SettlementServiceTheorems ---------------------
(***************************************************************************)
(* What holds of SettlementService for any number of users, requests,      *)
(* intents and apps, any amounts and any ratio of the token's unit to the  *)
(* ledger's last decimal, under every combination of faults;               *)
(* the last three theorems name the faults they exclude.                   *)
(***************************************************************************)
EXTENDS SettlementService, ArithmeticTheorems

\* Changing one request's share changes the sum of the shares by as much.
LEMMA ShareSum ==
  ASSUME NEW f \in [Requests -> Int], NEW r \in Requests, NEW v \in Int
  PROVE  SumOver(Requests, [f EXCEPT ![r] = v]) = SumOver(Requests, f) + v - f[r]
<1>1. IsFiniteSet(Requests) BY ServiceAssumption
<1>2. \A w \in Int : SumOver(Requests, [f EXCEPT ![r] = w]) = SumOver(Requests, f) + w - f[r]
  BY <1>1, SumUpdate
<1> QED BY <1>2

\* What the token does to an amount, and what dropping the dust does to a rest.
LEMMA ConversionError ==
  ASSUME NEW amount \in Int
  PROVE  /\ ToMicroUsdc(amount) \in Int
         /\ FromMicroUsdc(ToMicroUsdc(amount)) \in Int
         /\ 2 * Magnitude(FromMicroUsdc(ToMicroUsdc(amount)) - amount) <= MicroUnit
BY MoneyAssumption, RoundingError, NearestMultiple DEF FromMicroUsdc, ToMicroUsdc

LEMMA FromMicroType ==
  ASSUME NEW micro \in Int
  PROVE  FromMicroUsdc(micro) \in Int
BY MoneyAssumption DEF FromMicroUsdc

LEMMA DustError ==
  ASSUME NEW rest \in Int
  PROVE  /\ DropDust(rest) \in Int
         /\ Magnitude(DropDust(rest) - rest) <= MicroUnit - 1
BY MoneyAssumption DEF DropDust, Magnitude

\* n dusts and one more.
LEMMA DustBound ==
  ASSUME NEW n \in Nat
  PROVE  /\ (MicroUnit - 1) * n \in Int
         /\ (MicroUnit - 1) * (n + 1) = (MicroUnit - 1) * n + (MicroUnit - 1)
<1>1. MicroUnit - 1 \in Int BY MoneyAssumption
<1> QED BY <1>1

USE ServiceAssumption, NoneAssumption

\* A request exists from its first segment on.
RequestsStarted ==
  /\ \A r \in Requests : request[r] = None <=> pc[r] = "unsent"
  /\ \A k \in DOMAIN mempool : request[mempool[k]] # None
  /\ \A r \in Requests : settlements[r].status # "NONE" => request[r] # None

\* A settlement log is the log of a request, with the request's user and its
\* amount rounded to the token.
LogsAreRequests ==
  \A k \in DOMAIN logs : logs[k].name = "SettlementApplied" =>
    LET id == logs[k].id IN
    /\ id \in Requests /\ id \in applied
    /\ request[id] # None
    /\ logs[k].user = request[id].user
    /\ logs[k].amount = ToMicroUsdc(request[id].delta)

\* The inductive invariant.
AccountingInv ==
  /\ TypeOK
  /\ RequestsStarted
  /\ LogsAreRequests
  /\ PnlAccountedOnce
  /\ ConfirmedIsOnChain

-----------------------------------------------------------------------------
\* applyIndexedSettlement on a settlement log, whoever calls it: a confirmed
\* record stays, the log's record becomes confirmed with the log's amount, and
\* the pending P&L and the records stay in balance.
LEMMA ApplyEffect ==
  ASSUME TypeOK, RequestsStarted, LogsAreRequests, PnlAccountedOnce,
         NEW k \in DOMAIN logs, logs[k].name = "SettlementApplied",
         ApplyIndexedSettlement(logs[k]), UNCHANGED <<logs, request, realized>>
  PROVE  /\ collateral' \in [Users -> Int]
         /\ pendingSettlementPnl' \in [Users -> Int]
         /\ settlements' \in [Requests -> SettlementRecords]
         /\ settlementInFlight' \in [Users -> InFlightMarks \union {None}]
         /\ \A r \in Requests \ {logs[k].id} : settlements'[r] = settlements[r]
         /\ \A r \in Requests : Confirmed(r) => settlements'[r] = settlements[r]
         /\ Confirmed(logs[k].id)'
         /\ Confirmed(logs[k].id) \/ settlements'[logs[k].id].delta = FromMicroUsdc(logs[k].amount)
         /\ PnlAccountedOnce'
<1> DEFINE log == logs[k]
           id == logs[k].id
           user == logs[k].user
           amount == FromMicroUsdc(logs[k].amount)
           existing == settlements[id]
           flying == settlementInFlight[user]
           context == IF existing.status # "NONE" THEN existing
                      ELSE IF flying # None THEN flying ELSE NoRecord
<1>1. /\ id \in Requests /\ request[id] # None /\ user = request[id].user
      /\ user \in Users /\ amount \in Int /\ FromMicroUsdc(log.newBalance) \in Int
  <2>1. log \in Logs BY DEF TypeOK
  <2>2. user \in Users /\ log.amount \in Int /\ log.newBalance \in Int BY <2>1 DEF Logs
  <2>3. amount \in Int /\ FromMicroUsdc(log.newBalance) \in Int BY <2>2, FromMicroType
  <2> QED BY <2>2, <2>3 DEF LogsAreRequests
<1>2. settlements \in [Requests -> SettlementRecords] /\ pendingSettlementPnl \in [Users -> Int]
      /\ collateral \in [Users -> Int] /\ settlementInFlight \in [Users -> InFlightMarks \union {None}]
      /\ realized \in [Users -> Int]
  BY DEF TypeOK
<1>3. CASE existing.status = "ONCHAIN_CONFIRMED"
  <2>1. /\ collateral' = collateral /\ pendingSettlementPnl' = pendingSettlementPnl
        /\ settlements' = settlements /\ settlementInFlight' = settlementInFlight
    BY <1>3 DEF ApplyIndexedSettlement, ledger
  <2>2. PnlAccountedOnce' BY <2>1 DEF PnlAccountedOnce, PnlShare, SettledPnl, Confirmed
  <2> QED BY <1>2, <1>3, <2>1, <2>2 DEF Confirmed
<1>4. CASE existing.status # "ONCHAIN_CONFIRMED"
  <2> DEFINE record == [status |-> "ONCHAIN_CONFIRMED", type |-> context.type,
                        delta |-> amount, intents |-> context.intents]
             mark == IF flying # None /\ (flying.id = id \/ flying.delta = amount)
                     THEN None ELSE flying
             pending == IF context.type = "TRADING_PNL"
                        THEN [pendingSettlementPnl EXCEPT ![user] = DropDust(@ - amount)]
                        ELSE pendingSettlementPnl
  <2>1. /\ collateral' = [collateral EXCEPT ![user] = FromMicroUsdc(log.newBalance)]
        /\ pendingSettlementPnl' = pending
        /\ settlementInFlight' = [settlementInFlight EXCEPT ![user] = mark]
        /\ settlements' = [settlements EXCEPT ![id] = record]
    BY <1>1, <1>2, <1>4 DEF ApplyIndexedSettlement
  <2>2. context.type \in Types /\ context.intents \in SUBSET Intents
    <3>1. existing \in SettlementRecords /\ flying \in InFlightMarks \union {None}
      BY <1>1, <1>2
    <3> HIDE DEF existing, flying
    <3> QED BY <3>1 DEF SettlementRecords, InFlightMarks, NoRecord, Types
  <2>3. record \in SettlementRecords /\ mark \in InFlightMarks \union {None}
    <3>1. flying \in InFlightMarks \union {None} BY <1>1, <1>2
    <3> HIDE DEF context, flying
    <3> QED BY <1>1, <2>2, <3>1 DEF SettlementRecords
  <2> HIDE DEF context, mark
  <2>4. /\ pending \in [Users -> Int] /\ collateral' \in [Users -> Int]
        /\ \A u \in Users : pendingSettlementPnl[u] - amount \in Int
                          /\ DropDust(pendingSettlementPnl[u] - amount) \in Int
    <3> HIDE DEF amount, user
    <3>1. \A u \in Users : pendingSettlementPnl[u] - amount \in Int BY <1>1, <1>2
    <3>2. \A u \in Users : DropDust(pendingSettlementPnl[u] - amount) \in Int BY <3>1, DustError
    <3> QED BY <1>1, <1>2, <2>1, <3>1, <3>2
  <2>5. settlements' \in [Requests -> SettlementRecords]
        /\ settlementInFlight' \in [Users -> InFlightMarks \union {None}]
    <3> HIDE DEF record
    <3> QED BY <1>1, <1>2, <2>1, <2>3
  <2>6. Confirmed(id)' /\ settlements'[id].delta = amount /\ settlements'[id].type = context.type
    BY <1>1, <1>2, <2>1 DEF Confirmed
  <2>7. \A r \in Requests \ {id} : settlements'[r] = settlements[r]
    BY <1>1, <1>2, <2>1
  <2>8. PnlAccountedOnce'
    <3> SUFFICES ASSUME NEW u \in Users
                 PROVE  Magnitude(pendingSettlementPnl'[u]
                                    - (realized[u] - SumOver(Requests, PnlShare(u)')))
                          <= (MicroUnit - 1) * Cardinality(SettledPnl(u)')
      BY DEF PnlAccountedOnce
    <3> DEFINE before == SumOver(Requests, PnlShare(u))
               n == Cardinality(SettledPnl(u))
    <3>1. /\ Magnitude(pendingSettlementPnl[u] - (realized[u] - before)) <= (MicroUnit - 1) * n
          /\ pendingSettlementPnl[u] \in Int /\ realized[u] \in Int
      BY <1>2 DEF PnlAccountedOnce
    <3>2. PnlShare(u) \in [Requests -> Int]
      BY <1>2 DEF PnlShare, SettlementRecords
    <3>3. before \in Int
      BY <3>2, SumType
    <3>4. id \notin SettledPnl(u) /\ PnlShare(u)[id] = 0
      BY <1>1, <1>4 DEF PnlShare, SettledPnl, Confirmed
    <3>5. IsFiniteSet(SettledPnl(u)) /\ n \in Nat
      <4>1. SettledPnl(u) \subseteq Requests BY DEF SettledPnl
      <4> QED BY <4>1, FS_Subset, FS_CardinalityType
    <3>6. CASE ~ (context.type = "TRADING_PNL" /\ user = u)
      <4>1. SettledPnl(u)' = SettledPnl(u)
        BY <1>1, <1>4, <2>6, <2>7, <3>6 DEF SettledPnl, Confirmed
      <4>2. PnlShare(u)' = PnlShare(u)
        BY <2>7, <3>4, <4>1 DEF PnlShare
      <4>3. pendingSettlementPnl'[u] = pendingSettlementPnl[u]
        BY <1>1, <1>2, <2>1, <3>6
      <4> QED BY <3>1, <4>1, <4>2, <4>3
    <3>7. CASE context.type = "TRADING_PNL" /\ user = u
      <4>1. SettledPnl(u)' = SettledPnl(u) \union {id}
        BY <1>1, <2>6, <2>7, <3>7 DEF SettledPnl, Confirmed
      <4>2. Cardinality(SettledPnl(u)') = n + 1
        BY <3>4, <3>5, <4>1, FS_AddElement
      <4>3. PnlShare(u)' = [PnlShare(u) EXCEPT ![id] = amount]
        <5>1. PnlShare(u)' = [r \in Requests |->
                 IF r \in SettledPnl(u)' THEN settlements'[r].delta ELSE 0]
          BY DEF PnlShare
        <5>2. PnlShare(u)'[id] = amount
          BY <1>1, <2>6, <4>1, <5>1
        <5>3. ASSUME NEW r \in Requests, r # id PROVE PnlShare(u)'[r] = PnlShare(u)[r]
          BY <2>7, <4>1, <5>1, <5>3 DEF PnlShare
        <5> HIDE DEF amount
        <5>4. [PnlShare(u) EXCEPT ![id] = amount]
                = [r \in Requests |-> IF r = id THEN amount ELSE PnlShare(u)[r]]
          BY <3>2
        <5>5. PnlShare(u)' = [r \in Requests |-> PnlShare(u)'[r]]
          BY <5>1
        <5> QED BY <1>1, <5>2, <5>3, <5>4, <5>5
      <4>4. SumOver(Requests, PnlShare(u)') = before + amount
        <5> HIDE DEF id, amount
        <5>1. SumOver(Requests, [PnlShare(u) EXCEPT ![id] = amount])
                = SumOver(Requests, PnlShare(u)) + amount - PnlShare(u)[id]
          BY <1>1, <3>2, ShareSum
        <5> QED BY <1>1, <3>3, <3>4, <4>3, <5>1
      <4> DEFINE rest == pendingSettlementPnl[u] - amount
                 left == DropDust(rest)
                 dust == MicroUnit - 1
                 dusts == dust * n
      <4>5. pendingSettlementPnl'[u] = left
        BY <1>1, <1>2, <2>1, <3>7
      <4>6. rest \in Int /\ left \in Int /\ Magnitude(left - rest) <= dust
        BY <2>4, DustError
      <4>7. /\ dust \in Int /\ dusts \in Int
            /\ (MicroUnit - 1) * Cardinality(SettledPnl(u)') = dusts + dust
        BY <3>5, <4>2, DustBound, MoneyAssumption
      <4>8. rest = pendingSettlementPnl[u] - amount OBVIOUS
      <4>9. Magnitude(pendingSettlementPnl[u] - (realized[u] - before)) <= dusts
        BY <3>1
      <4> HIDE DEF rest, left, dust, dusts, before, amount
      <4>10. Magnitude(left - (realized[u] - (before + amount))) <= dusts + dust
        BY <1>1, <3>1, <3>3, <4>6, <4>7, <4>8, <4>9 DEF Magnitude
      <4> QED BY <4>4, <4>5, <4>7, <4>10
    <3> QED BY <3>6, <3>7
  <2> QED
    BY <1>1, <1>2, <1>4, <2>1, <2>4, <2>5, <2>6, <2>7, <2>8 DEF Confirmed
<1> QED BY <1>3, <1>4

-----------------------------------------------------------------------------
(* A step that leaves the records, the P&L, the requests and the vault's    *)
(* settlements alone keeps what relates them.                               *)
LEMMA QuietStep ==
  ASSUME AccountingInv,
         UNCHANGED <<applied, logs, request, settlements, pendingSettlementPnl, realized>>
  PROVE  LogsAreRequests' /\ PnlAccountedOnce' /\ ConfirmedIsOnChain'
<1>1. /\ applied' = applied /\ logs' = logs /\ request' = request
      /\ settlements' = settlements /\ pendingSettlementPnl' = pendingSettlementPnl
      /\ realized' = realized
  OBVIOUS
<1>2. LogsAreRequests' BY <1>1 DEF AccountingInv, LogsAreRequests
<1>3. PnlAccountedOnce'
  BY <1>1 DEF AccountingInv, PnlAccountedOnce, PnlShare, SettledPnl, Confirmed
<1>4. ConfirmedIsOnChain' BY <1>1 DEF AccountingInv, ConfirmedIsOnChain, Confirmed
<1> QED BY <1>2, <1>3, <1>4

\* The type of every variable, one fact each.
LEMMA Typed ==
  ASSUME AccountingInv
  PROVE  /\ claim \in [Users -> Int] /\ applied \subseteq Requests
         /\ mempool \in Seq(Requests) /\ reverted \subseteq Requests /\ logs \in Seq(Logs)
         /\ collateral \in [Users -> Int] /\ pendingSettlementPnl \in [Users -> Int]
         /\ settlements \in [Requests -> SettlementRecords]
         /\ settlementInFlight \in [Users -> InFlightMarks \union {None}]
         /\ request \in [Requests -> NormalizedRequests \union {None}]
         /\ realized \in [Users -> Int]
         /\ \A r \in Requests : request[r] # None => request[r] \in NormalizedRequests
BY DEF AccountingInv, TypeOK

\* A request that has left "unsent" has its normalized form.
LEMMA StartedRequest ==
  ASSUME AccountingInv, NEW r \in Requests, pc[r] # "unsent"
  PROVE  /\ request[r] \in NormalizedRequests
         /\ request[r].user \in Users /\ request[r].type \in Types
         /\ request[r].delta \in Int /\ request[r].intents \in SUBSET Intents
         /\ InFlight(r) \in InFlightMarks
<1>1. request[r] \in NormalizedRequests
  BY DEF AccountingInv, TypeOK, RequestsStarted
<1>2. /\ request[r].user \in Users /\ request[r].type \in Types
      /\ request[r].delta \in Int /\ request[r].intents \in SUBSET Intents
  BY <1>1 DEF NormalizedRequests
<1> QED BY <1>1, <1>2 DEF InFlight, InFlightMarks

-----------------------------------------------------------------------------
(* One lemma per action, or per group of actions that disturb the same      *)
(* conjuncts.                                                               *)
LEMMA ArriveKeeps ==
  ASSUME AccountingInv, NEW r \in Requests, NEW u \in Users, NEW a \in Apps, NEW t \in Types,
         NEW d \in Int, NEW s \in SUBSET Intents, Arrive(r, u, a, t, d, s)
  PROVE  AccountingInv'
<1> DEFINE new == [user |-> u, app |-> a, type |-> t, delta |-> d, intents |-> s]
<1>1. /\ request' = [request EXCEPT ![r] = new] /\ pc' = [pc EXCEPT ![r] = "loading"]
      /\ pc[r] = "unsent" /\ new \in NormalizedRequests
      /\ UNCHANGED <<chain, ledger, intentStatus, delivered, world>>
  BY DEF Arrive, NormalizedRequests
<1>2. /\ UNCHANGED <<wallet, claim, authorised, insurance, applied, mempool, reverted, logs>>
      /\ UNCHANGED <<collateral, pendingSettlementPnl, settlements, settlementInFlight>>
      /\ UNCHANGED <<intentStatus, delivered, overdue, realized>>
  BY <1>1 DEF chain, vault, ledger, world
<1>3. settlements[r].status = "NONE" /\ request[r] = None
  BY <1>1, Typed DEF AccountingInv, RequestsStarted, SettlementRecords
<1>4. new # None /\ \A q \in Requests : request'[q] = IF q = r THEN new ELSE request[q]
  BY <1>1, Typed
<1> HIDE DEF new
<1>5. TypeOK'
  BY <1>1, <1>2 DEF AccountingInv, TypeOK
<1>6. RequestsStarted'
  BY <1>1, <1>2, <1>3, <1>4 DEF AccountingInv, TypeOK, RequestsStarted
<1>7. LogsAreRequests'
  BY <1>2, <1>3, <1>4 DEF AccountingInv, LogsAreRequests
<1>8. PnlAccountedOnce'
  <2>1. ASSUME NEW v \in Users PROVE SettledPnl(v)' = SettledPnl(v) /\ PnlShare(v)' = PnlShare(v)
    BY <1>2, <1>3, <1>4 DEF PnlShare, SettledPnl, Confirmed
  <2> QED BY <1>2, <2>1 DEF AccountingInv, PnlAccountedOnce
<1>9. ConfirmedIsOnChain'
  BY <1>2, <1>3, <1>4 DEF AccountingInv, ConfirmedIsOnChain, Confirmed
<1> QED BY <1>5, <1>6, <1>7, <1>8, <1>9 DEF AccountingInv

LEMMA BeginKeeps ==
  ASSUME AccountingInv, NEW r \in Requests, Begin(r)
  PROVE  AccountingInv'
<1>1. /\ settlementInFlight' = [settlementInFlight EXCEPT ![request[r].user] = InFlight(r)]
      /\ pc' = [pc EXCEPT ![r] = "sending"] /\ pc[r] = "loading"
      /\ UNCHANGED <<wallet, claim, authorised, insurance, applied, mempool, reverted, logs>>
      /\ UNCHANGED <<collateral, pendingSettlementPnl, settlements>>
      /\ UNCHANGED <<intentStatus, delivered, request, overdue, realized>>
  BY DEF Begin, chain, vault, world
<1>2. InFlight(r) \in InFlightMarks /\ request[r].user \in Users
  BY <1>1, StartedRequest
<1>3. TypeOK' BY <1>1, <1>2 DEF AccountingInv, TypeOK
<1>4. RequestsStarted' BY <1>1 DEF AccountingInv, TypeOK, RequestsStarted
<1> QED BY <1>1, <1>3, <1>4, QuietStep DEF AccountingInv

LEMMA RefuseKeeps ==
  ASSUME AccountingInv, NEW r \in Requests, Refuse(r)
  PROVE  AccountingInv'
<1>1. /\ pc' = [pc EXCEPT ![r] = "refused"] /\ pc[r] = "loading"
      /\ UNCHANGED <<wallet, claim, authorised, insurance, applied, mempool, reverted, logs>>
      /\ UNCHANGED <<collateral, pendingSettlementPnl, settlements, settlementInFlight>>
      /\ UNCHANGED <<intentStatus, delivered, request, overdue, realized>>
  BY DEF Refuse, chain, vault, ledger, world
<1>2. TypeOK' BY <1>1 DEF AccountingInv, TypeOK
<1>3. RequestsStarted' BY <1>1 DEF AccountingInv, TypeOK, RequestsStarted
<1> QED BY <1>1, <1>2, <1>3, QuietStep DEF AccountingInv

LEMMA AbandonKeeps ==
  ASSUME AccountingInv, NEW r \in Requests, pc[r] # "unsent", Abandon(r)
  PROVE  AccountingInv'
<1>1. /\ settlementInFlight' = [settlementInFlight EXCEPT ![request[r].user] = None]
      /\ pc' = [pc EXCEPT ![r] = "failed"]
      /\ UNCHANGED <<wallet, claim, authorised, insurance, applied, mempool, reverted, logs>>
      /\ UNCHANGED <<collateral, pendingSettlementPnl, settlements>>
      /\ UNCHANGED <<intentStatus, delivered, request, overdue, realized>>
  BY DEF Abandon, chain, vault, world
<1>2. TypeOK' BY <1>1 DEF AccountingInv, TypeOK
<1>3. RequestsStarted' BY <1>1 DEF AccountingInv, TypeOK, RequestsStarted
<1> QED BY <1>1, <1>2, <1>3, QuietStep DEF AccountingInv

LEMMA RestartKeeps ==
  ASSUME AccountingInv, Restart
  PROVE  AccountingInv'
<1>1. /\ settlementInFlight' = [u \in Users |-> None]
      /\ pc' = [r \in Requests |-> IF pc[r] \in {"loading", "sending", "waiting"} THEN "lost" ELSE pc[r]]
      /\ UNCHANGED <<wallet, claim, authorised, insurance, applied, mempool, reverted, logs>>
      /\ UNCHANGED <<collateral, pendingSettlementPnl, settlements>>
      /\ UNCHANGED <<intentStatus, delivered, request, overdue, realized>>
  BY DEF Restart, chain, vault, world
<1>2. \A r \in Requests : /\ pc'[r] = "unsent" <=> pc[r] = "unsent"
                          /\ pc'[r] \in {pc[r], "lost"}
  BY <1>1
<1>3. pc' \in [Requests -> {"unsent", "loading", "sending", "waiting",
                            "refused", "failed", "confirmed", "lost"}]
  BY <1>1, <1>2 DEF AccountingInv, TypeOK
<1>4. TypeOK' BY <1>1, <1>3 DEF AccountingInv, TypeOK
<1>5. RequestsStarted' BY <1>1, <1>2 DEF AccountingInv, RequestsStarted
<1> QED BY <1>1, <1>4, <1>5, QuietStep DEF AccountingInv

\* Neither a deadline nor the refusal of an overdue intent touches a record.
LEMMA IntentStepKeeps ==
  ASSUME AccountingInv, NEW i \in Intents, ExpireIntent(i) \/ DeadlinePasses(i)
  PROVE  AccountingInv'
<1>1. /\ UNCHANGED <<wallet, claim, authorised, insurance, applied, mempool, reverted, logs>>
      /\ UNCHANGED <<collateral, pendingSettlementPnl, settlements, settlementInFlight>>
      /\ UNCHANGED <<delivered, pc, request, realized>>
  BY DEF ExpireIntent, DeadlinePasses, chain, vault, ledger, world
<1>2. /\ intentStatus' \in {intentStatus, [intentStatus EXCEPT ![i] = "EXPIRED"]}
      /\ overdue' \in {overdue, overdue \union {i}}
  BY DEF ExpireIntent, DeadlinePasses, world
<1>3. TypeOK' BY <1>1, <1>2 DEF AccountingInv, TypeOK
<1>4. RequestsStarted' BY <1>1 DEF AccountingInv, RequestsStarted
<1> QED BY <1>1, <1>3, <1>4, QuietStep DEF AccountingInv

LEMMA RealizeKeeps ==
  ASSUME AccountingInv, NEW u \in Users, NEW d \in Int, RealizePnl(u, d)
  PROVE  AccountingInv'
<1>1. /\ realized' = [realized EXCEPT ![u] = realized[u] + d]
      /\ pendingSettlementPnl' = [pendingSettlementPnl EXCEPT ![u] = pendingSettlementPnl[u] + d]
      /\ UNCHANGED <<wallet, claim, authorised, insurance, applied, mempool, reverted, logs>>
      /\ UNCHANGED <<collateral, settlements, settlementInFlight>>
      /\ UNCHANGED <<intentStatus, delivered, pc, request, overdue>>
  BY DEF RealizePnl, chain, vault
<1>2. realized[u] + d \in Int /\ pendingSettlementPnl[u] + d \in Int
  BY Typed
<1>3. TypeOK' BY <1>1, <1>2 DEF AccountingInv, TypeOK
<1>4. RequestsStarted' BY <1>1 DEF AccountingInv, RequestsStarted
<1>5. LogsAreRequests' BY <1>1 DEF AccountingInv, LogsAreRequests
<1>6. ConfirmedIsOnChain' BY <1>1 DEF AccountingInv, ConfirmedIsOnChain, Confirmed
<1>7. PnlAccountedOnce'
  <2> SUFFICES ASSUME NEW v \in Users
               PROVE  pendingSettlementPnl'[v] - (realized'[v] - SumOver(Requests, PnlShare(v)))
                        = pendingSettlementPnl[v] - (realized[v] - SumOver(Requests, PnlShare(v)))
    <3>1. ASSUME NEW v \in Users PROVE SettledPnl(v)' = SettledPnl(v) /\ PnlShare(v)' = PnlShare(v)
      BY <1>1 DEF PnlShare, SettledPnl, Confirmed
    <3> QED BY <3>1 DEF AccountingInv, PnlAccountedOnce
  <2>2. PnlShare(v) \in [Requests -> Int]
    BY Typed DEF PnlShare, SettlementRecords
  <2>3. SumOver(Requests, PnlShare(v)) \in Int BY <2>2, SumType
  <2>4. realized[v] \in Int /\ pendingSettlementPnl[v] \in Int
    BY Typed
  <2> DEFINE x == IF u = v THEN d ELSE 0
  <2>5. /\ x \in Int /\ realized'[v] = realized[v] + x
        /\ pendingSettlementPnl'[v] = pendingSettlementPnl[v] + x
    BY <1>1, <2>4, Typed
  <2> HIDE DEF x
  <2> QED BY <2>3, <2>4, <2>5
<1> QED BY <1>3, <1>4, <1>5, <1>6, <1>7 DEF AccountingInv

-----------------------------------------------------------------------------
(* Steps of the chain. *)
LEMMA BroadcastKeeps ==
  ASSUME AccountingInv, NEW r \in Requests, Broadcast(r)
  PROVE  AccountingInv'
<1>1. /\ mempool' = Append(mempool, r) /\ pc[r] = "sending"
      /\ UNCHANGED <<wallet, claim, authorised, insurance, applied, reverted, logs>>
      /\ UNCHANGED <<collateral, pendingSettlementPnl, settlements, settlementInFlight>>
      /\ UNCHANGED <<intentStatus, delivered, pc, request, overdue, realized>>
  BY DEF Broadcast, vault, ledger, world
<1>2. mempool' \in Seq(Requests) BY <1>1, Typed
<1>3. TypeOK' BY <1>1, <1>2 DEF AccountingInv, TypeOK
<1>4. \A k \in DOMAIN mempool' : request[mempool'[k]] # None
  <2>1. request[r] # None BY <1>1 DEF AccountingInv, RequestsStarted
  <2>2. mempool \in Seq(Requests) BY Typed
  <2> QED BY <1>1, <2>1, <2>2 DEF AccountingInv, RequestsStarted
<1>5. RequestsStarted' BY <1>1, <1>4 DEF AccountingInv, RequestsStarted
<1> QED BY <1>1, <1>3, <1>5, QuietStep DEF AccountingInv

\* A log that is no settlement disturbs nothing but the types.
LEMMA OtherLogKeeps ==
  ASSUME AccountingInv, NEW log \in Logs, log.name # "SettlementApplied",
         logs' \in {logs, Append(logs, log)}, claim' \in [Users -> Int],
         UNCHANGED <<applied, mempool, reverted, ledger, intentStatus, delivered, pc, request, world>>
  PROVE  AccountingInv'
<1>1. /\ UNCHANGED <<applied, mempool, reverted>>
      /\ UNCHANGED <<collateral, pendingSettlementPnl, settlements, settlementInFlight>>
      /\ UNCHANGED <<intentStatus, delivered, pc, request, overdue, realized>>
  BY DEF ledger, world
<1>2. /\ logs' \in Seq(Logs) /\ Len(logs) <= Len(logs')
      /\ \A k \in DOMAIN logs : k \in DOMAIN logs' /\ logs'[k] = logs[k]
      /\ \A k \in DOMAIN logs' : logs'[k].name = "SettlementApplied"
           => k \in DOMAIN logs /\ logs'[k] = logs[k]
  <2>1. logs \in Seq(Logs) BY Typed
  <2>2. CASE logs' = logs BY <2>1, <2>2
  <2>3. CASE logs' = Append(logs, log)
    <3>1. \A k \in DOMAIN logs' : k \in DOMAIN logs \/ logs'[k] = log BY <2>1, <2>3
    <3> QED BY <2>1, <2>3, <3>1
  <2> QED BY <2>2, <2>3
<1>3. TypeOK'
  <2>1. delivered \in 0..Len(logs') BY <1>2, Typed DEF AccountingInv, TypeOK
  <2> QED BY <1>1, <1>2, <2>1 DEF AccountingInv, TypeOK
<1>4. RequestsStarted' BY <1>1 DEF AccountingInv, RequestsStarted
<1>5. LogsAreRequests' BY <1>1, <1>2 DEF AccountingInv, LogsAreRequests
<1>6. PnlAccountedOnce' BY <1>1 DEF AccountingInv, PnlAccountedOnce, PnlShare, SettledPnl, Confirmed
<1>7. ConfirmedIsOnChain' BY <1>1, <1>2 DEF AccountingInv, ConfirmedIsOnChain, Confirmed
<1> QED BY <1>3, <1>4, <1>5, <1>6, <1>7 DEF AccountingInv

LEMMA OtherChainStepKeeps ==
  ASSUME AccountingInv, NEW u \in Users, NEW a \in Amounts,
         \/ Fund(u, a) \/ FundInsurance(u, a) \/ Deposit(u, a)
         \/ ApproveWithdraw(u, a) \/ Withdraw(u, a)
  PROVE  AccountingInv'
<1>1. a \in Int /\ claim \in [Users -> Int] BY Typed
<1>2. /\ UNCHANGED <<mempool, reverted, ledger, intentStatus, delivered, pc, request, world>>
      /\ applied' = applied
  BY DEF Fund, FundInsurance, Deposit, ApproveWithdraw, Withdraw, Vault!WalletChanges,
         Vault!FillPool, Vault!Deposit, Vault!Authorise, Vault!PayOut
<1>3. claim' \in {claim, [claim EXCEPT ![u] = claim[u] + a], [claim EXCEPT ![u] = claim[u] + (-a)]}
  BY DEF Fund, FundInsurance, Deposit, ApproveWithdraw, Withdraw, Vault!WalletChanges,
         Vault!FillPool, Vault!Deposit, Vault!Authorise, Vault!PayOut, Vault!Moved
<1>4. claim' \in [Users -> Int]
  <2>1. claim[u] + a \in Int /\ claim[u] + (-a) \in Int BY <1>1
  <2> QED BY <1>1, <1>3, <2>1
<1>5. CASE Withdraw(u, a)
  <2> DEFINE log == Log("Withdrawn", u, a, 0, None)
  <2>1. log \in Logs /\ log.name # "SettlementApplied" BY <1>1 DEF Log, Logs
  <2>2. logs' = Append(logs, log) BY <1>5 DEF Withdraw
  <2> HIDE DEF log
  <2> QED BY <1>2, <1>4, <2>1, <2>2, OtherLogKeeps
<1>6. CASE ~ Withdraw(u, a)
  <2> DEFINE log == Log("Deposited", u, a, 0, None)
  <2>1. log \in Logs /\ log.name # "SettlementApplied" BY <1>1 DEF Log, Logs
  <2>2. logs' \in {logs, Append(logs, log)}
    BY <1>6 DEF Fund, FundInsurance, Deposit, ApproveWithdraw
  <2> HIDE DEF log
  <2> QED BY <1>2, <1>4, <2>1, <2>2, OtherLogKeeps
<1> QED BY <1>5, <1>6

\* A mined settlement is logged with its request's user and rounded amount.
LEMMA MineKeeps ==
  ASSUME AccountingInv, Mine
  PROVE  AccountingInv'
<1> DEFINE r == Head(mempool)
           user == request[r].user
           delta == ToMicroUsdc(request[r].delta)
           log == Log("SettlementApplied", user, delta, claim'[user], r)
<1>1. mempool \in Seq(Requests) /\ mempool # <<>> BY Typed DEF Mine
<1>2. /\ r \in Requests /\ mempool' = Tail(mempool) /\ mempool' \in Seq(Requests)
      /\ \A k \in DOMAIN mempool' : k + 1 \in DOMAIN mempool /\ mempool'[k] = mempool[k + 1]
      /\ r = mempool[1] /\ 1 \in DOMAIN mempool
  <2>1. mempool' = Tail(mempool) BY DEF Mine
  <2> QED BY <1>1, <2>1
<1>3. /\ UNCHANGED <<collateral, pendingSettlementPnl, settlements, settlementInFlight>>
      /\ UNCHANGED <<intentStatus, delivered, pc, request, overdue, realized>>
  BY DEF Mine, ledger, world
<1>4. request[r] # None /\ request[r] \in NormalizedRequests /\ user \in Users /\ delta \in Int
  <2>1. request[r] # None BY <1>2 DEF AccountingInv, RequestsStarted
  <2>2. request[r] \in NormalizedRequests BY <1>2, <2>1, Typed
  <2>3. user \in Users /\ request[r].delta \in Int BY <2>2 DEF NormalizedRequests
  <2> QED BY <2>1, <2>2, <2>3, ConversionError
<1>5. RequestsStarted'
  BY <1>2, <1>3 DEF AccountingInv, RequestsStarted
<1>6. CASE logs' = Append(logs, log) /\ Vault!Settle(user, delta, r) /\ UNCHANGED reverted
  <2>1. applied' = applied \union {r} /\ claim' = [claim EXCEPT ![user] = claim[user] + delta]
    BY <1>6 DEF Vault!Settle, Vault!Moved
  <2>2. claim' \in [Users -> Int] /\ claim'[user] \in Int
    <3>1. claim \in [Users -> Int] /\ claim[user] + delta \in Int BY <1>4, Typed
    <3> HIDE DEF delta, user
    <3> QED BY <1>4, <2>1, <3>1
  <2>3. log \in Logs
    <3> HIDE DEF user, delta, r
    <3> QED BY <1>2, <1>4, <2>2 DEF Log, Logs
  <2>4. /\ log.name = "SettlementApplied" /\ log.id = r /\ log.user = user /\ log.amount = delta
    BY DEF Log
  <2> HIDE DEF log
  <2>5. /\ logs' \in Seq(Logs) /\ Len(logs) <= Len(logs')
        /\ \A k \in DOMAIN logs : k \in DOMAIN logs' /\ logs'[k] = logs[k]
        /\ \A k \in DOMAIN logs' : (k \in DOMAIN logs /\ logs'[k] = logs[k]) \/ logs'[k] = log
    <3>1. logs \in Seq(Logs) BY Typed
    <3> QED BY <1>6, <2>3, <3>1
  <2>6. TypeOK'
    <3>1. delivered \in 0..Len(logs') BY <2>5, Typed DEF AccountingInv, TypeOK
    <3>2. applied' \subseteq Requests BY <1>2, <2>1, Typed
    <3> QED BY <1>2, <1>3, <1>6, <2>2, <2>5, <3>1, <3>2 DEF AccountingInv, TypeOK
  <2>7. LogsAreRequests'
    BY <1>2, <1>3, <1>4, <2>1, <2>4, <2>5 DEF AccountingInv, LogsAreRequests
  <2>8. PnlAccountedOnce' BY <1>3 DEF AccountingInv, PnlAccountedOnce, PnlShare, SettledPnl, Confirmed
  <2>9. ConfirmedIsOnChain'
    BY <1>3, <2>1, <2>5 DEF AccountingInv, ConfirmedIsOnChain, Confirmed
  <2> QED BY <1>5, <2>6, <2>7, <2>8, <2>9 DEF AccountingInv
<1>7. CASE reverted' = reverted \union {r} /\ UNCHANGED <<vault, logs>>
  <2>1. UNCHANGED <<claim, applied, logs>> BY <1>7 DEF vault
  <2>2. TypeOK'
    <3>1. reverted' \subseteq Requests BY <1>2, <1>7, Typed
    <3> QED BY <1>2, <1>3, <2>1, <3>1 DEF AccountingInv, TypeOK
  <2> QED BY <1>3, <1>5, <2>1, <2>2, QuietStep DEF AccountingInv
<1> QED BY <1>6, <1>7 DEF Mine

-----------------------------------------------------------------------------
(* Steps that write settlement records. *)
LEMMA RecordSubmittedKeeps ==
  ASSUME AccountingInv, NEW r \in Requests, RecordSubmitted(r)
  PROVE  AccountingInv'
<1> DEFINE user == request[r].user
           record == [status |-> "ONCHAIN_SUBMITTED", type |-> request[r].type,
                      delta |-> request[r].delta, intents |-> request[r].intents]
<1>1. /\ pc[r] = "sending" /\ pc' = [pc EXCEPT ![r] = "waiting"]
      /\ UNCHANGED <<wallet, claim, authorised, insurance, applied, mempool, reverted, logs>>
      /\ UNCHANGED <<collateral, pendingSettlementPnl>>
      /\ UNCHANGED <<intentStatus, delivered, request, overdue, realized>>
  BY DEF RecordSubmitted, chain, vault, world
<1>2. /\ record \in SettlementRecords /\ InFlight(r) \in InFlightMarks /\ user \in Users
      /\ request[r] # None
  BY <1>1, StartedRequest DEF SettlementRecords, AccountingInv, RequestsStarted
<1>3. \/ UNCHANGED <<settlements, settlementInFlight>>
      \/ /\ settlements[r].status = "NONE"
         /\ settlements' = [settlements EXCEPT ![r] = record]
         /\ settlementInFlight' = [settlementInFlight EXCEPT ![user] = InFlight(r)]
  BY DEF RecordSubmitted
<1>4. record.status = "ONCHAIN_SUBMITTED" OBVIOUS
<1> HIDE DEF record, user
<1>5. /\ settlements' \in [Requests -> SettlementRecords]
      /\ settlementInFlight' \in [Users -> InFlightMarks \union {None}]
      /\ \A q \in Requests : q # r => settlements'[q] = settlements[q]
      /\ settlements'[r] # settlements[r] => ~ Confirmed(r) /\ ~ Confirmed(r)'
  <2>1. CASE UNCHANGED <<settlements, settlementInFlight>> BY <2>1, Typed
  <2>2. CASE /\ settlements[r].status = "NONE"
             /\ settlements' = [settlements EXCEPT ![r] = record]
             /\ settlementInFlight' = [settlementInFlight EXCEPT ![user] = InFlight(r)]
    <3>1. settlements'[r] = record BY <2>2, Typed
    <3> QED BY <1>2, <1>4, <2>2, <3>1, Typed DEF Confirmed
  <2> QED BY <1>3, <2>1, <2>2
<1>6. TypeOK' BY <1>1, <1>5 DEF AccountingInv, TypeOK
<1>7. RequestsStarted'
  BY <1>1, <1>2, <1>5 DEF AccountingInv, TypeOK, RequestsStarted
<1>8. LogsAreRequests' BY <1>1 DEF AccountingInv, LogsAreRequests
<1>9. PnlAccountedOnce'
  <2>1. ASSUME NEW v \in Users PROVE SettledPnl(v)' = SettledPnl(v) /\ PnlShare(v)' = PnlShare(v)
    BY <1>1, <1>5 DEF PnlShare, SettledPnl, Confirmed
  <2> QED BY <1>1, <2>1 DEF AccountingInv, PnlAccountedOnce
<1>10. ConfirmedIsOnChain'
  BY <1>1, <1>5 DEF AccountingInv, ConfirmedIsOnChain, Confirmed
<1> QED BY <1>6, <1>7, <1>8, <1>9, <1>10 DEF AccountingInv

\* applyIndexedSettlement on a settlement log, in the handler or the indexer.
LEMMA ApplyKeeps ==
  ASSUME AccountingInv, NEW k \in DOMAIN logs, logs[k].name = "SettlementApplied",
         ApplyIndexedSettlement(logs[k]),
         UNCHANGED <<claim, applied, mempool, reverted, logs, request, overdue, realized>>,
         delivered' \in 0..Len(logs),
         intentStatus' \in [Intents -> {"VERIFIED", "EXPIRED", "CONSUMED"}],
         \/ UNCHANGED pc
         \/ \E r \in Requests : pc[r] = "waiting" /\ pc' = [pc EXCEPT ![r] = "confirmed"]
  PROVE  AccountingInv'
<1> DEFINE id == logs[k].id
<1>1. /\ collateral' \in [Users -> Int]
      /\ pendingSettlementPnl' \in [Users -> Int]
      /\ settlements' \in [Requests -> SettlementRecords]
      /\ settlementInFlight' \in [Users -> InFlightMarks \union {None}]
      /\ \A r \in Requests \ {id} : settlements'[r] = settlements[r]
      /\ Confirmed(id) => settlements'[id] = settlements[id]
      /\ Confirmed(id) \/ settlements'[id].delta = FromMicroUsdc(logs[k].amount)
      /\ PnlAccountedOnce'
  <2>1. UNCHANGED <<logs, request, realized>> OBVIOUS
  <2>2. id \in Requests BY DEF AccountingInv, LogsAreRequests
  <2> QED BY <2>1, <2>2, ApplyEffect DEF AccountingInv
<1>2. /\ id \in Requests /\ id \in applied /\ request[id] # None
      /\ logs[k].user = request[id].user
      /\ logs[k].amount = ToMicroUsdc(request[id].delta)
  BY DEF AccountingInv, LogsAreRequests
<1>3. /\ claim' = claim /\ applied' = applied /\ mempool' = mempool /\ reverted' = reverted
      /\ logs' = logs /\ request' = request /\ overdue' = overdue
  OBVIOUS
<1>4. /\ pc' \in [Requests -> {"unsent", "loading", "sending", "waiting",
                               "refused", "failed", "confirmed", "lost"}]
      /\ \A r \in Requests : pc'[r] = "unsent" <=> pc[r] = "unsent"
  BY DEF AccountingInv, TypeOK
<1> HIDE DEF id
<1>5. TypeOK' BY <1>1, <1>3, <1>4 DEF AccountingInv, TypeOK
<1>6. RequestsStarted'
  <2>1. ASSUME NEW r \in Requests, settlements'[r].status # "NONE" PROVE request[r] # None
    BY <1>1, <1>2, <2>1 DEF AccountingInv, RequestsStarted
  <2>2. \A j \in DOMAIN mempool : request[mempool[j]] # None
    BY DEF AccountingInv, RequestsStarted
  <2>3. \A r \in Requests : request[r] = None <=> pc'[r] = "unsent"
    BY <1>4 DEF AccountingInv, RequestsStarted
  <2> QED BY <1>3, <2>1, <2>2, <2>3 DEF RequestsStarted
<1>7. LogsAreRequests' BY <1>3 DEF AccountingInv, LogsAreRequests
<1>8. ConfirmedIsOnChain'
  <2> SUFFICES ASSUME NEW r \in Requests, Confirmed(r)'
               PROVE  /\ r \in applied
                      /\ 2 * Magnitude(settlements'[r].delta - request[r].delta) <= MicroUnit
                      /\ \E j \in DOMAIN logs :
                           /\ logs[j] = Log("SettlementApplied", request[r].user, logs[j].amount,
                                            logs[j].newBalance, r)
                           /\ settlements'[r].delta = FromMicroUsdc(logs[j].amount)
    BY <1>3 DEF ConfirmedIsOnChain
  <2>1. CASE settlements'[r] = settlements[r]
    <3>1. Confirmed(r) BY <2>1 DEF Confirmed
    <3> QED BY <2>1, <3>1 DEF AccountingInv, ConfirmedIsOnChain
  <2>2. CASE settlements'[r] # settlements[r]
    <3>1. r = id /\ settlements'[r].delta = FromMicroUsdc(logs[k].amount)
      BY <1>1, <1>2, <2>2
    <3>2. logs[k] \in Logs BY Typed
    <3>3. logs[k] = Log("SettlementApplied", request[r].user, logs[k].amount,
                        logs[k].newBalance, r)
      BY <1>2, <3>1, <3>2 DEF Logs, Log, id
    <3>4. request[r].delta \in Int
      BY <1>2, <3>1, Typed DEF NormalizedRequests
    <3>5. 2 * Magnitude(settlements'[r].delta - request[r].delta) <= MicroUnit
      BY <1>2, <3>1, <3>4, ConversionError
    <3> QED BY <1>2, <3>1, <3>3, <3>5
  <2> QED BY <2>1, <2>2
<1> QED BY <1>1, <1>5, <1>6, <1>7, <1>8 DEF AccountingInv

LEMMA ConfirmKeeps ==
  ASSUME AccountingInv, NEW r \in Requests, Confirm(r)
  PROVE  AccountingInv'
<1>1. PICK k \in DOMAIN logs : logs[k].name = "SettlementApplied" /\ ApplyIndexedSettlement(logs[k])
  BY DEF Confirm
<1>2. /\ UNCHANGED <<claim, applied, mempool, reverted, logs, request, overdue, realized>>
      /\ UNCHANGED delivered
      /\ pc[r] = "waiting" /\ pc' = [pc EXCEPT ![r] = "confirmed"]
      /\ intentStatus' = [i \in Intents |->
           IF i \in settlements'[r].intents THEN "CONSUMED" ELSE intentStatus[i]]
  BY DEF Confirm, chain, vault, world
<1>3. delivered' \in 0..Len(logs) /\ intentStatus' \in [Intents -> {"VERIFIED", "EXPIRED", "CONSUMED"}]
  BY <1>2 DEF AccountingInv, TypeOK
<1> QED BY <1>1, <1>2, <1>3, ApplyKeeps

LEMMA DeliverKeeps ==
  ASSUME AccountingInv, Deliver
  PROVE  AccountingInv'
<1> DEFINE k == delivered + 1
<1>1. /\ UNCHANGED <<claim, applied, mempool, reverted, logs, request, overdue, realized>>
      /\ UNCHANGED <<intentStatus, pc>>
      /\ delivered' = delivered + 1 /\ delivered < Len(logs)
  BY DEF Deliver, chain, vault, world
<1>2. /\ delivered' \in 0..Len(logs) /\ k \in DOMAIN logs /\ logs \in Seq(Logs)
  BY <1>1, Typed DEF AccountingInv, TypeOK
<1>3. CASE logs[k].name = "SettlementApplied"
  <2>1. ApplyIndexedSettlement(logs[k]) BY <1>3 DEF Deliver
  <2>2. intentStatus' \in [Intents -> {"VERIFIED", "EXPIRED", "CONSUMED"}]
    BY <1>1 DEF AccountingInv, TypeOK
  <2> HIDE DEF k
  <2> QED BY <1>1, <1>2, <1>3, <2>1, <2>2, ApplyKeeps
<1>4. CASE logs[k].name # "SettlementApplied"
  <2>1. /\ UNCHANGED <<pendingSettlementPnl, settlements, settlementInFlight>>
        /\ collateral' \in {[collateral EXCEPT ![logs[k].user] =
                               collateral[logs[k].user] + FromMicroUsdc(logs[k].amount)],
                            [collateral EXCEPT ![logs[k].user] =
                               Excess(collateral[logs[k].user], FromMicroUsdc(logs[k].amount))]}
    BY <1>4 DEF Deliver
  <2>2. collateral' \in [Users -> Int]
    <3>1. logs[k].user \in Users /\ FromMicroUsdc(logs[k].amount) \in Int
      <4> HIDE DEF k
      <4>1. logs[k] \in Logs BY <1>2
      <4>2. logs[k].user \in Users /\ logs[k].amount \in Int BY <4>1 DEF Logs
      <4> QED BY <4>2, FromMicroType
    <3>2. collateral \in [Users -> Int] BY Typed
    <3>3. /\ collateral[logs[k].user] + FromMicroUsdc(logs[k].amount) \in Int
          /\ Excess(collateral[logs[k].user], FromMicroUsdc(logs[k].amount)) \in Int
      BY <3>1, <3>2 DEF Excess
    <3> HIDE DEF k
    <3> QED BY <2>1, <3>1, <3>2, <3>3
  <2>3. TypeOK' BY <1>1, <1>2, <2>1, <2>2 DEF AccountingInv, TypeOK
  <2>4. RequestsStarted' BY <1>1, <2>1 DEF AccountingInv, RequestsStarted
  <2> QED BY <1>1, <2>1, <2>3, <2>4, QuietStep DEF AccountingInv
<1> QED BY <1>3, <1>4

-----------------------------------------------------------------------------
LEMMA InvInit == Init => AccountingInv
<1> SUFFICES ASSUME Init PROVE AccountingInv OBVIOUS
<1>1. NoRecord \in SettlementRecords BY DEF NoRecord, SettlementRecords, Types
<1>2. claim = [u \in Users |-> 0] /\ applied = {} BY DEF Init, Vault!Init
<1>3. /\ mempool = <<>> /\ logs = <<>> /\ settlements = [r \in Requests |-> NoRecord]
      /\ \A r \in Requests : settlements[r].status = "NONE"
  BY DEF Init, NoRecord
<1>4. TypeOK BY <1>1, <1>2 DEF Init, TypeOK
<1>5. RequestsStarted BY <1>3 DEF Init, RequestsStarted
<1>6. LogsAreRequests BY <1>3 DEF LogsAreRequests
<1>7. PnlAccountedOnce
  <2>1. ASSUME NEW u \in Users
        PROVE  SumOver(Requests, PnlShare(u)) = 0 /\ Cardinality(SettledPnl(u)) = 0
    <3>1. SettledPnl(u) = {} BY <1>3 DEF SettledPnl, Confirmed
    <3>2. PnlShare(u) = [r \in Requests |-> 0] BY <3>1 DEF PnlShare
    <3> QED BY <3>1, <3>2, SumOfZeros, FS_EmptySet
  <2>2. (MicroUnit - 1) * 0 = 0 BY MoneyAssumption
  <2> QED BY <2>1, <2>2 DEF Init, PnlAccountedOnce, Magnitude
<1>8. ConfirmedIsOnChain BY <1>3 DEF ConfirmedIsOnChain, Confirmed
<1> QED BY <1>4, <1>5, <1>6, <1>7, <1>8 DEF AccountingInv

LEMMA InvStep == AccountingInv /\ [Next]_vars => AccountingInv'
<1> SUFFICES ASSUME AccountingInv, [Next]_vars PROVE AccountingInv' OBVIOUS
<1>1. ASSUME NEW r \in Requests, NEW u \in Users, SettleUser(r, u) PROVE AccountingInv'
  <2> DEFINE d == pendingSettlementPnl[u]
             s == {i \in OrderIntents : IntentUser[i] = u /\ intentStatus[i] = "VERIFIED"}
  <2>1. d \in Int /\ s \in SUBSET Intents /\ TradingApp \in Apps /\ "TRADING_PNL" \in Types
    BY Typed DEF Types
  <2>2. Arrive(r, u, TradingApp, "TRADING_PNL", d, s) BY <1>1 DEF SettleUser
  <2> HIDE DEF d, s
  <2> QED BY <2>1, <2>2, ArriveKeeps
<1>2. ASSUME NEW r \in Requests, NEW u \in Users, NEW a \in Apps, NEW t \in Types, NEW d \in Deltas,
             NEW s \in SUBSET Intents, Post(r, u, a, t, d, s)
      PROVE  AccountingInv'
  <2>1. Arrive(r, u, a, t, d, s) /\ d \in Int BY <1>2 DEF Post
  <2> QED BY <2>1, ArriveKeeps
<1>3. ASSUME NEW r \in Requests,
             \/ SendFails(r) \/ SendLost(r) \/ ReceiptReverted(r) \/ ReceiptLost(r)
      PROVE  AccountingInv'
  <2>1. pc[r] # "unsent" /\ Abandon(r)
    BY <1>3 DEF SendFails, SendLost, ReceiptReverted, ReceiptLost
  <2> QED BY <2>1, AbandonKeeps
<1>4. ASSUME NEW u \in Users, NEW d \in Deltas, RealizePnl(u, d) PROVE AccountingInv'
  <2>1. d \in Int OBVIOUS
  <2> QED BY <1>4, <2>1, RealizeKeeps
<1>5. CASE UNCHANGED vars
  <2>1. /\ UNCHANGED <<wallet, claim, authorised, insurance, applied, mempool, reverted, logs>>
        /\ UNCHANGED <<collateral, pendingSettlementPnl, settlements, settlementInFlight>>
        /\ UNCHANGED <<intentStatus, delivered, pc, request, overdue, realized>>
    BY <1>5 DEF vars, chain, vault, ledger, world
  <2>2. TypeOK' BY <2>1 DEF AccountingInv, TypeOK
  <2>3. RequestsStarted' BY <2>1 DEF AccountingInv, RequestsStarted
  <2> QED BY <2>1, <2>2, <2>3, QuietStep DEF AccountingInv
<1>6. CASE ArrivalStep BY <1>1, <1>2, <1>6 DEF ArrivalStep
<1>7. CASE HandlerStep
  BY <1>3, <1>7, BeginKeeps, RefuseKeeps, RecordSubmittedKeeps, ConfirmKeeps DEF HandlerStep
<1>8. CASE OperatorChainStep BY <1>8, MineKeeps, BroadcastKeeps DEF OperatorChainStep
<1>9. CASE OtherChainStep BY <1>9, OtherChainStepKeeps DEF OtherChainStep
<1>10. CASE WorldStep BY <1>4, <1>10, IntentStepKeeps DEF WorldStep
<1> QED
  BY <1>5, <1>6, <1>7, <1>8, <1>9, <1>10, DeliverKeeps, RestartKeeps DEF Next

LEMMA AccountingInvariant == Spec => []AccountingInv
BY InvInit, InvStep, PTL DEF Spec

\* Every variable of the gateway keeps its type, whatever fails.
THEOREM TypeCorrect == Spec => []TypeOK
<1>1. AccountingInv => TypeOK BY DEF AccountingInv
<1> QED BY <1>1, AccountingInvariant, PTL

\* applyIndexedSettlement takes a settlement's P&L off the pending amount once,
\* though the handler and the indexer both call it for the same log; the two
\* differ by less than one unit of the token per settlement.
THEOREM PnlTheorem == Spec => []PnlAccountedOnce
<1>1. AccountingInv => PnlAccountedOnce BY DEF AccountingInv
<1> QED BY <1>1, AccountingInvariant, PTL

\* A confirmed record states an amount the vault moved for the requesting user,
\* within half a unit of the token of the amount requested.
THEOREM ConfirmedTheorem == Spec => []ConfirmedIsOnChain
<1>1. AccountingInv => ConfirmedIsOnChain BY DEF AccountingInv
<1> QED BY <1>1, AccountingInvariant, PTL

\* Confirmed records keep what they say.
Final == \A r \in Requests : Confirmed(r) => settlements'[r] = settlements[r]

LEMMA StepFinal ==
  ASSUME AccountingInv, Next
  PROVE  Final
<1> USE DEF Final
<1>1. ASSUME UNCHANGED settlements PROVE Final BY <1>1
<1>2. ASSUME NEW k \in DOMAIN logs, logs[k].name = "SettlementApplied",
             ApplyIndexedSettlement(logs[k]), UNCHANGED <<logs, request, realized>>
      PROVE  Final
  BY <1>2, ApplyEffect DEF AccountingInv
<1>3. ASSUME NEW r \in Requests, Confirm(r) PROVE Final
  BY <1>2, <1>3 DEF Confirm, chain, world
<1>4. CASE Deliver
  <2>1. delivered + 1 \in DOMAIN logs
    BY <1>4, Typed DEF Deliver, AccountingInv, TypeOK
  <2>2. UNCHANGED settlements \/ (logs[delivered + 1].name = "SettlementApplied"
                                  /\ ApplyIndexedSettlement(logs[delivered + 1]))
    BY <1>4 DEF Deliver
  <2>3. UNCHANGED <<logs, request, realized>> BY <1>4 DEF Deliver, chain, world
  <2> QED BY <1>1, <1>2, <2>1, <2>2, <2>3
<1>5. ASSUME NEW r \in Requests, RecordSubmitted(r) PROVE Final
  <2>1. settlements \in [Requests -> SettlementRecords] BY Typed
  <2> QED BY <1>5, <2>1 DEF RecordSubmitted, Confirmed
<1>6. CASE ArrivalStep
  BY <1>1, <1>6 DEF ArrivalStep, SettleUser, Post, Arrive, ledger
<1>7. CASE HandlerStep
  BY <1>1, <1>3, <1>5, <1>7 DEF HandlerStep, Begin, Refuse, SendFails, SendLost,
     ReceiptReverted, ReceiptLost, Abandon, ledger
<1>8. CASE OperatorChainStep
  BY <1>1, <1>8 DEF OperatorChainStep, Mine, Broadcast, ledger
<1>9. CASE OtherChainStep
  BY <1>1, <1>9 DEF OtherChainStep, Fund, FundInsurance, Deposit, ApproveWithdraw, Withdraw, ledger
<1>10. CASE WorldStep
  BY <1>1, <1>10 DEF WorldStep, RealizePnl, DeadlinePasses, ExpireIntent, ledger
<1>11. CASE Restart BY <1>1, <1>11 DEF Restart
<1> QED BY <1>4, <1>6, <1>7, <1>8, <1>9, <1>10, <1>11 DEF Next

\* No step changes a confirmed record.
THEOREM FinalRecordTheorem == Spec => ConfirmedRecordIsFinal
<1>1. AccountingInv /\ [Next]_vars => [Final]_vars
  BY StepFinal
<1> QED BY <1>1, AccountingInvariant, PTL DEF Spec, ConfirmedRecordIsFinal, Final

-----------------------------------------------------------------------------
(* Intents. *)

\* Success is answered once the record is confirmed.
ConsumedInv ==
  /\ IntentsFollowRecords
  /\ \A r \in Requests : pc[r] = "confirmed" => Confirmed(r)

\* Between confirmations no intent is consumed and no consumption is undone.
LEMMA ConsumedKept ==
  ASSUME ConsumedInv, Final,
         \A r \in Requests : pc'[r] = "confirmed" => pc[r] = "confirmed",
         \A i \in Intents : intentStatus'[i] = "CONSUMED" <=> intentStatus[i] = "CONSUMED",
         settlements \in [Requests -> SettlementRecords]
  PROVE  ConsumedInv'
<1>1. \A r \in Requests : Confirmed(r) => Confirmed(r)' /\ settlements'[r] = settlements[r]
  BY DEF Final, Confirmed
<1>2. \A r \in Requests : settlements[r].intents \subseteq Intents
  BY DEF SettlementRecords
<1> QED BY <1>1, <1>2 DEF ConsumedInv, IntentsFollowRecords

LEMMA ConfirmConsumes ==
  ASSUME AccountingInv, ConsumedInv, Final, NEW r \in Requests, Confirm(r)
  PROVE  ConsumedInv'
<1>1. /\ pc' = [pc EXCEPT ![r] = "confirmed"]
      /\ intentStatus' = [i \in Intents |->
           IF i \in settlements'[r].intents THEN "CONSUMED" ELSE intentStatus[i]]
      /\ UNCHANGED <<logs, request, realized>>
  BY DEF Confirm, chain, world
<1>2. PICK k \in DOMAIN logs : /\ logs[k].name = "SettlementApplied" /\ logs[k].id = r
                              /\ ApplyIndexedSettlement(logs[k])
  BY DEF Confirm
<1>3. Confirmed(r)' /\ settlements' \in [Requests -> SettlementRecords]
  BY <1>1, <1>2, ApplyEffect DEF AccountingInv
<1>4. \A q \in Requests : /\ settlements'[q].intents \subseteq Intents
                          /\ Confirmed(q) => Confirmed(q)' /\ settlements'[q] = settlements[q]
  BY <1>3 DEF Final, Confirmed, SettlementRecords
<1>5. \A q \in Requests : pc'[q] = "confirmed" => q = r \/ pc[q] = "confirmed"
  BY <1>1 DEF AccountingInv, TypeOK
<1>6. ASSUME NEW i \in Intents, intentStatus'[i] = "CONSUMED"
      PROVE  \E q \in Requests : Confirmed(q)' /\ i \in settlements'[q].intents
  <2>1. CASE i \in settlements'[r].intents BY <1>3, <2>1
  <2>2. CASE intentStatus[i] = "CONSUMED"
    <3>1. PICK q \in Requests : Confirmed(q) /\ i \in settlements[q].intents
      BY <2>2 DEF ConsumedInv, IntentsFollowRecords
    <3> QED BY <1>4, <3>1
  <2> QED BY <1>1, <1>6, <2>1, <2>2
<1>7. ASSUME NEW q \in Requests, pc'[q] = "confirmed"
      PROVE  Confirmed(q)' /\ \A i \in settlements'[q].intents : intentStatus'[i] = "CONSUMED"
  <2>1. CASE q = r BY <1>1, <1>3, <1>4, <2>1
  <2>2. CASE pc[q] = "confirmed"
    <3>1. Confirmed(q) /\ \A i \in settlements[q].intents : intentStatus[i] = "CONSUMED"
      BY <2>2 DEF ConsumedInv, IntentsFollowRecords
    <3> QED BY <1>1, <1>4, <3>1
  <2> QED BY <1>5, <1>7, <2>1, <2>2
<1> QED BY <1>6, <1>7 DEF ConsumedInv, IntentsFollowRecords

LEMMA ConsumedStep == AccountingInv /\ ConsumedInv /\ [Next]_vars => ConsumedInv'
<1> SUFFICES ASSUME AccountingInv, ConsumedInv, [Next]_vars PROVE ConsumedInv' OBVIOUS
<1>1. Final BY StepFinal DEF Final, vars, ledger
<1>2. /\ settlements \in [Requests -> SettlementRecords]
      /\ pc \in [Requests -> {"unsent", "loading", "sending", "waiting",
                              "refused", "failed", "confirmed", "lost"}]
      /\ intentStatus \in [Intents -> {"VERIFIED", "EXPIRED", "CONSUMED"}]
  BY DEF AccountingInv, TypeOK
<1>3. ASSUME UNCHANGED intentStatus,
             \/ UNCHANGED pc \/ Restart
             \/ \E r \in Requests, phase \in {"loading", "sending", "waiting", "refused", "failed"} :
                  pc' = [pc EXCEPT ![r] = phase]
      PROVE  ConsumedInv'
  <2>1. \A r \in Requests : pc'[r] = "confirmed" => pc[r] = "confirmed"
    BY <1>2, <1>3 DEF Restart
  <2> QED BY <1>1, <1>2, <1>3, <2>1, ConsumedKept
<1>4. ASSUME NEW i \in Intents, ExpireIntent(i) PROVE ConsumedInv'
  BY <1>1, <1>2, <1>4, ConsumedKept DEF ExpireIntent
<1>5. CASE ArrivalStep BY <1>3, <1>5 DEF ArrivalStep, SettleUser, Post, Arrive
<1>6. CASE HandlerStep
  <2>1. ASSUME NEW r \in Requests,
               \/ Begin(r) \/ Refuse(r) \/ RecordSubmitted(r) \/ SendFails(r) \/ SendLost(r)
               \/ ReceiptReverted(r) \/ ReceiptLost(r)
        PROVE  ConsumedInv'
    BY <1>3, <2>1 DEF Begin, Refuse, RecordSubmitted, SendFails, SendLost, ReceiptReverted,
                      ReceiptLost, Abandon
  <2> QED BY <1>1, <1>6, <2>1, ConfirmConsumes DEF HandlerStep
<1>7. CASE OperatorChainStep BY <1>3, <1>7 DEF OperatorChainStep, Mine, Broadcast
<1>8. CASE OtherChainStep
  BY <1>3, <1>8 DEF OtherChainStep, Fund, FundInsurance, Deposit, ApproveWithdraw, Withdraw
<1>9. CASE WorldStep BY <1>3, <1>4, <1>9 DEF WorldStep, RealizePnl, DeadlinePasses
<1>10. CASE Deliver \/ Restart \/ UNCHANGED vars
  BY <1>3, <1>10 DEF Deliver, Restart, vars
<1> QED BY <1>5, <1>6, <1>7, <1>8, <1>9, <1>10 DEF Next

LEMMA ConsumedInvariant == Spec => []ConsumedInv
<1>1. Init => ConsumedInv
  BY DEF Init, NoRecord, ConsumedInv, IntentsFollowRecords
<1> QED BY <1>1, AccountingInvariant, ConsumedStep, PTL DEF Spec

\* Whatever fails, an intent is consumed only by a confirmed settlement, and a
\* caller told of success has every intent of the record consumed.
THEOREM IntentsTheorem == Spec => []IntentsFollowRecords
<1>1. ConsumedInv => IntentsFollowRecords BY DEF ConsumedInv
<1> QED BY <1>1, ConsumedInvariant, PTL
-----------------------------------------------------------------------------
(* Answers. *)

\* A transaction is queued once, and is either queued, applied or reverted.
ChainOnce ==
  /\ \A i, j \in DOMAIN mempool : mempool[i] = mempool[j] => i = j
  /\ \A r \in Range(mempool) : r \notin applied \union reverted
  /\ applied \intersect reverted = {}

\* The phases of a request that has not sent, or was told that it failed.
Idle == {"unsent", "loading", "refused", "failed"}

AnswerInv ==
  /\ ChainOnce
  /\ \A r \in Requests : pc[r] \in Idle => r \notin applied \union Range(mempool)

\* The handlers' steps that leave the chain alone.
LEMMA IdleKept ==
  ASSUME AnswerInv, UNCHANGED <<applied, mempool, reverted>>,
         \A r \in Requests : pc'[r] \in Idle => pc[r] \in Idle \/ r \notin applied \union Range(mempool)
  PROVE  AnswerInv'
BY DEF AnswerInv, ChainOnce

LEMMA BroadcastOnce ==
  ASSUME AccountingInv, AnswerInv, NEW r \in Requests, Broadcast(r)
  PROVE  AnswerInv'
<1>1. /\ mempool' = Append(mempool, r) /\ pc[r] = "sending"
      /\ r \notin applied \union reverted \union Range(mempool)
      /\ UNCHANGED <<applied, reverted, pc>>
  BY DEF Broadcast, vault
<1>2. mempool \in Seq(Requests)
  BY Typed
<1>3. PICK n \in Nat : n = Len(mempool)
  BY <1>2
<1>4. /\ DOMAIN mempool = 1..n /\ DOMAIN mempool' = 1..(n + 1)
      /\ mempool'[n + 1] = r /\ \A i \in 1..n : mempool'[i] = mempool[i]
  BY <1>1, <1>2, <1>3
<1>5. Range(mempool') = Range(mempool) \union {r}
  BY <1>4 DEF Range
<1>6. \A i \in 1..n : mempool[i] # r
  BY <1>1, <1>4 DEF Range
<1>7. \A i, j \in DOMAIN mempool' : mempool'[i] = mempool'[j] => i = j
  BY <1>4, <1>6 DEF AnswerInv, ChainOnce
<1>8. ChainOnce'
  BY <1>1, <1>5, <1>7 DEF AnswerInv, ChainOnce
<1>9. \A q \in Requests : pc'[q] \in Idle => q \notin applied' \union Range(mempool')
  BY <1>1, <1>5 DEF AnswerInv, Idle
<1> QED
  BY <1>8, <1>9 DEF AnswerInv

LEMMA MineOnce ==
  ASSUME AccountingInv, AnswerInv, Mine
  PROVE  AnswerInv'
<1> DEFINE r == Head(mempool)
<1>1. /\ mempool \in Seq(Requests) /\ mempool # <<>> /\ mempool' = Tail(mempool)
      /\ UNCHANGED pc
  BY Typed DEF Mine
<1>2. PICK n \in Nat : n + 1 = Len(mempool)
  <2>1. PICK m \in Nat : m = Len(mempool) /\ m > 0
    BY <1>1
  <2>2. m - 1 \in Nat /\ (m - 1) + 1 = Len(mempool)
    BY <2>1
  <2> QED
    BY <2>2
<1>3. /\ DOMAIN mempool = 1..(n + 1) /\ DOMAIN mempool' = 1..n /\ r = mempool[1]
      /\ \A i \in 1..n : mempool'[i] = mempool[i + 1]
  BY <1>1, <1>2
<1>4. \A q : q \in Range(mempool') => q \in Range(mempool)
  BY <1>3 DEF Range
<1>5. r \in Range(mempool) /\ r \notin Range(mempool')
  <2>1. \A i \in 1..n : mempool[i + 1] # mempool[1]
    BY <1>3 DEF AnswerInv, ChainOnce
  <2> QED
    BY <1>3, <2>1 DEF Range
<1>6. \A i, j \in DOMAIN mempool' : mempool'[i] = mempool'[j] => i = j
  BY <1>3 DEF AnswerInv, ChainOnce
<1>7. r \notin applied /\ r \notin reverted
  BY <1>5 DEF AnswerInv, ChainOnce
<1> HIDE DEF r
<1>8. \/ applied' = applied \union {r} /\ reverted' = reverted
      \/ reverted' = reverted \union {r} /\ applied' = applied
  BY DEF Mine, r, Vault!Settle, vault
<1>9. ChainOnce'
  BY <1>4, <1>5, <1>6, <1>7, <1>8 DEF AnswerInv, ChainOnce
<1>10. \A q \in Requests : pc'[q] \in Idle => q \notin applied' \union Range(mempool')
  BY <1>1, <1>4, <1>5, <1>8 DEF AnswerInv
<1> QED
  BY <1>9, <1>10 DEF AnswerInv

LEMMA AnswerStep ==
  ASSUME "SendLost" \notin Faults, "ReceiptLost" \notin Faults,
         AccountingInv, AnswerInv, [Next]_vars
  PROVE  AnswerInv'
<1>1. pc \in [Requests -> {"unsent", "loading", "sending", "waiting",
                           "refused", "failed", "confirmed", "lost"}]
  BY DEF AccountingInv, TypeOK
<1>2. ASSUME UNCHANGED <<chain, pc>> PROVE AnswerInv'
  BY <1>2, IdleKept DEF chain, vault
<1>3. ASSUME NEW r \in Requests,
             \/ SendFails(r) \/ SendLost(r) \/ ReceiptReverted(r) \/ ReceiptLost(r)
      PROVE  AnswerInv'
  <2>1. pc' = [pc EXCEPT ![r] = "failed"] /\ UNCHANGED <<applied, mempool, reverted>>
    BY <1>3 DEF SendFails, SendLost, ReceiptReverted, ReceiptLost, Abandon, chain, vault
  <2>2. r \notin applied \union Range(mempool)
    BY <1>3 DEF SendFails, SendLost, ReceiptReverted, ReceiptLost, AnswerInv, ChainOnce
  <2>3. \A q \in Requests : pc'[q] \in Idle => pc[q] \in Idle \/ q \notin applied \union Range(mempool)
    BY <1>1, <2>1, <2>2
  <2> QED
    BY <2>1, <2>3, IdleKept
<1>4. ASSUME NEW r \in Requests,
             \/ Begin(r) \/ Refuse(r) \/ RecordSubmitted(r) \/ Confirm(r)
      PROVE  AnswerInv'
  <2>1. UNCHANGED <<applied, mempool, reverted>>
    BY <1>4 DEF Begin, Refuse, RecordSubmitted, Confirm, chain, vault
  <2>2. \/ pc[r] = "loading" /\ pc' = [pc EXCEPT ![r] = "refused"]
        \/ \E phase \in {"sending", "waiting", "confirmed"} : pc' = [pc EXCEPT ![r] = phase]
    BY <1>4 DEF Begin, Refuse, RecordSubmitted, Confirm
  <2>3. \A q \in Requests : pc'[q] \in Idle => pc[q] \in Idle
    BY <1>1, <2>2 DEF Idle
  <2> QED
    BY <2>1, <2>3, IdleKept
<1>5. CASE HandlerStep
  BY <1>3, <1>4, <1>5 DEF HandlerStep
<1>6. CASE ArrivalStep
  <2>1. PICK r \in Requests : pc[r] = "unsent" /\ pc' = [pc EXCEPT ![r] = "loading"] /\ UNCHANGED chain
    BY <1>6 DEF ArrivalStep, SettleUser, Post, Arrive
  <2>2. \A q \in Requests : pc'[q] \in Idle => pc[q] \in Idle
    BY <1>1, <2>1 DEF Idle
  <2> QED
    BY <2>1, <2>2, IdleKept DEF chain, vault
<1>7. CASE OperatorChainStep
  BY <1>7, BroadcastOnce, MineOnce DEF OperatorChainStep
<1>8. CASE OtherChainStep
  <2>1. UNCHANGED <<applied, mempool, reverted, pc>>
    BY <1>8 DEF OtherChainStep, Fund, FundInsurance, Deposit, ApproveWithdraw, Withdraw,
       Vault!WalletChanges, Vault!FillPool, Vault!Deposit, Vault!Authorise, Vault!PayOut
  <2> QED
    BY <2>1, IdleKept
<1>9. CASE Deliver \/ WorldStep \/ UNCHANGED vars
  BY <1>2, <1>9 DEF Deliver, WorldStep, RealizePnl, DeadlinePasses, ExpireIntent, vars
<1>10. CASE Restart
  <2>1. \A q \in Requests : pc'[q] \in Idle => pc[q] \in Idle
    BY <1>1, <1>10 DEF Restart, Idle
  <2> QED
    BY <1>10, <2>1, IdleKept DEF Restart, chain, vault
<1> QED
  BY <1>5, <1>6, <1>7, <1>8, <1>9, <1>10 DEF Next

LEMMA AnswerInit == Init => AnswerInv
<1> SUFFICES ASSUME Init PROVE AnswerInv OBVIOUS
<1>1. mempool = <<>> /\ reverted = {} /\ applied = {}
  BY DEF Init, Vault!Init
<1>2. DOMAIN mempool = {} /\ Range(mempool) = {}
  BY <1>1 DEF Range
<1> QED BY <1>1, <1>2 DEF AnswerInv, ChainOnce

\* If every RPC call is answered, an error means that no money moved or will
\* move, and a success that it moved, whatever the process's restarts.
THEOREM AnswerTheorem ==
  ASSUME "SendLost" \notin Faults, "ReceiptLost" \notin Faults
  PROVE  Spec => []AnswerIsTrue
<1>1. AccountingInv /\ AnswerInv /\ [Next]_vars => AnswerInv'
  BY AnswerStep
<1>2. AccountingInv /\ AnswerInv /\ ConsumedInv => AnswerIsTrue
  BY DEF AccountingInv, ConfirmedIsOnChain, AnswerInv, Idle, ConsumedInv, AnswerIsTrue
<1> QED
  BY <1>1, <1>2, AnswerInit, AccountingInvariant, ConsumedInvariant, PTL DEF Spec

-----------------------------------------------------------------------------
(* Marks. *)

\* From the first segment after the await to the confirmation of its record, a
\* request holds its user's in-flight mark.
AtWork(r) == pc[r] \in {"sending", "waiting"} /\ ~ Confirmed(r)

MarkInv ==
  /\ \A r \in Requests : pc[r] # "lost"
  /\ \A r \in Requests : AtWork(r) => settlementInFlight[request[r].user] = InFlight(r)
  /\ AuditDataIsOwn

\* Two requests at work are of different users.
LEMMA MarkIsExclusive ==
  ASSUME MarkInv, NEW q \in Requests, NEW r \in Requests, AtWork(q), AtWork(r),
         request[q].user = request[r].user
  PROVE  q = r
<1>1. InFlight(q) = InFlight(r)
  BY DEF MarkInv
<1>2. InFlight(q).id = q /\ InFlight(r).id = r
  BY DEF InFlight
<1> QED
  BY <1>1, <1>2

\* A log whose record is not confirmed finds its request at work.
LEMMA LogMeetsRequest ==
  ASSUME AccountingInv, AnswerInv, ConsumedInv, MarkInv, NEW k \in DOMAIN logs,
         logs[k].name = "SettlementApplied", ~ Confirmed(logs[k].id)
  PROVE  AtWork(logs[k].id)
<1>1. logs[k].id \in Requests /\ logs[k].id \in applied
  BY DEF AccountingInv, LogsAreRequests
<1>2. pc[logs[k].id] \notin Idle /\ pc[logs[k].id] # "lost" /\ pc[logs[k].id] # "confirmed"
  BY <1>1 DEF AnswerInv, ConsumedInv, MarkInv
<1>3. pc[logs[k].id] \in {"unsent", "loading", "sending", "waiting",
                          "refused", "failed", "confirmed", "lost"}
  BY <1>1 DEF AccountingInv, TypeOK
<1> QED
  BY <1>2, <1>3 DEF AtWork, Idle

LEMMA ApplyKeepsMarks ==
  ASSUME AccountingInv, AnswerInv, ConsumedInv, MarkInv, NEW k \in DOMAIN logs,
         logs[k].name = "SettlementApplied", ApplyIndexedSettlement(logs[k]),
         UNCHANGED <<logs, request, realized>>,
         \A q \in Requests : pc'[q] = pc[q] \/ pc'[q] = "confirmed"
  PROVE  MarkInv'
<1> DEFINE id == logs[k].id
           user == logs[k].user
           flying == settlementInFlight[user]
<1>1. id \in Requests /\ user = request[id].user /\ request[id] # None
  BY DEF AccountingInv, LogsAreRequests
<1>2. \A r \in Requests : pc'[r] # "lost" /\ (pc'[r] \in {"sending", "waiting"} => pc'[r] = pc[r])
  BY DEF MarkInv
<1>3. \A r \in Requests : InFlight(r)' = InFlight(r)
  BY DEF InFlight
<1>4. CASE Confirmed(id)
  <2>1. UNCHANGED ledger
    BY <1>4 DEF ApplyIndexedSettlement, Confirmed
  <2>2. \A r \in Requests : AtWork(r)' => AtWork(r)
    BY <1>2, <2>1 DEF AtWork, Confirmed, ledger
  <2> QED
    BY <1>2, <1>3, <2>1, <2>2 DEF MarkInv, AuditDataIsOwn, ledger
<1>5. CASE ~ Confirmed(id)
  <2>1. AtWork(id)
    BY <1>5, LogMeetsRequest
  <2>2. flying = InFlight(id)
    BY <1>1, <2>1 DEF MarkInv
  <2>3. /\ Confirmed(id)' /\ \A r \in Requests \ {id} : settlements'[r] = settlements[r]
        /\ settlements' \in [Requests -> SettlementRecords]
    BY ApplyEffect DEF AccountingInv
  <2>4. /\ user \in Users /\ InFlight(id) # None
        /\ settlementInFlight \in [Users -> InFlightMarks \union {None}]
    <3>1. pc[id] # "unsent"
      BY <2>1 DEF AtWork
    <3> QED
      BY <1>1, <3>1, StartedRequest, Typed
  <2>5. \A u \in Users \ {user} : settlementInFlight'[u] = settlementInFlight[u]
    BY <1>5, <2>4 DEF ApplyIndexedSettlement, Confirmed
  <2>6. settlements'[id].type = request[id].type /\ settlements'[id].intents = request[id].intents
    <3> DEFINE existing == settlements[id]
               context == IF existing.status # "NONE" THEN existing
                          ELSE IF flying # None THEN flying ELSE NoRecord
    <3>1. settlements' = [settlements EXCEPT ![id] =
             [status |-> "ONCHAIN_CONFIRMED", type |-> context.type,
              delta |-> FromMicroUsdc(logs[k].amount), intents |-> context.intents]]
      BY <1>5 DEF ApplyIndexedSettlement, Confirmed
    <3>2. settlements'[id].type = context.type /\ settlements'[id].intents = context.intents
      <4> HIDE DEF context
      <4> QED
        BY <1>1, <3>1, Typed
    <3>3. CASE existing.status # "NONE"
      BY <1>1, <3>2, <3>3 DEF MarkInv, AuditDataIsOwn
    <3>4. CASE existing.status = "NONE"
      <4>1. context = InFlight(id)
        BY <2>2, <2>4, <3>4
      <4> HIDE DEF context
      <4> QED
        BY <3>2, <4>1 DEF InFlight
    <3> QED
      BY <3>3, <3>4
  <2>7. AuditDataIsOwn'
    BY <2>3, <2>6 DEF MarkInv, AuditDataIsOwn
  <2>8. ASSUME NEW r \in Requests, AtWork(r)'
        PROVE  settlementInFlight'[request'[r].user] = InFlight(r)'
    <3>1. r # id
      BY <2>3, <2>8 DEF AtWork
    <3>2. AtWork(r)
      BY <1>2, <2>3, <2>8, <3>1 DEF AtWork, Confirmed
    <3>3. request[r].user # user
      BY <1>1, <2>1, <3>1, <3>2, MarkIsExclusive
    <3>4. request[r].user \in Users
      BY <3>2, StartedRequest DEF AtWork
    <3> QED
      BY <1>3, <2>5, <3>2, <3>3, <3>4 DEF MarkInv
  <2> QED
    BY <1>2, <2>7, <2>8 DEF MarkInv
<1> QED
  BY <1>4, <1>5

\* A step of one handler that writes no confirmed record: other requests at work
\* keep their user's mark.
LEMMA MarksKept ==
  ASSUME AccountingInv, MarkInv, UNCHANGED <<request, settlements>>,
         NEW r \in Requests, NEW mark \in InFlightMarks \union {None}, pc[r] # "unsent",
         settlementInFlight' = [settlementInFlight EXCEPT ![request[r].user] = mark],
         \A q \in Requests : pc'[q] = IF q = r THEN pc'[r] ELSE pc[q],
         pc'[r] # "lost",
         AtWork(r)' => mark = InFlight(r),
         \A q \in Requests \ {r} : AtWork(q) => request[q].user # request[r].user
  PROVE  MarkInv'
<1>1. settlementInFlight \in [Users -> InFlightMarks \union {None}] /\ request[r].user \in Users
  BY Typed, StartedRequest
<1>2. \A q \in Requests : InFlight(q)' = InFlight(q)
  BY DEF InFlight
<1>3. ASSUME NEW q \in Requests, AtWork(q)'
      PROVE  settlementInFlight'[request[q].user] = InFlight(q)
  <2>1. CASE q = r
    BY <1>1, <1>3, <2>1
  <2>2. CASE q # r
    <3>1. AtWork(q)
      BY <1>3, <2>2 DEF AtWork, Confirmed
    <3>2. request[q].user \in Users /\ request[q].user # request[r].user
      BY <2>2, <3>1, StartedRequest DEF AtWork
    <3> QED
      BY <1>1, <3>1, <3>2 DEF MarkInv
  <2> QED
    BY <2>1, <2>2
<1>4. \A q \in Requests : pc'[q] # "lost"
  BY DEF MarkInv
<1> QED
  BY <1>2, <1>3, <1>4 DEF MarkInv, AuditDataIsOwn

LEMMA SameMarks ==
  ASSUME MarkInv, UNCHANGED <<pc, request, settlements, settlementInFlight>>
  PROVE  MarkInv'
BY DEF MarkInv, AtWork, AuditDataIsOwn, Confirmed, InFlight

LEMMA ArriveKeepsMarks ==
  ASSUME AccountingInv, MarkInv, NEW r \in Requests, NEW u, NEW a, NEW t, NEW d, NEW s,
         Arrive(r, u, a, t, d, s)
  PROVE  MarkInv'
<1>1. /\ pc[r] = "unsent" /\ pc' = [pc EXCEPT ![r] = "loading"]
      /\ \A q \in Requests \ {r} : request'[q] = request[q]
      /\ UNCHANGED <<settlements, settlementInFlight>>
  BY Typed DEF Arrive, ledger
<1>2. settlements[r].status = "NONE"
  BY <1>1, Typed DEF AccountingInv, RequestsStarted, SettlementRecords
<1>3. pc'[r] = "loading" /\ \A q \in Requests \ {r} : pc'[q] = pc[q]
  BY <1>1 DEF AccountingInv, TypeOK
<1>4. \A q \in Requests : AtWork(q)' => q # r /\ AtWork(q) /\ InFlight(q)' = InFlight(q)
  BY <1>1, <1>3 DEF AtWork, Confirmed, InFlight
<1>5. AuditDataIsOwn'
  BY <1>1, <1>2 DEF MarkInv, AuditDataIsOwn
<1> QED
  BY <1>1, <1>3, <1>4, <1>5 DEF MarkInv

LEMMA HandlerKeepsMarks ==
  ASSUME Faults = {}, AccountingInv, AnswerInv, ConsumedInv, MarkInv, NEW r \in Requests,
         \/ Begin(r) \/ Refuse(r) \/ RecordSubmitted(r)
         \/ SendFails(r) \/ SendLost(r) \/ ReceiptReverted(r) \/ ReceiptLost(r)
  PROVE  MarkInv'
<1>1. /\ pc \in [Requests -> {"unsent", "loading", "sending", "waiting",
                              "refused", "failed", "confirmed", "lost"}]
      /\ settlementInFlight \in [Users -> InFlightMarks \union {None}]
      /\ settlements \in [Requests -> SettlementRecords]
  BY DEF AccountingInv, TypeOK
<1>2. pc[r] # "unsent" /\ UNCHANGED request
  BY DEF Begin, Refuse, RecordSubmitted, SendFails, SendLost, ReceiptReverted, ReceiptLost, Abandon
<1>3. InFlight(r) \in InFlightMarks /\ request[r].user \in Users
  BY <1>2, StartedRequest
<1>4. CASE Begin(r)
  <2>1. /\ settlementInFlight[request[r].user] = None /\ pc' = [pc EXCEPT ![r] = "sending"]
        /\ settlementInFlight' = [settlementInFlight EXCEPT ![request[r].user] = InFlight(r)]
        /\ UNCHANGED <<settlements, request>>
    BY <1>4 DEF Begin
  <2>2. ASSUME NEW q \in Requests \ {r}, AtWork(q)
        PROVE  request[q].user # request[r].user
    <3>1. InFlight(q) \in InFlightMarks
      BY <2>2, StartedRequest DEF AtWork
    <3> QED
      BY <2>1, <2>2, <3>1 DEF MarkInv
  <2>3. pc'[r] = "sending" /\ \A q \in Requests : pc'[q] = IF q = r THEN pc'[r] ELSE pc[q]
    BY <1>1, <2>1
  <2> QED
    BY <1>2, <1>3, <2>1, <2>2, <2>3, MarksKept
<1>5. CASE Refuse(r)
  <2>1. pc' = [pc EXCEPT ![r] = "refused"] /\ UNCHANGED <<settlements, settlementInFlight, request>>
    BY <1>5 DEF Refuse, ledger
  <2>2. \A q \in Requests : pc'[q] # "lost" /\ (AtWork(q)' => AtWork(q)) /\ InFlight(q)' = InFlight(q)
    BY <1>1, <2>1 DEF AtWork, Confirmed, InFlight, MarkInv
  <2> QED
    BY <2>1, <2>2 DEF MarkInv, AuditDataIsOwn
<1>6. CASE RecordSubmitted(r)
  <2>1. pc[r] = "sending" /\ pc' = [pc EXCEPT ![r] = "waiting"]
    BY <1>6 DEF RecordSubmitted
  <2>2. CASE settlements[r].status # "NONE"
    <3>1. UNCHANGED <<settlements, settlementInFlight>>
      BY <1>6, <2>2 DEF RecordSubmitted
    <3>2. \A q \in Requests : pc'[q] # "lost" /\ (AtWork(q)' => AtWork(q)) /\ InFlight(q)' = InFlight(q)
      BY <1>1, <1>2, <2>1, <3>1 DEF AtWork, Confirmed, InFlight, MarkInv
    <3> QED
      BY <1>2, <3>1, <3>2 DEF MarkInv, AuditDataIsOwn
  <2>3. CASE settlements[r].status = "NONE"
    <3> DEFINE record == [status |-> "ONCHAIN_SUBMITTED", type |-> request[r].type,
                          delta |-> request[r].delta, intents |-> request[r].intents]
    <3>1. /\ settlements' = [settlements EXCEPT ![r] = record]
          /\ settlementInFlight' = [settlementInFlight EXCEPT ![request[r].user] = InFlight(r)]
      BY <2>3, <1>6 DEF RecordSubmitted
    <3>2. /\ settlements'[r].status = "ONCHAIN_SUBMITTED"
          /\ settlements'[r].type = request[r].type /\ settlements'[r].intents = request[r].intents
          /\ \A q \in Requests \ {r} : settlements'[q] = settlements[q]
      BY <1>1, <3>1
    <3> HIDE DEF record
    <3>3. AtWork(r)
      BY <2>1, <2>3 DEF AtWork, Confirmed
    <3>4. settlementInFlight' = settlementInFlight
      BY <1>1, <1>3, <3>1, <3>3 DEF MarkInv
    <3>5. \A q \in Requests : pc'[q] # "lost" /\ (AtWork(q)' => AtWork(q)) /\ InFlight(q)' = InFlight(q)
      BY <1>1, <1>2, <2>1, <3>2, <3>3 DEF AtWork, Confirmed, InFlight, MarkInv
    <3>6. AuditDataIsOwn'
      BY <1>2, <3>2 DEF MarkInv, AuditDataIsOwn
    <3> QED
      BY <1>2, <3>4, <3>5, <3>6 DEF MarkInv
  <2> QED
    BY <2>2, <2>3
<1>7. CASE SendFails(r) \/ SendLost(r) \/ ReceiptReverted(r) \/ ReceiptLost(r)
  <2>1. /\ Abandon(r) /\ pc[r] \in {"sending", "waiting"} /\ r \notin applied
    BY <1>7 DEF SendFails, SendLost, ReceiptReverted, ReceiptLost, AnswerInv, ChainOnce
  <2>2. /\ settlementInFlight' = [settlementInFlight EXCEPT ![request[r].user] = None]
        /\ pc' = [pc EXCEPT ![r] = "failed"] /\ UNCHANGED <<settlements, request>>
    BY <2>1 DEF Abandon
  <2>3. AtWork(r)
    BY <2>1 DEF AtWork, AccountingInv, ConfirmedIsOnChain
  <2>4. \A q \in Requests \ {r} : AtWork(q) => request[q].user # request[r].user
    BY <2>3, MarkIsExclusive
  <2>5. pc'[r] = "failed" /\ \A q \in Requests : pc'[q] = IF q = r THEN pc'[r] ELSE pc[q]
    BY <1>1, <2>2
  <2>6. ~ AtWork(r)'
    BY <2>5 DEF AtWork
  <2> QED
    BY <1>2, <2>2, <2>4, <2>5, <2>6, MarksKept
<1> QED
  BY <1>4, <1>5, <1>6, <1>7

LEMMA MarkStep ==
  ASSUME Faults = {}, AccountingInv, AnswerInv, ConsumedInv, MarkInv, [Next]_vars
  PROVE  MarkInv'
<1>1. CASE ArrivalStep
  BY <1>1, ArriveKeepsMarks DEF ArrivalStep, SettleUser, Post
<1>2. ASSUME NEW r \in Requests, Confirm(r)
      PROVE  MarkInv'
  <2>1. PICK k \in DOMAIN logs : logs[k].name = "SettlementApplied" /\ ApplyIndexedSettlement(logs[k])
    BY <1>2 DEF Confirm
  <2>2. UNCHANGED <<logs, request, realized>> /\ pc' = [pc EXCEPT ![r] = "confirmed"]
    BY <1>2 DEF Confirm, chain, world
  <2>3. \A q \in Requests : pc'[q] = pc[q] \/ pc'[q] = "confirmed"
    BY <2>2 DEF AccountingInv, TypeOK
  <2> QED
    BY <2>1, <2>2, <2>3, ApplyKeepsMarks
<1>3. CASE HandlerStep
  BY <1>2, <1>3, HandlerKeepsMarks DEF HandlerStep
<1>4. CASE Deliver
  <2>1. delivered + 1 \in DOMAIN logs
    BY <1>4, Typed DEF Deliver, AccountingInv, TypeOK
  <2>2. \/ UNCHANGED <<settlements, settlementInFlight>>
        \/ /\ logs[delivered + 1].name = "SettlementApplied"
           /\ ApplyIndexedSettlement(logs[delivered + 1])
    BY <1>4 DEF Deliver
  <2>3. UNCHANGED <<pc, logs, request, realized>>
    BY <1>4 DEF Deliver, chain, world
  <2> QED
    BY <2>1, <2>2, <2>3, SameMarks, ApplyKeepsMarks
<1>5. CASE OperatorChainStep \/ OtherChainStep \/ WorldStep \/ UNCHANGED vars
  <2>1. UNCHANGED <<pc, request, settlements, settlementInFlight>>
    BY <1>5 DEF OperatorChainStep, Mine, Broadcast, OtherChainStep, Fund, FundInsurance, Deposit,
       ApproveWithdraw, Withdraw, WorldStep, RealizePnl, DeadlinePasses, ExpireIntent, vars, ledger
  <2> QED
    BY <2>1, SameMarks
<1>6. CASE Restart
  BY <1>6 DEF Restart
<1> QED
  BY <1>1, <1>3, <1>4, <1>5, <1>6 DEF Next

LEMMA MarkInit == Init => MarkInv
BY DEF Init, MarkInv, AtWork, AuditDataIsOwn, NoRecord

LEMMA MarkInvariant ==
  ASSUME Faults = {}
  PROVE  Spec => [](AccountingInv /\ AnswerInv /\ MarkInv)
<1>1. AccountingInv /\ AnswerInv /\ [Next]_vars => AnswerInv'
  BY AnswerStep
<1>2. AccountingInv /\ AnswerInv /\ ConsumedInv /\ MarkInv /\ [Next]_vars => MarkInv'
  BY MarkStep
<1> QED
  BY <1>1, <1>2, AnswerInit, MarkInit, AccountingInvariant, ConsumedInvariant, PTL DEF Spec

\* If nothing fails, no two settlements of a user are ever under way at once,
\* whatever the handlers, the indexer and the chain do in which order.
THEOREM SingleFlightTheorem ==
  ASSUME Faults = {}
  PROVE  Spec => []SingleFlight
<1>1. ASSUME AccountingInv, AnswerInv, ConsumedInv, MarkInv
      PROVE  SingleFlight
  <2> SUFFICES ASSUME NEW u \in Users
               PROVE  Cardinality(Outstanding(u)) <= 1
    BY DEF SingleFlight
  <2>1. ASSUME NEW r \in Outstanding(u)
        PROVE  r \in Requests /\ AtWork(r) /\ request[r].user = u
    <3>1. /\ r \in Requests /\ request[r].user = u /\ r \notin applied
          /\ r \in Range(mempool) \/ pc[r] \in {"sending", "waiting"}
      BY DEF Outstanding
    <3>2. ~ Confirmed(r) /\ pc[r] # "lost" /\ pc[r] # "confirmed"
      BY <1>1, <3>1 DEF AccountingInv, ConfirmedIsOnChain, ConsumedInv, MarkInv
    <3>3. pc[r] \notin Idle \/ r \notin Range(mempool)
      BY <1>1, <3>1 DEF AnswerInv
    <3>4. pc[r] \in {"unsent", "loading", "sending", "waiting",
                     "refused", "failed", "confirmed", "lost"}
      BY <1>1, <3>1 DEF AccountingInv, TypeOK
    <3> QED
      BY <3>1, <3>2, <3>3, <3>4 DEF AtWork, Idle
  <2>2. \A q, r \in Outstanding(u) : q = r
    BY <1>1, <2>1, MarkIsExclusive
  <2>3. CASE Outstanding(u) = {}
    BY <2>3, FS_EmptySet
  <2>4. CASE Outstanding(u) # {}
    <3>1. PICK r : Outstanding(u) = {r}
      BY <2>2, <2>4
    <3>2. Cardinality({r}) = 1
      BY FS_Singleton
    <3> QED
      BY <3>1, <3>2
  <2> QED
    BY <2>3, <2>4
<1>2. AccountingInv /\ AnswerInv /\ ConsumedInv /\ MarkInv => SingleFlight
  BY <1>1
<1> QED
  BY <1>2, MarkInvariant, ConsumedInvariant, PTL

\* If nothing fails, the audit record of a settlement is its request's own,
\* whether the handler or the indexer wrote it.
THEOREM AuditTheorem ==
  ASSUME Faults = {}
  PROVE  Spec => []AuditDataIsOwn
<1>1. MarkInv => AuditDataIsOwn
  BY DEF MarkInv
<1> QED
  BY <1>1, MarkInvariant, PTL
=============================================================================
