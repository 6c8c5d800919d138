--------------------- MODULE BlockchainIndexerTheorems ---------------------
(***************************************************************************)
(* Proofs about BlockchainIndexer and Reconciliation, for any chain, any   *)
(* users and amounts, and any number of restarts and reports.  Which       *)
(* faults each theorem allows is its hypothesis.                           *)
(*                                                                         *)
(* The argument has four layers: the logs are numbered in the order of the *)
(* blocks (ChainInv); what waits in a batch is newer than all that was     *)
(* claimed, and a log that was skipped is behind the cursor (OrderInv);    *)
(* the vault's books after a log are its books after the handled log       *)
(* before, with that log replayed (BooksInv); so a ledger to which all     *)
(* logs up to some log were applied shows the books after it (LedgerInv).  *)
(***************************************************************************)
EXTENDS Reconciliation, ArithmeticTheorems

V == INSTANCE CollateralVaultTheorems

\* The contract's transactions, as its own theorems know them.
LEMMA VaultBridge ==
  /\ Vault!Init => V!Init
  /\ Vault!Next => V!Next
<1>1. Vault!Init => V!Init
  BY DEF Vault!Init, V!Init, Vault!Accounts, V!Accounts
<1>2. ASSUME NEW u \in Users, NEW a \in Amounts, Vault!Mint(u, a)
      PROVE  V!Mint(u, a)
  <2>1. Vault!Supply = V!Supply
    BY Zenon DEF Vault!Supply, V!Supply, Vault!SumOver, V!SumOver, Vault!PartialSums, V!PartialSums,
       Vault!Numbering, V!Numbering, Vault!Bijection, V!Bijection, Vault!Injection, V!Injection,
       Vault!Surjection, V!Surjection, Vault!Cardinality, V!Cardinality, Vault!Accounts, V!Accounts,
       Vault!IsInjective, V!IsInjective
  <2> QED
    BY <1>2, <2>1 DEF Vault!Mint, V!Mint,
       Vault!accounting, V!accounting, Vault!withdrawals, V!withdrawals
<1>3. ASSUME NEW u \in Users, NEW a \in Amounts
      PROVE  /\ Vault!TransferDirectly(u, a) => V!TransferDirectly(u, a)
             /\ Vault!Deposit(u, a) => V!Deposit(u, a)
             /\ Vault!FundInsurance(u, a) => V!FundInsurance(u, a)
             /\ Vault!RecordWithdrawRequest(u, a) => V!RecordWithdrawRequest(u, a)
             /\ Vault!WithdrawApproved(u, a) => V!WithdrawApproved(u, a)
  BY DEF Vault!TransferDirectly, V!TransferDirectly, Vault!Deposit, V!Deposit, Vault!FundInsurance, V!FundInsurance,
     Vault!RecordWithdrawRequest, V!RecordWithdrawRequest, Vault!WithdrawApproved, V!WithdrawApproved,
     Vault!TransferFrom, V!TransferFrom, Vault!TransferTo, V!TransferTo, Vault!Event, V!Event,
     Vault!AssertSolvent, V!AssertSolvent, Vault!Excess, V!Excess,
     Vault!accounting, V!accounting, Vault!withdrawals, V!withdrawals
<1>4. ASSUME NEW o \in Operators, NEW u \in Users, NEW a \in Amounts
      PROVE  Vault!ApproveWithdraw(o, u, a) => V!ApproveWithdraw(o, u, a)
  BY DEF Vault!ApproveWithdraw, V!ApproveWithdraw, Vault!Event, V!Event, Vault!Excess, V!Excess,
     Vault!accounting, V!accounting
<1>5. ASSUME NEW o \in Operators, NEW u \in Users, NEW d \in Deltas, NEW id \in SettlementIds
      PROVE  /\ Vault!Settle(o, u, d, id) => V!Settle(o, u, d, id)
             /\ Vault!SettlePnl(o, u, d, id) => V!SettlePnl(o, u, d, id)
  BY DEF Vault!Settle, V!Settle, Vault!SettlePnl, V!SettlePnl, Vault!ApplySettlement, V!ApplySettlement,
     Vault!MoveSettlement, V!MoveSettlement, Vault!InsuranceLog, V!InsuranceLog, Vault!Event, V!Event,
     Vault!SettlementEvent, V!SettlementEvent,
     Vault!AssertSolvent, V!AssertSolvent, Vault!withdrawals, V!withdrawals
<1>6. ASSUME NEW o \in Operators
      PROVE  Vault!SetOperator(o) => V!SetOperator(o)
  BY DEF Vault!SetOperator, V!SetOperator, Vault!accounting, V!accounting, Vault!withdrawals, V!withdrawals
<1>7. Vault!Next => V!Next
  BY <1>2, <1>3, <1>4, <1>5, <1>6
  DEF Vault!Next, V!Next, Vault!TokenStep, V!TokenStep, Vault!UserStep, V!UserStep,
      Vault!OperatorStep, V!OperatorStep, Vault!OwnerStep, V!OwnerStep,
      Vault!RequestWithdraw, V!RequestWithdraw, Vault!RequestWithdrawFor, V!RequestWithdrawFor
<1> QED
  BY <1>1, <1>7

LEMMA VaultTypeStep ==
  ASSUME V!TypeOK, Vault!Next
  PROVE  V!TypeOK'
  BY IndexerAssumption, VaultBridge, V!TypeStep DEF IsFiniteSet, V!IsFiniteSet

\* Nothing is applied that was not claimed before, and nothing twice.
ClaimInv == applied \in Seq(claimed) /\ NeverAppliedTwice

\* A claim may be lost by a kill before its log is applied, never taken back.
LEMMA ClaimKept ==
  ASSUME ClaimInv, claimed \subseteq claimed', UNCHANGED applied
  PROVE  ClaimInv'
<1>1. /\ Len(applied) \in Nat /\ applied \in [1..Len(applied) -> claimed]
  BY DEF ClaimInv
<1>2. applied \in [1..Len(applied) -> claimed']
  BY <1>1
<1>3. applied' \in Seq(claimed')
  BY <1>1, <1>2
<1> QED
  BY <1>3 DEF ClaimInv, NeverAppliedTwice, IsInjective

\* The writes of one log, however many of them were made.
LEMMA WritesKeep ==
  ASSUME ClaimInv, NEW k, NEW n \in 1..AllWrites, Fresh(k), WriteUpTo(k, n)
  PROVE  ClaimInv'
<1>1. k \notin claimed /\ claimed' = claimed \union {k}
  BY DEF Fresh, WriteUpTo, AllWrites
<1>2. CASE UNCHANGED applied
  BY <1>1, <1>2, ClaimKept
<1>3. CASE applied' = Append(applied, k)
  <2>1. /\ Len(applied) \in Nat /\ applied \in [1..Len(applied) -> claimed]
    BY DEF ClaimInv
  <2>2. applied \in Seq(claimed')
    <3>1. applied \in [1..Len(applied) -> claimed']
      BY <1>1, <2>1
    <3> QED
      BY <2>1, <3>1
  <2>3. applied' \in Seq(claimed')
    BY <1>1, <1>3, <2>2
  <2>4. /\ DOMAIN applied' = 1..(Len(applied) + 1) /\ applied'[Len(applied) + 1] = k
        /\ \A i \in 1..Len(applied) : applied'[i] = applied[i] /\ applied'[i] # k
    BY <1>1, <1>3, <2>1, <2>2
  <2>5. \A i, j \in 1..Len(applied) : applied[i] = applied[j] => i = j
    BY <2>1 DEF ClaimInv, NeverAppliedTwice, IsInjective
  <2>6. NeverAppliedTwice'
    BY <2>1, <2>4, <2>5 DEF NeverAppliedTwice, IsInjective
  <2> QED
    BY <2>3, <2>6 DEF ClaimInv
<1> QED
  BY <1>2, <1>3 DEF WriteUpTo

LEMMA ClaimStep == ClaimInv /\ [Next]_vars => ClaimInv'
<1> SUFFICES ASSUME ClaimInv, [Next]_vars
             PROVE  ClaimInv'
  OBVIOUS
<1>1. CASE UNCHANGED database
  BY <1>1, ClaimKept DEF database
<1>2. CASE HandleLog
  BY <1>1, <1>2, WritesKeep DEF HandleLog, AllWrites
<1>3. CASE Kill
  BY <1>1, <1>3, WritesKeep DEF Kill, AllWrites
<1>4. Transact \/ SealBlock \/ Start \/ StartFails \/ Watch \/ Poll \/ Stop \/ UNCHANGED vars
        => UNCHANGED database
  BY DEF Transact, SealBlock, Start, StartFails, Watch, Poll, Stop, vars
<1> QED
  BY <1>1, <1>2, <1>3, <1>4 DEF Next, CalmNext

\* No log is applied twice, wherever the process is killed and however often
\* the same blocks are read: the claim is written before the effects.
THEOREM OnceTheorem == Spec => []NeverAppliedTwice
<1>1. Init => ClaimInv
  BY DEF Init, ClaimInv, NeverAppliedTwice, IsInjective
<1>2. ClaimInv => NeverAppliedTwice
  BY DEF ClaimInv
<1> QED
  BY <1>1, <1>2, ClaimStep, PTL DEF Spec
-----------------------------------------------------------------------------
Logs == [event : V!Events, block : Nat]

BlockOf(k) == logs[k].block

IsHandled(k) == logs[k].event.name \in Handled

\* The chain as the indexer may rely on it: its logs are numbered in the order
\* of its blocks.
ChainInv ==
  /\ V!TypeOK
  /\ head \in Nat
  /\ logs \in Seq(Logs)
  /\ \A k \in DOMAIN logs : 1 <= BlockOf(k) /\ BlockOf(k) <= head + 1
  /\ \A j, k \in DOMAIN logs : j <= k => BlockOf(j) <= BlockOf(k)

Increasing(s) == \A i, j \in DOMAIN s : i < j => s[i] < s[j]


LEMMA LogFacts ==
  ASSUME ChainInv
  PROVE  /\ head \in Nat /\ Len(logs) \in Nat /\ DOMAIN logs = 1..Len(logs)
         /\ \A k \in DOMAIN logs : /\ logs[k] \in Logs
                                   /\ BlockOf(k) \in Nat /\ BlockOf(k) <= head + 1
         /\ \A j, k \in DOMAIN logs : j <= k => BlockOf(j) <= BlockOf(k)
<1>1. /\ Len(logs) \in Nat /\ DOMAIN logs = 1..Len(logs)
      /\ \A k \in DOMAIN logs : logs[k] \in Logs
  BY DEF ChainInv
<1>2. \A k \in DOMAIN logs : BlockOf(k) \in Nat
  BY <1>1 DEF BlockOf, Logs
<1> QED BY <1>1, <1>2 DEF ChainInv

\* The logs of the blocks up to one are the first ones.
LEMMA UpToIsPrefix ==
  ASSUME ChainInv, NEW b \in Nat
  PROVE  /\ LogsUpTo(b) \in 0..Len(logs)
         /\ \A k \in DOMAIN logs : BlockOf(k) <= b <=> k <= LogsUpTo(b)
<1> DEFINE S == {k \in DOMAIN logs : logs[k].block <= b}
<1>1. PICK n \in 0..Len(logs) : \A k \in DOMAIN logs : BlockOf(k) <= b <=> k <= n
  <2>1. CASE S = DOMAIN logs
    <3>1. Len(logs) \in 0..Len(logs) /\ DOMAIN logs = 1..Len(logs)
      BY LogFacts
    <3>2. \A k \in DOMAIN logs : BlockOf(k) <= b <=> k <= Len(logs)
      BY <2>1, <3>1 DEF BlockOf
    <3> QED BY <3>1, <3>2
  <2>2. CASE S # DOMAIN logs
    <3> DEFINE Later == DOMAIN logs \ S
    <3>1. Later \in SUBSET Nat /\ Later # {}
      BY <2>2, LogFacts
    <3>2. PICK m \in Later : \A k \in Later : m <= k
      <4> HIDE DEF Later
      <4> QED BY <3>1, LeastElement
    <3>3. m \in DOMAIN logs /\ m \in 1..Len(logs) /\ BlockOf(m) \in Nat /\ ~(BlockOf(m) <= b)
      BY <3>2, LogFacts DEF BlockOf
    <3>4. ASSUME NEW k \in DOMAIN logs
          PROVE  BlockOf(k) <= b <=> k <= m - 1
      <4>1. k \in Nat /\ BlockOf(k) \in Nat
        BY LogFacts
      <4>2. CASE k \in Later
        <5>1. m <= k /\ ~(BlockOf(k) <= b)
          BY <3>2, <4>2 DEF BlockOf
        <5> QED BY <3>3, <4>1, <5>1
      <4>3. CASE k \notin Later
        <5>1. BlockOf(k) <= b
          BY <4>3 DEF BlockOf
        <5>2. ~(m <= k)
          BY <3>3, <4>1, <5>1, LogFacts
        <5> QED BY <3>3, <4>1, <5>1, <5>2
      <4> QED BY <4>2, <4>3
    <3>5. m - 1 \in 0..Len(logs)
      BY <3>3, LogFacts
    <3> QED BY <3>4, <3>5
  <2> QED BY <2>1, <2>2
<1>2. S = 1..n
  BY <1>1, LogFacts DEF BlockOf
<1>3. LogsUpTo(b) = n
  <2>1. Cardinality(1..n) = n
    BY FS_Interval
  <2> QED BY <1>2, <2>1 DEF LogsUpTo
<1> QED BY <1>1, <1>3

\* What is fetched for a range of blocks: their logs, all of them, in order.
LEMMA BetweenIsRange ==
  ASSUME ChainInv, NEW low \in Nat, NEW high \in Nat
  PROVE  /\ LogsBetween(low, high) \in Seq(DOMAIN logs)
         /\ Increasing(LogsBetween(low, high))
         /\ \A k \in DOMAIN logs :
              k \in Range(LogsBetween(low, high)) <=> low < BlockOf(k) /\ BlockOf(k) <= high
<1> DEFINE l == LogsUpTo(low)
           h == LogsUpTo(high)
           b == LogsBetween(low, high)
<1>1. /\ l \in 0..Len(logs) /\ h \in 0..Len(logs) /\ Len(logs) \in Nat /\ DOMAIN logs = 1..Len(logs)
      /\ \A k \in DOMAIN logs : (BlockOf(k) <= low <=> k <= l) /\ (BlockOf(k) <= high <=> k <= h)
      /\ \A k \in DOMAIN logs : BlockOf(k) \in Nat
  BY UpToIsPrefix, LogFacts
<1>2. b = [i \in 1..(h - l) |-> l + i]
  BY DEF LogsBetween
<1> HIDE DEF l, h, b
<1>3. /\ DOMAIN b = 1..(h - l)
      /\ \A i \in 1..(h - l) : b[i] = l + i /\ b[i] \in DOMAIN logs
  BY <1>1, <1>2
<1>4. b \in Seq(DOMAIN logs)
  <2>1. CASE h >= l
    BY <1>1, <1>2, <1>3, <2>1
  <2>2. CASE h < l
    <3>1. 1..(h - l) = {}
      BY <1>1, <2>2
    <3>2. b = <<>>
      BY <1>2, <3>1
    <3> QED BY <3>2
  <2> QED BY <1>1, <2>1, <2>2
<1>5. Increasing(b)
  BY <1>1, <1>3 DEF Increasing
<1>6. ASSUME NEW k \in DOMAIN logs
      PROVE  k \in Range(b) <=> low < BlockOf(k) /\ BlockOf(k) <= high
  <2>1. k \in Range(b) <=> l < k /\ k <= h
    <3>1. ASSUME l < k, k <= h PROVE k \in Range(b)
      <4>1. k - l \in 1..(h - l) /\ b[k - l] = k
        BY <1>1, <1>3, <3>1
      <4> QED BY <1>3, <4>1 DEF Range
    <3>2. ASSUME k \in Range(b) PROVE l < k /\ k <= h
      BY <1>1, <1>3, <3>2 DEF Range
    <3> QED BY <3>1, <3>2
  <2>2. low < BlockOf(k) <=> l < k
    BY <1>1
  <2> QED BY <1>1, <2>1, <2>2
<1> QED BY <1>4, <1>5, <1>6 DEF b

\* A transaction adds logs to the block under construction and leaves the others
\* alone.
LEMMA LogsGrow ==
  ASSUME ChainInv, Transact
  PROVE  /\ V!TypeOK' /\ receipt' \in Seq(V!Events)
         /\ logs' \in Seq(Logs) /\ Len(logs') = Len(logs) + Len(receipt')
         /\ \A k \in DOMAIN logs : k \in DOMAIN logs' /\ logs'[k] = logs[k]
         /\ \A k \in DOMAIN logs' \ DOMAIN logs :
              /\ k > Len(logs) /\ k - Len(logs) \in DOMAIN receipt'
              /\ logs'[k] = [event |-> receipt'[k - Len(logs)], block |-> head + 1]
<1> DEFINE added == [i \in DOMAIN receipt' |-> [event |-> receipt'[i], block |-> head + 1]]
<1>1. V!TypeOK'
  BY VaultTypeStep DEF ChainInv, Transact
<1>2. receipt' \in Seq(V!Events)
  BY <1>1 DEF V!TypeOK
<1>3. Len(receipt') \in Nat /\ DOMAIN receipt' = 1..Len(receipt')
      /\ \A i \in DOMAIN receipt' : receipt'[i] \in V!Events
  BY <1>2
<1>4. head + 1 \in Nat /\ logs \in Seq(Logs)
  BY DEF ChainInv
<1>5. \A i \in DOMAIN receipt' : added[i] \in Logs
  BY <1>3, <1>4 DEF Logs
<1>6. added \in Seq(Logs) /\ Len(added) = Len(receipt')
  BY <1>3, <1>5
<1>7. logs' = logs \o added
  BY DEF Transact
<1>8. \A i \in DOMAIN receipt' : added[i] = [event |-> receipt'[i], block |-> head + 1]
  OBVIOUS
<1> HIDE DEF added
<1>9. logs' \in Seq(Logs) /\ Len(logs') = Len(logs) + Len(receipt')
  <2>1. logs \o added \in Seq(Logs) /\ Len(logs \o added) = Len(logs) + Len(added)
    BY <1>4, <1>6
  <2> QED BY <1>6, <1>7, <2>1
<1>10. \A k \in DOMAIN logs : k \in DOMAIN logs' /\ logs'[k] = logs[k]
  BY <1>4, <1>6, <1>7
<1>11. ASSUME NEW k \in DOMAIN logs' \ DOMAIN logs
       PROVE  /\ k > Len(logs) /\ k - Len(logs) \in DOMAIN receipt'
              /\ logs'[k] = [event |-> receipt'[k - Len(logs)], block |-> head + 1]
  <2>1. k > Len(logs) /\ k - Len(logs) \in DOMAIN receipt'
    BY <1>3, <1>4, <1>9
  <2>2. logs'[k] = added[k - Len(logs)]
    BY <1>3, <1>4, <1>6, <1>7, <1>9, <2>1
  <2> QED BY <1>8, <2>1, <2>2
<1> QED BY <1>1, <1>2, <1>9, <1>10, <1>11

LEMMA ChainStep ==
  ASSUME ChainInv, [Next]_vars
  PROVE  ChainInv'
<1>1. CASE Transact
  <2>1. head' = head
    BY <1>1 DEF Transact
  <2>2. /\ logs' \in Seq(Logs) /\ Len(logs') \in Nat /\ DOMAIN logs' = 1..Len(logs')
        /\ Len(logs) \in Nat /\ DOMAIN logs = 1..Len(logs) /\ head \in Nat
    BY <1>1, LogsGrow, LogFacts
  <2>3. \A k \in DOMAIN logs : /\ BlockOf(k)' = BlockOf(k) /\ BlockOf(k) \in Nat
                               /\ 1 <= BlockOf(k) /\ BlockOf(k) <= head + 1
    BY <1>1, LogsGrow, LogFacts DEF BlockOf, ChainInv
  <2>4. \A k \in DOMAIN logs' \ DOMAIN logs : BlockOf(k)' = head + 1
    BY <1>1, LogsGrow DEF BlockOf
  <2>5. \A k \in DOMAIN logs' : 1 <= BlockOf(k)' /\ BlockOf(k)' <= head' + 1
    BY <2>1, <2>2, <2>3, <2>4
  <2>6. ASSUME NEW j \in DOMAIN logs', NEW k \in DOMAIN logs', j <= k
        PROVE  BlockOf(j)' <= BlockOf(k)'
    <3>1. CASE k \in DOMAIN logs
      <4>1. j \in DOMAIN logs
        BY <2>2, <2>6, <3>1
      <4> QED BY <2>3, <2>6, <3>1, <4>1, LogFacts
    <3>2. CASE k \notin DOMAIN logs
      BY <2>2, <2>3, <2>4, <2>6, <3>2
    <3> QED BY <3>1, <3>2
  <2> QED BY <1>1, <2>1, <2>2, <2>5, <2>6, LogsGrow DEF ChainInv
<1>2. CASE SealBlock
  <2>1. head' = head + 1 /\ logs' = logs /\ UNCHANGED vaultVars
    BY <1>2 DEF SealBlock
  <2>2. V!TypeOK'
    BY <2>1 DEF ChainInv, V!TypeOK, vaultVars
  <2>3. \A k \in DOMAIN logs : BlockOf(k)' = BlockOf(k)
    BY <2>1 DEF BlockOf
  <2> QED BY <2>1, <2>2, <2>3, LogFacts DEF ChainInv
<1>3. CASE UNCHANGED chainVars
  <2>1. V!TypeOK'
    BY <1>3 DEF chainVars, vaultVars, ChainInv, V!TypeOK
  <2> QED BY <1>3, <2>1 DEF chainVars, ChainInv, BlockOf
<1>4. [Next]_vars => Transact \/ SealBlock \/ UNCHANGED chainVars
  BY DEF Next, CalmNext, Start, StartFails, Watch, Poll, HandleLog, Stop, Kill, Terminate, vars
<1> QED BY <1>1, <1>2, <1>3, <1>4

LEMMA ChainInit == Init => ChainInv
<1> SUFFICES ASSUME Init PROVE ChainInv
  OBVIOUS
<1>1. V!TypeOK
  BY VaultBridge DEF Init, V!Init, V!TypeOK, V!Accounts
<1> QED BY <1>1 DEF Init, ChainInv

THEOREM ChainTheorem == Spec => []ChainInv
BY ChainInit, ChainStep, PTL DEF Spec
-----------------------------------------------------------------------------
(* The order of the effects. *)

InSession == phase \in {"syncing", "watching"}

\* The last block whose logs were fetched in this session.
Fetched == IF phase = "watching" THEN polled ELSE head

\* What the backend remembers is of the chain's sealed blocks.
MemoryInv ==
  /\ phase \in {"down", "off", "syncing", "watching"}
  /\ polled \in Nat /\ polled <= head
  /\ batch \in Seq(DOMAIN logs) /\ Increasing(batch)
  /\ ~InSession => batch = <<>>
  /\ \A k \in Range(batch) : BlockOf(k) <= Fetched
  /\ seenLogs \subseteq DOMAIN logs
  /\ \A k \in seenLogs : k \in claimed \/ ~IsHandled(k)

\* The cursor is the block of some claimed log.
DatabaseInv ==
  /\ claimed \subseteq DOMAIN logs
  /\ \A j \in claimed : IsHandled(j) /\ BlockOf(j) <= Fetched
  /\ cursor = 0 \/ \E j \in claimed : cursor = BlockOf(j)
  /\ applied \in Seq(claimed) /\ AppliedInChainOrder

Missing(k) == IsHandled(k) /\ k \notin claimed

\* Whatever waits in the batch is newer than everything claimed.
BatchIsAhead ==
  \A j \in claimed, k \in Range(batch) : Missing(k) => j < k

\* A log older than a claimed one that is missing is never asked for again.
SkippedIsLost ==
  \A j \in claimed, k \in DOMAIN logs : k < j /\ Missing(k) => BlockOf(k) <= cursor

\* Nothing fetched is left behind unless it is lost already: a kill must not
\* leave a newer log claimed and an older one to be asked for again.
FetchedIsQueued ==
  "Kill" \in Faults /\ InSession =>
    \A k \in DOMAIN logs :
      Missing(k) /\ k \notin Range(batch) /\ BlockOf(k) <= Fetched => BlockOf(k) <= cursor

OrderInv ==
  /\ ChainInv /\ MemoryInv /\ DatabaseInv
  /\ BatchIsAhead /\ SkippedIsLost /\ FetchedIsQueued

LEMMA OrderFacts ==
  ASSUME OrderInv
  PROVE  /\ head \in Nat /\ polled \in Nat /\ Fetched \in Nat /\ Fetched <= head
         /\ cursor \in Nat /\ cursor <= Fetched
         /\ \A k \in DOMAIN logs : k \in Nat /\ BlockOf(k) \in Nat
         /\ Len(batch) \in Nat /\ DOMAIN batch = 1..Len(batch)
         /\ Range(batch) \subseteq DOMAIN logs
<1>1. ChainInv /\ MemoryInv /\ DatabaseInv
  BY DEF OrderInv
<1>2. head \in Nat /\ polled \in Nat /\ Fetched \in Nat /\ Fetched <= head
  BY <1>1, LogFacts DEF MemoryInv, Fetched
<1>3. \A k \in DOMAIN logs : k \in Nat /\ BlockOf(k) \in Nat
  BY <1>1, LogFacts
<1>4. cursor \in Nat /\ cursor <= Fetched
  BY <1>1, <1>2, <1>3 DEF DatabaseInv
<1>5. /\ Len(batch) \in Nat /\ DOMAIN batch = 1..Len(batch)
      /\ Range(batch) \subseteq DOMAIN logs
  BY <1>1 DEF MemoryInv, Range
<1> QED BY <1>2, <1>3, <1>4, <1>5

\* The first log of a batch and the rest.
LEMMA BatchFacts ==
  ASSUME OrderInv, batch # <<>>
  PROVE  /\ Head(batch) \in DOMAIN logs /\ BlockOf(Head(batch)) <= Fetched
         /\ Head(batch) \in Range(batch)
         /\ Tail(batch) \in Seq(DOMAIN logs) /\ Increasing(Tail(batch))
         /\ \A k \in Range(Tail(batch)) : Head(batch) < k
         /\ \A k : k \in Range(batch) <=> k = Head(batch) \/ k \in Range(Tail(batch))
         /\ InSession
         /\ Fresh(Head(batch)) <=> Missing(Head(batch)) /\ Head(batch) \notin seenLogs
         /\ Missing(Head(batch)) => \A j \in claimed : j < Head(batch)
<1>1. /\ Len(batch) \in Nat /\ DOMAIN batch = 1..Len(batch)
      /\ \A i \in DOMAIN batch : batch[i] \in DOMAIN logs /\ batch[i] \in Nat /\ batch[i] \in Range(batch)
      /\ batch \in Seq(DOMAIN logs)
  BY OrderFacts DEF OrderInv, MemoryInv, Range
<1>2. 1 \in DOMAIN batch /\ Head(batch) = batch[1]
  BY <1>1
<1>3. /\ Tail(batch) \in Seq(DOMAIN logs) /\ Len(Tail(batch)) = Len(batch) - 1
      /\ DOMAIN Tail(batch) = 1..(Len(batch) - 1)
      /\ \A i \in 1..(Len(batch) - 1) : Tail(batch)[i] = batch[i + 1]
  BY <1>1
<1>4. \A i \in DOMAIN Tail(batch) : i + 1 \in DOMAIN batch /\ Tail(batch)[i] = batch[i + 1]
  BY <1>1, <1>3
<1>5. Increasing(batch)
  BY DEF OrderInv, MemoryInv
<1>6. \A k \in Range(Tail(batch)) : Head(batch) < k
  BY <1>1, <1>2, <1>3, <1>4, <1>5 DEF Increasing, Range
<1>7. Increasing(Tail(batch))
  BY <1>1, <1>3, <1>4, <1>5 DEF Increasing
<1>8. ASSUME NEW k
      PROVE  k \in Range(batch) <=> k = Head(batch) \/ k \in Range(Tail(batch))
  <2>1. ASSUME NEW i \in DOMAIN batch, k = batch[i], i # 1
        PROVE  k \in Range(Tail(batch))
    <3>1. i - 1 \in DOMAIN Tail(batch) /\ Tail(batch)[i - 1] = batch[i]
      BY <1>1, <1>3, <2>1
    <3> QED BY <2>1, <3>1 DEF Range
  <2>2. k \in Range(Tail(batch)) => k \in Range(batch)
    BY <1>4 DEF Range
  <2> QED BY <1>2, <2>1, <2>2 DEF Range
<1>9. Head(batch) \in DOMAIN logs /\ BlockOf(Head(batch)) <= Fetched /\ InSession
  BY <1>1, <1>2 DEF OrderInv, MemoryInv
<1>10. Fresh(Head(batch)) <=> Missing(Head(batch)) /\ Head(batch) \notin seenLogs
  BY DEF Fresh, Missing, IsHandled
<1>11. Missing(Head(batch)) => \A j \in claimed : j < Head(batch)
  BY <1>1, <1>2 DEF OrderInv, BatchIsAhead
<1> QED BY <1>3, <1>4, <1>6, <1>7, <1>8, <1>9, <1>10, <1>11

\* The writes for the first log of a batch: it is newer than all before.
LEMMA WriteFacts ==
  ASSUME OrderInv, batch # <<>>, NEW n \in 1..AllWrites,
         Fresh(Head(batch)), WriteUpTo(Head(batch), n)
  PROVE  LET k0 == Head(batch) IN
         /\ k0 \in DOMAIN logs /\ IsHandled(k0) /\ BlockOf(k0) <= Fetched
         /\ claimed' = claimed \union {k0}
         /\ \A j \in claimed : j < k0
         /\ applied' \in Seq(claimed') /\ AppliedInChainOrder'
         /\ cursor <= BlockOf(k0)
         /\ cursor' = IF n = AllWrites THEN BlockOf(k0) ELSE cursor
<1> DEFINE k0 == Head(batch)
<1>1. /\ k0 \in DOMAIN logs /\ IsHandled(k0) /\ k0 \notin claimed /\ BlockOf(k0) <= Fetched
      /\ \A j \in claimed : j < k0
      /\ k0 \in Nat /\ BlockOf(k0) \in Nat
  BY BatchFacts, OrderFacts DEF Missing
<1>2. /\ claimed' = claimed \union {k0}
      /\ cursor' = IF n = AllWrites THEN BlockOf(k0) ELSE cursor
  BY DEF WriteUpTo, AllWrites, BlockOf
<1>3. cursor <= BlockOf(k0)
  <2>1. ASSUME NEW j \in claimed, cursor = BlockOf(j)
        PROVE  cursor <= BlockOf(k0)
    <3>1. j \in DOMAIN logs /\ j \in Nat /\ j <= k0
      BY <1>1, <2>1, OrderFacts DEF OrderInv, DatabaseInv
    <3> QED BY <1>1, <2>1, <3>1, LogFacts DEF OrderInv
  <2> QED BY <1>1, <2>1 DEF OrderInv, DatabaseInv
<1>4. /\ Len(applied) \in Nat /\ applied \in [1..Len(applied) -> claimed]
      /\ applied \in Seq(claimed) /\ AppliedInChainOrder
      /\ \A j \in claimed : j \in Nat
  BY OrderFacts DEF OrderInv, DatabaseInv
<1>5. applied \in Seq(claimed')
  <2>1. applied \in [1..Len(applied) -> claimed']
    BY <1>2, <1>4
  <2> QED BY <1>4, <2>1
<1>6. applied' \in Seq(claimed') /\ AppliedInChainOrder'
  <2>1. CASE applied' = applied
    BY <1>4, <1>5, <2>1 DEF AppliedInChainOrder
  <2>2. CASE applied' = Append(applied, k0)
    <3>1. applied' \in Seq(claimed')
      BY <1>2, <1>5, <2>2
    <3>2. /\ DOMAIN applied' = 1..(Len(applied) + 1) /\ applied'[Len(applied) + 1] = k0
          /\ \A i \in 1..Len(applied) : applied'[i] = applied[i] /\ applied[i] < k0
      BY <1>1, <1>4, <1>5, <2>2
    <3>3. \A i, j \in 1..Len(applied) : i < j => applied[i] < applied[j]
      BY <1>4 DEF AppliedInChainOrder
    <3>4. AppliedInChainOrder'
      BY <1>4, <3>2, <3>3 DEF AppliedInChainOrder
    <3> QED BY <3>1, <3>4
  <2> QED BY <2>1, <2>2 DEF WriteUpTo
<1> QED BY <1>1, <1>2, <1>3, <1>6

\* Handling a log, with or without effect.
LEMMA HandleOrdered ==
  ASSUME OrderInv, HandleLog, ChainInv'
  PROVE  OrderInv'
<1> DEFINE k0 == Head(batch)
<1>1. /\ batch # <<>> /\ batch' = Tail(batch) /\ seenLogs' = seenLogs \union {k0}
      /\ UNCHANGED <<head, logs, phase, polled>>
      /\ IF Fresh(k0) THEN WriteUpTo(k0, AllWrites) ELSE UNCHANGED database
  BY DEF HandleLog, chainVars
<1>2. /\ \A k : BlockOf(k)' = BlockOf(k) /\ IsHandled(k)' = IsHandled(k)
      /\ Fetched' = Fetched /\ InSession' = InSession
  BY <1>1 DEF BlockOf, IsHandled, Fetched, InSession
<1>3. /\ claimed \subseteq claimed' /\ claimed' \subseteq DOMAIN logs
      /\ \A k \in claimed' : k \in claimed \/ k = k0
      /\ cursor <= cursor' /\ cursor' \in Nat /\ cursor \in Nat
      /\ applied' \in Seq(claimed') /\ AppliedInChainOrder'
      /\ k0 \in claimed' \/ ~IsHandled(k0)
      /\ k0 \in DOMAIN logs
  <2>1. CASE Fresh(k0)
    <3>1. AllWrites \in 1..AllWrites
      BY DEF AllWrites
    <3> QED BY <1>1, <2>1, <3>1, WriteFacts, OrderFacts DEF OrderInv, DatabaseInv
  <2>2. CASE ~Fresh(k0)
    <3>1. k0 \in claimed \/ ~IsHandled(k0)
      BY <1>1, <2>2, BatchFacts DEF OrderInv, MemoryInv, Missing
    <3>2. UNCHANGED <<claimed, cursor, applied>>
      BY <1>1, <2>2 DEF database
    <3> QED BY <1>1, <3>1, <3>2, BatchFacts, OrderFacts DEF OrderInv, DatabaseInv, AppliedInChainOrder
  <2> QED BY <2>1, <2>2
<1>4. \A j \in claimed' : IsHandled(j) /\ BlockOf(j) <= Fetched
  BY <1>1, <1>3, BatchFacts, WriteFacts DEF OrderInv, DatabaseInv, Fresh, IsHandled, database, AllWrites
<1>5. cursor' = 0 \/ \E j \in claimed' : cursor' = BlockOf(j)
  <2>1. CASE Fresh(k0)
    <3>1. k0 \in claimed' /\ cursor' = BlockOf(k0)
      BY <1>1, <2>1, WriteFacts DEF AllWrites
    <3> QED BY <3>1
  <2>2. CASE ~Fresh(k0)
    BY <1>1, <2>2 DEF database, OrderInv, DatabaseInv
  <2> QED BY <2>1, <2>2
<1>6. DatabaseInv'
  BY <1>1, <1>2, <1>3, <1>4, <1>5 DEF DatabaseInv
<1>7. MemoryInv'
  <2>1. batch' \in Seq(DOMAIN logs) /\ Increasing(batch')
        /\ \A k \in Range(batch') : BlockOf(k) <= Fetched
    BY <1>1, BatchFacts DEF OrderInv, MemoryInv
  <2>2. InSession
    BY <1>1, BatchFacts
  <2> QED BY <1>1, <1>2, <1>3, <2>1, <2>2 DEF OrderInv, MemoryInv
<1>8. BatchIsAhead'
  <2> SUFFICES ASSUME NEW j \in claimed', NEW k \in Range(batch'), Missing(k)'
               PROVE  j < k
    BY DEF BatchIsAhead
  <2>1. k \in Range(batch) /\ k0 < k /\ Missing(k)
    BY <1>1, <1>2, <1>3, BatchFacts DEF Missing
  <2> QED BY <1>3, <2>1 DEF OrderInv, BatchIsAhead
<1>9. SkippedIsLost'
  <2> SUFFICES ASSUME NEW j \in claimed', NEW k \in DOMAIN logs, k < j, Missing(k)'
               PROVE  BlockOf(k) <= cursor'
    BY <1>1, <1>2 DEF SkippedIsLost
  <2>1. Missing(k) /\ BlockOf(k) \in Nat /\ k \in Nat
    BY <1>2, <1>3, OrderFacts DEF Missing
  <2>2. CASE j \in claimed
    BY <1>3, <2>1, <2>2 DEF OrderInv, SkippedIsLost
  <2>3. CASE j \notin claimed
    <3>1. j = k0 /\ Fresh(k0)
      BY <1>1, <1>3, <2>3 DEF database
    <3>2. cursor' = BlockOf(k0) /\ k0 \in DOMAIN logs
      BY <1>1, <3>1, WriteFacts DEF AllWrites
    <3>3. k0 \in Nat /\ BlockOf(k) <= BlockOf(k0)
      BY <2>1, <3>1, <3>2, LogFacts, OrderFacts DEF OrderInv
    <3> QED BY <3>2, <3>3
  <2> QED BY <2>2, <2>3
<1>10. FetchedIsQueued'
  <2> SUFFICES ASSUME "Kill" \in Faults, InSession, NEW k \in DOMAIN logs,
                      Missing(k)', k \notin Range(batch'), BlockOf(k) <= Fetched
               PROVE  BlockOf(k) <= cursor'
    BY <1>1, <1>2 DEF FetchedIsQueued
  <2>1. Missing(k) /\ k # k0 /\ BlockOf(k) \in Nat
    BY <1>2, <1>3, OrderFacts DEF Missing
  <2>2. k \notin Range(batch)
    BY <1>1, <2>1, BatchFacts
  <2>3. BlockOf(k) <= cursor
    BY <2>1, <2>2 DEF OrderInv, FetchedIsQueued
  <2> QED BY <1>3, <2>1, <2>3
<1> QED BY <1>6, <1>7, <1>8, <1>9, <1>10 DEF OrderInv

\* The end of the process, after any number of writes for the next log.
LEMMA TerminateOrdered ==
  ASSUME OrderInv, Stop \/ Kill, ChainInv'
  PROVE  OrderInv'
<1> DEFINE k0 == Head(batch)
           Writes == \E n \in 1..AllWrites - 1 : WriteUpTo(k0, n)
<1>1. /\ phase' = "down" /\ batch' = <<>> /\ polled' = 0 /\ seenLogs' = {}
      /\ UNCHANGED <<head, logs>>
  BY DEF Stop, Kill, Terminate, chainVars
<1>2. /\ \A k : BlockOf(k)' = BlockOf(k) /\ IsHandled(k)' = IsHandled(k)
      /\ Fetched' = head
  BY <1>1 DEF BlockOf, IsHandled, Fetched
<1>3. MemoryInv'
  BY <1>1, OrderFacts DEF MemoryInv, Increasing, InSession, Range
<1>4. BatchIsAhead' /\ FetchedIsQueued'
  BY <1>1 DEF BatchIsAhead, FetchedIsQueued, InSession, Range
<1>5. \A j \in claimed : BlockOf(j) <= head
  BY OrderFacts DEF OrderInv, DatabaseInv
<1>6. CASE UNCHANGED database
  <2>1. DatabaseInv'
    BY <1>1, <1>2, <1>5, <1>6 DEF database, OrderInv, DatabaseInv, AppliedInChainOrder
  <2>2. SkippedIsLost'
    BY <1>1, <1>2, <1>6 DEF database, OrderInv, SkippedIsLost, Missing
  <2> QED BY <1>3, <1>4, <2>1, <2>2 DEF OrderInv
<1>7. ASSUME "Kill" \in Faults, batch # <<>>, Fresh(k0),
             NEW n \in 1..AllWrites - 1, WriteUpTo(k0, n)
      PROVE  OrderInv'
  <2>1. n \in 1..AllWrites /\ n # AllWrites
    BY DEF AllWrites
  <2>2. /\ k0 \in DOMAIN logs /\ IsHandled(k0) /\ BlockOf(k0) <= Fetched
        /\ claimed' = claimed \union {k0}
        /\ \A j \in claimed : j < k0
        /\ applied' \in Seq(claimed') /\ AppliedInChainOrder'
        /\ cursor' = cursor
    BY <1>7, <2>1, WriteFacts
  <2>3. DatabaseInv'
    <3>1. \A j \in claimed' : IsHandled(j) /\ BlockOf(j) <= head
      BY <1>5, <2>2, OrderFacts DEF OrderInv, DatabaseInv
    <3>2. claimed' \subseteq DOMAIN logs /\ (cursor' = 0 \/ \E j \in claimed' : cursor' = BlockOf(j))
      BY <2>2 DEF OrderInv, DatabaseInv
    <3> QED BY <1>1, <1>2, <2>2, <3>1, <3>2 DEF DatabaseInv
  <2>4. SkippedIsLost'
    <3> SUFFICES ASSUME NEW j \in claimed', NEW k \in DOMAIN logs, k < j, Missing(k)'
                 PROVE  BlockOf(k) <= cursor
      BY <1>1, <1>2, <2>2 DEF SkippedIsLost
    <3>1. Missing(k) /\ BlockOf(k) \in Nat /\ k \in Nat
      BY <1>2, <2>2, OrderFacts DEF Missing
    <3>2. CASE j \in claimed
      BY <3>1, <3>2 DEF OrderInv, SkippedIsLost
    <3>3. CASE j = k0
      <4>1. k \notin Range(batch)
        <5>1. \A l \in Range(Tail(batch)) : k0 < l /\ l \in Nat
          BY <1>7, BatchFacts, OrderFacts
        <5>2. k \notin Range(Tail(batch))
          BY <2>2, <3>1, <3>3, <5>1, OrderFacts
        <5>3. k # k0
          BY <3>1, <3>3
        <5> QED BY <1>7, <5>2, <5>3, BatchFacts
      <4>2. BlockOf(k) <= BlockOf(k0)
        BY <2>2, <3>1, <3>3, LogFacts, OrderFacts DEF OrderInv
      <4>3. BlockOf(k) <= Fetched
        BY <2>2, <3>1, <4>2, OrderFacts
      <4>4. InSession
        BY <1>7, BatchFacts
      <4> QED BY <1>7, <3>1, <4>1, <4>3, <4>4 DEF OrderInv, FetchedIsQueued
    <3> QED BY <2>2, <3>2, <3>3
  <2> QED BY <1>3, <1>4, <2>3, <2>4 DEF OrderInv
<1>8. \/ UNCHANGED database
      \/ "Kill" \in Faults /\ batch # <<>> /\ Fresh(k0) /\ Writes
  BY DEF Stop, Kill
<1> QED BY <1>6, <1>7, <1>8

\* The fetches: a sync from the cursor, a poll from the block of the last one.
LEMMA FetchOrdered ==
  ASSUME OrderInv, Start \/ Poll, ChainInv'
  PROVE  OrderInv'
<1> DEFINE low == IF phase = "down" THEN cursor ELSE polled
<1>1. /\ UNCHANGED <<head, logs, seenLogs, claimed, cursor, applied>>
      /\ batch' = LogsBetween(low, head) /\ batch = <<>>
      /\ \/ Start /\ phase = "down" /\ phase' = "syncing" /\ polled' = polled
         \/ Poll /\ phase = "watching" /\ phase' = "watching" /\ polled' = head
  BY DEF Start, Poll, chainVars, database, OrderInv, MemoryInv, InSession
<1>2. /\ \A k : BlockOf(k)' = BlockOf(k) /\ IsHandled(k)' = IsHandled(k) /\ Missing(k)' = Missing(k)
      /\ Fetched' = head /\ InSession'
  BY <1>1 DEF BlockOf, IsHandled, Missing, Fetched, InSession
<1>3. low \in Nat /\ head \in Nat /\ low <= head
  BY OrderFacts DEF OrderInv, MemoryInv
<1> HIDE DEF low
<1>4. /\ batch' \in Seq(DOMAIN logs) /\ Increasing(batch')
      /\ \A k \in DOMAIN logs : k \in Range(batch') <=> low < BlockOf(k) /\ BlockOf(k) <= head
  BY <1>1, <1>3, BetweenIsRange DEF OrderInv
<1>5. \A k \in Range(batch') : k \in DOMAIN logs /\ low < BlockOf(k) /\ BlockOf(k) <= head
  <2>1. \A k \in Range(batch') : k \in DOMAIN logs
    BY <1>4 DEF Range
  <2> QED BY <1>4, <2>1
<1>6. MemoryInv'
  BY <1>1, <1>2, <1>3, <1>4, <1>5, OrderFacts DEF OrderInv, MemoryInv
<1>7. DatabaseInv'
  <2>1. \A j \in claimed : BlockOf(j) <= head
    BY OrderFacts DEF OrderInv, DatabaseInv
  <2> QED BY <1>1, <1>2, <2>1 DEF OrderInv, DatabaseInv, AppliedInChainOrder
<1>8. BatchIsAhead'
  <2> SUFFICES ASSUME NEW j \in claimed, NEW k \in Range(batch'), Missing(k)
               PROVE  j < k
    BY <1>1, <1>2 DEF BatchIsAhead
  <2>1. k \in DOMAIN logs /\ low < BlockOf(k) /\ j \in DOMAIN logs /\ j # k
        /\ j \in Nat /\ k \in Nat /\ BlockOf(k) \in Nat /\ BlockOf(j) \in Nat
    BY <1>5, OrderFacts DEF OrderInv, DatabaseInv, Missing
  <2> SUFFICES ASSUME k < j PROVE FALSE
    BY <2>1
  <2>2. CASE phase = "down"
    <3>1. BlockOf(k) <= cursor
      BY <2>1 DEF OrderInv, SkippedIsLost
    <3> QED BY <2>1, <2>2, <3>1, OrderFacts DEF low
  <2>3. CASE phase = "watching"
    <3>1. BlockOf(j) <= low
      BY <2>3 DEF OrderInv, DatabaseInv, Fetched, low
    <3>2. BlockOf(k) <= BlockOf(j)
      BY <2>1, LogFacts DEF OrderInv
    <3> QED BY <1>3, <2>1, <3>1, <3>2
  <2> QED BY <1>1, <2>2, <2>3
<1>9. SkippedIsLost'
  BY <1>1, <1>2 DEF OrderInv, SkippedIsLost
<1>10. FetchedIsQueued'
  <2> SUFFICES ASSUME "Kill" \in Faults, NEW k \in DOMAIN logs,
                      Missing(k), k \notin Range(batch'), BlockOf(k) <= head
               PROVE  BlockOf(k) <= cursor
    BY <1>1, <1>2 DEF FetchedIsQueued
  <2>1. BlockOf(k) \in Nat /\ BlockOf(k) <= low
    BY <1>3, <1>4, OrderFacts
  <2>2. CASE phase = "down"
    BY <2>1, <2>2 DEF low
  <2>3. CASE phase = "watching"
    <3>1. BlockOf(k) <= Fetched /\ k \notin Range(batch) /\ InSession
      BY <1>1, <2>1, <2>3 DEF Fetched, low, Range, InSession
    <3> QED BY <3>1 DEF OrderInv, FetchedIsQueued
  <2> QED BY <1>1, <2>2, <2>3
<1> QED BY <1>6, <1>7, <1>8, <1>9, <1>10 DEF OrderInv

\* The steps that fetch and handle nothing.
LEMMA IdleOrdered ==
  ASSUME OrderInv, StartFails \/ Watch \/ UNCHANGED vars, ChainInv'
  PROVE  OrderInv'
<1>1. /\ UNCHANGED <<head, logs, seenLogs, claimed, cursor, applied, batch>>
      /\ \/ UNCHANGED <<phase, polled>>
         \/ phase = "down" /\ phase' = "off" /\ polled' = polled
         \/ phase = "syncing" /\ phase' = "watching" /\ polled' = head /\ batch = <<>>
  BY DEF StartFails, Watch, chainVars, database, memory, vars
<1>2. /\ \A k : BlockOf(k)' = BlockOf(k) /\ IsHandled(k)' = IsHandled(k) /\ Missing(k)' = Missing(k)
      /\ Fetched' = Fetched /\ (InSession' <=> InSession)
  BY <1>1 DEF BlockOf, IsHandled, Missing, Fetched, InSession
<1>3. MemoryInv'
  BY <1>1, <1>2, OrderFacts DEF OrderInv, MemoryInv, Increasing
<1>4. DatabaseInv' /\ SkippedIsLost' /\ FetchedIsQueued'
  BY <1>1, <1>2 DEF OrderInv, DatabaseInv, SkippedIsLost, FetchedIsQueued, AppliedInChainOrder
<1>5. BatchIsAhead'
  BY <1>1, <1>2 DEF OrderInv, BatchIsAhead
<1> QED BY <1>3, <1>4, <1>5 DEF OrderInv

\* The chain goes on.
LEMMA ChainOrdered ==
  ASSUME OrderInv, Transact \/ SealBlock, ~({"Kill", "MinedDuringSync"} \subseteq Faults), ChainInv'
  PROVE  OrderInv'
<1>1. UNCHANGED <<phase, batch, polled, seenLogs, claimed, cursor, applied>>
  BY DEF Transact, SealBlock, database, memory
<1>2. /\ \A k \in DOMAIN logs : k \in DOMAIN logs' /\ logs'[k] = logs[k]
      /\ head' = head \/ head' = head + 1
  BY LogsGrow DEF Transact, SealBlock, OrderInv
<1>3. \A k \in DOMAIN logs : BlockOf(k)' = BlockOf(k) /\ IsHandled(k)' = IsHandled(k) /\ Missing(k)' = Missing(k)
  BY <1>1, <1>2 DEF BlockOf, IsHandled, Missing
<1>4. Fetched \in Nat /\ Fetched' \in Nat /\ Fetched <= Fetched' /\ (InSession' <=> InSession)
      /\ head' \in Nat /\ head <= head'
  BY <1>1, <1>2, OrderFacts DEF Fetched, InSession
<1>5. ASSUME "Kill" \in Faults, InSession PROVE Fetched' = Fetched
  <2>1. CASE Transact
    BY <1>1, <2>1 DEF Transact, Fetched
  <2>2. CASE SealBlock
    BY <1>1, <1>5, <2>2 DEF SealBlock, Fetched, InSession
  <2> QED BY <2>1, <2>2
<1>6. \A k \in DOMAIN logs' \ DOMAIN logs : BlockOf(k)' = head + 1 /\ k > Len(logs)
  <2>1. CASE Transact
    BY <2>1, LogsGrow DEF OrderInv, BlockOf
  <2>2. CASE SealBlock
    BY <2>2 DEF SealBlock
  <2> QED BY <2>1, <2>2
<1>7. MemoryInv'
  <2>1. \A k \in Range(batch) : BlockOf(k)' <= Fetched'
    BY <1>3, <1>4, OrderFacts DEF OrderInv, MemoryInv
  <2>2. batch' \in Seq(DOMAIN logs')
    <3>1. batch \in [1..Len(batch) -> DOMAIN logs'] /\ Len(batch) \in Nat
      BY <1>2, OrderFacts DEF OrderInv, MemoryInv
    <3> QED BY <1>1, <3>1
  <2>3. \A k \in Range(batch') : BlockOf(k)' <= Fetched'
    BY <1>1, <2>1
  <2>4. Increasing(batch')
    BY <1>1 DEF OrderInv, MemoryInv
  <2> QED BY <1>1, <1>2, <1>3, <1>4, <2>2, <2>3, <2>4, OrderFacts DEF OrderInv, MemoryInv
<1>8. DatabaseInv'
  <2>1. \A j \in claimed : /\ j \in DOMAIN logs' /\ BlockOf(j)' = BlockOf(j)
                           /\ IsHandled(j)' /\ BlockOf(j)' <= Fetched'
    BY <1>2, <1>3, <1>4, OrderFacts DEF OrderInv, DatabaseInv
  <2> QED BY <1>1, <2>1 DEF OrderInv, DatabaseInv, AppliedInChainOrder
<1>9. BatchIsAhead'
  BY <1>1, <1>3, OrderFacts DEF OrderInv, BatchIsAhead
<1>10. SkippedIsLost'
  <2> SUFFICES ASSUME NEW j \in claimed, NEW k \in DOMAIN logs', k < j, Missing(k)'
               PROVE  BlockOf(k)' <= cursor
    BY <1>1 DEF SkippedIsLost
  <2>1. k \in DOMAIN logs
    BY <1>6, LogFacts DEF OrderInv, DatabaseInv
  <2> QED BY <1>3, <2>1 DEF OrderInv, SkippedIsLost
<1>11. FetchedIsQueued'
  <2> SUFFICES ASSUME "Kill" \in Faults, InSession, NEW k \in DOMAIN logs',
                      Missing(k)', k \notin Range(batch), BlockOf(k)' <= Fetched'
               PROVE  BlockOf(k)' <= cursor
    BY <1>1, <1>4 DEF FetchedIsQueued
  <2>1. k \in DOMAIN logs
    BY <1>5, <1>6, OrderFacts
  <2> QED BY <1>3, <1>5, <2>1 DEF OrderInv, FetchedIsQueued
<1> QED BY <1>7, <1>8, <1>9, <1>10, <1>11 DEF OrderInv

LEMMA OrderStep ==
  ASSUME ~({"Kill", "MinedDuringSync"} \subseteq Faults), OrderInv, [Next]_vars
  PROVE  OrderInv'
<1>1. ChainInv'
  BY ChainStep DEF OrderInv
<1> QED
  BY <1>1, HandleOrdered, TerminateOrdered, FetchOrdered, IdleOrdered, ChainOrdered
  DEF Next, CalmNext

LEMMA OrderInit == Init => OrderInv
<1> SUFFICES ASSUME Init PROVE OrderInv
  OBVIOUS
<1>1. ChainInv
  BY ChainInit
<1>2. MemoryInv /\ DatabaseInv
  BY DEF Init, MemoryInv, DatabaseInv, Increasing, InSession, Range, AppliedInChainOrder
<1>3. BatchIsAhead /\ SkippedIsLost /\ FetchedIsQueued
  BY DEF Init, BatchIsAhead, SkippedIsLost, FetchedIsQueued, InSession, Range
<1> QED BY <1>1, <1>2, <1>3 DEF OrderInv

\* Logs take effect in the order of the chain whatever is killed, as long as no
\* block escapes between sync and watcher, and whatever escapes, as long as no
\* process is killed: only a kill within the writes of a log newer than one that
\* escaped makes a restart go back.
THEOREM OrderTheorem ==
  ~({"Kill", "MinedDuringSync"} \subseteq Faults) => (Spec => []AppliedInChainOrder)
<1> SUFFICES ASSUME ~({"Kill", "MinedDuringSync"} \subseteq Faults)
             PROVE  Spec => []AppliedInChainOrder
  OBVIOUS
<1>1. Init => OrderInv
  BY OrderInit
<1>2. OrderInv /\ [Next]_vars => OrderInv'
  BY OrderStep
<1>3. OrderInv => AppliedInChainOrder
  BY DEF OrderInv, DatabaseInv
<1> QED BY <1>1, <1>2, <1>3, PTL DEF Spec
-----------------------------------------------------------------------------
(* Completeness. *)

\* Without kills and gaps.
NothingLost ==
  /\ \A k \in DOMAIN logs :
       IsHandled(k) /\ (BlockOf(k) <= cursor \/ (InSession /\ BlockOf(k) <= Fetched))
         => k \in claimed \/ k \in Range(batch)
  /\ claimed = Range(applied)
LEMMA LostStep ==
  ASSUME "Kill" \notin Faults, "MinedDuringSync" \notin Faults,
         OrderInv, NothingLost, [Next]_vars, OrderInv'
  PROVE  NothingLost'
<1> DEFINE Due(k) == IsHandled(k) /\ (BlockOf(k) <= cursor \/ (InSession /\ BlockOf(k) <= Fetched))
<1>1. ASSUME UNCHANGED <<logs, claimed, cursor, applied>>,
             \A k \in DOMAIN logs : Due(k)' => Due(k) \/ k \in Range(batch'),
             Range(batch) \subseteq Range(batch')
      PROVE  NothingLost'
  BY <1>1 DEF NothingLost
<1>2. CASE HandleLog
  <2> DEFINE k0 == Head(batch)
  <2>1. /\ batch # <<>> /\ batch' = Tail(batch)
        /\ UNCHANGED <<head, logs, phase, polled>>
        /\ IF Fresh(k0) THEN WriteUpTo(k0, AllWrites) ELSE UNCHANGED database
    BY <1>2 DEF HandleLog, chainVars
  <2>2. /\ \A k : BlockOf(k)' = BlockOf(k) /\ IsHandled(k)' = IsHandled(k)
        /\ Fetched' = Fetched /\ InSession' = InSession
    BY <2>1 DEF BlockOf, IsHandled, Fetched, InSession
  <2>3. CASE Fresh(k0)
    <3>1. /\ k0 \in DOMAIN logs /\ BlockOf(k0) <= Fetched
          /\ claimed' = claimed \union {k0} /\ cursor' = BlockOf(k0) /\ InSession
      <4>1. AllWrites \in 1..AllWrites
        BY DEF AllWrites
      <4> QED BY <2>1, <2>3, <4>1, WriteFacts, BatchFacts
    <3>2. applied \in Seq(claimed) /\ applied' = Append(applied, k0)
      BY <2>1, <2>3 DEF WriteUpTo, AllWrites, OrderInv, DatabaseInv
    <3>3. Range(applied') = Range(applied) \union {k0}
      <4>1. /\ Len(applied) \in Nat /\ DOMAIN applied = 1..Len(applied)
            /\ DOMAIN applied' = 1..(Len(applied) + 1) /\ applied'[Len(applied) + 1] = k0
            /\ \A i \in 1..Len(applied) : applied'[i] = applied[i]
        <5>1. applied \in Seq(claimed \union {k0})
          <6>1. Len(applied) \in Nat /\ applied \in [1..Len(applied) -> claimed]
            BY <3>2
          <6>2. applied \in [1..Len(applied) -> claimed \union {k0}]
            BY <6>1
          <6> QED BY <6>1, <6>2
        <5> QED BY <3>2, <5>1
      <4>2. \A i \in DOMAIN applied' : i \in DOMAIN applied \/ i = Len(applied) + 1
        BY <4>1
      <4>3. \A i \in DOMAIN applied : i \in DOMAIN applied' /\ applied'[i] = applied[i]
        BY <4>1
      <4>4. Len(applied) + 1 \in DOMAIN applied'
        BY <4>1
      <4> QED BY <4>1, <4>2, <4>3, <4>4 DEF Range
    <3>4. ASSUME NEW k \in DOMAIN logs', Due(k)'
          PROVE  k \in claimed' \/ k \in Range(batch')
      <4>1. k \in DOMAIN logs /\ IsHandled(k) /\ BlockOf(k) <= Fetched
        BY <2>1, <2>2, <3>1, <3>4, OrderFacts
      <4>2. k \in claimed \/ k \in Range(batch)
        BY <3>1, <4>1 DEF NothingLost
      <4> QED BY <2>1, <3>1, <4>2, BatchFacts
    <3>5. claimed' = Range(applied')
      BY <3>1, <3>3 DEF NothingLost
    <3> QED BY <3>4, <3>5 DEF NothingLost
  <2>4. CASE ~Fresh(k0)
    <3>1. UNCHANGED <<claimed, cursor, applied>>
      BY <2>1, <2>4 DEF database
    <3>2. k0 \in claimed \/ ~IsHandled(k0)
      BY <2>1, <2>4, BatchFacts DEF OrderInv, MemoryInv, Missing
    <3>3. ASSUME NEW k \in DOMAIN logs', Due(k)'
          PROVE  k \in claimed' \/ k \in Range(batch')
      <4>1. k \in DOMAIN logs /\ Due(k) /\ IsHandled(k)
        BY <2>1, <2>2, <3>1, <3>3
      <4>2. k \in claimed \/ k \in Range(batch)
        BY <4>1 DEF NothingLost
      <4> QED BY <2>1, <3>1, <3>2, <4>1, <4>2, BatchFacts
    <3> QED BY <3>1, <3>3 DEF NothingLost
  <2> QED BY <2>3, <2>4
<1>3. CASE Start \/ Poll
  <2> DEFINE low == IF phase = "down" THEN cursor ELSE polled
  <2>1. /\ UNCHANGED <<head, logs, claimed, cursor, applied>>
        /\ batch' = LogsBetween(low, head) /\ batch = <<>>
        /\ phase = "down" \/ (phase = "watching" /\ Fetched = polled /\ InSession)
    BY <1>3 DEF Start, Poll, chainVars, database, OrderInv, MemoryInv, InSession, Fetched
  <2>2. /\ \A k : BlockOf(k)' = BlockOf(k) /\ IsHandled(k)' = IsHandled(k)
        /\ Fetched' = head
    BY <1>3, <2>1 DEF Start, Poll, BlockOf, IsHandled, Fetched
  <2>3. low \in Nat /\ head \in Nat /\ cursor \in Nat /\ cursor <= head
    BY OrderFacts
  <2>4. ASSUME NEW k \in DOMAIN logs, Due(k)'
        PROVE  Due(k) \/ k \in Range(batch')
    <3>1. IsHandled(k) /\ BlockOf(k) \in Nat /\ BlockOf(k) <= head
      BY <2>1, <2>2, <2>3, <2>4, OrderFacts
    <3>2. BlockOf(k) <= low \/ k \in Range(batch')
      <4> HIDE DEF low
      <4> QED BY <2>1, <2>3, <3>1, BetweenIsRange DEF OrderInv
    <3> QED BY <2>1, <3>1, <3>2
  <2> QED BY <1>1, <2>1, <2>4 DEF Range
<1>4. CASE Transact \/ SealBlock
  <2>1. /\ UNCHANGED <<phase, batch, polled, claimed, cursor, applied>>
        /\ Fetched \in Nat /\ (InSession => Fetched' = Fetched)
        /\ cursor \in Nat /\ cursor <= Fetched /\ Fetched <= head /\ head \in Nat
        /\ InSession' = InSession
    BY <1>4, OrderFacts DEF Transact, SealBlock, database, memory, Fetched, InSession
  <2>2. /\ \A k \in DOMAIN logs : k \in DOMAIN logs' /\ logs'[k] = logs[k]
        /\ \A k \in DOMAIN logs' \ DOMAIN logs : BlockOf(k)' = head + 1
    <3>1. CASE Transact
      BY <3>1, LogsGrow DEF OrderInv, BlockOf
    <3>2. CASE SealBlock
      BY <3>2 DEF SealBlock
    <3> QED BY <1>4, <3>1, <3>2
  <2>3. ASSUME NEW k \in DOMAIN logs', Due(k)'
        PROVE  k \in claimed' \/ k \in Range(batch')
    <3>1. k \in DOMAIN logs
      BY <2>1, <2>2, <2>3
    <3>2. Due(k)
      BY <2>1, <2>2, <2>3, <3>1 DEF BlockOf, IsHandled
    <3> QED BY <2>1, <3>1, <3>2 DEF NothingLost
  <2> QED BY <2>1, <2>3 DEF NothingLost
<1>5. CASE Stop \/ StartFails \/ Watch \/ UNCHANGED vars
  <2>1. /\ UNCHANGED <<head, logs, claimed, cursor, applied>> /\ batch' = batch
        /\ InSession' => InSession /\ Fetched' = Fetched
    BY <1>5 DEF Stop, Terminate, StartFails, Watch, chainVars, database, memory, vars, InSession, Fetched
  <2>2. \A k : BlockOf(k)' = BlockOf(k) /\ IsHandled(k)' = IsHandled(k)
    BY <2>1 DEF BlockOf, IsHandled
  <2> QED BY <1>1, <2>1, <2>2
<1> QED BY <1>2, <1>3, <1>4, <1>5 DEF Next, CalmNext, Kill

\* No deposit, withdrawal or settlement of a sealed block is missing from the
\* ledger of an indexer that has caught up, however many blocks, restarts and
\* failed starts there were: without kills, and if no block is sealed during a
\* sync.
THEOREM CompleteTheorem ==
  "Kill" \notin Faults /\ "MinedDuringSync" \notin Faults => (Spec => []CaughtUpIsComplete)
<1> SUFFICES ASSUME "Kill" \notin Faults, "MinedDuringSync" \notin Faults
             PROVE  Spec => []CaughtUpIsComplete
  OBVIOUS
<1>1. Init => OrderInv /\ NothingLost
  <2>1. Init => NothingLost
    BY DEF Init, NothingLost, Range
  <2> QED BY <2>1, OrderInit
<1>2. OrderInv /\ NothingLost /\ [Next]_vars => (OrderInv /\ NothingLost)'
  <2>1. ~({"Kill", "MinedDuringSync"} \subseteq Faults)
    OBVIOUS
  <2> QED BY <2>1, OrderStep, LostStep
<1>3. OrderInv /\ NothingLost => CaughtUpIsComplete
  BY OrderFacts DEF NothingLost, CaughtUpIsComplete, CaughtUp, InSession, Fetched, Range, IsHandled, BlockOf
<1> QED BY <1>1, <1>2, <1>3, PTL DEF Spec
-----------------------------------------------------------------------------
(* The vault's books and the logs. *)

\* The vault's books now, and after the k-th log.
BooksNow == [u \in Users |-> VaultBooks(u)]

BooksAfter(k) == IF k = 0 THEN EmptyBooks ELSE truth[k]

BookEntries == [collateral : Nat, pending : Nat, approved : Nat]

\* What a log does to its user's books when it takes effect for the first time.
Replay(book, event) ==
  [collateral |->
     IF event.name = "Deposited" THEN book.collateral + event.amount
     ELSE IF event.name = "Withdrawn" THEN Excess(book.collateral, event.amount)
     ELSE IF IsSettlement(event) THEN event.newBalance ELSE book.collateral,
   pending |->
     IF event.name = "WithdrawRequested" THEN book.pending + event.amount
     ELSE IF event.name = "WithdrawApproved" THEN Excess(book.pending, event.amount)
     ELSE book.pending,
   approved |->
     IF event.name = "WithdrawApproved" THEN book.approved + event.amount
     ELSE IF event.name = "Withdrawn" THEN Excess(book.approved, event.amount)
     ELSE book.approved]

NoneHandled(j, k) == \A i \in DOMAIN logs : j < i /\ i < k => ~IsHandled(i)

\* The logs the indexer has no handler for leave the books alone.
RestIsQuiet ==
  \A j \in 0..Len(logs) : NoneHandled(j, Len(logs) + 1) => BooksAfter(j) = BooksNow

\* Each handled log leads from the books after the handled one before it to its own.
LogsReplay ==
  \A k \in DOMAIN logs, j \in 0..Len(logs) :
    IsHandled(k) /\ j < k /\ NoneHandled(j, k) =>
      BooksAfter(k) = [BooksAfter(j) EXCEPT ![logs[k].event.user] =
                         Replay(BooksAfter(j)[logs[k].event.user], logs[k].event)]

\* c is the number of the last log up to block h.
IsCut(h, c) == c \in 0..Len(logs) /\ \A k \in DOMAIN logs : BlockOf(k) <= h <=> k <= c

\* The same at the end of a block.
BlocksAreWhole ==
  \A h \in Nat, c \in 0..Len(logs), j \in 0..Len(logs) :
    IsCut(h, c) /\ j <= c /\ NoneHandled(j, c + 1) => BooksAfter(j) = BooksAfter(c)

Settlements == {k \in DOMAIN logs : IsSettlement(logs[k].event)}

\* A settlementId is in the logs of one settlement only, at most twice in a row.
SettlementsAreOnce ==
  /\ \A k \in Settlements : logs[k].event.settlementId \in usedSettlements
  /\ \A i, k \in Settlements :
       i < k /\ logs[i].event.settlementId = logs[k].event.settlementId =>
         k = i + 1 /\ BooksAfter(i) = BooksAfter(k)

BooksInv ==
  /\ Len(truth) = Len(logs) /\ truth \in Seq([Users -> BookEntries])
  /\ \A k \in DOMAIN logs : logs[k].event.user \in Users
  /\ RestIsQuiet /\ LogsReplay /\ BlocksAreWhole /\ SettlementsAreOnce

LEMMA VaultShape ==
  ASSUME V!TypeOK, Vault!Next
  PROVE  \/ V!Quiet
         \/ \E u \in Users, a \in Amounts : V!MovesBooks(u, a)
         \/ \E u \in Users, d \in Deltas, id \in SettlementIds : V!Settles(u, d, id)
  BY IndexerAssumption, VaultBridge, V!TransactionShape DEF IsFiniteSet, V!IsFiniteSet

LEMMA BooksNowType ==
  ASSUME V!TypeOK
  PROVE  /\ BooksNow \in [Users -> BookEntries]
         /\ \A u \in Users : /\ BooksNow[u].collateral = balances[u] /\ balances[u] \in Nat
                             /\ BooksNow[u].pending = pendingWithdrawals[u] /\ pendingWithdrawals[u] \in Nat
                             /\ BooksNow[u].approved = approvedWithdrawals[u] /\ approvedWithdrawals[u] \in Nat
  BY DEF V!TypeOK, BooksNow, VaultBooks, BookEntries

LEMMA SameEntries ==
  ASSUME NEW x \in BookEntries, NEW y \in BookEntries,
         x.collateral = y.collateral, x.pending = y.pending, x.approved = y.approved
  PROVE  x = y
  BY DEF BookEntries

\* What the logs of one transaction say about the books before and after it.
NothingHappens ==
  /\ BooksNow' = BooksNow /\ usedSettlements' = usedSettlements
  /\ \A i \in DOMAIN receipt' : receipt'[i].name \notin Handled /\ receipt'[i].user \in Users

OneBookChanges(u) ==
  /\ Len(receipt') >= 1
  /\ \A v \in Users : v # u => BooksNow'[v] = BooksNow[v]
  /\ \A i \in DOMAIN receipt' : receipt'[i].user = u
  /\ receipt'[Len(receipt')].name \in Handled
  /\ \A i \in DOMAIN receipt' : receipt'[i].name \in Handled =>
       /\ Replay(BooksNow[u], receipt'[i]) = BooksNow'[u]
       /\ i # 1 => Replay(BooksNow'[u], receipt'[i]) = BooksNow'[u]

NoSettlement ==
  usedSettlements' = usedSettlements /\ \A i \in DOMAIN receipt' : ~IsSettlement(receipt'[i])

OneSettlement(id) ==
  /\ id \notin usedSettlements /\ usedSettlements' = usedSettlements \union {id}
  /\ \A i \in DOMAIN receipt' : IsSettlement(receipt'[i]) =>
       receipt'[i].settlementId = id /\ i >= Len(receipt') - 1

LEMMA ReceiptTells ==
  ASSUME V!TypeOK, Vault!Next
  PROVE  \/ NothingHappens
         \/ \E u \in Users : OneBookChanges(u) /\ (NoSettlement \/ \E id \in SettlementIds : OneSettlement(id))
<1>1. V!TypeOK'
  BY VaultTypeStep
<1>2. /\ BooksNow \in [Users -> BookEntries]
      /\ \A u \in Users : /\ BooksNow[u].collateral = balances[u] /\ balances[u] \in Nat
                          /\ BooksNow[u].pending = pendingWithdrawals[u] /\ pendingWithdrawals[u] \in Nat
                          /\ BooksNow[u].approved = approvedWithdrawals[u] /\ approvedWithdrawals[u] \in Nat
  BY BooksNowType
<1>3. /\ BooksNow' \in [Users -> BookEntries]
      /\ \A u \in Users : /\ BooksNow'[u].collateral = balances'[u] /\ balances'[u] \in Nat
                          /\ BooksNow'[u].pending = pendingWithdrawals'[u] /\ pendingWithdrawals'[u] \in Nat
                          /\ BooksNow'[u].approved = approvedWithdrawals'[u] /\ approvedWithdrawals'[u] \in Nat
  <2>1. V!TypeOK' => /\ BooksNow' \in [Users -> BookEntries]
      /\ \A u \in Users : /\ BooksNow'[u].collateral = balances'[u] /\ balances'[u] \in Nat
                          /\ BooksNow'[u].pending = pendingWithdrawals'[u] /\ pendingWithdrawals'[u] \in Nat
                          /\ BooksNow'[u].approved = approvedWithdrawals'[u] /\ approvedWithdrawals'[u] \in Nat
    BY DEF V!TypeOK, BooksNow, VaultBooks, BookEntries
  <2> QED BY <1>1, <2>1
<1>4. CASE V!Quiet
  <2>1. BooksNow' = BooksNow
    BY <1>4 DEF V!Quiet, V!withdrawals, BooksNow, VaultBooks
  <2>2. CASE receipt' = <<>>
    BY <1>4, <2>1, <2>2 DEF V!Quiet, NothingHappens
  <2>3. ASSUME NEW u \in Users, NEW a \in Amounts, receipt' = <<V!Event("InsuranceFunded", u, a)>>
        PROVE  NothingHappens
    <3>1. DOMAIN receipt' = {1} /\ receipt'[1].name = "InsuranceFunded" /\ receipt'[1].user = u
      BY <2>3 DEF V!Event
    <3> QED BY <1>4, <2>1, <3>1 DEF V!Quiet, NothingHappens, Handled
  <2> QED BY <1>4, <2>2, <2>3 DEF V!Quiet
<1>5. ASSUME NEW u \in Users, NEW a \in Amounts, V!MovesBooks(u, a)
      PROVE  OneBookChanges(u) /\ NoSettlement
  <2>1. a \in Nat
    BY IndexerAssumption
  <2>2. ASSUME NEW name, NEW x \in Int, NEW y \in Int, NEW z \in Int, V!Moves(name, u, a, x, y, z)
        PROVE  /\ Len(receipt') = 1 /\ DOMAIN receipt' = {1}
               /\ receipt'[1].name = name /\ receipt'[1].user = u /\ receipt'[1].amount = a
               /\ \A v \in Users : v # u => BooksNow'[v] = BooksNow[v]
               /\ balances'[u] = balances[u] + x
               /\ pendingWithdrawals'[u] = pendingWithdrawals[u] + y
               /\ approvedWithdrawals'[u] = approvedWithdrawals[u] + z
               /\ usedSettlements' = usedSettlements
    <3>1. /\ Len(receipt') = 1 /\ DOMAIN receipt' = {1}
          /\ receipt'[1].name = name /\ receipt'[1].user = u /\ receipt'[1].amount = a
      BY <2>2 DEF V!Moves, V!Event
    <3>2. \A v \in Users :
            /\ balances'[v] = IF v = u THEN balances[u] + x ELSE balances[v]
            /\ pendingWithdrawals'[v] = IF v = u THEN pendingWithdrawals[u] + y ELSE pendingWithdrawals[v]
            /\ approvedWithdrawals'[v] = IF v = u THEN approvedWithdrawals[u] + z ELSE approvedWithdrawals[v]
      BY <2>2 DEF V!Moves, V!TypeOK
    <3>3. \A v \in Users : v # u => BooksNow'[v] = BooksNow[v]
      BY <3>2 DEF BooksNow, VaultBooks
    <3> QED BY <2>2, <3>1, <3>2, <3>3 DEF V!Moves
  <2>3. ASSUME NEW name \in {"Deposited", "WithdrawRequested", "WithdrawApproved", "Withdrawn"},
               DOMAIN receipt' = {1}, Len(receipt') = 1, receipt'[1].name = name, receipt'[1].user = u,
               \A v \in Users : v # u => BooksNow'[v] = BooksNow[v],
               usedSettlements' = usedSettlements,
               Replay(BooksNow[u], receipt'[1]) = BooksNow'[u]
        PROVE  OneBookChanges(u) /\ NoSettlement
    BY <2>3 DEF OneBookChanges, NoSettlement, IsSettlement, Handled
  <2>4. Replay(BooksNow[u], receipt'[1]) = [collateral |-> balances'[u], pending |-> pendingWithdrawals'[u],
                                            approved |-> approvedWithdrawals'[u]]
          => Replay(BooksNow[u], receipt'[1]) = BooksNow'[u]
    BY DEF BooksNow, VaultBooks
  <2>5. CASE V!Moves("Deposited", u, a, a, 0, 0)
    <3>1. Replay(BooksNow[u], receipt'[1]) = BooksNow'[u]
      BY <1>2, <2>1, <2>2, <2>4, <2>5 DEF Replay, IsSettlement
    <3> QED BY <2>1, <2>2, <2>3, <2>5, <3>1
  <2>6. CASE V!Moves("WithdrawRequested", u, a, 0, a, 0)
    <3>1. Replay(BooksNow[u], receipt'[1]) = BooksNow'[u]
      BY <1>2, <2>1, <2>2, <2>4, <2>6 DEF Replay, IsSettlement
    <3>2. /\ DOMAIN receipt' = {1} /\ Len(receipt') = 1
          /\ receipt'[1].name = "WithdrawRequested" /\ receipt'[1].user = u
          /\ usedSettlements' = usedSettlements /\ \A v \in Users : v # u => BooksNow'[v] = BooksNow[v]
      BY <2>1, <2>2, <2>6
    <3> QED BY <2>3, <3>1, <3>2
  <2>7. CASE V!Moves("WithdrawApproved", u, a, 0, -a, a)
    <3>1. pendingWithdrawals'[u] = pendingWithdrawals[u] + (-a) /\ receipt'[1].name = "WithdrawApproved"
          /\ receipt'[1].amount = a /\ balances'[u] = balances[u] + 0 /\ approvedWithdrawals'[u] = approvedWithdrawals[u] + a
      BY <2>1, <2>2, <2>7
    <3>2. pendingWithdrawals'[u] = Excess(pendingWithdrawals[u], a)
      BY <1>2, <1>3, <2>1, <3>1 DEF Excess
    <3>3. Replay(BooksNow[u], receipt'[1]) = BooksNow'[u]
      BY <1>2, <2>1, <2>4, <3>1, <3>2 DEF Replay, IsSettlement
    <3> QED BY <2>1, <2>2, <2>3, <2>7, <3>3
  <2>8. CASE V!Moves("Withdrawn", u, a, -a, 0, -a)
    <3>1. pendingWithdrawals'[u] = pendingWithdrawals[u] + 0 /\ receipt'[1].name = "Withdrawn"
          /\ receipt'[1].amount = a /\ balances'[u] = balances[u] + (-a) /\ approvedWithdrawals'[u] = approvedWithdrawals[u] + (-a)
      BY <2>1, <2>2, <2>8
    <3>2. balances'[u] = Excess(balances[u], a) /\ approvedWithdrawals'[u] = Excess(approvedWithdrawals[u], a)
      BY <1>2, <1>3, <2>1, <3>1 DEF Excess
    <3>3. Replay(BooksNow[u], receipt'[1]) = BooksNow'[u]
      BY <1>2, <2>1, <2>4, <3>1, <3>2 DEF Replay, IsSettlement
    <3> QED BY <2>1, <2>2, <2>3, <2>8, <3>3
  <2> QED BY <1>5, <2>5, <2>6, <2>7, <2>8 DEF V!MovesBooks
<1>6. ASSUME NEW u \in Users, NEW d \in Deltas, NEW id \in SettlementIds, V!Settles(u, d, id)
      PROVE  OneBookChanges(u) /\ OneSettlement(id)
  <2> DEFINE insurance == V!Event("InsuranceUsed", u, d)
             settled == V!Applied(u, d, id)
             legacy == V!Legacy(u, d, id)
  <2>1. /\ insurance.name = "InsuranceUsed" /\ insurance.user = u
        /\ settled.name = "SettlementApplied" /\ settled.user = u
        /\ settled.newBalance = balances'[u] /\ settled.settlementId = id
        /\ legacy.name = "PnlSettled" /\ legacy.user = u
        /\ legacy.newBalance = balances'[u] /\ legacy.settlementId = id
    BY DEF V!Event, V!Applied, V!Legacy, V!SettlementEvent
  <2>2. \/ receipt' = <<settled>> \/ receipt' = <<settled, legacy>>
        \/ receipt' = <<insurance, settled>> \/ receipt' = <<insurance, settled, legacy>>
    BY <1>6 DEF V!Settles
  <2> HIDE DEF insurance, settled, legacy
  <2>3. /\ Len(receipt') \in 1..3 /\ DOMAIN receipt' = 1..Len(receipt')
        /\ \A i \in DOMAIN receipt' :
             \/ receipt'[i] = insurance /\ i # Len(receipt')
             \/ (receipt'[i] = settled \/ receipt'[i] = legacy) /\ i >= Len(receipt') - 1
    <3>1. ASSUME receipt' = <<settled>>
          PROVE  Len(receipt') = 1 /\ DOMAIN receipt' = 1..1 /\ receipt'[1] = settled
      BY <3>1
    <3>2. ASSUME NEW x, NEW y, receipt' = <<x, y>>
          PROVE  Len(receipt') = 2 /\ DOMAIN receipt' = 1..2 /\ receipt'[1] = x /\ receipt'[2] = y
      BY <3>2
    <3>3. ASSUME receipt' = <<insurance, settled, legacy>>
          PROVE  /\ Len(receipt') = 3 /\ DOMAIN receipt' = 1..3
                 /\ receipt'[1] = insurance /\ receipt'[2] = settled /\ receipt'[3] = legacy
      BY <3>3
    <3>4. CASE receipt' = <<settled>>
      BY <3>1, <3>4
    <3>5. CASE receipt' = <<settled, legacy>>
      BY <3>2, <3>5
    <3>6. CASE receipt' = <<insurance, settled>>
      BY <3>2, <3>6
    <3>7. CASE receipt' = <<insurance, settled, legacy>>
      BY <3>3, <3>7
    <3> QED BY <2>2, <3>4, <3>5, <3>6, <3>7
  <2>4. /\ \A v \in Users : v # u => BooksNow'[v] = BooksNow[v]
        /\ pendingWithdrawals'[u] = pendingWithdrawals[u] /\ approvedWithdrawals'[u] = approvedWithdrawals[u]
    <3>1. /\ \A v \in Users : v # u => balances'[v] = balances[v]
          /\ pendingWithdrawals' = pendingWithdrawals /\ approvedWithdrawals' = approvedWithdrawals
      BY <1>6 DEF V!Settles, V!TypeOK, V!withdrawals
    <3> QED BY <3>1 DEF BooksNow, VaultBooks
  <2>5. ASSUME NEW log, log = settled \/ log = legacy
        PROVE  /\ log.name \in Handled /\ IsSettlement(log) /\ log.user = u /\ log.settlementId = id
               /\ Replay(BooksNow[u], log) = BooksNow'[u] /\ Replay(BooksNow'[u], log) = BooksNow'[u]
    <3>1. /\ log.name \in {"SettlementApplied", "PnlSettled"} /\ log.user = u /\ log.settlementId = id
          /\ log.newBalance = balances'[u]
      BY <2>1, <2>5
    <3>2. IsSettlement(log) /\ log.name \in Handled
          /\ log.name # "Deposited" /\ log.name # "Withdrawn" /\ log.name # "WithdrawRequested"
          /\ log.name # "WithdrawApproved"
      BY <3>1 DEF IsSettlement, Handled
    <3>3. \A b : Replay(b, log) = [collateral |-> balances'[u], pending |-> b.pending, approved |-> b.approved]
      BY <3>1, <3>2 DEF Replay
    <3>4. BooksNow'[u] = [collateral |-> balances'[u], pending |-> pendingWithdrawals[u],
                          approved |-> approvedWithdrawals[u]]
      BY <2>4 DEF BooksNow, VaultBooks
    <3> QED BY <1>2, <1>3, <2>4, <3>1, <3>2, <3>3, <3>4
  <2>6. \A i \in DOMAIN receipt' :
          /\ receipt'[i].user = u
          /\ receipt'[i] = insurance => receipt'[i].name \notin Handled /\ ~IsSettlement(receipt'[i])
    BY <2>1, <2>3, <2>5 DEF Handled, IsSettlement
  <2>7. OneBookChanges(u)
    <3>1. Len(receipt') \in DOMAIN receipt'
      BY <2>3
    <3>2. receipt'[Len(receipt')].name \in Handled
      BY <2>3, <2>5, <3>1
    <3>3. \A i \in DOMAIN receipt' : receipt'[i].name \in Handled => receipt'[i] = settled \/ receipt'[i] = legacy
      BY <2>3, <2>6
    <3> QED BY <2>3, <2>4, <2>5, <2>6, <3>2, <3>3 DEF OneBookChanges
  <2>8. OneSettlement(id)
    <3>1. id \notin usedSettlements /\ usedSettlements' = usedSettlements \union {id}
      BY <1>6 DEF V!Settles
    <3>2. \A i \in DOMAIN receipt' : IsSettlement(receipt'[i]) =>
            (receipt'[i] = settled \/ receipt'[i] = legacy) /\ i >= Len(receipt') - 1
      BY <2>3, <2>6
    <3> QED BY <2>5, <3>1, <3>2 DEF OneSettlement
  <2> QED BY <2>7, <2>8
<1> QED BY <1>4, <1>5, <1>6, VaultShape

\* The history of the books grows with the logs.
LEMMA TruthGrows ==
  ASSUME ChainInv, BooksInv, Transact
  PROVE  /\ Len(truth') = Len(logs') /\ truth' \in Seq([Users -> BookEntries])
         /\ \A k \in 0..Len(logs) : BooksAfter(k)' = BooksAfter(k)
         /\ \A k \in DOMAIN logs' \ DOMAIN logs : BooksAfter(k)' = BooksNow'
<1> DEFINE added == [i \in DOMAIN receipt' |-> [u \in Users |-> VaultBooks(u)']]
<1>1. V!TypeOK' /\ receipt' \in Seq(V!Events) /\ Len(logs') = Len(logs) + Len(receipt')
      /\ Len(logs) \in Nat /\ DOMAIN logs = 1..Len(logs) /\ logs' \in Seq(Logs)
  BY LogsGrow, LogFacts
<1>2. Len(receipt') \in Nat /\ DOMAIN receipt' = 1..Len(receipt')
  BY <1>1
<1>3. BooksNow' \in [Users -> BookEntries]
  <2>1. V!TypeOK' => BooksNow' \in [Users -> BookEntries]
    BY DEF V!TypeOK, BooksNow, VaultBooks, BookEntries
  <2> QED BY <1>1, <2>1
<1>4. \A i \in DOMAIN receipt' : added[i] = BooksNow'
  BY DEF BooksNow, VaultBooks
<1>5. added \in Seq([Users -> BookEntries]) /\ Len(added) = Len(receipt') /\ DOMAIN added = 1..Len(receipt')
  <2>1. DOMAIN added = 1..Len(receipt')
    BY <1>2
  <2> HIDE DEF added
  <2>2. \A i \in DOMAIN added : added[i] \in [Users -> BookEntries]
    BY <1>2, <1>3, <1>4, <2>1
  <2>3. added = [i \in 1..Len(receipt') |-> added[i]]
    BY <1>2, <2>1 DEF added
  <2> QED BY <1>2, <2>1, <2>2, <2>3
<1>6. truth' = truth \o added
  BY DEF Transact
<1> HIDE DEF added
<1>7. truth \in Seq([Users -> BookEntries]) /\ Len(truth) = Len(logs)
  BY DEF BooksInv
<1>8. truth' \in Seq([Users -> BookEntries]) /\ Len(truth') = Len(logs')
  <2>1. truth \o added \in Seq([Users -> BookEntries]) /\ Len(truth \o added) = Len(truth) + Len(added)
    BY <1>5, <1>7
  <2> QED BY <1>1, <1>5, <1>6, <1>7, <2>1
<1>9. \A k \in 1..Len(logs) : truth'[k] = truth[k]
  BY <1>1, <1>5, <1>6, <1>7
<1>10. \A k \in DOMAIN logs' \ DOMAIN logs : truth'[k] = BooksNow' /\ k # 0
  <2> TAKE k \in DOMAIN logs' \ DOMAIN logs
  <2>1. k > Len(logs) /\ k - Len(logs) \in DOMAIN receipt' /\ k \in 1..(Len(logs) + Len(receipt'))
    BY <1>1, <1>2
  <2>2. truth'[k] = added[k - Len(logs)]
    BY <1>1, <1>2, <1>5, <1>6, <1>7, <2>1
  <2> QED BY <1>1, <1>4, <2>1, <2>2
<1> QED BY <1>1, <1>8, <1>9, <1>10 DEF BooksAfter

LEMMA BooksStep ==
  ASSUME ChainInv, BooksInv, [Next]_vars
  PROVE  BooksInv'
<1>1. CASE UNCHANGED <<logs, truth, vaultVars>>
  <2>1. UNCHANGED <<balances, pendingWithdrawals, approvedWithdrawals, usedSettlements>>
    BY <1>1 DEF vaultVars
  <2>2. /\ BooksNow' = BooksNow /\ Settlements' = Settlements
        /\ \A k : BooksAfter(k)' = BooksAfter(k) /\ IsHandled(k)' = IsHandled(k) /\ BlockOf(k)' = BlockOf(k)
    BY <1>1, <2>1 DEF BooksNow, VaultBooks, BooksAfter, IsHandled, BlockOf, Settlements
  <2>3. /\ \A j, k : NoneHandled(j, k)' = NoneHandled(j, k) /\ IsCut(j, k)' = IsCut(j, k)
    BY <1>1, <2>2 DEF NoneHandled, IsCut
  <2> QED
    BY <1>1, <2>1, <2>2, <2>3 DEF BooksInv, RestIsQuiet, LogsReplay, BlocksAreWhole, SettlementsAreOnce
<1>2. CASE Transact
  <2>0. PICK n \in Nat, m \in Nat : n = Len(logs) /\ m = Len(receipt')
    <3>1. receipt' \in Seq(V!Events)
      BY <1>2, LogsGrow
    <3>2. Len(receipt') \in Nat /\ Len(logs) \in Nat
      BY <3>1, LogFacts
    <3> QED BY <3>2
  <2> DEFINE New == (n + 1)..(n + m)
  <2>1. /\ n \in Nat /\ m \in Nat /\ head \in Nat
        /\ DOMAIN logs = 1..n /\ DOMAIN logs' = 1..(n + m) /\ DOMAIN receipt' = 1..m
        /\ Len(logs') = n + m /\ DOMAIN logs' \ DOMAIN logs = New
    <3>1. receipt' \in Seq(V!Events) /\ logs' \in Seq(Logs) /\ Len(logs') = n + m
      BY <1>2, <2>0, LogsGrow
    <3> QED BY <2>0, <3>1, LogFacts
  <2>2. \A k \in 1..n : /\ k \in DOMAIN logs' /\ logs'[k] = logs[k] /\ BlockOf(k)' = BlockOf(k)
                        /\ IsHandled(k)' = IsHandled(k)
    BY <1>2, <2>1, LogsGrow DEF BlockOf, IsHandled
  <2>3. \A k \in New : /\ k \in Nat /\ k > n /\ k <= n + m /\ k - n \in 1..m
                       /\ logs'[k].event = receipt'[k - n] /\ BlockOf(k)' = head + 1
                       /\ IsHandled(k)' <=> receipt'[k - n].name \in Handled
    BY <1>2, <2>1, LogsGrow DEF BlockOf, IsHandled
  <2>4. /\ Len(truth') = Len(logs') /\ truth' \in Seq([Users -> BookEntries])
        /\ \A k \in 0..n : BooksAfter(k)' = BooksAfter(k)
        /\ \A k \in New : BooksAfter(k)' = BooksNow'
    BY <1>2, <2>0, <2>1, TruthGrows
  <2>5. \A k \in 0..(n + m) : k \in 0..n \/ k \in New
    BY <2>1
  <2>6. \A j \in 0..(n + m), k \in 0..(n + m + 1) : NoneHandled(j, k)' =>
          (k <= n + 1 => NoneHandled(j, k)) /\ (k > n => NoneHandled(j, n + 1))
    BY <2>1, <2>2 DEF NoneHandled, IsHandled
  <2>7. \/ NothingHappens
        \/ \E u \in Users : OneBookChanges(u) /\ (NoSettlement \/ \E id \in SettlementIds : OneSettlement(id))
    BY <1>2, ReceiptTells DEF ChainInv, Transact
  <2>8. BooksNow \in [Users -> BookEntries] /\ BooksNow' \in [Users -> BookEntries]
    <3>1. V!TypeOK' => BooksNow' \in [Users -> BookEntries]
      BY DEF V!TypeOK, BooksNow, VaultBooks, BookEntries
    <3> QED BY <1>2, <3>1, LogsGrow, BooksNowType DEF ChainInv
  <2>9. ASSUME NEW u \in Users, OneBookChanges(u)
        PROVE  /\ m >= 1 /\ n + m \in New /\ IsHandled(n + m)'
               /\ \A k \in New : logs'[k].event.user = u
    <3>1. m >= 1 /\ n + m \in New /\ n + m - n = m
      BY <2>0, <2>1, <2>9 DEF OneBookChanges
    <3>2. receipt'[n + m - n].name \in Handled
      BY <2>0, <2>9, <3>1 DEF OneBookChanges
    <3>3. IsHandled(n + m)'
      BY <2>3, <3>1, <3>2
    <3>4. \A k \in New : logs'[k].event.user = u
      BY <2>1, <2>3, <2>9 DEF OneBookChanges
    <3> QED BY <3>1, <3>3, <3>4
  <2>10. \A k \in DOMAIN logs' : logs'[k].event.user \in Users
    <3>1. \A k \in New : logs'[k].event.user \in Users
      BY <2>1, <2>3, <2>7, <2>9 DEF NothingHappens
    <3> QED BY <2>1, <2>2, <3>1 DEF BooksInv
  <2>11. RestIsQuiet'
    <3> SUFFICES ASSUME NEW j \in 0..(n + m), NoneHandled(j, n + m + 1)'
                 PROVE  BooksAfter(j)' = BooksNow'
      BY <2>1 DEF RestIsQuiet
    <3>1. CASE j \in New
      BY <2>4, <3>1
    <3>2. CASE j \in 0..n
      <4>1. BooksAfter(j)' = BooksNow
        BY <2>0, <2>1, <2>4, <2>6, <3>2 DEF BooksInv, RestIsQuiet
      <4>2. ~\E u \in Users : OneBookChanges(u)
        <5> SUFFICES ASSUME NEW u \in Users, OneBookChanges(u) PROVE FALSE
          OBVIOUS
        <5> QED BY <2>1, <2>9, <3>2 DEF NoneHandled
      <4> QED BY <2>7, <4>1, <4>2 DEF NothingHappens
    <3> QED BY <2>5, <3>1, <3>2
  <2>12. BlocksAreWhole'
    <3> SUFFICES ASSUME NEW h \in Nat, NEW c \in 0..(n + m), NEW j \in 0..(n + m),
                        IsCut(h, c)', j <= c, NoneHandled(j, c + 1)'
                 PROVE  BooksAfter(j)' = BooksAfter(c)'
      BY <2>1 DEF BlocksAreWhole
    <3>1. CASE c \in 0..n
      <4>1. IsCut(h, c)
        BY <2>1, <2>2, <3>1 DEF IsCut
      <4>2. j \in 0..n /\ NoneHandled(j, c + 1)
        BY <2>1, <2>6, <3>1
      <4>3. BooksAfter(j) = BooksAfter(c)
        BY <2>1, <3>1, <4>1, <4>2 DEF BooksInv, BlocksAreWhole
      <4> QED BY <2>4, <3>1, <4>2, <4>3
    <3>2. CASE c \in New
      <4>1. head + 1 <= h
        BY <2>1, <2>3, <3>2 DEF IsCut
      <4>2. n + m \in New
        BY <2>1, <2>3, <3>2
      <4>3. n + m <= c
        BY <2>1, <2>3, <4>1, <4>2 DEF IsCut
      <4>4. c = n + m
        BY <2>1, <4>3
      <4>5. BooksAfter(j)' = BooksNow'
        BY <2>1, <2>11, <4>4 DEF RestIsQuiet
      <4> QED BY <2>4, <3>2, <4>5
    <3> QED BY <2>5, <3>1, <3>2
  <2>13. LogsReplay'
    <3> SUFFICES ASSUME NEW k \in DOMAIN logs', NEW j \in 0..(n + m),
                        IsHandled(k)', j < k, NoneHandled(j, k)'
                 PROVE  BooksAfter(k)' = [BooksAfter(j)' EXCEPT ![logs'[k].event.user] =
                          Replay(BooksAfter(j)'[logs'[k].event.user], logs'[k].event)]
      BY <2>1 DEF LogsReplay, Replay
    <3>1. CASE k \in 1..n
      <4>1. j \in 0..n /\ NoneHandled(j, k) /\ IsHandled(k)
        BY <2>1, <2>2, <2>6, <3>1
      <4>2. BooksAfter(k) = [BooksAfter(j) EXCEPT ![logs[k].event.user] =
                          Replay(BooksAfter(j)[logs[k].event.user], logs[k].event)]
        BY <2>1, <3>1, <4>1 DEF BooksInv, LogsReplay
      <4> QED BY <2>1, <2>2, <2>4, <3>1, <4>1, <4>2
    <3>2. CASE k \in New
      <4>1. ~NothingHappens
        BY <2>1, <2>3, <3>2 DEF NothingHappens
      <4>2. PICK u \in Users : OneBookChanges(u)
        BY <2>7, <4>1
      <4> DEFINE event == logs'[k].event
      <4>3. /\ event.user = u /\ event = receipt'[k - n] /\ k - n \in DOMAIN receipt'
            /\ event.name \in Handled
        BY <2>1, <2>3, <2>9, <3>2, <4>2
      <4>4. /\ Replay(BooksNow[u], event) = BooksNow'[u]
            /\ k - n # 1 => Replay(BooksNow'[u], event) = BooksNow'[u]
            /\ \A v \in Users : v # u => BooksNow'[v] = BooksNow[v]
        BY <4>2, <4>3 DEF OneBookChanges
      <4> HIDE DEF event
      <4>5. CASE j \in 0..n
        <5>1. BooksAfter(j)' = BooksNow
          BY <2>0, <2>1, <2>3, <2>4, <2>6, <3>2, <4>5 DEF BooksInv, RestIsQuiet
        <5>2. BooksNow' = [BooksNow EXCEPT ![u] = Replay(BooksNow[u], event)]
          BY <2>8, <4>4
        <5> QED BY <2>4, <3>2, <4>3, <5>1, <5>2 DEF event
      <4>6. CASE j \in New
        <5>1. BooksAfter(j)' = BooksNow' /\ k - n # 1
          BY <2>1, <2>3, <2>4, <3>2, <4>6
        <5>2. BooksNow' = [BooksNow' EXCEPT ![u] = Replay(BooksNow'[u], event)]
          BY <2>8, <4>4, <5>1
        <5> QED BY <2>4, <3>2, <4>3, <5>1, <5>2 DEF event
      <4> QED BY <2>5, <4>5, <4>6
    <3> QED BY <2>1, <3>1, <3>2
  <2>14. SettlementsAreOnce'
    <3>1. \A k \in Settlements' : k \in Settlements \/ (k \in New /\ IsSettlement(receipt'[k - n]))
      BY <2>1, <2>2, <2>3 DEF Settlements
    <3>2. \A k \in Settlements : k \in 1..n /\ logs'[k] = logs[k] /\ logs[k].event.settlementId \in usedSettlements
      BY <2>1, <2>2 DEF Settlements, BooksInv, SettlementsAreOnce
    <3>3. usedSettlements \subseteq usedSettlements'
      BY <2>7 DEF NothingHappens, NoSettlement, OneSettlement
    <3>4. CASE \A i \in DOMAIN receipt' : ~IsSettlement(receipt'[i])
      <4>1. Settlements' \subseteq Settlements
        BY <2>1, <2>3, <3>1, <3>4
      <4> QED BY <2>1, <2>4, <3>2, <3>3, <4>1 DEF BooksInv, SettlementsAreOnce
    <3>5. ASSUME NEW id \in SettlementIds, OneSettlement(id)
          PROVE  SettlementsAreOnce'
      <4>1. \A k \in Settlements' : k \notin Settlements =>
              k \in New /\ logs'[k].event.settlementId = id /\ k >= n + m - 1
        BY <2>0, <2>1, <2>3, <3>1, <3>5 DEF OneSettlement
      <4>2. \A k \in Settlements' : logs'[k].event.settlementId \in usedSettlements'
        BY <3>2, <3>5, <4>1 DEF OneSettlement
      <4>3. ASSUME NEW i \in Settlements', NEW k \in Settlements', i < k,
                   logs'[i].event.settlementId = logs'[k].event.settlementId
            PROVE  k = i + 1 /\ BooksAfter(i)' = BooksAfter(k)'
        <5>1. CASE i \in Settlements /\ k \in Settlements
          BY <2>1, <2>4, <3>2, <4>3, <5>1 DEF BooksInv, SettlementsAreOnce
        <5>2. CASE i \notin Settlements /\ k \notin Settlements
          BY <2>1, <2>3, <2>4, <4>1, <4>3, <5>2
        <5>3. CASE i \in Settlements /\ k \notin Settlements
          BY <3>2, <3>5, <4>1, <4>3, <5>3 DEF OneSettlement
        <5>4. CASE i \notin Settlements /\ k \in Settlements
          BY <2>1, <2>3, <3>2, <4>1, <4>3, <5>4
        <5> QED BY <5>1, <5>2, <5>3, <5>4
      <4> QED BY <4>2, <4>3 DEF SettlementsAreOnce
    <3>6. CASE NothingHappens
      <4>1. \A i \in DOMAIN receipt' : ~IsSettlement(receipt'[i])
        BY <3>6 DEF NothingHappens, IsSettlement, Handled
      <4> QED BY <3>4, <4>1
    <3> QED BY <2>7, <3>4, <3>5, <3>6 DEF NoSettlement
  <2> QED BY <2>4, <2>10, <2>11, <2>12, <2>13, <2>14 DEF BooksInv
<1>3. [Next]_vars => Transact \/ UNCHANGED <<logs, truth, vaultVars>>
  BY DEF Next, CalmNext, SealBlock, Start, StartFails, Watch, Poll, HandleLog, Stop, Kill, Terminate,
         chainVars, vars
<1> QED BY <1>1, <1>2, <1>3

LEMMA BooksInit == Init => BooksInv
<1> SUFFICES ASSUME Init PROVE BooksInv
  OBVIOUS
<1>1. /\ logs = <<>> /\ truth = <<>> /\ BooksAfter(0) = EmptyBooks
      /\ Len(logs) = 0 /\ DOMAIN logs = {}
  BY DEF Init, BooksAfter
<1>2. BooksNow = EmptyBooks
  BY VaultBridge DEF Init, V!Init, BooksNow, VaultBooks, EmptyBooks
<1>3. truth \in Seq([Users -> BookEntries]) /\ Len(truth) = 0
  BY <1>1
<1>4. Settlements = {}
  BY <1>1 DEF Settlements
<1> QED BY <1>1, <1>2, <1>3, <1>4 DEF BooksInv, RestIsQuiet, LogsReplay, BlocksAreWhole, SettlementsAreOnce
-----------------------------------------------------------------------------
(* The ledger. *)

LastApplied == IF applied = <<>> THEN 0 ELSE applied[Len(applied)]

\* The ledger shows the books after the last log applied, if none before it was lost.
LedgerInv ==
  /\ \A id \in confirmed : \E i \in Range(applied) :
       i \in Settlements /\ logs[i].event.settlementId = id
  /\ (\A k \in DOMAIN logs : IsHandled(k) /\ k <= LastApplied => k \in Range(applied))
       => ledger = BooksAfter(LastApplied)

LEMMA BooksAfterType ==
  ASSUME ChainInv, BooksInv, NEW k \in 0..Len(logs)
  PROVE  BooksAfter(k) \in [Users -> BookEntries]
<1>1. EmptyBooks \in [Users -> BookEntries]
  BY DEF EmptyBooks, BookEntries
<1>2. k # 0 => truth[k] \in [Users -> BookEntries]
  <2>1. truth \in Seq([Users -> BookEntries]) /\ Len(truth) = Len(logs) /\ Len(logs) \in Nat
    BY LogFacts DEF BooksInv
  <2> QED BY <2>1
<1> QED BY <1>1, <1>2 DEF BooksAfter

\* A log that is not the second one of a confirmed settlement takes full effect.
LEMMA EffectIsReplay ==
  ASSUME NEW book \in BookEntries, NEW event, event.name \in Handled,
         IsSettlement(event) => event.settlementId \notin confirmed
  PROVE  Effect(book, event) = Replay(book, event)
<1>1. /\ book = [collateral |-> book.collateral, pending |-> book.pending, approved |-> book.approved]
  BY DEF BookEntries
<1>2. CASE event.name = "Deposited"
  BY <1>1, <1>2 DEF Effect, Replay, IsSettlement
<1>3. CASE event.name = "WithdrawRequested"
  BY <1>1, <1>3 DEF Effect, Replay, IsSettlement
<1>4. CASE event.name = "WithdrawApproved"
  BY <1>1, <1>4 DEF Effect, Replay, IsSettlement
<1>5. CASE event.name = "Withdrawn"
  BY <1>1, <1>5 DEF Effect, Replay, IsSettlement
<1>6. CASE event.name \in {"SettlementApplied", "PnlSettled"}
  BY <1>1, <1>6 DEF Effect, Replay, IsSettlement
<1> QED BY <1>2, <1>3, <1>4, <1>5, <1>6 DEF Handled

\* What was applied last.
LEMMA LastIsTop ==
  ASSUME OrderInv
  PROVE  /\ Len(applied) \in Nat /\ DOMAIN applied = 1..Len(applied)
         /\ \A i \in DOMAIN applied : applied[i] \in claimed
         /\ Range(applied) \subseteq claimed /\ Range(applied) \subseteq DOMAIN logs
         /\ LastApplied \in 0..Len(logs)
         /\ LastApplied = 0 \/ LastApplied \in Range(applied)
         /\ \A k \in Range(applied) : k <= LastApplied
<1>1. /\ Len(applied) \in Nat /\ DOMAIN applied = 1..Len(applied)
      /\ applied \in [1..Len(applied) -> claimed] /\ claimed \subseteq 1..Len(logs) /\ Len(logs) \in Nat
      /\ DOMAIN logs = 1..Len(logs) /\ (applied = <<>> <=> Len(applied) = 0)
  BY LogFacts DEF OrderInv, DatabaseInv
<1>2. CASE applied = <<>>
  BY <1>1, <1>2 DEF LastApplied, Range
<1>3. CASE applied # <<>>
  <2>1. Len(applied) \in DOMAIN applied /\ LastApplied = applied[Len(applied)]
    BY <1>1, <1>3 DEF LastApplied
  <2>2. \A i \in DOMAIN applied : i = Len(applied) \/ applied[i] < applied[Len(applied)]
    BY <1>1, <2>1 DEF OrderInv, DatabaseInv, AppliedInChainOrder
  <2>3. /\ \A i \in DOMAIN applied : applied[i] \in claimed
        /\ Range(applied) \subseteq claimed /\ Range(applied) \subseteq DOMAIN logs
    BY <1>1 DEF Range
  <2>4. LastApplied \in Range(applied) /\ LastApplied \in 1..Len(logs)
    BY <1>1, <2>1 DEF Range
  <2>5. \A k \in Range(applied) : k <= LastApplied
    <3> SUFFICES ASSUME NEW i \in DOMAIN applied PROVE applied[i] <= LastApplied
      BY DEF Range
    <3>1. applied[i] \in Nat
      <4>1. applied[i] \in 1..Len(logs)
        BY <1>1, <2>3
      <4> QED BY <1>1, <4>1
    <3> QED BY <2>1, <2>2, <2>4, <3>1
  <2> QED BY <1>1, <2>3, <2>4, <2>5
<1> QED BY <1>2, <1>3

LEMMA LedgerWrites ==
  ASSUME OrderInv, BooksInv, LedgerInv, batch # <<>>, NEW n \in 1..AllWrites,
         Fresh(Head(batch)), WriteUpTo(Head(batch), n), UNCHANGED <<logs, truth>>
  PROVE  LedgerInv'
<1>0. PICK k0 \in DOMAIN logs : k0 = Head(batch)
  BY BatchFacts
<1> DEFINE event == logs[k0].event
<1>1. /\ IsHandled(k0) /\ event.name \in Handled /\ k0 \in Nat /\ k0 \in 1..Len(logs) /\ Len(logs) \in Nat
      /\ \A j \in claimed : j < k0
  BY <1>0, WriteFacts, OrderFacts, LogFacts DEF OrderInv, IsHandled
<1>2. /\ \A k : IsHandled(k)' = IsHandled(k) /\ BooksAfter(k)' = BooksAfter(k)
      /\ Settlements' = Settlements
  BY DEF IsHandled, BooksAfter, Settlements
<1>3. CASE n = 1
  <2>1. UNCHANGED <<ledger, applied, confirmed>>
    BY <1>3 DEF WriteUpTo
  <2> QED BY <1>2, <2>1 DEF LedgerInv, LastApplied
<1>4. CASE n # 1
  <2>1. /\ ledger' = [ledger EXCEPT ![event.user] = Effect(ledger[event.user], event)]
        /\ applied' = Append(applied, k0)
        /\ \A id \in confirmed' : id \in confirmed \/ (IsSettlement(event) /\ id = event.settlementId)
    BY <1>0, <1>4 DEF WriteUpTo, AllWrites
  <2>2. /\ LastApplied' = k0 /\ Range(applied') = Range(applied) \union {k0}
    <3>1. applied \in Seq(DOMAIN logs)
      BY LastIsTop DEF OrderInv, DatabaseInv
    <3>2. /\ Len(applied) \in Nat /\ DOMAIN applied = 1..Len(applied)
          /\ Len(applied') = Len(applied) + 1 /\ DOMAIN applied' = 1..(Len(applied) + 1)
          /\ applied'[Len(applied) + 1] = k0 /\ applied' # <<>>
          /\ \A i \in 1..Len(applied) : applied'[i] = applied[i]
      BY <2>1, <3>1
    <3>3. \A i \in DOMAIN applied' : i \in DOMAIN applied \/ i = Len(applied) + 1
      BY <3>2
    <3>4. \A i \in DOMAIN applied : i \in DOMAIN applied' /\ applied'[i] = applied[i]
      BY <3>2
    <3>5. Len(applied) + 1 \in DOMAIN applied'
      BY <3>2
    <3>6. Range(applied') = Range(applied) \union {k0}
      BY <3>2, <3>3, <3>4, <3>5 DEF Range
    <3> QED BY <3>2, <3>6 DEF LastApplied
  <2>3. \A id \in confirmed' : \E i \in Range(applied') :
          i \in Settlements' /\ logs'[i].event.settlementId = id
    <3>1. IsSettlement(event) => k0 \in Settlements
      BY DEF Settlements
    <3> QED BY <1>2, <2>1, <2>2, <3>1 DEF LedgerInv
  <2>4. ASSUME \A k \in DOMAIN logs : IsHandled(k) /\ k <= k0 => k \in Range(applied')
        PROVE  ledger' = BooksAfter(k0)
    <3> DEFINE last == LastApplied
               u == event.user
    <3>1. /\ last \in 0..Len(logs) /\ last < k0 /\ u \in Users
          /\ last = 0 \/ last \in Range(applied)
          /\ \A k \in Range(applied) : k <= last /\ k < k0
      BY <1>1, LastIsTop DEF BooksInv
    <3>2. \A k \in DOMAIN logs : IsHandled(k) /\ k < k0 => k \in Range(applied)
      BY <1>1, <2>2, <2>4, OrderFacts
    <3>3. ledger = BooksAfter(last)
      BY <1>1, <3>1, <3>2, OrderFacts DEF LedgerInv
    <3>4. NoneHandled(last, k0)
      <4> SUFFICES ASSUME NEW i \in DOMAIN logs, last < i, i < k0, IsHandled(i) PROVE FALSE
        BY DEF NoneHandled
      <4>1. i \in Nat /\ i <= last
        BY <3>1, <3>2, OrderFacts
      <4> QED BY <3>1, <4>1
    <3>5. BooksAfter(k0) = [BooksAfter(last) EXCEPT ![u] = Replay(BooksAfter(last)[u], event)]
      BY <1>1, <3>1, <3>4 DEF BooksInv, LogsReplay
    <3>6. BooksAfter(last) \in [Users -> BookEntries]
      BY <3>1, BooksAfterType DEF OrderInv
    <3> HIDE DEF last, u
    <3>7. CASE IsSettlement(event) => event.settlementId \notin confirmed
      <4>1. Effect(BooksAfter(last)[u], event) = Replay(BooksAfter(last)[u], event)
        BY <1>1, <3>1, <3>6, <3>7, EffectIsReplay
      <4> QED BY <2>1, <3>3, <3>5, <4>1 DEF u
    <3>8. CASE IsSettlement(event) /\ event.settlementId \in confirmed
      <4>1. PICK i \in Range(applied) : i \in Settlements /\ logs[i].event.settlementId = event.settlementId
        BY <3>8 DEF LedgerInv
      <4>2. k0 \in Settlements /\ i < k0
        BY <3>1, <3>8, <4>1 DEF Settlements
      <4>3. k0 = i + 1 /\ BooksAfter(i) = BooksAfter(k0)
        BY <4>1, <4>2 DEF BooksInv, SettlementsAreOnce
      <4>4. last = i
        <5>1. i \in Nat /\ i <= last /\ last \in Nat /\ last < k0
          BY <1>1, <3>1, <4>1, LastIsTop, OrderFacts
        <5> QED BY <4>3, <5>1
      <4>5. Effect(ledger[u], event) = ledger[u]
        <5>1. event.name \in {"SettlementApplied", "PnlSettled"}
          BY <3>8 DEF IsSettlement
        <5> HIDE DEF event
        <5> QED BY <3>8, <5>1 DEF Effect
      <4>6. ledger' = [ledger EXCEPT ![u] = ledger[u]]
        BY <2>1, <4>5 DEF u
      <4>7. ledger' = ledger
        BY <3>3, <3>6, <4>6
      <4> QED BY <3>3, <4>3, <4>4, <4>7
    <3> QED BY <3>7, <3>8
  <2> QED BY <1>2, <2>2, <2>3, <2>4 DEF LedgerInv
<1> QED BY <1>3, <1>4

LEMMA LedgerStep ==
  ASSUME OrderInv, BooksInv, LedgerInv, [Next]_vars
  PROVE  LedgerInv'
<1>1. CASE UNCHANGED database
  <2>1. UNCHANGED <<ledger, confirmed, applied>> /\ LastApplied' = LastApplied
    BY <1>1 DEF database, LastApplied
  <2>2. /\ \A k \in DOMAIN logs : k \in DOMAIN logs' /\ logs'[k] = logs[k]
        /\ \A k \in 0..Len(logs) : BooksAfter(k)' = BooksAfter(k)
    <3>1. CASE Transact
      BY <3>1, LogsGrow, TruthGrows DEF OrderInv
    <3>2. CASE UNCHANGED <<logs, truth>>
      BY <3>2 DEF BooksAfter
    <3> QED BY <3>1, <3>2 DEF Next, CalmNext, SealBlock, Start, StartFails, Watch, Poll, HandleLog,
              Stop, Kill, Terminate, chainVars, vars
  <2>3. \A k \in DOMAIN logs : IsHandled(k)' = IsHandled(k) /\ (k \in Settlements => k \in Settlements')
    BY <2>2 DEF IsHandled, Settlements
  <2>4. \A i \in Range(applied) : i \in DOMAIN logs
    BY LastIsTop
  <2>5. BooksAfter(LastApplied)' = BooksAfter(LastApplied)
    <3>1. PICK l \in 0..Len(logs) : l = LastApplied /\ l = LastApplied'
      BY <2>1, LastIsTop
    <3>2. BooksAfter(l)' = BooksAfter(l)
      BY <2>2
    <3>3. BooksAfter(LastApplied)' = BooksAfter(l)'
      BY <3>1 DEF BooksAfter
    <3> QED BY <3>1, <3>2, <3>3
  <2>6. \A id \in confirmed' : \E i \in Range(applied') :
          i \in Settlements' /\ logs'[i].event.settlementId = id
    BY <2>1, <2>2, <2>3, <2>4 DEF LedgerInv
  <2>7. (\A k \in DOMAIN logs' : IsHandled(k)' /\ k <= LastApplied' => k \in Range(applied'))
          => ledger' = BooksAfter(LastApplied)'
    BY <2>1, <2>2, <2>3, <2>5 DEF LedgerInv
  <2> QED BY <2>6, <2>7 DEF LedgerInv
<1>2. CASE HandleLog
  <2>1. AllWrites \in 1..AllWrites
    BY DEF AllWrites
  <2> QED BY <1>1, <1>2, <2>1, LedgerWrites DEF HandleLog, chainVars
<1>3. CASE Kill
  <2>1. \A n \in 1..AllWrites - 1 : n \in 1..AllWrites
    BY DEF AllWrites
  <2> QED BY <1>1, <1>3, <2>1, LedgerWrites DEF Kill, Terminate, chainVars
<1>4. Transact \/ SealBlock \/ Start \/ StartFails \/ Watch \/ Poll \/ Stop \/ UNCHANGED vars
        => UNCHANGED database
  BY DEF Transact, SealBlock, Start, StartFails, Watch, Poll, Stop, vars
<1> QED BY <1>1, <1>2, <1>3, <1>4 DEF Next, CalmNext

LEMMA LedgerInit == Init => LedgerInv
  BY DEF Init, LedgerInv, LastApplied, BooksAfter

\* The ledger of a backend that was never killed, and for which no block was
\* sealed during a sync, shows what the vault's books showed at some earlier
\* time.  With settlements overwriting the collateral this needs the order, the
\* completeness and the fact that a settlementId is in one transaction only.
THEOREM LedgerTheorem ==
  "Kill" \notin Faults /\ "MinedDuringSync" \notin Faults => (Spec => []LedgerIsPastVault)
<1> SUFFICES ASSUME "Kill" \notin Faults, "MinedDuringSync" \notin Faults
             PROVE  Spec => []LedgerIsPastVault
  OBVIOUS
<1> DEFINE Inv == OrderInv /\ NothingLost /\ BooksInv /\ LedgerInv
<1>1. Init => Inv
  <2>1. Init => NothingLost
    BY DEF Init, NothingLost, Range
  <2> QED BY <2>1, OrderInit, BooksInit, LedgerInit
<1>2. Inv /\ [Next]_vars => Inv'
  <2>1. ~({"Kill", "MinedDuringSync"} \subseteq Faults)
    OBVIOUS
  <2>2. OrderInv => ChainInv
    BY DEF OrderInv
  <2> QED BY <2>1, <2>2, OrderStep, LostStep, BooksStep, LedgerStep
<1>3. Inv => LedgerIsPastVault
  <2> SUFFICES ASSUME Inv PROVE LedgerIsPastVault
    OBVIOUS
  <2>1. ASSUME NEW k \in DOMAIN logs, IsHandled(k), k <= LastApplied
        PROVE  k \in Range(applied)
    <3>1. k \in Nat /\ k >= 1 /\ LastApplied \in Nat /\ LastApplied \in claimed /\ claimed = Range(applied)
      BY <2>1, LastIsTop, LogFacts DEF OrderInv, NothingLost
    <3>2. CASE k \in claimed
      BY <3>1, <3>2
    <3>3. CASE k \notin claimed
      <4>1. k < LastApplied /\ Missing(k)
        BY <2>1, <3>1, <3>3 DEF Missing
      <4>2. BlockOf(k) <= cursor
        BY <3>1, <4>1 DEF OrderInv, SkippedIsLost
      <4>3. k \in Range(batch)
        BY <2>1, <3>3, <4>2 DEF NothingLost
      <4>4. LastApplied < k
        BY <3>1, <4>1, <4>3 DEF OrderInv, BatchIsAhead
      <4> QED BY <3>1, <4>1, <4>4
    <3> QED BY <3>2, <3>3
  <2>2. ledger = BooksAfter(LastApplied)
    BY <2>1 DEF LedgerInv
  <2>3. applied # <<>> => LastApplied # 0
    BY LastIsTop, LogFacts DEF OrderInv, LastApplied, Range
  <2> QED BY <2>2, <2>3 DEF LedgerIsPastVault, LastApplied, BooksAfter, Last
<1> QED BY <1>1, <1>2, <1>3, PTL DEF Spec
-----------------------------------------------------------------------------
(* The comparison with the vault. *)

\* The logs that had taken effect when a user's report was begun.
Known(u) == {applied[i] : i \in 1..report[u].known}

LastKnown(u) == IF report[u].known = 0 THEN 0 ELSE applied[report[u].known]

\* An answer shows the books at the end of a block that holds all that was known.
IsRecentCut(u, c) ==
  /\ \E h \in 0..head : IsCut(h, c)
  /\ LastKnown(u) <= c

ReportOf(u) ==
  LET r == report[u] IN
  /\ r.known \in 0..Len(applied)
  /\ (\A k \in DOMAIN logs : IsHandled(k) /\ k <= LastKnown(u) => k \in Known(u))
       => r.offChain = BooksAfter(LastKnown(u))[u]
  /\ r.balance # Unread =>
       \E c \in 0..Len(logs) : IsRecentCut(u, c) /\ r.balance = BooksAfter(c)[u].collateral
  /\ r.pending # Unread =>
       \E c \in 0..Len(logs) : IsRecentCut(u, c) /\ r.pending = BooksAfter(c)[u].pending

IsRecord(r) ==
  \E o, b, p, n : r = [offChain |-> o, balance |-> b, pending |-> p, known |-> n]

ReportInv ==
  /\ DOMAIN report = Users
  /\ \A u \in Users : IsRecord(report[u]) /\ (report[u] = NoReport \/ ReportOf(u))

\* The chain only grows, and so does what was applied.
LEMMA HistoryGrows ==
  ASSUME OrderInv, BooksInv, [Next]_vars
  PROVE  /\ head \in Nat /\ head' \in Nat /\ head <= head'
         /\ Len(logs) \in Nat /\ Len(logs') \in Nat /\ Len(logs) <= Len(logs')
         /\ \A k \in DOMAIN logs : k \in DOMAIN logs' /\ logs'[k] = logs[k]
         /\ \A k \in DOMAIN logs' \ DOMAIN logs : k > Len(logs) /\ BlockOf(k)' = head + 1
         /\ \A k \in 0..Len(logs) : BooksAfter(k)' = BooksAfter(k)
         /\ Len(applied) \in Nat /\ Len(applied') \in Nat /\ Len(applied) <= Len(applied')
         /\ \A i \in 1..Len(applied) : applied'[i] = applied[i]
<1>1. head \in Nat /\ Len(logs) \in Nat
  BY LogFacts DEF OrderInv
<1>2. CASE Transact
  <2>1. /\ \A k \in DOMAIN logs : k \in DOMAIN logs' /\ logs'[k] = logs[k]
        /\ \A k \in DOMAIN logs' \ DOMAIN logs : k > Len(logs) /\ BlockOf(k)' = head + 1
        /\ \A k \in 0..Len(logs) : BooksAfter(k)' = BooksAfter(k)
        /\ receipt' \in Seq(V!Events) /\ Len(logs') = Len(logs) + Len(receipt')
    <3>1. ChainInv
      BY DEF OrderInv
    <3>2. \A k \in DOMAIN logs' \ DOMAIN logs : k > Len(logs) /\ BlockOf(k)' = head + 1
      BY <1>2, <3>1, LogsGrow DEF BlockOf
    <3>3. \A k \in DOMAIN logs : k \in DOMAIN logs' /\ logs'[k] = logs[k]
      BY <1>2, <3>1, LogsGrow
    <3>4. receipt' \in Seq(V!Events) /\ Len(logs') = Len(logs) + Len(receipt')
      BY <1>2, <3>1, LogsGrow
    <3> QED BY <1>2, <3>1, <3>2, <3>3, <3>4, TruthGrows
  <2>2. Len(receipt') \in Nat
    BY <2>1
  <2>3. head' = head /\ applied' = applied
    BY <1>2 DEF Transact, database
  <2>4. Len(applied) \in Nat
    BY LastIsTop
  <2> QED BY <1>1, <2>1, <2>2, <2>3, <2>4
<1>3. CASE UNCHANGED <<logs, truth>> /\ head' \in {head, head + 1}
  <2>1. \A k : BooksAfter(k)' = BooksAfter(k)
    BY <1>3 DEF BooksAfter
  <2>2. /\ Len(applied) \in Nat /\ Len(applied') \in Nat /\ Len(applied) <= Len(applied')
        /\ \A i \in 1..Len(applied) : applied'[i] = applied[i]
    <3>1. applied' = applied \/ \E k \in DOMAIN logs : applied' = Append(applied, k)
      <4>1. ASSUME NEW n \in Nat, batch # <<>>, WriteUpTo(Head(batch), n)
            PROVE  applied' = applied \/ \E k \in DOMAIN logs : applied' = Append(applied, k)
        BY <4>1, BatchFacts DEF WriteUpTo
      <4>2. AllWrites \in Nat /\ \A n \in 1..AllWrites - 1 : n \in Nat
        BY DEF AllWrites
      <4> QED BY <4>1, <4>2 DEF Next, CalmNext, Transact, SealBlock, Start, StartFails, Watch, Poll,
                 HandleLog, Stop, Kill, database, vars
    <3>2. applied \in Seq(DOMAIN logs)
      <4>1. /\ Len(applied) \in Nat /\ applied \in [1..Len(applied) -> claimed] /\ claimed \subseteq DOMAIN logs
        BY DEF OrderInv, DatabaseInv
      <4>2. applied \in [1..Len(applied) -> DOMAIN logs]
        BY <4>1
      <4> QED BY <4>1, <4>2
    <3>3. ASSUME NEW k \in DOMAIN logs, applied' = Append(applied, k)
          PROVE  /\ Len(applied') = Len(applied) + 1
                 /\ \A i \in 1..Len(applied) : applied'[i] = applied[i]
      BY <3>2, <3>3
    <3>4. Len(applied) \in Nat
      BY <3>2
    <3> QED BY <3>1, <3>3, <3>4
  <2> QED BY <1>1, <1>3, <2>1, <2>2
<1>4. [Next]_vars => Transact \/ (UNCHANGED <<logs, truth>> /\ head' \in {head, head + 1})
  BY DEF Next, CalmNext, SealBlock, Start, StartFails, Watch, Poll, HandleLog, Stop, Kill, Terminate,
         chainVars, vars
<1> QED BY <1>2, <1>3, <1>4

\* A report outlives what the chain and the indexer do meanwhile.
LEMMA ReportKept ==
  ASSUME OrderInv, BooksInv, [Next]_vars, UNCHANGED report, NEW u \in Users, ReportOf(u)
  PROVE  ReportOf(u)'
<1>1. PICK n \in Nat : n = report[u].known /\ n = report'[u].known /\ n <= Len(applied) /\ n <= Len(applied')
  BY HistoryGrows DEF ReportOf
<1>2. LastKnown(u)' = LastKnown(u) /\ Known(u)' = Known(u)
  <2>1. \A i \in 1..n : applied'[i] = applied[i]
    BY <1>1, HistoryGrows
  <2>2. n # 0 => n \in 1..n
    OBVIOUS
  <2>3. LastKnown(u)' = LastKnown(u)
    BY <1>1, <2>1, <2>2 DEF LastKnown
  <2>4. Known(u)' = {applied'[i] : i \in 1..n} /\ Known(u) = {applied[i] : i \in 1..n}
    BY <1>1 DEF Known
  <2>5. {applied'[i] : i \in 1..n} = {applied[i] : i \in 1..n}
    BY <2>1
  <2> QED BY <2>3, <2>4, <2>5
<1>3. LastKnown(u) \in 0..Len(logs)
  <2>1. CASE n = 0
    BY <1>1, <2>1, LogFacts DEF LastKnown, OrderInv
  <2>2. CASE n # 0
    <3>1. n \in DOMAIN applied /\ LastKnown(u) = applied[n]
      BY <1>1, <2>2, LastIsTop DEF LastKnown
    <3>2. applied[n] \in DOMAIN logs
      BY <3>1, LastIsTop DEF Range
    <3> QED BY <3>1, <3>2, LogFacts DEF OrderInv
  <2> QED BY <2>1, <2>2
<1>4. ASSUME NEW c \in 0..Len(logs), IsRecentCut(u, c)
      PROVE  c \in 0..Len(logs') /\ IsRecentCut(u, c)' /\ BooksAfter(c)' = BooksAfter(c)
  <2>1. PICK h \in 0..head : IsCut(h, c)
    BY <1>4 DEF IsRecentCut
  <2>2. h \in 0..head' /\ c \in 0..Len(logs')
    BY HistoryGrows
  <2>3. ASSUME NEW k \in DOMAIN logs'
        PROVE  BlockOf(k)' <= h <=> k <= c
    <3>1. CASE k \in DOMAIN logs
      BY <2>1, <3>1, HistoryGrows DEF IsCut, BlockOf
    <3>2. CASE k \notin DOMAIN logs
      <4>1. k > Len(logs) /\ BlockOf(k)' = head + 1 /\ k \in Nat
        BY <3>2, HistoryGrows
      <4> QED BY <4>1, HistoryGrows
    <3> QED BY <3>1, <3>2
  <2>4. IsCut(h, c)'
    BY <2>2, <2>3 DEF IsCut
  <2> QED BY <1>2, <1>4, <2>2, <2>4, HistoryGrows DEF IsRecentCut
<1>5. ASSUME \A k \in DOMAIN logs' : IsHandled(k)' /\ k <= LastKnown(u)' => k \in Known(u)'
      PROVE  report'[u].offChain = BooksAfter(LastKnown(u))'[u]
  <2>1. \A k \in DOMAIN logs : IsHandled(k) /\ k <= LastKnown(u) => k \in Known(u)
    BY <1>2, <1>5, HistoryGrows DEF IsHandled
  <2>2. report[u].offChain = BooksAfter(LastKnown(u))[u]
    BY <2>1 DEF ReportOf
  <2>3. BooksAfter(LastKnown(u))' = BooksAfter(LastKnown(u))
    <3>1. PICK l \in 0..Len(logs) : l = LastKnown(u)
      BY <1>3
    <3>2. BooksAfter(l)' = BooksAfter(l)
      BY HistoryGrows
    <3>3. BooksAfter(LastKnown(u))' = BooksAfter(l)'
      BY <1>2, <3>1 DEF BooksAfter
    <3> QED BY <3>1, <3>2, <3>3
  <2> QED BY <2>2, <2>3
<1>6. report'[u].balance # Unread =>
        \E c \in 0..Len(logs') : IsRecentCut(u, c)' /\ report'[u].balance = BooksAfter(c)'[u].collateral
  BY <1>4 DEF ReportOf
<1>7. report'[u].pending # Unread =>
        \E c \in 0..Len(logs') : IsRecentCut(u, c)' /\ report'[u].pending = BooksAfter(c)'[u].pending
  BY <1>4 DEF ReportOf
<1> QED BY <1>1, <1>5, <1>6, <1>7 DEF ReportOf

\* What the vault answers are the books at the end of the latest block.
LEMMA AnswerIsCut ==
  ASSUME OrderInv, BooksInv, NEW u \in Users, ReportOf(u)
  PROVE  \E c \in 0..Len(logs) : IsRecentCut(u, c) /\ OnChain(u) = BooksAfter(c)[u]
<1>1. PICK c \in 0..Len(logs) : c = LogsUpTo(head) /\ \A k \in DOMAIN logs : BlockOf(k) <= head <=> k <= c
  BY UpToIsPrefix, LogFacts DEF OrderInv
<1>2. head \in 0..head /\ IsCut(head, c)
  BY <1>1, OrderFacts DEF IsCut
<1>3. LastKnown(u) <= c
  <2>1. CASE report[u].known = 0
    BY <2>1 DEF LastKnown
  <2>2. CASE report[u].known # 0
    <3>1. LastKnown(u) \in claimed
      BY <2>2, LastIsTop DEF LastKnown, ReportOf
    <3>2. LastKnown(u) \in DOMAIN logs /\ BlockOf(LastKnown(u)) <= head
      BY <3>1, OrderFacts DEF OrderInv, DatabaseInv
    <3> QED BY <1>1, <3>2
  <2> QED BY <2>1, <2>2
<1>4. OnChain(u) = BooksAfter(c)[u]
  <2>1. SealedLogs = {} <=> c = 0
    <3>1. SealedLogs = {k \in DOMAIN logs : k <= c}
      BY <1>1 DEF SealedLogs, BlockOf
    <3>2. c # 0 => c \in DOMAIN logs /\ c <= c
      BY LogFacts DEF OrderInv
    <3>3. \A k \in DOMAIN logs : k \in Nat /\ k >= 1
      BY LogFacts DEF OrderInv
    <3> QED BY <3>1, <3>2, <3>3
  <2> QED BY <1>1, <2>1 DEF OnChain, BooksAfter
<1> QED BY <1>2, <1>3, <1>4 DEF IsRecentCut

LEMMA ReportStep ==
  ASSUME OrderInv, BooksInv, LedgerInv, ReportInv, [ReconciliationNext]_allVars
  PROVE  ReportInv'
<1>1. CASE [Next]_vars /\ UNCHANGED report
  <2>1. UNCHANGED NoReport
    BY DEF NoReport
  <2> QED BY <1>1, <2>1, ReportKept DEF ReportInv
<1>2. ASSUME NEW u \in Users, NEW r, UNCHANGED vars, report' = [report EXCEPT ![u] = r],
             IsRecord(r), r = NoReport \/ ReportOf(u)'
      PROVE  ReportInv'
  <2>1. /\ DOMAIN report' = Users /\ report'[u] = r
        /\ \A v \in Users : v # u => report'[v] = report[v]
    BY <1>2 DEF ReportInv
  <2>2. ASSUME NEW v \in Users, v # u, ReportOf(v)
        PROVE  ReportOf(v)'
    <3>1. UNCHANGED <<head, logs, truth, applied>> /\ report'[v] = report[v]
      BY <1>2, <2>1, <2>2 DEF vars, chainVars, database
    <3> QED BY <2>2, <3>1
        DEF ReportOf, LastKnown, Known, IsRecentCut, IsCut, BlockOf, IsHandled, BooksAfter
  <2>3. ASSUME NEW v \in Users
        PROVE  IsRecord(report'[v]) /\ (report'[v] = NoReport' \/ ReportOf(v)')
    BY <1>2, <2>1, <2>2 DEF ReportInv, NoReport
  <2> QED BY <2>1, <2>3 DEF ReportInv
<1>3. ASSUME NEW u \in Users, StartReport(u)
      PROVE  ReportInv'
  <2> DEFINE r == [offChain |-> ledger[u], balance |-> Unread, pending |-> Unread, known |-> Len(applied)]
  <2>1. report' = [report EXCEPT ![u] = r] /\ UNCHANGED vars
    BY <1>3 DEF StartReport, CopyLedger
  <2>2. report'[u] = r
    BY <2>1 DEF ReportInv
  <2>3. UNCHANGED <<head, logs, truth, applied, ledger>>
    BY <2>1 DEF vars, chainVars, database
  <2>4. Len(applied) \in Nat /\ DOMAIN applied = 1..Len(applied)
    BY LastIsTop
  <2>5. LastKnown(u)' = LastApplied /\ Known(u)' = Range(applied)
    <3>1. Len(applied) = 0 <=> applied = <<>>
      BY DEF OrderInv, DatabaseInv
    <3> QED BY <2>2, <2>3, <2>4, <3>1 DEF LastKnown, LastApplied, Known, Range
  <2>6. ReportOf(u)'
    <3>1. report'[u].known \in 0..Len(applied')
      BY <2>2, <2>3, <2>4
    <3>2. report'[u].balance = Unread' /\ report'[u].pending = Unread'
      BY <2>2
    <3>3. (\A k \in DOMAIN logs' : IsHandled(k)' /\ k <= LastKnown(u)' => k \in Known(u)')
            => report'[u].offChain = BooksAfter(LastKnown(u))'[u]
      BY <2>2, <2>3, <2>5 DEF LedgerInv, IsHandled, BooksAfter
    <3> QED BY <3>1, <3>2, <3>3 DEF ReportOf
  <2>7. IsRecord(r)
    BY DEF IsRecord
  <2> HIDE DEF r
  <2> QED BY <1>2, <2>1, <2>6, <2>7
<1>4. ASSUME NEW u \in Users, ReadBalance(u) \/ ReadPendingWithdrawals(u)
      PROVE  ReportInv'
  <2>1. ReportOf(u) /\ IsRecord(report[u]) /\ UNCHANGED vars
    BY <1>4 DEF ReadBalance, ReadPendingWithdrawals, ReportInv
  <2>2. PICK o, b, p, n : report[u] = [offChain |-> o, balance |-> b, pending |-> p, known |-> n]
    BY <2>1 DEF IsRecord
  <2>3. PICK c \in 0..Len(logs) : IsRecentCut(u, c) /\ OnChain(u) = BooksAfter(c)[u]
    BY <2>1, AnswerIsCut
  <2> DEFINE withBalance == [offChain |-> o, balance |-> OnChain(u).collateral, pending |-> p, known |-> n]
             withPending == [offChain |-> o, balance |-> b, pending |-> OnChain(u).pending, known |-> n]
  <2>4. PICK r \in {withBalance, withPending} : report' = [report EXCEPT ![u] = r]
    BY <1>4, <2>2 DEF ReadBalance, ReadPendingWithdrawals
  <2>5. report'[u] = r
    BY <2>4 DEF ReportInv
  <2>6. IsRecord(r)
    BY <2>4 DEF IsRecord
  <2>7. UNCHANGED <<head, logs, truth, applied>>
    BY <2>1 DEF vars, chainVars, database
  <2>8. /\ report'[u].known = report[u].known /\ report'[u].offChain = report[u].offChain
        /\ report'[u].balance = report[u].balance \/ report'[u].balance = BooksAfter(c)[u].collateral
        /\ report'[u].pending = report[u].pending \/ report'[u].pending = BooksAfter(c)[u].pending
    BY <2>2, <2>3, <2>4, <2>5
  <2>9. /\ LastKnown(u)' = LastKnown(u) /\ Known(u)' = Known(u)
        /\ \A k : BooksAfter(k)' = BooksAfter(k) /\ IsHandled(k)' = IsHandled(k)
        /\ \A h, k : IsCut(h, k)' = IsCut(h, k)
    BY <2>7, <2>8 DEF LastKnown, Known, BooksAfter, IsHandled, IsCut, BlockOf
  <2>10. BooksAfter(LastKnown(u))' = BooksAfter(LastKnown(u))
    BY <2>7, <2>9 DEF BooksAfter
  <2>11. \A k : IsRecentCut(u, k)' = IsRecentCut(u, k)
    BY <2>7, <2>9 DEF IsRecentCut
  <2>12. ReportOf(u)'
    <3>1. report'[u].known \in 0..Len(applied')
      BY <2>1, <2>7, <2>8 DEF ReportOf
    <3>2. (\A k \in DOMAIN logs' : IsHandled(k)' /\ k <= LastKnown(u)' => k \in Known(u)')
            => report'[u].offChain = BooksAfter(LastKnown(u))'[u]
      BY <2>1, <2>7, <2>8, <2>9, <2>10 DEF ReportOf
    <3>3. report'[u].balance # Unread =>
            \E k \in 0..Len(logs') : IsRecentCut(u, k)' /\ report'[u].balance = BooksAfter(k)'[u].collateral
      BY <2>1, <2>3, <2>7, <2>8, <2>9, <2>11 DEF ReportOf
    <3>4. report'[u].pending # Unread =>
            \E k \in 0..Len(logs') : IsRecentCut(u, k)' /\ report'[u].pending = BooksAfter(k)'[u].pending
      BY <2>1, <2>3, <2>7, <2>8, <2>9, <2>11 DEF ReportOf
    <3> QED BY <3>1, <3>2, <3>3, <3>4 DEF ReportOf
  <2> QED BY <1>2, <2>1, <2>4, <2>6, <2>12
<1>5. ASSUME NEW u \in Users, ReadFails(u)
      PROVE  ReportInv'
  <2>1. report' = [report EXCEPT ![u] = NoReport] /\ UNCHANGED vars
    BY <1>5 DEF ReadFails
  <2>2. IsRecord(NoReport)
    BY DEF IsRecord, NoReport
  <2> QED BY <1>2, <2>1, <2>2
<1>6. [ReconciliationNext]_allVars =>
        \/ [Next]_vars /\ UNCHANGED report
        \/ \E u \in Users : StartReport(u) \/ ReadBalance(u) \/ ReadPendingWithdrawals(u) \/ ReadFails(u)
  BY DEF ReconciliationNext, Next, CalmNext, allVars
<1> QED BY <1>1, <1>3, <1>4, <1>5, <1>6

\* An alarm of the operator's comparison always has a reason: a log that had not
\* taken effect when the ledger was copied.
THEOREM MismatchTheorem ==
  ~({"Kill", "MinedDuringSync"} \subseteq Faults) => (ReconciliationSpec => []MismatchIsNews)
<1> SUFFICES ASSUME ~({"Kill", "MinedDuringSync"} \subseteq Faults)
             PROVE  ReconciliationSpec => []MismatchIsNews
  OBVIOUS
<1> DEFINE Inv == OrderInv /\ BooksInv /\ LedgerInv /\ ReportInv
<1>1. ReconciliationInit => Inv
  <2>1. ReconciliationInit => ReportInv
    BY DEF ReconciliationInit, ReportInv, IsRecord, NoReport
  <2> QED BY <2>1, OrderInit, BooksInit, LedgerInit DEF ReconciliationInit
<1>2. Inv /\ [ReconciliationNext]_allVars => Inv'
  <2>1. [ReconciliationNext]_allVars => [Next]_vars
    BY DEF ReconciliationNext, Next, CalmNext, allVars, StartReport, ReadBalance, ReadPendingWithdrawals, ReadFails
  <2>2. OrderInv => ChainInv
    BY DEF OrderInv
  <2> QED BY <2>1, <2>2, OrderStep, BooksStep, LedgerStep, ReportStep
<1>3. Inv => MismatchIsNews
  <2> SUFFICES ASSUME Inv, NEW u \in Users, Answered(report[u]), Status(report[u]) = "MISMATCH",
                      ~\E k \in SealedLogs :
                         /\ logs[k].event.name \in Handled
                         /\ k \notin Range(SubSeq(applied, 1, report[u].known))
               PROVE  FALSE
    BY DEF MismatchIsNews
  <2> DEFINE r == report[u]
             last == LastKnown(u)
  <2>1. ReportOf(u) /\ r.balance # Unread /\ r.pending # Unread
    BY DEF ReportInv, Answered, NoReport
  <2>2. PICK n \in 0..Len(applied) : n = r.known
    BY <2>1 DEF ReportOf
  <2>3. Range(SubSeq(applied, 1, n)) = Known(u)
    <3>1. applied \in Seq(claimed) /\ Len(applied) \in Nat
      BY LastIsTop DEF OrderInv, DatabaseInv
    <3>2. /\ DOMAIN SubSeq(applied, 1, n) = 1..n
          /\ \A i \in 1..n : SubSeq(applied, 1, n)[i] = applied[i]
      BY <3>1
    <3> QED BY <2>2, <3>2 DEF Range, Known
  <2>4. \A k \in DOMAIN logs : IsHandled(k) /\ BlockOf(k) <= head => k \in Known(u)
    BY <2>2, <2>3 DEF SealedLogs, IsHandled, BlockOf
  <2>5. /\ last \in 0..Len(logs) /\ \A k \in Known(u) : k <= last /\ k \in DOMAIN logs
        /\ last # 0 => last \in DOMAIN logs /\ BlockOf(last) <= head
    <3>1. /\ Len(applied) \in Nat /\ DOMAIN applied = 1..Len(applied)
          /\ \A i \in DOMAIN applied : applied[i] \in claimed /\ applied[i] \in DOMAIN logs
                                       /\ applied[i] \in Nat /\ BlockOf(applied[i]) <= head
          /\ \A i, j \in DOMAIN applied : i < j => applied[i] < applied[j]
      <4>1. \A j \in claimed : j \in DOMAIN logs /\ j \in Nat /\ BlockOf(j) <= head
        BY OrderFacts DEF OrderInv, DatabaseInv
      <4> QED BY <4>1, LastIsTop DEF OrderInv, DatabaseInv, AppliedInChainOrder
    <3>2. CASE n = 0
      <4>1. Known(u) = {} /\ last = 0
        BY <2>2, <3>2 DEF Known, LastKnown
      <4> QED BY <4>1, LogFacts DEF OrderInv
    <3>3. CASE n # 0
      <4>1. n \in DOMAIN applied /\ last = applied[n]
        BY <2>2, <3>1, <3>3 DEF LastKnown
      <4>2. \A i \in 1..n : i \in DOMAIN applied /\ (i = n \/ i < n)
        BY <3>1
      <4>3. \A i \in 1..n : applied[i] <= last /\ applied[i] \in DOMAIN logs
        BY <3>1, <4>1, <4>2
      <4>4. last \in DOMAIN logs /\ BlockOf(last) <= head
        BY <3>1, <4>1
      <4> QED BY <2>2, <4>3, <4>4, LogFacts DEF Known, OrderInv
    <3> QED BY <3>2, <3>3
  <2>6. r.offChain = BooksAfter(last)[u]
    <3>1. ASSUME NEW k \in DOMAIN logs, IsHandled(k), k <= last
          PROVE  k \in Known(u)
      <4>1. last \in DOMAIN logs /\ BlockOf(k) <= BlockOf(last) /\ BlockOf(last) <= head
        BY <2>5, <3>1, LogFacts DEF OrderInv
      <4>2. BlockOf(k) <= head
        BY <3>1, <4>1, OrderFacts
      <4> QED BY <2>4, <3>1, <4>2
    <3> QED BY <2>1, <3>1 DEF ReportOf
  <2>7. ASSUME NEW c \in 0..Len(logs), IsRecentCut(u, c)
        PROVE  BooksAfter(c) = BooksAfter(last)
    <3>1. PICK h \in 0..head : IsCut(h, c)
      BY <2>7 DEF IsRecentCut
    <3>2. last <= c /\ h \in Nat /\ h <= head /\ head \in Nat
      BY <2>7, OrderFacts DEF IsRecentCut
    <3>3. NoneHandled(last, c + 1)
      <4> SUFFICES ASSUME NEW i \in DOMAIN logs, last < i, i < c + 1, IsHandled(i) PROVE FALSE
        BY DEF NoneHandled
      <4>1. i \in Nat /\ BlockOf(i) \in Nat
        BY OrderFacts
      <4>2. BlockOf(i) <= head
        <5>1. i <= c
          BY <4>1
        <5>2. BlockOf(i) <= h
          BY <3>1, <5>1 DEF IsCut
        <5> QED BY <3>2, <4>1, <5>2
      <4> QED BY <2>4, <2>5, <4>1, <4>2
    <3> QED BY <2>5, <3>1, <3>2, <3>3 DEF BooksInv, BlocksAreWhole
  <2>8. r.balance = r.offChain.collateral /\ r.pending = r.offChain.pending
    BY <2>1, <2>6, <2>7 DEF ReportOf
  <2>9. Status(r) # "MISMATCH"
    BY <2>8 DEF Status
  <2> QED BY <2>9
<1> QED BY <1>1, <1>2, <1>3, PTL DEF ReconciliationSpec

\* What holds of Spec holds under fairness, and of the composition.
THEOREM SameBehaviours == (FairSpec => Spec) /\ (ReconciliationSpec => Spec)
<1>1. [CalmNext]_vars => [Next]_vars
  BY DEF Next
<1>2. [ReconciliationNext]_allVars => [Next]_vars
  BY DEF ReconciliationNext, Next, CalmNext, allVars, StartReport, ReadBalance, ReadPendingWithdrawals, ReadFails
<1>3. ReconciliationInit => Init
  BY DEF ReconciliationInit
<1> QED BY <1>1, <1>2, <1>3, PTL DEF FairSpec, Spec, ReconciliationSpec
=============================================================================
