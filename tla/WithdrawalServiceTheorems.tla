--------------------- MODULE WithdrawalServiceTheorems ---------------------
(***************************************************************************)
(* Proofs about WithdrawalService, for any users, amounts, nonces, calls   *)
(* and faults: what the intents promise (IntentInv), and what the ledger   *)
(* shows (LedgerInv).                                                      *)
(*                                                                         *)
(* The ledger's argument: the vault's balances are the sums of its logs    *)
(* and no prefix of the logs overdraws them; handlers claim ahead of the   *)
(* indexer only requests and approvals, so a deposit or a payout meets in  *)
(* the ledger at least what it met in the vault, and Math.max(0, ...)      *)
(* cuts nothing off.  Only pending amounts have no such order.             *)
(***************************************************************************)
EXTENDS WithdrawalService, ArithmeticTheorems

CallRecords ==
  [kind : {"verify", "request", "approve"}, user : Users, amount : Nat,
   ref : Nonces \union Calls \union {None}]

EventNames == {"Deposited", "WithdrawRequested", "WithdrawApproved", "Withdrawn"}

VaultEvents ==
  [name : EventNames, user : Users, amount : Nat, newBalance : {0}, settlementId : {NoId}]

Logs == [event : VaultEvents, tx : Calls \union {None}]

Phases == {"unsent", "loading", "sending", "waiting", "done", "failed", "lost"}

Statuses == {"NONE", "VERIFIED", "EXPIRED", "CONSUMED"}

IntentsTyped ==
  /\ intentStatus \in [Calls -> Statuses]
  /\ pc \in [Calls -> Phases]
  /\ call \in [Calls -> {None} \union CallRecords]
  /\ mempool \in Seq(Calls)
  /\ logs \in Seq(Logs)

\* An intent is a finished verification, whose nonce was used for it.
IntentsAreVerified ==
  \A i \in Calls : intentStatus[i] # "NONE" =>
    pc[i] = "done" /\ call[i].ref \in usedNonces

\* A call that was started is recorded.
StartedAreCalls == \A c \in Calls : pc[c] # "unsent" => call[c] \in CallRecords

\* A request names an intent of its user.
RequestsNameIntents ==
  \A c \in Calls : pc[c] # "unsent" /\ call[c].kind = "request" =>
    /\ call[c].ref \in Calls
    /\ intentStatus[call[c].ref] # "NONE"
    /\ call[call[c].ref].user = call[c].user

\* The payload of what is handed to the node was compared.
PayloadsCompared ==
  \A c \in Calls : pc[c] = "sending" \/ c \in Range(mempool) =>
    pc[c] # "unsent" /\ PayloadMatches(c)

\* A request's log tells of the call whose transaction emitted it.
LogsTellCalls ==
  \A k \in DOMAIN logs :
    LET event == logs[k].event
        c == logs[k].tx
    IN  c # None /\ event.name = "WithdrawRequested" =>
          /\ pc[c] # "unsent" /\ PayloadMatches(c)
          /\ call[c].kind = "request" /\ call[c].user = event.user /\ event.amount = Filed(c)

IntentInv ==
  /\ IntentsTyped /\ StartedAreCalls /\ IntentsAreVerified /\ RequestsNameIntents
  /\ PayloadsCompared /\ LogsTellCalls /\ NonceBacksOneIntent

\* Amounts are natural numbers on either side of a conversion.
LEMMA AmountTypes ==
  /\ Amounts \subseteq Nat
  /\ \A posted \in PostedAmounts : RoundMoney(posted) \in Nat
  /\ \A amount \in Nat : ToMicroUsdc(amount) \in Nat
BY MoneyAssumption, WithdrawalAssumption, DivRoundOfNat DEF RoundMoney, ToMicroUsdc

\* The vault's units are off by at most half of one.
LEMMA NearestUnit ==
  ASSUME NEW amount \in Nat
  PROVE  2 * Magnitude(FromMicroUsdc(ToMicroUsdc(amount)) - amount) <= MicroUnit
BY MoneyAssumption, NearestMultiple DEF FromMicroUsdc, ToMicroUsdc

\* What the gateway's logs name are its calls.
LEMMA LogsNameCalls ==
  ASSUME IntentsTyped, NEW k \in DOMAIN logs, logs[k].tx # None
  PROVE  logs[k].tx \in Calls
<1>1. logs[k] \in Logs
  BY DEF IntentsTyped
<1> QED
  BY <1>1 DEF Logs

LEMMA InvInit == Init => IntentInv
<1> SUFFICES ASSUME Init
             PROVE  IntentInv
  OBVIOUS
<1> USE DEF Init
<1>1. IntentsTyped
  BY DEF IntentsTyped, Phases, Statuses
<1>2. PayloadsCompared
  BY DEF PayloadsCompared, Range
<1> QED
  BY <1>1, <1>2
  DEF IntentInv, StartedAreCalls, IntentsAreVerified, RequestsNameIntents, LogsTellCalls,
      NonceBacksOneIntent

-----------------------------------------------------------------------------
(* Steps. *)

\* A step that moves calls on, and neither starts one nor records an intent.
LEMMA MovingKeeps ==
  ASSUME IntentInv, UNCHANGED <<call, usedNonces, logs>>,
         pc' \in [Calls -> Phases], mempool' \in Seq(Calls),
         intentStatus' \in [Calls -> Statuses],
         \A c \in Calls : /\ pc'[c] = "unsent" <=> pc[c] = "unsent"
                          /\ pc[c] = "done" => pc'[c] = "done"
                          /\ intentStatus'[c] = "NONE" <=> intentStatus[c] = "NONE"
                          /\ pc'[c] = "sending" => pc[c] = "sending"
                               \/ (pc[c] # "unsent" /\ PayloadMatches(c)),
         \A c \in Range(mempool') : c \in Range(mempool) \/ pc[c] = "sending"
  PROVE  IntentInv'
<1>1. IntentsTyped'
  BY DEF IntentInv, IntentsTyped
<1>2. StartedAreCalls' /\ IntentsAreVerified'
  BY DEF IntentInv, StartedAreCalls, IntentsAreVerified
<1>3. RequestsNameIntents'
  BY DEF IntentInv, RequestsNameIntents
<1>4. \A c \in Calls : (PayloadMatches(c)' <=> PayloadMatches(c)) /\ Filed(c)' = Filed(c)
  BY DEF PayloadMatches, Filed
<1>5. PayloadsCompared'
  BY <1>4 DEF IntentInv, PayloadsCompared
<1>6. LogsTellCalls'
  <2>1. \A k \in DOMAIN logs : logs[k].tx # None => logs[k].tx \in Calls
    BY LogsNameCalls DEF IntentInv
  <2> QED
    BY <1>4, <2>1 DEF IntentInv, LogsTellCalls
<1>7. NonceBacksOneIntent'
  BY DEF IntentInv, NonceBacksOneIntent
<1> QED
  BY <1>1, <1>2, <1>3, <1>5, <1>6, <1>7 DEF IntentInv

\* A new call; a request names an intent of its user.
LEMMA ArriveKeeps ==
  ASSUME IntentInv, NEW c \in Calls, NEW kind \in {"verify", "request", "approve"},
         NEW user \in Users, NEW amount \in Nat, NEW ref \in Nonces \union Calls \union {None},
         Arrive(c, kind, user, amount, ref),
         kind = "request" => ref \in Calls /\ intentStatus[ref] # "NONE" /\ call[ref].user = user
  PROVE  IntentInv'
<1> DEFINE new == Call(kind, user, amount, ref)
<1>1. /\ pc[c] = "unsent" /\ pc' = [pc EXCEPT ![c] = "loading"]
      /\ call' = [call EXCEPT ![c] = new]
      /\ UNCHANGED <<intentStatus, usedNonces, mempool, logs>>
  BY DEF Arrive, chain, intents
<1>2. IntentsTyped
  BY DEF IntentInv
<1>3. /\ call'[c] = new /\ pc'[c] = "loading"
      /\ \A b \in Calls : b # c => call'[b] = call[b] /\ pc'[b] = pc[b]
  BY <1>1, <1>2 DEF IntentsTyped
<1>4. new \in CallRecords /\ new.kind = kind /\ new.user = user /\ new.ref = ref
  BY DEF Call, CallRecords
<1> HIDE DEF new
<1>5. \A i \in Calls : intentStatus[i] # "NONE" => i # c
  BY <1>1 DEF IntentInv, IntentsAreVerified
<1>6. IntentsTyped'
  BY <1>1, <1>2, <1>4 DEF IntentsTyped, Phases
<1>7. StartedAreCalls' /\ IntentsAreVerified'
  BY <1>1, <1>3, <1>4, <1>5 DEF IntentInv, StartedAreCalls, IntentsAreVerified
<1>8. RequestsNameIntents'
  BY <1>1, <1>3, <1>4, <1>5 DEF IntentInv, RequestsNameIntents
<1>9. ASSUME NEW b \in Calls, pc[b] # "unsent"
      PROVE  (PayloadMatches(b)' <=> PayloadMatches(b)) /\ Filed(b)' = Filed(b)
  BY <1>1, <1>3, <1>5, <1>9 DEF PayloadMatches, Filed, IntentInv, RequestsNameIntents
<1>10. PayloadsCompared'
  BY <1>1, <1>3, <1>9 DEF IntentInv, PayloadsCompared
<1>11. LogsTellCalls'
  <2>1. \A k \in DOMAIN logs : logs[k].tx # None => logs[k].tx \in Calls
    BY <1>2, LogsNameCalls
  <2> QED
    BY <1>1, <1>3, <1>9, <2>1 DEF IntentInv, LogsTellCalls
<1>12. NonceBacksOneIntent'
  BY <1>1, <1>3, <1>5 DEF IntentInv, NonceBacksOneIntent
<1> QED
  BY <1>6, <1>7, <1>8, <1>10, <1>11, <1>12 DEF IntentInv

LEMMA RecordIntentKeeps ==
  ASSUME IntentInv, NEW c \in Calls, RecordIntent(c)
  PROVE  IntentInv'
<1>1. /\ pc[c] = "loading" /\ call[c].kind = "verify" /\ call[c].ref \notin usedNonces
      /\ usedNonces' = usedNonces \union {call[c].ref}
      /\ intentStatus' = [intentStatus EXCEPT ![c] = "VERIFIED"]
      /\ pc' = [pc EXCEPT ![c] = "done"]
      /\ UNCHANGED <<call, mempool, logs>>
  BY DEF RecordIntent, NonceUsable, chain
<1>2. IntentsTyped
  BY DEF IntentInv
<1>3. /\ intentStatus'[c] = "VERIFIED" /\ pc'[c] = "done"
      /\ \A b \in Calls : b # c => intentStatus'[b] = intentStatus[b] /\ pc'[b] = pc[b]
  BY <1>1, <1>2 DEF IntentsTyped
<1>4. IntentsTyped'
  BY <1>1, <1>2 DEF IntentsTyped, Phases, Statuses
<1>5. StartedAreCalls' /\ IntentsAreVerified'
  BY <1>1, <1>3 DEF IntentInv, StartedAreCalls, IntentsAreVerified
<1>7. RequestsNameIntents'
  BY <1>1, <1>3 DEF IntentInv, RequestsNameIntents
<1>8. \A b \in Calls : (PayloadMatches(b)' <=> PayloadMatches(b)) /\ Filed(b)' = Filed(b)
  BY <1>1 DEF PayloadMatches, Filed
<1>9. PayloadsCompared'
  BY <1>1, <1>3, <1>8 DEF IntentInv, PayloadsCompared
<1>10. LogsTellCalls'
  <2>1. \A k \in DOMAIN logs : logs[k].tx # None => logs[k].tx \in Calls
    BY <1>2, LogsNameCalls
  <2> QED
    BY <1>1, <1>3, <1>8, <2>1 DEF IntentInv, LogsTellCalls
<1>11. NonceBacksOneIntent'
  BY <1>1, <1>3 DEF IntentInv, NonceBacksOneIntent, IntentsAreVerified
<1> QED
  BY <1>4, <1>5, <1>7, <1>9, <1>10, <1>11 DEF IntentInv

\* A call ends with an error, or goes on, or an intent expires.
LEMMA HandlerKeeps ==
  ASSUME IntentInv, NEW c \in Calls,
         \/ RejectIntent(c) \/ Send(c) \/ Refuse(c) \/ SendFails(c) \/ AwaitReceipt(c)
         \/ ReceiptFails(c)
  PROVE  IntentInv'
<1>1. /\ UNCHANGED <<call, usedNonces, logs, mempool, intentStatus>>
      /\ pc[c] \in {"loading", "sending", "waiting"}
      /\ \E phase \in {"failed", "sending", "waiting"} :
           /\ pc' = [pc EXCEPT ![c] = phase]
           /\ phase = "sending" => PayloadMatches(c)
  BY DEF RejectIntent, Send, Refuse, SendFails, AwaitReceipt, ReceiptFails, Fail, chain, intents
<1>2. IntentsTyped
  BY DEF IntentInv
<1>3. pc' \in [Calls -> Phases]
  BY <1>1, <1>2 DEF IntentsTyped, Phases
<1> QED
  BY <1>1, <1>2, <1>3, MovingKeeps DEF IntentsTyped

LEMMA FinishKeeps ==
  ASSUME IntentInv, NEW c \in Calls, Finish(c)
  PROVE  IntentInv'
<1>1. /\ UNCHANGED <<call, usedNonces, logs, mempool>>
      /\ pc[c] = "waiting" /\ pc' = [pc EXCEPT ![c] = "done"]
      /\ intentStatus' = IF call[c].kind = "request"
           THEN [intentStatus EXCEPT ![call[c].ref] = "CONSUMED"] ELSE intentStatus
  BY DEF Finish, chain
<1>2. IntentsTyped
  BY DEF IntentInv
<1>3. call[c].kind = "request" => call[c].ref \in Calls /\ intentStatus[call[c].ref] # "NONE"
  BY <1>1 DEF IntentInv, RequestsNameIntents
<1>4. pc' \in [Calls -> Phases] /\ intentStatus' \in [Calls -> Statuses]
  BY <1>1, <1>2 DEF IntentsTyped, Phases, Statuses
<1>5. \A i \in Calls : intentStatus'[i] = "NONE" <=> intentStatus[i] = "NONE"
  BY <1>1, <1>2, <1>3 DEF IntentsTyped
<1> QED
  BY <1>1, <1>2, <1>4, <1>5, MovingKeeps DEF IntentsTyped

LEMMA ExpireKeeps ==
  ASSUME IntentInv, NEW i \in Calls, ExpireIntent(i)
  PROVE  IntentInv'
<1>1. /\ UNCHANGED <<call, usedNonces, logs, mempool, pc>>
      /\ intentStatus[i] = "VERIFIED" /\ intentStatus' = [intentStatus EXCEPT ![i] = "EXPIRED"]
  BY DEF ExpireIntent, chain
<1>2. IntentsTyped
  BY DEF IntentInv
<1>3. intentStatus' \in [Calls -> Statuses]
  BY <1>1, <1>2 DEF IntentsTyped, Statuses
<1> QED
  BY <1>1, <1>2, <1>3, MovingKeeps DEF IntentsTyped

LEMMA RestartKeeps ==
  ASSUME IntentInv, Restart
  PROVE  IntentInv'
<1>1. /\ UNCHANGED <<call, usedNonces, logs, mempool, intentStatus>>
      /\ pc' = [c \in Calls |->
                  IF pc[c] \in {"loading", "sending", "waiting"} THEN "lost" ELSE pc[c]]
  BY DEF Restart, chain, intents
<1>2. IntentsTyped
  BY DEF IntentInv
<1>3. pc' \in [Calls -> Phases]
  BY <1>1, <1>2 DEF IntentsTyped, Phases
<1> QED
  BY <1>1, <1>2, <1>3, MovingKeeps DEF IntentsTyped

LEMMA BroadcastKeeps ==
  ASSUME IntentInv, NEW c \in Calls, Broadcast(c)
  PROVE  IntentInv'
<1>1. /\ UNCHANGED <<call, usedNonces, logs, pc, intentStatus>>
      /\ pc[c] = "sending" /\ mempool' = Append(mempool, c)
  BY DEF Broadcast, intents
<1>2. IntentsTyped
  BY DEF IntentInv
<1>3. /\ mempool' \in Seq(Calls)
      /\ \A b \in Range(mempool') : b \in Range(mempool) \/ b = c
  BY <1>1, <1>2 DEF IntentsTyped, Range
<1> QED
  BY <1>1, <1>2, <1>3, MovingKeeps DEF IntentsTyped

LEMMA ElsewhereKeeps ==
  ASSUME IntentInv, UNCHANGED <<call, usedNonces, logs, mempool, pc, intentStatus>>
  PROVE  IntentInv'
BY MovingKeeps DEF IntentInv, IntentsTyped

\* A transaction adds at most one log; a request's tells of its call.
LEMMA NewLogKeeps ==
  ASSUME IntentInv, UNCHANGED <<call, usedNonces, pc, intentStatus>>,
         mempool' \in Seq(Calls), Range(mempool') \subseteq Range(mempool),
         NEW log \in Logs, logs' = Append(logs, log),
         log.tx # None /\ log.event.name = "WithdrawRequested" =>
           /\ log.tx \in Range(mempool) /\ call[log.tx].kind = "request"
           /\ call[log.tx].user = log.event.user /\ log.event.amount = Filed(log.tx)
  PROVE  IntentInv'
<1>1. IntentsTyped /\ logs \in Seq(Logs)
  BY DEF IntentInv, IntentsTyped
<1>2. IntentsTyped'
  BY <1>1 DEF IntentsTyped
<1>3. StartedAreCalls' /\ IntentsAreVerified' /\ RequestsNameIntents'
  BY DEF IntentInv, StartedAreCalls, IntentsAreVerified, RequestsNameIntents
<1>4. NonceBacksOneIntent'
  BY DEF IntentInv, NonceBacksOneIntent
<1>5. \A c \in Calls : PayloadMatches(c)' <=> PayloadMatches(c)
  BY DEF PayloadMatches
<1>6. PayloadsCompared'
  BY <1>5 DEF IntentInv, PayloadsCompared
<1>7. LogsTellCalls'
  <2> SUFFICES ASSUME NEW k \in DOMAIN logs', logs'[k].tx # None,
                      logs'[k].event.name = "WithdrawRequested"
               PROVE  LET event == logs'[k].event
                          c == logs'[k].tx
                      IN  /\ pc[c] # "unsent" /\ PayloadMatches(c)
                          /\ call[c].kind = "request" /\ call[c].user = event.user
                          /\ event.amount = Filed(c)
    BY DEF LogsTellCalls, PayloadMatches, Filed
  <2>1. /\ k \in 1..(Len(logs) + 1) /\ Len(logs) \in Nat /\ DOMAIN logs = 1..Len(logs)
        /\ \A j \in DOMAIN logs : logs'[j] = logs[j]
        /\ logs'[Len(logs) + 1] = log
    BY <1>1
  <2>2. CASE k \in DOMAIN logs
    <3>1. logs'[k] = logs[k] /\ logs[k].tx \in Calls
      BY <1>1, <2>1, <2>2, LogsNameCalls
    <3> QED
      BY <2>2, <3>1 DEF IntentInv, LogsTellCalls
  <2>3. CASE k = Len(logs) + 1
    <3>1. logs'[k] = log /\ log.tx \in Calls
      BY <2>1, <2>3 DEF Logs
    <3> QED
      BY <3>1 DEF IntentInv, PayloadsCompared
  <2> QED
    BY <2>1, <2>2, <2>3
<1> QED
  BY <1>2, <1>3, <1>4, <1>6, <1>7 DEF IntentInv

\* One event is one log.
LEMMA LoggedIsAppend ==
  ASSUME logs \in Seq(Logs), NEW event \in VaultEvents, receipt' = <<event>>,
         NEW tx \in Calls \union {None}, Logged(tx)
  PROVE  /\ [event |-> event, tx |-> tx] \in Logs
         /\ logs' = Append(logs, [event |-> event, tx |-> tx])
<1> DEFINE log == [event |-> event, tx |-> tx]
<1>1. log \in Logs
  BY DEF Logs
<1>2. logs' = logs \o [i \in DOMAIN receipt' |-> [event |-> receipt'[i], tx |-> tx]]
  BY DEF Logged
<1>3. [i \in DOMAIN receipt' |-> [event |-> receipt'[i], tx |-> tx]] = <<log>>
  OBVIOUS
<1> QED
  BY <1>1, <1>2, <1>3

LEMMA MineKeeps ==
  ASSUME IntentInv, Mine
  PROVE  IntentInv'
<1> DEFINE c == Head(mempool)
           event(name) == Vault!Event(name, call[c].user, Filed(c))
<1>1. /\ mempool # <<>> /\ mempool' = Tail(mempool)
      /\ UNCHANGED <<call, usedNonces, pc, intentStatus>>
  BY DEF Mine, intents
<1>2. /\ IntentsTyped /\ PayloadsCompared
      /\ mempool \in Seq(Calls) /\ logs \in Seq(Logs)
  BY DEF IntentInv, IntentsTyped
<1>3. /\ c \in Range(mempool) /\ c \in Calls
      /\ mempool' \in Seq(Calls) /\ Range(mempool') \subseteq Range(mempool)
  BY <1>1, <1>2 DEF Range
<1>4. pc[c] # "unsent"
  BY <1>2, <1>3 DEF PayloadsCompared
<1>5. call[c] \in CallRecords
  BY <1>2, <1>3, <1>4 DEF IntentInv, StartedAreCalls
<1>6. \A name \in EventNames : event(name) \in VaultEvents
  <2>1. Filed(c) \in Nat /\ call[c].user \in Users
    BY <1>5, AmountTypes DEF Filed, CallRecords
  <2> QED
    BY <2>1 DEF Vault!Event, VaultEvents
<1>7. CASE UNCHANGED logs
  BY <1>1, <1>2, <1>3, <1>7, MovingKeeps DEF IntentsTyped
<1>8. ASSUME NEW name \in {"WithdrawRequested", "WithdrawApproved"},
             receipt' = <<event(name)>>, Logged(c),
             name = "WithdrawRequested" => call[c].kind = "request"
      PROVE  IntentInv'
  <2> DEFINE log == [event |-> event(name), tx |-> c]
  <2>1. event(name) \in VaultEvents
    BY <1>6, <1>8 DEF EventNames
  <2>2. event(name).name = name /\ event(name).user = call[c].user /\ event(name).amount = Filed(c)
    BY DEF Vault!Event
  <2> HIDE DEF event, c
  <2>3. log \in Logs /\ logs' = Append(logs, log)
    BY <1>2, <1>3, <1>8, <2>1, LoggedIsAppend
  <2>4. /\ log.tx = c /\ log.event.name = name
        /\ log.event.user = call[c].user /\ log.event.amount = Filed(c)
    BY <2>2
  <2> HIDE DEF log
  <2> QED
    BY <1>1, <1>3, <1>8, <2>3, <2>4, NewLogKeeps
<1>9. \/ /\ call[c].kind = "request" /\ Logged(c)
         /\ Vault!RequestWithdrawFor(operator, call[c].user, Filed(c))
      \/ /\ Logged(c)
         /\ Vault!ApproveWithdraw(operator, call[c].user, Filed(c))
      \/ UNCHANGED logs
  BY DEF Mine
<1>10. ASSUME Vault!RequestWithdrawFor(operator, call[c].user, Filed(c))
       PROVE  receipt' = <<event("WithdrawRequested")>>
  BY <1>10 DEF Vault!RequestWithdrawFor, Vault!RecordWithdrawRequest
<1>11. ASSUME Vault!ApproveWithdraw(operator, call[c].user, Filed(c))
       PROVE  receipt' = <<event("WithdrawApproved")>>
  BY <1>11 DEF Vault!ApproveWithdraw
<1> QED
  BY <1>7, <1>8, <1>9, <1>10, <1>11

LEMMA UserTransactsKeeps ==
  ASSUME IntentInv, UserTransacts
  PROVE  IntentInv'
<1>1. /\ UNCHANGED <<call, usedNonces, mempool, pc, intentStatus>>
      /\ Logged(None)
  BY DEF UserTransacts, intents
<1>2. IntentsTyped /\ mempool \in Seq(Calls) /\ logs \in Seq(Logs)
  BY DEF IntentInv, IntentsTyped
<1>3. PICK u \in Users, a \in Amounts :
        \/ Vault!Mint(u, a) \/ Vault!Deposit(u, a)
        \/ Vault!RequestWithdraw(u, a) \/ Vault!WithdrawApproved(u, a)
  BY DEF UserTransacts
<1>4. receipt' = <<>> \/ \E name \in {"Deposited", "WithdrawRequested", "Withdrawn"} :
                          receipt' = <<Vault!Event(name, u, a)>>
  BY <1>3 DEF Vault!Mint, Vault!Deposit, Vault!RequestWithdraw, Vault!RecordWithdrawRequest,
              Vault!WithdrawApproved
<1>5. CASE receipt' = <<>>
  <2>1. logs' = logs
    BY <1>1, <1>2, <1>5 DEF Logged
  <2> QED
    BY <1>1, <1>2, <2>1, ElsewhereKeeps
<1>6. ASSUME NEW name \in {"Deposited", "WithdrawRequested", "Withdrawn"},
             receipt' = <<Vault!Event(name, u, a)>>
      PROVE  IntentInv'
  <2> DEFINE event == Vault!Event(name, u, a)
             log == [event |-> event, tx |-> None]
  <2>1. event \in VaultEvents
    BY <1>6, AmountTypes DEF Vault!Event, VaultEvents, EventNames
  <2> HIDE DEF event
  <2>2. log \in Logs /\ logs' = Append(logs, log)
    BY <1>1, <1>2, <1>6, <2>1, LoggedIsAppend DEF event
  <2>3. log.tx = None
    OBVIOUS
  <2> HIDE DEF log
  <2> QED
    BY <1>1, <1>2, <2>2, <2>3, NewLogKeeps
<1> QED
  BY <1>4, <1>5, <1>6

-----------------------------------------------------------------------------
(* The invariant. *)

LEMMA ArrivalStepKeeps ==
  ASSUME IntentInv, ArrivalStep
  PROVE  IntentInv'
<1>1. PICK c \in Calls, u \in Users, posted \in PostedAmounts :
        \/ \E n \in Nonces : VerifyIntent(c, u, RoundMoney(posted), n)
        \/ \E i \in Calls : RequestWithdrawal(c, u, posted, i)
        \/ ApproveWithdrawal(c, u, posted)
  BY DEF ArrivalStep
<1>2. PICK amount \in Nat : amount = RoundMoney(posted)
  BY AmountTypes
<1>3. ASSUME NEW n \in Nonces, VerifyIntent(c, u, amount, n)
      PROVE  IntentInv'
  BY <1>3, ArriveKeeps DEF VerifyIntent
<1>4. ASSUME NEW i \in Calls, RequestWithdrawal(c, u, posted, i)
      PROVE  IntentInv'
  BY <1>2, <1>4, ArriveKeeps DEF RequestWithdrawal
<1>5. CASE ApproveWithdrawal(c, u, posted)
  BY <1>2, <1>5, ArriveKeeps DEF ApproveWithdrawal
<1> QED
  BY <1>1, <1>2, <1>3, <1>4, <1>5

LEMMA InvStep == IntentInv /\ [Next]_vars => IntentInv'
<1> SUFFICES ASSUME IntentInv, [Next]_vars
             PROVE  IntentInv'
  OBVIOUS
<1>1. CASE HandlerStep
  BY <1>1, RecordIntentKeeps, HandlerKeeps, FinishKeeps DEF HandlerStep
<1>2. CASE ChainStep
  BY <1>2, MineKeeps, UserTransactsKeeps, BroadcastKeeps DEF ChainStep
<1>3. CASE Deliver
  BY <1>3, ElsewhereKeeps DEF Deliver, chain, intents
<1>4. CASE WorldStep
  <2>1. ASSUME NEW n \in Nonces, NEW u \in Users, IssueNonce(n, u)
        PROVE  IntentInv'
    BY <2>1, ElsewhereKeeps DEF IssueNonce, chain
  <2>2. ASSUME NEW i \in Calls, DeadlinePasses(i)
        PROVE  IntentInv'
    BY <2>2, ElsewhereKeeps DEF DeadlinePasses, chain, intents
  <2>3. ASSUME NEW u \in Users, RiskChanges(u)
        PROVE  IntentInv'
    BY <2>3, ElsewhereKeeps DEF RiskChanges, chain, intents
  <2> QED
    BY <1>4, <2>1, <2>2, <2>3, ExpireKeeps DEF WorldStep
<1>5. CASE UNCHANGED vars
  BY <1>5, ElsewhereKeeps DEF vars, chain, intents
<1> QED
  BY <1>1, <1>2, <1>3, <1>4, <1>5, ArrivalStepKeeps, RestartKeeps DEF Next

LEMMA IntentInvariant == Spec => []IntentInv
BY InvInit, InvStep, PTL DEF Spec

\* Two verifications never record intents under one nonce, however the waits
\* of signatures posted twice overlap.
THEOREM NonceTheorem == Spec => []NonceBacksOneIntent
<1>1. IntentInv => NonceBacksOneIntent
  BY DEF IntentInv
<1> QED
  BY <1>1, IntentInvariant, PTL

\* Every withdrawal request the operator's key filed on chain is of a wallet
\* that signed for its amount, to the nearest unit of the token, whatever was
\* lost or restarted on the way.
THEOREM FiledTheorem == Spec => []FiledAsSigned
<1>1. IntentInv => FiledAsSigned
  <2> SUFFICES ASSUME IntentInv, NEW k \in DOMAIN logs,
                      logs[k].tx # None, logs[k].event.name = "WithdrawRequested"
               PROVE  LET event == logs[k].event
                          c == logs[k].tx
                      IN  /\ intentStatus[call[c].ref] # "NONE"
                          /\ call[call[c].ref].user = event.user
                          /\ 2 * Magnitude(FromMicroUsdc(event.amount) - call[call[c].ref].amount)
                               <= MicroUnit
    BY DEF FiledAsSigned
  <2> DEFINE c == logs[k].tx
  <2>1. c \in Calls
    BY LogsNameCalls DEF IntentInv
  <2>2. /\ intentStatus[call[c].ref] # "NONE"
        /\ call[call[c].ref].user = logs[k].event.user
        /\ logs[k].event.amount = ToMicroUsdc(call[c].amount)
        /\ call[call[c].ref].amount = call[c].amount
    BY <2>1 DEF IntentInv, LogsTellCalls, RequestsNameIntents, PayloadMatches, Filed
  <2>3. call[c].amount \in Nat
    <3>1. call[c] \in CallRecords
      BY <2>1 DEF IntentInv, LogsTellCalls, StartedAreCalls
    <3> QED
      BY <3>1 DEF CallRecords
  <2>4. \A amount \in Nat :
          2 * Magnitude(FromMicroUsdc(ToMicroUsdc(amount)) - amount) <= MicroUnit
    BY NearestUnit
  <2> QED
    BY <2>2, <2>3, <2>4
<1> QED
  BY <1>1, IntentInvariant, PTL

\* No step takes the consumption of an intent back.
THEOREM ConsumedTheorem == Spec => ConsumedIntentIsFinal
<1> DEFINE Stays == \A i \in Calls : intentStatus[i] = "CONSUMED" => intentStatus'[i] = "CONSUMED"
<1>1. ASSUME IntentInv, [Next]_vars
      PROVE  Stays
  <2>1. intentStatus \in [Calls -> Statuses]
    BY <1>1 DEF IntentInv, IntentsTyped
  <2>2. CASE UNCHANGED intentStatus
    BY <2>2
  <2>3. ASSUME NEW c \in Calls, RecordIntent(c)
        PROVE  Stays
    BY <1>1, <2>1, <2>3 DEF RecordIntent, IntentInv, IntentsAreVerified
  <2>4. ASSUME NEW c \in Calls, Finish(c)
        PROVE  Stays
    BY <2>1, <2>4 DEF Finish
  <2>5. ASSUME NEW i \in Calls, ExpireIntent(i)
        PROVE  Stays
    BY <2>1, <2>5 DEF ExpireIntent
  <2>6. \/ UNCHANGED intentStatus
        \/ \E c \in Calls : RecordIntent(c) \/ Finish(c) \/ ExpireIntent(c)
    <3>1. ArrivalStep => UNCHANGED intentStatus
      BY DEF ArrivalStep, VerifyIntent, RequestWithdrawal, ApproveWithdrawal, Arrive, intents
    <3>2. HandlerStep => \/ UNCHANGED intentStatus
                         \/ \E c \in Calls : RecordIntent(c) \/ Finish(c)
      BY DEF HandlerStep, RejectIntent, Send, Refuse, SendFails, AwaitReceipt, ReceiptFails,
             Fail, intents
    <3>3. ChainStep => UNCHANGED intentStatus
      BY DEF ChainStep, Mine, UserTransacts, Broadcast, intents
    <3>4. Deliver \/ Restart \/ UNCHANGED vars => UNCHANGED intentStatus
      BY DEF Deliver, Restart, vars, intents
    <3>5. WorldStep => UNCHANGED intentStatus \/ \E i \in Calls : ExpireIntent(i)
      BY DEF WorldStep, IssueNonce, DeadlinePasses, RiskChanges, intents
    <3> QED
      BY <1>1, <3>1, <3>2, <3>3, <3>4, <3>5 DEF Next
  <2> QED
    BY <2>2, <2>3, <2>4, <2>5, <2>6
<1>2. IntentInv /\ [Next]_vars => [Stays]_vars
  BY <1>1
<1> QED
  BY <1>2, IntentInvariant, PTL DEF Spec, ConsumedIntentIsFinal
-----------------------------------------------------------------------------
(* The ledger. *)

BookRecords == [collateral : Nat, pending : Nat, approved : Nat]

VaultTyped ==
  /\ balances \in [Users -> Nat]
  /\ pendingWithdrawals \in [Users -> Nat]
  /\ approvedWithdrawals \in [Users -> Nat]

BooksTyped ==
  /\ VaultTyped
  /\ ledger \in [Users -> BookRecords]
  /\ claimed \subseteq DOMAIN logs
  /\ delivered \in 0..Len(logs)

\* The vault's balances are what its logs add up to.
LogsReplay ==
  \A u \in Users :
    /\ SumTo(BalanceEffects(u), Len(logs)) = balances[u]
    /\ SumTo(PendingEffects(u), Len(logs)) = pendingWithdrawals[u]
    /\ SumTo(ApprovedEffects(u), Len(logs)) = approvedWithdrawals[u]

\* They were no debts after any earlier log.
NeverOverdrawn ==
  \A u \in Users, n \in 0..Len(logs) :
    SumTo(BalanceEffects(u), n) >= 0 /\ SumTo(ApprovedEffects(u), n) >= 0

\* Only handlers claim ahead of the indexer, and only what the gateway sent,
\* which neither adds to a balance nor pays out.
ClaimOrder ==
  /\ 1..delivered \subseteq claimed
  /\ \A k \in claimed : k > delivered => logs[k].tx # None
  /\ \A k \in DOMAIN logs :
       logs[k].tx # None => logs[k].event.name \in {"WithdrawRequested", "WithdrawApproved"}

LedgerInv == BooksTyped /\ LogsReplay /\ NeverOverdrawn /\ ClaimOrder /\ LedgerFollowsClaims

\* What the proofs below need of the logs.
LEMMA LogsNumbered ==
  ASSUME logs \in Seq(Logs)
  PROVE  /\ Len(logs) \in Nat /\ DOMAIN logs = 1..Len(logs)
         /\ \A k \in DOMAIN logs : logs[k] \in Logs
OBVIOUS

LEMMA LogShape ==
  ASSUME NEW log \in Logs
  PROVE  /\ log.event.user \in Users /\ log.event.amount \in Nat
         /\ log.event.name \in EventNames /\ log.tx \in Calls \union {None}
<1>1. log.event \in VaultEvents /\ log.tx \in Calls \union {None}
  BY DEF Logs
<1>2. /\ log.event.user \in Users /\ log.event.amount \in Nat
      /\ log.event.name \in EventNames
  BY <1>1 DEF VaultEvents
<1> QED
  BY <1>1, <1>2

\* The ledger's amounts are of the sign of the vault's, and add up as they do.
LEMMA FromMicroOf ==
  ASSUME NEW m \in Int
  PROVE  /\ FromMicroUsdc(m) \in Int
         /\ FromMicroUsdc(-m) = -FromMicroUsdc(m)
         /\ m >= 0 => FromMicroUsdc(m) >= 0
         /\ m = 0 => FromMicroUsdc(m) = 0
<1>1. MicroUnit \in Nat
  BY MoneyAssumption
<1>2. m * MicroUnit \in Int
  BY <1>1
<1>3. (-m) * MicroUnit = -(m * MicroUnit)
  BY <1>1
<1>4. m >= 0 => m * MicroUnit >= 0
  BY <1>1
<1>5. m = 0 => m * MicroUnit = 0
  BY <1>1
<1> QED
  BY <1>2, <1>3, <1>4, <1>5 DEF FromMicroUsdc

LEMMA FromMicroAdds ==
  ASSUME NEW m \in Int, NEW n \in Int
  PROVE  FromMicroUsdc(m + n) = FromMicroUsdc(m) + FromMicroUsdc(n)
<1>1. MicroUnit \in Nat
  BY MoneyAssumption
<1>2. (m + n) * MicroUnit = m * MicroUnit + n * MicroUnit
  BY <1>1
<1> QED
  BY <1>2 DEF FromMicroUsdc

LEMMA EffectType ==
  ASSUME NEW log \in Logs, NEW u
  PROVE  /\ Vault!BalanceEffect(log.event, u) \in Int
         /\ Vault!PendingEffect(log.event, u) \in Int
         /\ Vault!ApprovedEffect(log.event, u) \in Int
<1>1. log.event.amount \in Nat
  BY LogShape
<1> QED
  BY <1>1 DEF Vault!BalanceEffect, Vault!PendingEffect, Vault!ApprovedEffect

LEMMA EffectsType ==
  ASSUME logs \in Seq(Logs), NEW u
  PROVE  /\ BalanceEffects(u) \in Terms(Len(logs))
         /\ PendingEffects(u) \in Terms(Len(logs))
         /\ ApprovedEffects(u) \in Terms(Len(logs))
<1>1. DOMAIN logs = 1..Len(logs) /\ \A k \in DOMAIN logs : logs[k] \in Logs
  BY LogsNumbered
<1> QED
  BY <1>1, EffectType DEF BalanceEffects, PendingEffects, ApprovedEffects, Terms

\* A log more, for any numbers attached to the logs.
LEMMA SumsGrow ==
  ASSUME NEW n \in Nat, NEW f \in Terms(n), NEW g \in Terms(n + 1), NEW C, n + 1 \notin C,
         \A k \in 1..n : g[k] = f[k]
  PROVE  /\ SumTo(g, n + 1) = SumTo(f, n) + g[n + 1]
         /\ \A m \in 0..n : SumTo(g, m) = SumTo(f, m)
         /\ SumWithin(g, C, n + 1) = SumWithin(f, C, n)
<1>1. \A m \in 0..n : SumTo(g, m) = SumTo(f, m)
  <2> TAKE m \in 0..n
  <2>1. m \in 0..(n + 1) /\ \A k \in 1..m : g[k] = f[k]
    OBVIOUS
  <2> QED
    BY <2>1, SumToAgree
<1>2. SumTo(g, n + 1) = SumTo(g, (n + 1) - 1) + g[n + 1]
  BY SumToEquations
<1>3. SumWithin(g, C, n + 1) = SumWithin(f, C, n)
  BY SumWithinExtends
<1> QED
  BY <1>1, <1>2, <1>3

\* A transaction of the vault with its log.
LEMMA LogAppended ==
  ASSUME LedgerInv, logs \in Seq(Logs), NEW log \in Logs, logs' = Append(logs, log),
         UNCHANGED <<ledger, claimed, delivered>>, VaultTyped',
         log.tx # None => log.event.name \in {"WithdrawRequested", "WithdrawApproved"},
         \A u \in Users :
           /\ balances'[u] = balances[u] + Vault!BalanceEffect(log.event, u)
           /\ pendingWithdrawals'[u] = pendingWithdrawals[u] + Vault!PendingEffect(log.event, u)
           /\ approvedWithdrawals'[u] = approvedWithdrawals[u] + Vault!ApprovedEffect(log.event, u)
  PROVE  LedgerInv'
<1>1. PICK n \in Nat : n = Len(logs)
  BY LogsNumbered
<1>2. /\ logs' \in Seq(Logs) /\ Len(logs') = n + 1
      /\ DOMAIN logs = 1..n /\ DOMAIN logs' = 1..(n + 1)
      /\ logs'[n + 1] = log /\ \A k \in 1..n : logs'[k] = logs[k]
  BY <1>1
<1>3. /\ BooksTyped /\ VaultTyped /\ LogsReplay /\ NeverOverdrawn /\ ClaimOrder
      /\ LedgerFollowsClaims /\ claimed \subseteq 1..n
  BY <1>2 DEF LedgerInv, BooksTyped
<1>4. BooksTyped'
  BY <1>1, <1>2, <1>3 DEF BooksTyped
<1>5. ClaimOrder'
  BY <1>1, <1>2, <1>3 DEF ClaimOrder
<1>6. ASSUME NEW u \in Users
      PROVE  /\ SumTo(BalanceEffects(u)', n + 1) = SumTo(BalanceEffects(u), n) + Vault!BalanceEffect(log.event, u)
             /\ SumTo(PendingEffects(u)', n + 1) = SumTo(PendingEffects(u), n) + Vault!PendingEffect(log.event, u)
             /\ SumTo(ApprovedEffects(u)', n + 1) = SumTo(ApprovedEffects(u), n) + Vault!ApprovedEffect(log.event, u)
             /\ \A m \in 0..n : /\ SumTo(BalanceEffects(u)', m) = SumTo(BalanceEffects(u), m)
                                /\ SumTo(ApprovedEffects(u)', m) = SumTo(ApprovedEffects(u), m)
             /\ SumWithin(BalanceEffects(u)', claimed, n + 1) = SumWithin(BalanceEffects(u), claimed, n)
             /\ SumWithin(PendingEffects(u)', claimed, n + 1) = SumWithin(PendingEffects(u), claimed, n)
             /\ SumWithin(ApprovedEffects(u)', claimed, n + 1) = SumWithin(ApprovedEffects(u), claimed, n)
  <2>1. /\ BalanceEffects(u)' \in Terms(n + 1) /\ BalanceEffects(u) \in Terms(n)
        /\ PendingEffects(u)' \in Terms(n + 1) /\ PendingEffects(u) \in Terms(n)
        /\ ApprovedEffects(u)' \in Terms(n + 1) /\ ApprovedEffects(u) \in Terms(n)
    <3>1. \A k \in DOMAIN logs' : logs'[k] \in Logs
      BY <1>2
    <3>2. BalanceEffects(u)' \in Terms(n + 1) /\ PendingEffects(u)' \in Terms(n + 1)
          /\ ApprovedEffects(u)' \in Terms(n + 1)
      BY <1>2, <3>1, EffectType DEF BalanceEffects, PendingEffects, ApprovedEffects, Terms
    <3> QED
      BY <1>1, <3>2, EffectsType
  <2>2. /\ BalanceEffects(u)'[n + 1] = Vault!BalanceEffect(log.event, u)
        /\ PendingEffects(u)'[n + 1] = Vault!PendingEffect(log.event, u)
        /\ ApprovedEffects(u)'[n + 1] = Vault!ApprovedEffect(log.event, u)
    BY <1>2 DEF BalanceEffects, PendingEffects, ApprovedEffects
  <2>3. \A k \in 1..n : /\ BalanceEffects(u)'[k] = BalanceEffects(u)[k]
                        /\ PendingEffects(u)'[k] = PendingEffects(u)[k]
                        /\ ApprovedEffects(u)'[k] = ApprovedEffects(u)[k]
    BY <1>2 DEF BalanceEffects, PendingEffects, ApprovedEffects
  <2>4. n + 1 \notin claimed
    BY <1>3
  <2> QED
    BY <2>1, <2>2, <2>3, <2>4, SumsGrow
<1>7. LogsReplay'
  BY <1>1, <1>2, <1>3, <1>6 DEF LogsReplay
<1>8. NeverOverdrawn'
  <2> SUFFICES ASSUME NEW u \in Users, NEW m \in 0..(n + 1)
               PROVE  SumTo(BalanceEffects(u)', m) >= 0 /\ SumTo(ApprovedEffects(u)', m) >= 0
    BY <1>2 DEF NeverOverdrawn
  <2>1. CASE m \in 0..n
    BY <1>1, <1>3, <1>6, <2>1 DEF NeverOverdrawn
  <2>2. CASE m = n + 1
    <3>1. /\ SumTo(BalanceEffects(u)', n + 1) = balances'[u]
          /\ SumTo(ApprovedEffects(u)', n + 1) = approvedWithdrawals'[u]
      BY <1>2, <1>7 DEF LogsReplay
    <3>2. balances'[u] \in Nat /\ approvedWithdrawals'[u] \in Nat
      BY DEF VaultTyped
    <3> QED
      BY <2>2, <3>1, <3>2
  <2> QED
    BY <2>1, <2>2
<1>9. LedgerFollowsClaims'
  BY <1>1, <1>2, <1>3, <1>6 DEF LedgerFollowsClaims
<1> QED
  BY <1>4, <1>5, <1>7, <1>8, <1>9 DEF LedgerInv

-----------------------------------------------------------------------------
(* Claims. *)

\* A claim in the indexer's order meets the books of the vault before its log.
LEMMA TurnIsCovered ==
  ASSUME LedgerInv, logs \in Seq(Logs), delivered < Len(logs),
         NEW u \in Users
  PROVE  LET event == logs[delivered + 1].event IN
         /\ ledger[u].collateral + FromMicroUsdc(Vault!BalanceEffect(event, u)) >= 0
         /\ ledger[u].approved + FromMicroUsdc(Vault!ApprovedEffect(event, u)) >= 0
<1> DEFINE n == Len(logs)
           d == delivered
           B == BalanceEffects(u)
           A == ApprovedEffects(u)
<1>1. /\ BooksTyped /\ NeverOverdrawn /\ ClaimOrder /\ LedgerFollowsClaims
  BY DEF LedgerInv
<1>2. /\ n \in Nat /\ d \in 0..n /\ d + 1 \in 1..n /\ DOMAIN logs = 1..n
  BY <1>1 DEF BooksTyped
<1>3. B \in Terms(n) /\ A \in Terms(n)
  BY EffectsType
<1>4. /\ B[d + 1] = Vault!BalanceEffect(logs[d + 1].event, u)
      /\ A[d + 1] = Vault!ApprovedEffect(logs[d + 1].event, u)
  BY <1>2 DEF BalanceEffects, ApprovedEffects
<1>5. ASSUME NEW k \in (d + 1)..n, k \in claimed
      PROVE  B[k] = 0 /\ A[k] >= 0
  <2>1. k \in DOMAIN logs /\ k > d
    BY <1>2, <1>5
  <2>2. logs[k].event.name \in {"WithdrawRequested", "WithdrawApproved"}
    BY <1>1, <1>5, <2>1 DEF ClaimOrder
  <2>3. logs[k].event.amount \in Nat
    BY <2>1, LogsNumbered, LogShape
  <2> QED
    BY <2>1, <2>2, <2>3 DEF BalanceEffects, ApprovedEffects, Vault!BalanceEffect, Vault!ApprovedEffect
<1>6. 1..d \subseteq claimed
  BY <1>1 DEF ClaimOrder
<1>7. /\ ledger[u].collateral = FromMicroUsdc(SumWithin(B, claimed, n))
      /\ ledger[u].approved = FromMicroUsdc(SumWithin(A, claimed, n))
  BY <1>1 DEF LedgerFollowsClaims
<1>8. SumTo(B, d + 1) >= 0 /\ SumTo(A, d + 1) >= 0
  BY <1>1, <1>2 DEF NeverOverdrawn
<1> HIDE DEF n, d, B, A
<1>9. /\ SumWithin(B, claimed, n) >= SumTo(B, d)
      /\ SumWithin(A, claimed, n) >= SumTo(A, d)
  BY <1>2, <1>3, <1>5, <1>6, SumWithinFrom
<1>10. /\ SumTo(B, d + 1) = SumTo(B, (d + 1) - 1) + B[d + 1]
       /\ SumTo(A, d + 1) = SumTo(A, (d + 1) - 1) + A[d + 1]
       /\ SumTo(B, d) \in Int /\ SumTo(A, d) \in Int
       /\ B[d + 1] \in Int /\ A[d + 1] \in Int
  BY <1>2, <1>3, SumToEquations, TermType
<1>11. SumWithin(B, claimed, n) \in Int /\ SumWithin(A, claimed, n) \in Int
  BY <1>2, <1>3, SumWithinType
<1>12. /\ SumWithin(B, claimed, n) + B[d + 1] >= 0
       /\ SumWithin(A, claimed, n) + A[d + 1] >= 0
  BY <1>2, <1>8, <1>9, <1>10, <1>11
<1>13. /\ FromMicroUsdc(SumWithin(B, claimed, n)) + FromMicroUsdc(B[d + 1]) >= 0
       /\ FromMicroUsdc(SumWithin(A, claimed, n)) + FromMicroUsdc(A[d + 1]) >= 0
  <2> DEFINE sB == SumWithin(B, claimed, n)
             sA == SumWithin(A, claimed, n)
             b == B[d + 1]
             a == A[d + 1]
  <2>1. /\ sB \in Int /\ sA \in Int /\ b \in Int /\ a \in Int
        /\ sB + b \in Int /\ sA + a \in Int /\ sB + b >= 0 /\ sA + a >= 0
    BY <1>10, <1>11, <1>12
  <2> HIDE DEF sB, sA, b, a
  <2>2. /\ FromMicroUsdc(sB + b) >= 0 /\ FromMicroUsdc(sB + b) = FromMicroUsdc(sB) + FromMicroUsdc(b)
        /\ FromMicroUsdc(sA + a) >= 0 /\ FromMicroUsdc(sA + a) = FromMicroUsdc(sA) + FromMicroUsdc(a)
    BY <2>1, FromMicroOf, FromMicroAdds
  <2> QED
    BY <2>2 DEF sB, sA, b, a
<1> QED
  BY <1>4, <1>7, <1>13 DEF d

\* An event adds its effects to a user's book if the amounts are there, and takes
\* from the pending amount at most what it should.
LEMMA EffectAdds ==
  ASSUME NEW log \in Logs, NEW book \in BookRecords,
         LET u == log.event.user IN
         /\ book.collateral + FromMicroUsdc(Vault!BalanceEffect(log.event, u)) >= 0
         /\ book.approved + FromMicroUsdc(Vault!ApprovedEffect(log.event, u)) >= 0
  PROVE  LET u == log.event.user
             after == Effect(book, log.event)
         IN  /\ after \in BookRecords
             /\ after.collateral = book.collateral + FromMicroUsdc(Vault!BalanceEffect(log.event, u))
             /\ after.approved = book.approved + FromMicroUsdc(Vault!ApprovedEffect(log.event, u))
             /\ after.pending >= book.pending + FromMicroUsdc(Vault!PendingEffect(log.event, u))
<1> DEFINE units == log.event.amount
           u == log.event.user
           after == Effect(book, log.event)
<1>1. /\ units \in Nat
      /\ log.event.name \in {"Deposited", "WithdrawRequested", "WithdrawApproved", "Withdrawn"}
  BY LogShape DEF EventNames
<1>2. book.collateral \in Nat /\ book.pending \in Nat /\ book.approved \in Nat
  BY DEF BookRecords
<1>3. PICK amount \in Nat : amount = FromMicroUsdc(units)
  BY <1>1, FromMicroOf
<1>4. FromMicroUsdc(-units) = -amount /\ FromMicroUsdc(0) = 0
  <2> HIDE DEF units
  <2>1. FromMicroUsdc(-units) = -amount
    BY <1>1, <1>3, FromMicroOf
  <2>2. FromMicroUsdc(0) = 0
    BY FromMicroOf
  <2> QED
    BY <2>1, <2>2
<1>5. CASE log.event.name = "Deposited"
  <2>1. after = [book EXCEPT !.collateral = @ + amount]
    BY <1>3, <1>5 DEF Effect
  <2>2. /\ Vault!BalanceEffect(log.event, u) = units /\ Vault!PendingEffect(log.event, u) = 0
        /\ Vault!ApprovedEffect(log.event, u) = 0
    BY <1>5 DEF Vault!BalanceEffect, Vault!PendingEffect, Vault!ApprovedEffect
  <2>3. /\ after \in BookRecords /\ after.collateral = book.collateral + amount
        /\ after.pending = book.pending /\ after.approved = book.approved
    BY <1>2, <2>1 DEF BookRecords
  <2> HIDE DEF after
  <2> QED
    BY <1>2, <1>3, <1>4, <2>2, <2>3 DEF after
<1>6. CASE log.event.name = "WithdrawRequested"
  <2>1. after = [book EXCEPT !.pending = @ + amount]
    BY <1>3, <1>6 DEF Effect
  <2>2. /\ Vault!BalanceEffect(log.event, u) = 0 /\ Vault!PendingEffect(log.event, u) = units
        /\ Vault!ApprovedEffect(log.event, u) = 0
    BY <1>6 DEF Vault!BalanceEffect, Vault!PendingEffect, Vault!ApprovedEffect
  <2>3. /\ after \in BookRecords /\ after.collateral = book.collateral
        /\ after.pending = book.pending + amount /\ after.approved = book.approved
    BY <1>2, <2>1 DEF BookRecords
  <2> HIDE DEF after
  <2> QED
    BY <1>2, <1>3, <1>4, <2>2, <2>3 DEF after
<1>7. CASE log.event.name = "WithdrawApproved"
  <2>1. after = [book EXCEPT !.pending = Excess(@, amount), !.approved = @ + amount]
    BY <1>3, <1>7 DEF Effect
  <2>2. /\ Vault!BalanceEffect(log.event, u) = 0 /\ Vault!PendingEffect(log.event, u) = -units
        /\ Vault!ApprovedEffect(log.event, u) = units
    BY <1>7 DEF Vault!BalanceEffect, Vault!PendingEffect, Vault!ApprovedEffect
  <2>3. /\ Excess(book.pending, amount) \in Nat
        /\ Excess(book.pending, amount) >= book.pending - amount
        /\ book.approved + amount \in Nat
    BY <1>2 DEF Excess
  <2>4. /\ after \in BookRecords
        /\ after.collateral = book.collateral
        /\ after.pending = Excess(book.pending, amount)
        /\ after.approved = book.approved + amount
    BY <2>1, <2>3 DEF BookRecords
  <2> HIDE DEF after
  <2> QED
    BY <1>2, <1>3, <1>4, <2>2, <2>3, <2>4 DEF after
<1>8. CASE log.event.name = "Withdrawn"
  <2>1. after = [book EXCEPT !.collateral = Excess(@, amount), !.approved = Excess(@, amount)]
    BY <1>3, <1>8 DEF Effect
  <2>2. /\ Vault!BalanceEffect(log.event, u) = -units /\ Vault!PendingEffect(log.event, u) = 0
        /\ Vault!ApprovedEffect(log.event, u) = -units
    BY <1>8 DEF Vault!BalanceEffect, Vault!PendingEffect, Vault!ApprovedEffect
  <2>3. /\ Excess(book.collateral, amount) = book.collateral + (-amount)
        /\ Excess(book.approved, amount) = book.approved + (-amount)
        /\ Excess(book.collateral, amount) \in Nat
        /\ Excess(book.approved, amount) \in Nat
    BY <1>2, <1>4, <2>2 DEF Excess
  <2>4. /\ after \in BookRecords
        /\ after.collateral = Excess(book.collateral, amount)
        /\ after.pending = book.pending
        /\ after.approved = Excess(book.approved, amount)
    BY <2>1, <2>3 DEF BookRecords
  <2> HIDE DEF after
  <2> QED
    BY <1>2, <1>4, <2>2, <2>3, <2>4 DEF after
<1> QED
  BY <1>1, <1>5, <1>6, <1>7, <1>8

\* Claiming a log: the gateway's own in any order, the others' in the indexer's.
LEMMA ClaimKeeps ==
  ASSUME LedgerInv, logs \in Seq(Logs), UNCHANGED <<vault, logs>>,
         NEW k \in DOMAIN logs, ClaimAndApply(k),
         \/ delivered' = delivered /\ logs[k].tx # None
         \/ k = delivered + 1 /\ delivered' = delivered + 1 /\ delivered < Len(logs)
  PROVE  LedgerInv'
<1> DEFINE n == Len(logs)
           event == logs[k].event
<1>1. /\ BooksTyped /\ VaultTyped /\ LogsReplay /\ NeverOverdrawn /\ ClaimOrder
      /\ LedgerFollowsClaims /\ ledger \in [Users -> BookRecords] /\ claimed \subseteq DOMAIN logs
      /\ delivered \in 0..n
  BY DEF LedgerInv, BooksTyped
<1>2. /\ n \in Nat /\ DOMAIN logs = 1..n /\ k \in 1..n /\ logs[k] \in Logs
      /\ event.user \in Users /\ event.amount \in Nat
  BY LogsNumbered, LogShape
<1>3. /\ claimed' = claimed \union {k}
      /\ ledger' = IF k \in claimed THEN ledger
                   ELSE [ledger EXCEPT ![event.user] = Effect(@, event)]
  BY DEF ClaimAndApply
<1>4. ClaimOrder'
  <2>1. delivered' \in 0..n /\ \A j \in 1..delivered' : j \in 1..delivered \/ j = k
    BY <1>1, <1>2
  <2>2. \A j \in claimed' : j > delivered' => logs[j].tx # None
    BY <1>1, <1>2, <1>3 DEF ClaimOrder
  <2> QED
    BY <1>1, <1>3, <2>1, <2>2 DEF ClaimOrder
<1>5. VaultTyped' /\ LogsReplay' /\ NeverOverdrawn'
  BY <1>1 DEF vault, VaultTyped, LogsReplay, NeverOverdrawn, BalanceEffects, PendingEffects, ApprovedEffects
<1>6. delivered' \in 0..n /\ claimed' \subseteq DOMAIN logs
  BY <1>1, <1>2, <1>3
<1>7. \A u : /\ BalanceEffects(u)' = BalanceEffects(u) /\ PendingEffects(u)' = PendingEffects(u)
             /\ ApprovedEffects(u)' = ApprovedEffects(u)
  BY DEF BalanceEffects, PendingEffects, ApprovedEffects
<1>8. CASE k \in claimed
  <2>1. claimed' = claimed /\ ledger' = ledger
    BY <1>3, <1>8
  <2>2. BooksTyped'
    BY <1>1, <1>5, <1>6, <2>1 DEF BooksTyped
  <2>3. LedgerFollowsClaims'
    BY <1>1, <1>7, <2>1 DEF LedgerFollowsClaims
  <2> QED
    BY <1>4, <1>5, <2>2, <2>3 DEF LedgerInv
<1>9. CASE k \notin claimed
  <2> DEFINE u == event.user
  <2>1. /\ ledger' = [ledger EXCEPT ![u] = Effect(@, event)]
        /\ ledger[u] \in BookRecords
    BY <1>1, <1>2, <1>3, <1>9
  <2>2. /\ ledger[u].collateral + FromMicroUsdc(Vault!BalanceEffect(event, u)) >= 0
        /\ ledger[u].approved + FromMicroUsdc(Vault!ApprovedEffect(event, u)) >= 0
    <3>1. CASE k = delivered + 1 /\ delivered < Len(logs)
      BY <1>2, <3>1, TurnIsCovered
    <3>2. CASE logs[k].tx # None
      <4>1. event.name \in {"WithdrawRequested", "WithdrawApproved"}
        BY <1>1, <3>2 DEF ClaimOrder
      <4>2. ledger[u].collateral \in Nat /\ ledger[u].approved \in Nat
        BY <2>1 DEF BookRecords
      <4>3. Vault!BalanceEffect(event, u) \in Nat /\ Vault!ApprovedEffect(event, u) \in Nat
        BY <1>2, <4>1 DEF Vault!BalanceEffect, Vault!ApprovedEffect
      <4>4. /\ FromMicroUsdc(Vault!BalanceEffect(event, u)) \in Nat
            /\ FromMicroUsdc(Vault!ApprovedEffect(event, u)) \in Nat
        BY <4>3, FromMicroOf
      <4> QED
        BY <4>2, <4>4
    <3> QED
      BY <3>1, <3>2
  <2>3. /\ ledger'[u] \in BookRecords
        /\ ledger'[u].collateral = ledger[u].collateral + FromMicroUsdc(Vault!BalanceEffect(event, u))
        /\ ledger'[u].approved = ledger[u].approved + FromMicroUsdc(Vault!ApprovedEffect(event, u))
        /\ ledger'[u].pending >= ledger[u].pending + FromMicroUsdc(Vault!PendingEffect(event, u))
    <3>1. ledger'[u] = Effect(ledger[u], event)
      BY <1>1, <1>2, <2>1
    <3> QED
      BY <1>2, <2>1, <2>2, <3>1, EffectAdds
  <2>4. \A v \in Users \ {u} : ledger'[v] = ledger[v]
    BY <1>1, <2>1
  <2>5. BooksTyped'
    <3>1. ledger' \in [Users -> BookRecords]
      <4>1. \A v \in Users : ledger'[v] \in BookRecords
        BY <1>1, <2>3, <2>4
      <4> QED
        BY <1>1, <2>1, <4>1
    <3> QED
      BY <1>5, <1>6, <3>1 DEF BooksTyped
  <2>6. LedgerFollowsClaims'
    <3> SUFFICES ASSUME NEW v \in Users
                 PROVE  /\ ledger'[v].collateral = FromMicroUsdc(SumWithin(BalanceEffects(v), claimed', n))
                        /\ ledger'[v].approved = FromMicroUsdc(SumWithin(ApprovedEffects(v), claimed', n))
                        /\ ledger'[v].pending >= FromMicroUsdc(SumWithin(PendingEffects(v), claimed', n))
      BY <1>7 DEF LedgerFollowsClaims
    <3> DEFINE b == Vault!BalanceEffect(event, v)
               p == Vault!PendingEffect(event, v)
               a == Vault!ApprovedEffect(event, v)
               B == SumWithin(BalanceEffects(v), claimed, n)
               P == SumWithin(PendingEffects(v), claimed, n)
               A == SumWithin(ApprovedEffects(v), claimed, n)
    <3>1. /\ SumWithin(BalanceEffects(v), claimed', n) = B + BalanceEffects(v)[k]
          /\ SumWithin(PendingEffects(v), claimed', n) = P + PendingEffects(v)[k]
          /\ SumWithin(ApprovedEffects(v), claimed', n) = A + ApprovedEffects(v)[k]
      BY <1>2, <1>3, <1>9, EffectsType, SumWithinAdds
    <3>2. BalanceEffects(v)[k] = b /\ PendingEffects(v)[k] = p /\ ApprovedEffects(v)[k] = a
      BY DEF BalanceEffects, PendingEffects, ApprovedEffects
    <3>3. /\ ledger[v].collateral = FromMicroUsdc(B)
          /\ ledger[v].approved = FromMicroUsdc(A)
          /\ ledger[v].pending >= FromMicroUsdc(P)
      BY <1>1 DEF LedgerFollowsClaims
    <3>4. b \in Int /\ p \in Int /\ a \in Int /\ B \in Int /\ P \in Int /\ A \in Int
      BY <1>2, EffectsType, EffectType, SumWithinType
    <3>5. /\ ledger[v].pending \in Nat /\ ledger'[v].pending \in Nat
      BY <1>1, <2>5 DEF BookRecords, BooksTyped
    <3>6. /\ ledger'[v].collateral = ledger[v].collateral + FromMicroUsdc(b)
          /\ ledger'[v].approved = ledger[v].approved + FromMicroUsdc(a)
          /\ ledger'[v].pending >= ledger[v].pending + FromMicroUsdc(p)
      <4>1. CASE v = u
        BY <2>3, <4>1
      <4>2. CASE v # u
        <5>1. b = 0 /\ p = 0 /\ a = 0
          BY <4>2 DEF Vault!BalanceEffect, Vault!PendingEffect, Vault!ApprovedEffect
        <5>2. FromMicroUsdc(0) = 0
          BY FromMicroOf
        <5>3. ledger'[v] = ledger[v] /\ ledger[v] \in BookRecords
          BY <1>1, <2>4, <4>2
        <5> HIDE DEF b, p, a
        <5> QED
          BY <5>1, <5>2, <5>3 DEF BookRecords
      <4> QED
        BY <4>1, <4>2
    <3> HIDE DEF b, p, a, B, P, A
    <3>7. /\ FromMicroUsdc(B + b) = FromMicroUsdc(B) + FromMicroUsdc(b)
          /\ FromMicroUsdc(P + p) = FromMicroUsdc(P) + FromMicroUsdc(p)
          /\ FromMicroUsdc(A + a) = FromMicroUsdc(A) + FromMicroUsdc(a)
          /\ FromMicroUsdc(P) \in Int /\ FromMicroUsdc(p) \in Int
      BY <3>4, FromMicroOf, FromMicroAdds
    <3> QED
      BY <3>1, <3>2, <3>3, <3>5, <3>6, <3>7
  <2> QED
    BY <1>4, <1>5, <2>5, <2>6 DEF LedgerInv
<1> QED
  BY <1>8, <1>9

-----------------------------------------------------------------------------
(* Transactions. *)

\* What a transaction of the vault does to the users' balances is what its log says.
LogTells(event) ==
  \A v \in Users :
    /\ balances'[v] = balances[v] + Vault!BalanceEffect(event, v)
    /\ pendingWithdrawals'[v] = pendingWithdrawals[v] + Vault!PendingEffect(event, v)
    /\ approvedWithdrawals'[v] = approvedWithdrawals[v] + Vault!ApprovedEffect(event, v)

LEMMA TransactionTells ==
  ASSUME VaultTyped, NEW u \in Users, NEW a \in Nat
  PROVE  /\ Vault!Deposit(u, a) => VaultTyped' /\ LogTells(Vault!Event("Deposited", u, a))
         /\ Vault!RecordWithdrawRequest(u, a) =>
              VaultTyped' /\ LogTells(Vault!Event("WithdrawRequested", u, a))
         /\ Vault!ApproveWithdraw(operator, u, a) =>
              VaultTyped' /\ LogTells(Vault!Event("WithdrawApproved", u, a))
         /\ Vault!WithdrawApproved(u, a) => VaultTyped' /\ LogTells(Vault!Event("Withdrawn", u, a))
<1>1. \A v \in Users : /\ balances[v] \in Nat /\ pendingWithdrawals[v] \in Nat
                       /\ approvedWithdrawals[v] \in Nat
  BY DEF VaultTyped
<1>2. ASSUME Vault!Deposit(u, a)
      PROVE  VaultTyped' /\ LogTells(Vault!Event("Deposited", u, a))
  <2>1. /\ balances' = [balances EXCEPT ![u] = @ + a]
        /\ UNCHANGED <<pendingWithdrawals, approvedWithdrawals>>
    BY <1>2 DEF Vault!Deposit, Vault!withdrawals
  <2>2. VaultTyped'
    BY <1>1, <2>1 DEF VaultTyped
  <2> QED
    BY <1>1, <2>1, <2>2
    DEF VaultTyped, LogTells, Vault!Event, Vault!BalanceEffect, Vault!PendingEffect, Vault!ApprovedEffect
<1>3. ASSUME Vault!RecordWithdrawRequest(u, a)
      PROVE  VaultTyped' /\ LogTells(Vault!Event("WithdrawRequested", u, a))
  <2>1. /\ pendingWithdrawals' = [pendingWithdrawals EXCEPT ![u] = @ + a]
        /\ UNCHANGED <<balances, approvedWithdrawals>>
    BY <1>3 DEF Vault!RecordWithdrawRequest, Vault!accounting
  <2>2. VaultTyped'
    BY <1>1, <2>1 DEF VaultTyped
  <2> QED
    BY <1>1, <2>1, <2>2
    DEF VaultTyped, LogTells, Vault!Event, Vault!BalanceEffect, Vault!PendingEffect, Vault!ApprovedEffect
<1>4. ASSUME Vault!ApproveWithdraw(operator, u, a)
      PROVE  VaultTyped' /\ LogTells(Vault!Event("WithdrawApproved", u, a))
  <2>1. /\ pendingWithdrawals[u] >= a
        /\ pendingWithdrawals' = [pendingWithdrawals EXCEPT ![u] = @ - a]
        /\ approvedWithdrawals' = [approvedWithdrawals EXCEPT ![u] = @ + a]
        /\ UNCHANGED balances
    BY <1>4 DEF Vault!ApproveWithdraw, Vault!accounting
  <2>2. VaultTyped'
    BY <1>1, <2>1 DEF VaultTyped
  <2> QED
    BY <1>1, <2>1, <2>2
    DEF VaultTyped, LogTells, Vault!Event, Vault!BalanceEffect, Vault!PendingEffect, Vault!ApprovedEffect
<1>5. ASSUME Vault!WithdrawApproved(u, a)
      PROVE  VaultTyped' /\ LogTells(Vault!Event("Withdrawn", u, a))
  <2>1. /\ approvedWithdrawals[u] >= a /\ balances[u] >= a
        /\ approvedWithdrawals' = [approvedWithdrawals EXCEPT ![u] = @ - a]
        /\ balances' = [balances EXCEPT ![u] = @ - a]
        /\ UNCHANGED pendingWithdrawals
    BY <1>5 DEF Vault!WithdrawApproved
  <2>2. VaultTyped'
    BY <1>1, <2>1 DEF VaultTyped
  <2> QED
    BY <1>1, <2>1, <2>2
    DEF VaultTyped, LogTells, Vault!Event, Vault!BalanceEffect, Vault!PendingEffect, Vault!ApprovedEffect
<1> QED
  BY <1>2, <1>3, <1>4, <1>5

LEMMA LedgerUntouched ==
  ASSUME LedgerInv,
         UNCHANGED <<balances, pendingWithdrawals, approvedWithdrawals, logs, ledger, claimed, delivered>>
  PROVE  LedgerInv'
BY DEF LedgerInv, BooksTyped, VaultTyped, LogsReplay, NeverOverdrawn, ClaimOrder, LedgerFollowsClaims,
       BalanceEffects, PendingEffects, ApprovedEffects

\* A transaction with its event and its log.
LEMMA EventKeeps ==
  ASSUME LedgerInv, logs \in Seq(Logs), UNCHANGED <<ledger, claimed, delivered>>, VaultTyped',
         NEW name \in EventNames, NEW u \in Users, NEW a \in Nat, NEW tx \in Calls \union {None},
         tx # None => name \in {"WithdrawRequested", "WithdrawApproved"},
         receipt' = <<Vault!Event(name, u, a)>>, LogTells(Vault!Event(name, u, a)), Logged(tx)
  PROVE  LedgerInv'
<1> DEFINE event == Vault!Event(name, u, a)
           log == [event |-> event, tx |-> tx]
<1>1. event \in VaultEvents /\ event.name = name
  BY DEF Vault!Event, VaultEvents
<1>2. receipt' = <<event>> /\ LogTells(event)
  OBVIOUS
<1> HIDE DEF event
<1>3. log \in Logs /\ logs' = Append(logs, log)
  BY <1>1, <1>2, LoggedIsAppend
<1>4. log.event = event /\ log.tx = tx
  OBVIOUS
<1> HIDE DEF log
<1> QED
  BY <1>1, <1>2, <1>3, <1>4, LogAppended DEF LogTells

LEMMA MineKeepsLedger ==
  ASSUME IntentInv, LedgerInv, Mine
  PROVE  LedgerInv'
<1> DEFINE c == Head(mempool)
<1>1. /\ mempool # <<>> /\ UNCHANGED <<ledger, claimed, delivered>>
  BY DEF Mine, books
<1>2. logs \in Seq(Logs) /\ mempool \in Seq(Calls) /\ VaultTyped
  BY DEF IntentInv, IntentsTyped, LedgerInv, BooksTyped
<1>3. c \in Calls /\ c \in Range(mempool)
  BY <1>1, <1>2 DEF Range
<1>4. call[c] \in CallRecords
  BY <1>3 DEF IntentInv, PayloadsCompared, StartedAreCalls
<1>5. PICK u \in Users, a \in Nat : u = call[c].user /\ a = Filed(c)
  BY <1>4, AmountTypes DEF CallRecords, Filed
<1>6. \/ Vault!RecordWithdrawRequest(u, a) /\ Logged(c)
      \/ Vault!ApproveWithdraw(operator, u, a) /\ Logged(c)
      \/ UNCHANGED <<vault, logs>>
  BY <1>5 DEF Mine, Vault!RequestWithdrawFor
<1> HIDE DEF c
<1>7. CASE Vault!RecordWithdrawRequest(u, a) /\ Logged(c)
  <2>1. receipt' = <<Vault!Event("WithdrawRequested", u, a)>>
    BY <1>7 DEF Vault!RecordWithdrawRequest
  <2>2. VaultTyped' /\ LogTells(Vault!Event("WithdrawRequested", u, a))
    BY <1>2, <1>7, TransactionTells
  <2> QED
    BY <1>1, <1>2, <1>3, <1>7, <2>1, <2>2, EventKeeps DEF EventNames
<1>8. CASE Vault!ApproveWithdraw(operator, u, a) /\ Logged(c)
  <2>1. receipt' = <<Vault!Event("WithdrawApproved", u, a)>>
    BY <1>8 DEF Vault!ApproveWithdraw
  <2>2. VaultTyped' /\ LogTells(Vault!Event("WithdrawApproved", u, a))
    BY <1>2, <1>8, TransactionTells
  <2> QED
    BY <1>1, <1>2, <1>3, <1>8, <2>1, <2>2, EventKeeps DEF EventNames
<1>9. CASE UNCHANGED <<vault, logs>>
  BY <1>1, <1>9, LedgerUntouched DEF vault
<1> QED
  BY <1>6, <1>7, <1>8, <1>9

LEMMA UserTransactsKeepsLedger ==
  ASSUME IntentInv, LedgerInv, UserTransacts
  PROVE  LedgerInv'
<1>1. UNCHANGED <<ledger, claimed, delivered>> /\ Logged(None)
  BY DEF UserTransacts, books
<1>2. logs \in Seq(Logs) /\ VaultTyped
  BY DEF IntentInv, IntentsTyped, LedgerInv, BooksTyped
<1>3. PICK u \in Users, a \in Nat :
        \/ Vault!Mint(u, a) \/ Vault!Deposit(u, a)
        \/ Vault!RequestWithdraw(u, a) \/ Vault!WithdrawApproved(u, a)
  BY AmountTypes DEF UserTransacts
<1>4. CASE Vault!Mint(u, a)
  <2>1. UNCHANGED <<balances, pendingWithdrawals, approvedWithdrawals>> /\ receipt' = <<>>
    BY <1>4 DEF Vault!Mint, Vault!accounting, Vault!withdrawals
  <2>2. logs' = logs
    BY <1>1, <1>2, <2>1 DEF Logged
  <2> QED
    BY <1>1, <2>1, <2>2, LedgerUntouched
<1>5. CASE Vault!Deposit(u, a)
  <2>1. receipt' = <<Vault!Event("Deposited", u, a)>>
    BY <1>5 DEF Vault!Deposit
  <2>2. VaultTyped' /\ LogTells(Vault!Event("Deposited", u, a))
    BY <1>2, <1>5, TransactionTells
  <2> QED
    BY <1>1, <1>2, <2>1, <2>2, EventKeeps DEF EventNames
<1>6. CASE Vault!RequestWithdraw(u, a)
  <2>1. Vault!RecordWithdrawRequest(u, a)
    BY <1>6 DEF Vault!RequestWithdraw
  <2>2. receipt' = <<Vault!Event("WithdrawRequested", u, a)>>
    BY <2>1 DEF Vault!RecordWithdrawRequest
  <2>3. VaultTyped' /\ LogTells(Vault!Event("WithdrawRequested", u, a))
    BY <1>2, <2>1, TransactionTells
  <2> QED
    BY <1>1, <1>2, <2>2, <2>3, EventKeeps DEF EventNames
<1>7. CASE Vault!WithdrawApproved(u, a)
  <2>1. receipt' = <<Vault!Event("Withdrawn", u, a)>>
    BY <1>7 DEF Vault!WithdrawApproved
  <2>2. VaultTyped' /\ LogTells(Vault!Event("Withdrawn", u, a))
    BY <1>2, <1>7, TransactionTells
  <2> QED
    BY <1>1, <1>2, <2>1, <2>2, EventKeeps DEF EventNames
<1> QED
  BY <1>3, <1>4, <1>5, <1>6, <1>7

LEMMA LedgerStep == IntentInv /\ LedgerInv /\ [Next]_vars => LedgerInv'
<1> SUFFICES ASSUME IntentInv, LedgerInv, [Next]_vars
             PROVE  LedgerInv'
  OBVIOUS
<1>1. logs \in Seq(Logs) /\ delivered \in 0..Len(logs)
  BY DEF IntentInv, IntentsTyped, LedgerInv, BooksTyped
<1>2. CASE UNCHANGED <<chain, books, delivered>>
  BY <1>2, LedgerUntouched DEF chain, vault, books
<1>3. ASSUME NEW c \in Calls, Finish(c)
      PROVE  LedgerInv'
  <2>1. PICK k \in DOMAIN logs : logs[k].tx = c /\ ClaimAndApply(k)
    BY <1>3 DEF Finish
  <2>2. logs[k].tx # None
    BY <2>1, WithdrawalAssumption
  <2>3. UNCHANGED <<vault, logs, delivered>>
    BY <1>3 DEF Finish, chain
  <2> QED
    BY <1>1, <2>1, <2>2, <2>3, ClaimKeeps
<1>4. CASE Deliver
  <2>1. /\ delivered < Len(logs) /\ delivered' = delivered + 1
        /\ ClaimAndApply(delivered + 1) /\ UNCHANGED <<vault, logs>>
    BY <1>4 DEF Deliver, chain
  <2>2. delivered + 1 \in DOMAIN logs
    BY <1>1, <2>1
  <2> QED
    BY <1>1, <2>1, <2>2, ClaimKeeps
<1>5. CASE ArrivalStep \/ WorldStep \/ Restart \/ UNCHANGED vars
  <2>1. UNCHANGED <<chain, books, delivered>>
    BY <1>5 DEF ArrivalStep, VerifyIntent, RequestWithdrawal, ApproveWithdrawal, Arrive,
       WorldStep, IssueNonce, ExpireIntent, DeadlinePasses, RiskChanges, Restart, vars
  <2> QED
    BY <1>2, <2>1
<1>6. CASE HandlerStep
  <2>1. \/ \E c \in Calls : Finish(c)
        \/ UNCHANGED <<chain, books, delivered>>
    BY <1>6 DEF HandlerStep, RecordIntent, RejectIntent, Send, Refuse, SendFails, AwaitReceipt,
       ReceiptFails, Fail
  <2> QED
    BY <1>2, <1>3, <2>1
<1>7. CASE ChainStep
  <2>1. ASSUME NEW c \in Calls, Broadcast(c)
        PROVE  LedgerInv'
    BY <2>1, LedgerUntouched DEF Broadcast, vault, books
  <2> QED
    BY <1>7, <2>1, MineKeepsLedger, UserTransactsKeepsLedger DEF ChainStep
<1> QED
  BY <1>4, <1>5, <1>6, <1>7 DEF Next

LEMMA LedgerInit == Init => LedgerInv
<1> SUFFICES ASSUME Init
             PROVE  LedgerInv
  OBVIOUS
<1>1. /\ logs = <<>> /\ Len(logs) = 0 /\ DOMAIN logs = {} /\ claimed = {} /\ delivered = 0
      /\ logs \in Seq(Logs) /\ ledger = [u \in Users |-> EmptyBook]
      /\ balances = [u \in Users |-> 0] /\ pendingWithdrawals = [u \in Users |-> 0]
      /\ approvedWithdrawals = [u \in Users |-> 0]
  BY DEF Init, Vault!Init
<1>2. ASSUME NEW f \in Terms(0)
      PROVE  SumTo(f, 0) = 0 /\ SumWithin(f, {}, 0) = 0
  <2>1. 0 \in 0..0 /\ 1..0 \subseteq {} /\ 0 \in Nat
    OBVIOUS
  <2>2. SumTo(f, 0) = 0
    BY <2>1, SumToEquations
  <2>3. SumWithin(f, {}, 0) = SumTo(f, 0)
    BY <2>1, SumWithinFrom
  <2> QED
    BY <2>2, <2>3
<1>3. \A u : /\ BalanceEffects(u) \in Terms(0) /\ PendingEffects(u) \in Terms(0)
             /\ ApprovedEffects(u) \in Terms(0)
  BY <1>1, EffectsType
<1>4. BooksTyped
  BY <1>1 DEF BooksTyped, VaultTyped, BookRecords, EmptyBook
<1>5. LogsReplay /\ NeverOverdrawn /\ ClaimOrder
  BY <1>1, <1>2, <1>3 DEF LogsReplay, NeverOverdrawn, ClaimOrder
<1>6. LedgerFollowsClaims
  <2>1. \A u \in Users : ledger[u].collateral = 0 /\ ledger[u].pending = 0 /\ ledger[u].approved = 0
    BY <1>1 DEF EmptyBook
  <2> QED
    <3>1. FromMicroUsdc(0) = 0
      BY FromMicroOf
    <3> QED
      BY <1>1, <1>2, <1>3, <2>1, <3>1 DEF LedgerFollowsClaims
<1> QED
  BY <1>4, <1>5, <1>6 DEF LedgerInv

LEMMA LedgerInvariant == Spec => []LedgerInv
BY IntentInvariant, LedgerInit, LedgerStep, PTL DEF Spec

\* However handlers and indexer interleave, the ledger shows the claimed logs,
\* each counted once.
THEOREM LedgerTheorem == Spec => []LedgerFollowsClaims
<1>1. LedgerInv => LedgerFollowsClaims
  BY DEF LedgerInv
<1> QED
  BY <1>1, LedgerInvariant, PTL

\* A ledger that has seen every log offers no user more than the vault would pay.
THEOREM CautionTheorem == Spec => []CaughtUpLedgerIsCautious
<1>1. IntentInv /\ LedgerInv => CaughtUpLedgerIsCautious
  <2> SUFFICES ASSUME IntentInv, LedgerInv, delivered = Len(logs), NEW u \in Users
               PROVE  /\ ledger[u].collateral = FromMicroUsdc(balances[u])
                      /\ ledger[u].approved = FromMicroUsdc(approvedWithdrawals[u])
                      /\ ledger[u].pending >= FromMicroUsdc(pendingWithdrawals[u])
    BY DEF CaughtUpLedgerIsCautious
  <2>1. PICK n \in Nat : n = Len(logs)
    BY LogsNumbered DEF IntentInv, IntentsTyped
  <2>2. /\ BalanceEffects(u) \in Terms(n) /\ PendingEffects(u) \in Terms(n)
        /\ ApprovedEffects(u) \in Terms(n)
    BY <2>1, EffectsType DEF IntentInv, IntentsTyped
  <2>3. 1..n \subseteq claimed /\ n \in 0..n /\ (n + 1)..n = {}
    BY <2>1 DEF LedgerInv, ClaimOrder
  <2>4. ASSUME NEW f \in Terms(n)
        PROVE  SumWithin(f, claimed, n) = SumTo(f, n)
    BY <2>1, <2>3, SumWithinFrom
  <2>5. /\ SumWithin(BalanceEffects(u), claimed, n) = SumTo(BalanceEffects(u), n)
        /\ SumWithin(PendingEffects(u), claimed, n) = SumTo(PendingEffects(u), n)
        /\ SumWithin(ApprovedEffects(u), claimed, n) = SumTo(ApprovedEffects(u), n)
    BY <2>2, <2>4
  <2> QED
    BY <2>1, <2>5 DEF LedgerInv, LedgerFollowsClaims, LogsReplay
<1> QED
  BY <1>1, IntentInvariant, LedgerInvariant, PTL
=============================================================================
