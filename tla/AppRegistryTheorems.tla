------------------------ MODULE AppRegistryTheorems ------------------------
(***************************************************************************)
(* Proofs about AppRegistry, for any users, apps, credentials and          *)
(* registries, any number of intents, settlements and restarts.            *)
(***************************************************************************)
EXTENDS AppRegistry, FiniteSetTheorems, TLAPS

Stages == {"unsent", "loading", "refused", "sending", "waiting", "confirmed", "failed"}

\* What the variables may be.
TypeInv ==
  /\ intent \in [Intents -> SignedIntents \union {None}]
  /\ request \in [Settlements -> Requests \union {None}]
  /\ pc \in [Settlements -> Stages]
  /\ record \in [Settlements -> Records \union {None}]
  /\ caller \in [Settlements -> {"admin", "app", None}]

\* An intent is signed by a settlement's user and for its app.
SignedFor(i, s) ==
  /\ intent[i] # None
  /\ intent[i].userAddress = request[s].userAddress
  /\ intent[i].appId = request[s].appId

\* A request carries the gateway's own audit entry about its caller, and links
\* only intents of its user and app.
RequestsVouched ==
  \A s \in Settlements : pc[s] # "unsent" =>
    /\ request[s] # None
    /\ caller[s] \in {"admin", "app"}
    /\ request[s].audit =
         DecorateSettlementMetadata(None, caller[s], Cardinality(request[s].signedIntentIds))
    /\ caller[s] = "app" => request[s].signedIntentIds # {}
    /\ \A i \in request[s].signedIntentIds : SignedFor(i, s)

\* A record is that of its request, whoever wrote it.
RecordsFollowRequests ==
  \A s \in Settlements :
    /\ record[s] # None =>
         /\ pc[s] # "unsent"
         /\ record[s].userAddress = request[s].userAddress
         /\ record[s].appId = request[s].appId
         /\ record[s].audit = request[s].audit
         /\ record[s].signedIntentIds = request[s].signedIntentIds
    /\ pc[s] \in {"waiting", "confirmed"} => record[s] # None

\* A consumed intent names a confirmed settlement that links it.
ConsumersConfirmed ==
  \A i \in Intents : intent[i] # None /\ intent[i].status = "CONSUMED" =>
    LET s == intent[i].consumedBySettlementId IN
    /\ s \in Settlements /\ record[s] # None
    /\ record[s].status = "ONCHAIN_CONFIRMED"
    /\ i \in record[s].signedIntentIds

\* Whoever was told of a confirmation has consumed the linked intents.
AnswersConsumed ==
  \A s \in Settlements : pc[s] = "confirmed" =>
    \A i \in record[s].signedIntentIds : intent[i] # None /\ intent[i].status = "CONSUMED"

RegistryInv ==
  /\ TypeInv
  /\ RequestsVouched
  /\ RecordsFollowRequests
  /\ ConsumersConfirmed
  /\ AnswersConsumed

LEMMA InitInv == Init => RegistryInv
BY DEF Init, RegistryInv, TypeInv, Stages, RequestsVouched, RecordsFollowRequests,
       ConsumersConfirmed, AnswersConsumed

-----------------------------------------------------------------------------
(* Steps that leave the settlements alone. *)

\* Intents keep their signer and app, and are neither consumed nor released.
IntentsKept ==
  \A i \in Intents :
    /\ intent[i] # None =>
         /\ intent'[i] # None
         /\ intent'[i].userAddress = intent[i].userAddress
         /\ intent'[i].appId = intent[i].appId
    /\ intent[i] # None /\ intent[i].status = "CONSUMED" => intent'[i] = intent[i]
    /\ intent'[i] # None /\ intent'[i].status = "CONSUMED" => intent'[i] = intent[i]

LEMMA KeptInv ==
  ASSUME RegistryInv, IntentsKept, UNCHANGED <<request, pc, record, caller>>,
         intent' \in [Intents -> SignedIntents \union {None}]
  PROVE  RegistryInv'
<1>1. TypeInv'
  BY DEF RegistryInv, TypeInv
<1>2. \A s \in Settlements : pc[s] # "unsent" => request[s].signedIntentIds \subseteq Intents
  BY DEF RegistryInv, TypeInv, RequestsVouched, Requests
<1>3. \A s \in Settlements : record[s] # None => record[s].signedIntentIds \subseteq Intents
  BY DEF RegistryInv, TypeInv, Records
<1>4. RequestsVouched'
  BY <1>2 DEF RegistryInv, RequestsVouched, SignedFor, IntentsKept,
              DecorateSettlementMetadata
<1>5. RecordsFollowRequests'
  BY DEF RegistryInv, RecordsFollowRequests
<1>6. ConsumersConfirmed'
  BY DEF RegistryInv, ConsumersConfirmed, IntentsKept
<1>7. AnswersConsumed'
  BY <1>3 DEF RegistryInv, AnswersConsumed, RecordsFollowRequests, IntentsKept
<1> QED
  BY <1>1, <1>4, <1>5, <1>6, <1>7 DEF RegistryInv

LEMMA VerifyInv ==
  ASSUME RegistryInv, NEW i \in Intents, NEW u \in Users, NEW a \in AppIds,
         VerifyIntent(i, u, a)
  PROVE  RegistryInv'
<1> DEFINE signed == [userAddress |-> u, appId |-> a, status |-> "VERIFIED",
                      consumedBySettlementId |-> None]
<1>1. signed \in SignedIntents /\ signed.status = "VERIFIED"
  BY DEF SignedIntents
<1>2. /\ intent[i] = None /\ intent' = [intent EXCEPT ![i] = signed]
      /\ UNCHANGED <<request, pc, record, caller>>
  BY DEF VerifyIntent
<1> HIDE DEF signed
<1>3. intent \in [Intents -> SignedIntents \union {None}]
  BY DEF RegistryInv, TypeInv
<1>4. intent' \in [Intents -> SignedIntents \union {None}] /\ IntentsKept
  BY <1>1, <1>2, <1>3 DEF IntentsKept
<1> QED
  BY <1>2, <1>4, KeptInv

LEMMA ExpireInv ==
  ASSUME RegistryInv, NEW i \in Intents, ExpireIntent(i)
  PROVE  RegistryInv'
<1> DEFINE expired == [intent[i] EXCEPT !.status = "EXPIRED"]
<1>1. /\ intent[i] # None /\ intent[i].status = "VERIFIED"
      /\ intent' = [intent EXCEPT ![i] = expired]
      /\ UNCHANGED <<request, pc, record, caller>>
  BY DEF ExpireIntent
<1>2. intent \in [Intents -> SignedIntents \union {None}] /\ intent[i] \in SignedIntents
  BY <1>1 DEF RegistryInv, TypeInv
<1>3. /\ expired \in SignedIntents /\ expired.status = "EXPIRED"
      /\ expired.userAddress = intent[i].userAddress /\ expired.appId = intent[i].appId
  BY <1>2 DEF SignedIntents
<1> HIDE DEF expired
<1>4. expired # None
  BY <1>3, NoneAssumption
<1>5. intent' \in [Intents -> SignedIntents \union {None}] /\ IntentsKept
  BY <1>1, <1>2, <1>3, <1>4 DEF IntentsKept
<1> QED
  BY <1>1, <1>5, KeptInv

LEMMA StillInv ==
  ASSUME RegistryInv, UNCHANGED <<intent, request, pc, record, caller>>
  PROVE  RegistryInv'
<1>1. IntentsKept /\ intent' \in [Intents -> SignedIntents \union {None}]
  BY DEF RegistryInv, TypeInv, IntentsKept
<1> QED
  BY <1>1, KeptInv

-----------------------------------------------------------------------------
(* The steps of a settlement. *)

LEMMA AuditTyped ==
  ASSUME NEW kind \in {"admin", "app"}, NEW ids \in SUBSET Intents, NEW metadata
  PROVE  /\ DecorateSettlementMetadata(metadata, kind, Cardinality(ids)) \in Audits
         /\ DecorateSettlementMetadata(metadata, kind, Cardinality(ids))
              = DecorateSettlementMetadata(None, kind, Cardinality(ids))
<1>1. Cardinality(ids) \in Nat
  BY RegistryAssumption, FS_Subset, FS_CardinalityType
<1> QED
  BY <1>1 DEF DecorateSettlementMetadata, Audits

LEMMA SubmitInv ==
  ASSUME RegistryInv, NEW s \in Settlements, NEW kind \in {"admin", "app"},
         NEW user \in Users, NEW appId \in AppIds, NEW ids \in SUBSET Intents, NEW metadata,
         Submit(s, kind, user, appId, ids, metadata)
  PROVE  RegistryInv'
<1> DEFINE audit == DecorateSettlementMetadata(metadata, kind, Cardinality(ids))
           asked == [userAddress |-> user, appId |-> appId, signedIntentIds |-> ids,
                     audit |-> audit]
<1>1. /\ pc[s] = "unsent" /\ pc' = [pc EXCEPT ![s] = "loading"]
      /\ request' = [request EXCEPT ![s] = asked]
      /\ caller' = [caller EXCEPT ![s] = kind]
      /\ UNCHANGED <<intent, record>>
      /\ kind = "app" => ids # {}
      /\ \A i \in ids : Linkable(i, user, appId)
  BY DEF Submit
<1>2. audit \in Audits /\ audit = DecorateSettlementMetadata(None, kind, Cardinality(ids))
  BY AuditTyped
<1> HIDE DEF audit
<1>3. asked \in Requests /\ asked # None
  BY <1>2, NoneAssumption DEF Requests
<1>4. /\ asked.userAddress = user /\ asked.appId = appId /\ asked.signedIntentIds = ids
      /\ asked.audit = audit
  OBVIOUS
<1> HIDE DEF asked
<1>5. TypeInv
  BY DEF RegistryInv
<1>6. /\ request'[s] = asked /\ caller'[s] = kind /\ pc'[s] = "loading"
      /\ \A t \in Settlements :
           t # s => request'[t] = request[t] /\ caller'[t] = caller[t] /\ pc'[t] = pc[t]
  BY <1>1, <1>5 DEF TypeInv
<1>7. TypeInv'
  BY <1>1, <1>3, <1>5 DEF TypeInv, Stages
<1>8. RequestsVouched'
  <2> SUFFICES ASSUME NEW t \in Settlements, pc'[t] # "unsent"
               PROVE  /\ request'[t] # None
                      /\ caller'[t] \in {"admin", "app"}
                      /\ request'[t].audit =
                           DecorateSettlementMetadata(None, caller'[t],
                                                      Cardinality(request'[t].signedIntentIds))
                      /\ caller'[t] = "app" => request'[t].signedIntentIds # {}
                      /\ \A i \in request'[t].signedIntentIds : SignedFor(i, t)'
    BY DEF RequestsVouched, DecorateSettlementMetadata
  <2>1. CASE t = s
    <3>1. \A i \in ids : SignedFor(i, s)'
      BY <1>1, <1>4, <1>6 DEF Linkable, SignedFor
    <3> QED
      BY <1>1, <1>2, <1>3, <1>4, <1>6, <2>1, <3>1
  <2>2. CASE t # s
    <3>1. \A i : SignedFor(i, t) => SignedFor(i, t)'
      BY <1>1, <1>6, <2>2 DEF SignedFor
    <3> QED
      BY <1>6, <2>2, <3>1 DEF RegistryInv, RequestsVouched
  <2> QED
    BY <2>1, <2>2
<1>9. RecordsFollowRequests'
  BY <1>1, <1>6 DEF RegistryInv, RecordsFollowRequests
<1>10. ConsumersConfirmed'
  BY <1>1 DEF RegistryInv, ConsumersConfirmed
<1>11. AnswersConsumed'
  BY <1>1, <1>6 DEF RegistryInv, AnswersConsumed
<1> QED
  BY <1>7, <1>8, <1>9, <1>10, <1>11 DEF RegistryInv

LEMMA PostInv ==
  ASSUME RegistryInv, NEW s \in Settlements, NEW h \in Headers, NEW a \in AppIds,
         NEW t \in SettlementTypes, Post(s, h, a, t)
  PROVE  RegistryInv'
<1>1. PICK kind : kind = AuthorizedAs(h, a, t)
  OBVIOUS
<1>2. PICK user \in Users, ids \in SUBSET Intents, metadata \in CallerAudits \union {None} :
        Submit(s, kind, user, a, ids, metadata)
  BY <1>1 DEF Post
<1>3. kind \in {"admin", "app"}
  BY <1>1 DEF Post, AuthorizedAs
<1> QED
  BY <1>2, <1>3, SubmitInv

\* A call goes on without a record or an answer.
LEMMA MoveInv ==
  ASSUME RegistryInv, NEW s \in Settlements, pc[s] # "unsent",
         NEW stage \in {"sending", "refused", "failed"}, pc' = [pc EXCEPT ![s] = stage],
         UNCHANGED <<intent, request, record, caller>>
  PROVE  RegistryInv'
<1>1. TypeInv'
  BY DEF RegistryInv, TypeInv, Stages
<1>2. \A t \in Settlements : pc'[t] = IF t = s THEN stage ELSE pc[t]
  BY DEF RegistryInv, TypeInv
<1>3. RequestsVouched'
  BY <1>2 DEF RegistryInv, RequestsVouched, SignedFor, DecorateSettlementMetadata
<1>4. RecordsFollowRequests'
  BY <1>2 DEF RegistryInv, RecordsFollowRequests
<1>5. ConsumersConfirmed'
  BY DEF RegistryInv, ConsumersConfirmed
<1>6. AnswersConsumed'
  BY <1>2 DEF RegistryInv, AnswersConsumed
<1> QED
  BY <1>1, <1>3, <1>4, <1>5, <1>6 DEF RegistryInv

LEMMA BeginInv ==
  ASSUME RegistryInv, NEW s \in Settlements, Begin(s)
  PROVE  RegistryInv'
<1>1. pc[s] # "unsent" /\ UNCHANGED <<intent, request, record, caller>>
  BY DEF Begin
<1>2. PICK stage \in {"sending", "refused", "failed"} : pc' = [pc EXCEPT ![s] = stage]
  BY DEF Begin
<1> QED
  BY <1>1, <1>2, MoveInv

LEMMA AbandonInv ==
  ASSUME RegistryInv, NEW s \in Settlements, Abandon(s)
  PROVE  RegistryInv'
<1>1. /\ pc[s] # "unsent" /\ UNCHANGED <<intent, request, record, caller>>
      /\ pc' = [pc EXCEPT ![s] = "failed"]
  BY DEF Abandon
<1> QED
  BY <1>1, MoveInv

LEMMA RecordOfRequest ==
  ASSUME RegistryInv, NEW s \in Settlements, pc[s] # "unsent",
         NEW status \in {"ONCHAIN_SUBMITTED", "ONCHAIN_CONFIRMED"}
  PROVE  /\ RecordOf(s, status) \in Records /\ RecordOf(s, status) # None
         /\ RecordOf(s, status).userAddress = request[s].userAddress
         /\ RecordOf(s, status).appId = request[s].appId
         /\ RecordOf(s, status).audit = request[s].audit
         /\ RecordOf(s, status).signedIntentIds = request[s].signedIntentIds
         /\ RecordOf(s, status).status = status
<1>1. request[s] \in Requests
  BY DEF RegistryInv, TypeInv, RequestsVouched
<1>2. RecordOf(s, status) \in Records
  BY <1>1 DEF RecordOf, Requests, Records
<1> QED
  BY <1>2, NoneAssumption DEF RecordOf

\* A record is written from its request, and not over a confirmed one unless
\* confirmed itself; the call waits on or has its answer.
Written(s, status) ==
  /\ pc[s] # "unsent"
  /\ record' = [record EXCEPT ![s] = RecordOf(s, status)]
  /\ status = "ONCHAIN_SUBMITTED" => record[s] = None

LEMMA WrittenInv ==
  ASSUME RegistryInv, NEW s \in Settlements,
         NEW status \in {"ONCHAIN_SUBMITTED", "ONCHAIN_CONFIRMED"}, Written(s, status),
         pc' = pc \/ pc' = [pc EXCEPT ![s] = "waiting"],
         pc[s] # "confirmed", UNCHANGED <<intent, request, caller>>
  PROVE  RegistryInv'
<1> DEFINE new == RecordOf(s, status)
<1>1. /\ new \in Records /\ new # None
      /\ new.userAddress = request[s].userAddress /\ new.appId = request[s].appId
      /\ new.audit = request[s].audit /\ new.signedIntentIds = request[s].signedIntentIds
      /\ new.status = status
  BY RecordOfRequest DEF Written
<1>2. record' = [record EXCEPT ![s] = new] /\ pc[s] # "unsent"
  BY DEF Written
<1> HIDE DEF new
<1>3. TypeInv'
  BY <1>1, <1>2 DEF RegistryInv, TypeInv, Stages
<1>4. \A t \in Settlements : record'[t] = IF t = s THEN new ELSE record[t]
  BY <1>2 DEF RegistryInv, TypeInv
<1>5. \A t \in Settlements : pc'[t] = pc[t] \/ (t = s /\ pc'[t] = "waiting")
  BY DEF RegistryInv, TypeInv
<1>6. RequestsVouched'
  BY <1>2, <1>5 DEF RegistryInv, RequestsVouched, SignedFor, DecorateSettlementMetadata
<1>7. RecordsFollowRequests'
  BY <1>1, <1>2, <1>4, <1>5 DEF RegistryInv, RecordsFollowRequests
<1>8. ConsumersConfirmed'
  <2>1. \A t \in Settlements : record[t] # None /\ record[t].status = "ONCHAIN_CONFIRMED" =>
          /\ record'[t] # None /\ record'[t].status = "ONCHAIN_CONFIRMED"
          /\ record'[t].signedIntentIds = record[t].signedIntentIds
    BY <1>1, <1>4 DEF RegistryInv, RecordsFollowRequests, Written
  <2> QED
    BY <2>1 DEF RegistryInv, ConsumersConfirmed
<1>9. AnswersConsumed'
  BY <1>4, <1>5 DEF RegistryInv, AnswersConsumed
<1> QED
  BY <1>3, <1>6, <1>7, <1>8, <1>9 DEF RegistryInv

LEMMA RecordSubmittedInv ==
  ASSUME RegistryInv, NEW s \in Settlements, RecordSubmitted(s)
  PROVE  RegistryInv'
<1>1. /\ pc[s] = "sending" /\ pc' = [pc EXCEPT ![s] = "waiting"]
      /\ UNCHANGED <<intent, request, caller>>
      /\ record' = [record EXCEPT ![s] =
           IF record[s] = None THEN RecordOf(s, "ONCHAIN_SUBMITTED") ELSE record[s]]
  BY DEF RecordSubmitted
<1>2. CASE record[s] = None
  <2>1. Written(s, "ONCHAIN_SUBMITTED")
    BY <1>1, <1>2 DEF Written
  <2> QED
    BY <1>1, <2>1, WrittenInv
<1>3. CASE record[s] # None
  <2>1. record' = record
    BY <1>1, <1>3 DEF RegistryInv, TypeInv
  <2>2. \A t \in Settlements : pc'[t] = IF t = s THEN "waiting" ELSE pc[t]
    BY <1>1 DEF RegistryInv, TypeInv
  <2>3. TypeInv'
    BY <1>1, <2>1 DEF RegistryInv, TypeInv, Stages
  <2>4. RequestsVouched'
    BY <1>1, <2>2 DEF RegistryInv, RequestsVouched, SignedFor, DecorateSettlementMetadata
  <2>5. RecordsFollowRequests'
    BY <1>1, <1>3, <2>1, <2>2 DEF RegistryInv, RecordsFollowRequests
  <2>6. ConsumersConfirmed'
    BY <1>1, <2>1 DEF RegistryInv, ConsumersConfirmed
  <2>7. AnswersConsumed'
    BY <1>1, <2>1, <2>2 DEF RegistryInv, AnswersConsumed
  <2> QED
    BY <2>3, <2>4, <2>5, <2>6, <2>7 DEF RegistryInv
<1> QED
  BY <1>2, <1>3

LEMMA IndexInv ==
  ASSUME RegistryInv, NEW s \in Settlements, IndexSettlement(s)
  PROVE  RegistryInv'
<1>1. /\ pc[s] \in {"sending", "waiting"} /\ pc' = pc
      /\ Written(s, "ONCHAIN_CONFIRMED") /\ UNCHANGED <<intent, request, caller>>
  BY DEF IndexSettlement, Confirmed, Written
<1> QED
  BY <1>1, WrittenInv

LEMMA ConfirmInv ==
  ASSUME RegistryInv, NEW s \in Settlements, Confirm(s)
  PROVE  RegistryInv'
<1> DEFINE new == RecordOf(s, "ONCHAIN_CONFIRMED")
           consumed(i) ==
             [intent[i] EXCEPT !.status = "CONSUMED", !.consumedBySettlementId = s]
<1>1. /\ pc[s] = "waiting" /\ pc' = [pc EXCEPT ![s] = "confirmed"]
      /\ record' = [record EXCEPT ![s] = new]
      /\ intent' = [i \in Intents |->
           IF i \in record[s].signedIntentIds THEN consumed(i) ELSE intent[i]]
      /\ UNCHANGED <<request, caller>>
  BY DEF Confirm, Confirmed
<1>2. /\ new \in Records /\ new # None
      /\ new.userAddress = request[s].userAddress /\ new.appId = request[s].appId
      /\ new.audit = request[s].audit /\ new.signedIntentIds = request[s].signedIntentIds
      /\ new.status = "ONCHAIN_CONFIRMED"
  BY <1>1, RecordOfRequest
<1> HIDE DEF new
<1>3. /\ record[s] # None /\ record[s].signedIntentIds = request[s].signedIntentIds
      /\ request[s].signedIntentIds \subseteq Intents
      /\ \A i \in request[s].signedIntentIds : SignedFor(i, s)
  BY <1>1 DEF RegistryInv, TypeInv, RecordsFollowRequests, RequestsVouched, Requests
<1>4. ASSUME NEW i \in request[s].signedIntentIds
      PROVE  /\ consumed(i) \in SignedIntents /\ consumed(i) # None
             /\ consumed(i).userAddress = intent[i].userAddress
             /\ consumed(i).appId = intent[i].appId
             /\ consumed(i).status = "CONSUMED" /\ consumed(i).consumedBySettlementId = s
  <2>1. intent[i] \in SignedIntents
    BY <1>3 DEF RegistryInv, TypeInv, SignedFor
  <2>2. consumed(i) \in SignedIntents
    BY <2>1 DEF SignedIntents
  <2> QED
    BY <2>1, <2>2, NoneAssumption DEF SignedIntents
<1> HIDE DEF consumed
<1>5. \A i \in Intents :
        intent'[i] = IF i \in request[s].signedIntentIds THEN consumed(i) ELSE intent[i]
  BY <1>1, <1>3
<1>6. /\ \A t \in Settlements : record'[t] = IF t = s THEN new ELSE record[t]
      /\ \A t \in Settlements : pc'[t] = IF t = s THEN "confirmed" ELSE pc[t]
  BY <1>1 DEF RegistryInv, TypeInv
<1>7. TypeInv'
  <2>1. intent' \in [Intents -> SignedIntents \union {None}]
    BY <1>1, <1>3, <1>4 DEF RegistryInv, TypeInv
  <2> QED
    BY <1>1, <1>2, <2>1 DEF RegistryInv, TypeInv, Stages
<1>8. \A i \in Intents : intent[i] # None =>
        /\ intent'[i] # None /\ intent'[i].userAddress = intent[i].userAddress
        /\ intent'[i].appId = intent[i].appId
        /\ intent[i].status = "CONSUMED" => intent'[i].status = "CONSUMED"
  BY <1>4, <1>5
<1>9. RequestsVouched'
  <2>1. \A t \in Settlements : pc[t] # "unsent" =>
          /\ request[t].signedIntentIds \subseteq Intents
          /\ \A i \in request[t].signedIntentIds : SignedFor(i, t) /\ SignedFor(i, t)'
    BY <1>1, <1>8 DEF RegistryInv, TypeInv, RequestsVouched, Requests, SignedFor
  <2> QED
    BY <1>1, <1>6, <2>1 DEF RegistryInv, RequestsVouched, DecorateSettlementMetadata
<1>10. RecordsFollowRequests'
  BY <1>1, <1>2, <1>6 DEF RegistryInv, RecordsFollowRequests
<1>11. ConsumersConfirmed'
  <2>1. \A t \in Settlements : record[t] # None /\ record[t].status = "ONCHAIN_CONFIRMED" =>
          /\ record'[t] # None /\ record'[t].status = "ONCHAIN_CONFIRMED"
          /\ record'[t].signedIntentIds = record[t].signedIntentIds
    BY <1>2, <1>3, <1>6
  <2> SUFFICES ASSUME NEW i \in Intents, intent'[i] # None, intent'[i].status = "CONSUMED",
                      NEW t, t = intent'[i].consumedBySettlementId
               PROVE  /\ t \in Settlements /\ record'[t] # None
                      /\ record'[t].status = "ONCHAIN_CONFIRMED"
                      /\ i \in record'[t].signedIntentIds
    BY DEF ConsumersConfirmed
  <2>2. CASE i \in request[s].signedIntentIds
    BY <1>2, <1>4, <1>5, <1>6, <2>2
  <2>3. CASE i \notin request[s].signedIntentIds
    BY <1>5, <2>1, <2>3 DEF RegistryInv, ConsumersConfirmed
  <2> QED
    BY <2>2, <2>3
<1>12. AnswersConsumed'
  <2> SUFFICES ASSUME NEW t \in Settlements, pc'[t] = "confirmed",
                      NEW i \in record'[t].signedIntentIds
               PROVE  intent'[i] # None /\ intent'[i].status = "CONSUMED"
    BY DEF AnswersConsumed
  <2>1. CASE t = s
    BY <1>2, <1>3, <1>4, <1>5, <1>6, <2>1
  <2>2. CASE t # s
    <3>1. pc[t] = "confirmed" /\ record[t] # None /\ i \in record[t].signedIntentIds
      BY <1>6, <2>2 DEF RegistryInv, RecordsFollowRequests
    <3>2. i \in Intents
      BY <3>1 DEF RegistryInv, TypeInv, Records
    <3> QED
      BY <1>8, <3>1, <3>2 DEF RegistryInv, AnswersConsumed
  <2> QED
    BY <2>1, <2>2
<1> QED
  BY <1>7, <1>9, <1>10, <1>11, <1>12 DEF RegistryInv

LEMMA StepInv == RegistryInv /\ [Next]_vars => RegistryInv'
<1> SUFFICES ASSUME RegistryInv, [Next]_vars
             PROVE  RegistryInv'
  OBVIOUS
<1>1. ASSUME NEW i \in Intents, NEW u \in Users, NEW a \in AppIds, VerifyIntent(i, u, a)
      PROVE  RegistryInv'
  BY <1>1, VerifyInv
<1>2. ASSUME NEW i \in Intents, DeadlinePasses(i)
      PROVE  RegistryInv'
  BY <1>2, StillInv DEF DeadlinePasses
<1>3. ASSUME NEW i \in Intents, ExpireIntent(i)
      PROVE  RegistryInv'
  BY <1>3, ExpireInv
<1>4. ASSUME NEW s \in Settlements, NEW h \in Headers, NEW a \in AppIds,
             NEW t \in SettlementTypes, Post(s, h, a, t)
      PROVE  RegistryInv'
  BY <1>4, PostInv
<1>5. ASSUME NEW s \in Settlements, Begin(s)
      PROVE  RegistryInv'
  BY <1>5, BeginInv
<1>6. ASSUME NEW s \in Settlements, RecordSubmitted(s)
      PROVE  RegistryInv'
  BY <1>6, RecordSubmittedInv
<1>7. ASSUME NEW s \in Settlements, IndexSettlement(s)
      PROVE  RegistryInv'
  BY <1>7, IndexInv
<1>8. ASSUME NEW s \in Settlements, Confirm(s)
      PROVE  RegistryInv'
  BY <1>8, ConfirmInv
<1>9. ASSUME NEW s \in Settlements, Abandon(s)
      PROVE  RegistryInv'
  BY <1>9, AbandonInv
<1>10. ASSUME NEW entries \in Configurations, Restart(entries)
       PROVE  RegistryInv'
  BY <1>10, StillInv DEF Restart
<1>11. CASE UNCHANGED vars
  BY <1>11, StillInv DEF vars
<1> QED
  BY <1>1, <1>2, <1>3, <1>4, <1>5, <1>6, <1>7, <1>8, <1>9, <1>10, <1>11 DEF Next

LEMMA RegistryInvariant == Spec => []RegistryInv
BY InitInv, StepInv, PTL DEF Spec

-----------------------------------------------------------------------------
(* What the report shows. *)

\* A record, its request, and the intents of both.
LEMMA RecordFacts ==
  ASSUME RegistryInv, NEW s \in Recorded
  PROVE  LET ids == record[s].signedIntentIds IN
         /\ s \in Settlements
         /\ ids \in SUBSET Intents
         /\ caller[s] \in {"admin", "app"}
         /\ caller[s] = "app" => ids # {}
         /\ record[s].audit = DecorateSettlementMetadata(None, caller[s], Cardinality(ids))
         /\ record[s].audit # None
         /\ \A i \in ids : /\ intent[i] # None
                           /\ intent[i].userAddress = record[s].userAddress
                           /\ intent[i].appId = record[s].appId
<1>1. s \in Settlements /\ record[s] # None
  BY DEF Recorded
<1>2. record[s] \in Records /\ pc[s] # "unsent"
  BY <1>1 DEF RegistryInv, TypeInv, RecordsFollowRequests
<1>3. record[s].signedIntentIds \in SUBSET Intents /\ record[s].audit \in Audits
  BY <1>2 DEF Records
<1> QED
  BY <1>1, <1>2, <1>3, NoneAssumption
     DEF RegistryInv, RecordsFollowRequests, RequestsVouched, SignedFor

LEMMA ReportFacts ==
  ASSUME RegistryInv, NEW s \in Recorded
  PROVE  LET report == SettlementReport(s)
             linked == report.linkedSignedIntents
             ids == record[s].signedIntentIds
         IN
         /\ report.audit.authorization = caller[s]
         /\ report.audit.trustedOperatorSettlement <=> caller[s] = "admin" /\ ids = {}
         /\ DOMAIN linked = ids
         /\ \A i \in ids : /\ linked[i].userAddress = intent[i].userAddress
                           /\ linked[i].appId = intent[i].appId
                           /\ linked[i].status = intent[i].status
                           /\ linked[i].consumedBySettlementId = intent[i].consumedBySettlementId
<1>1. PICK ids \in SUBSET Intents : ids = record[s].signedIntentIds
  BY RecordFacts
<1>2. /\ caller[s] \in {"admin", "app"} /\ record[s].audit # None
      /\ record[s].audit = DecorateSettlementMetadata(None, caller[s], Cardinality(ids))
      /\ \A i \in ids : intent[i] # None
  BY <1>1, RecordFacts
<1>3. Cardinality(ids) = 0 <=> ids = {}
  BY RegistryAssumption, FS_Subset, FS_EmptySet
<1>4. /\ SettlementReport(s).audit.authorization = caller[s]
      /\ SettlementReport(s).audit.trustedOperatorSettlement
           <=> caller[s] = "admin" /\ ids = {}
  <2> DEFINE trusted == caller[s] # "app" /\ Cardinality(ids) = 0
  <2>1. trusted <=> caller[s] = "admin" /\ ids = {}
    BY <1>2, <1>3
  <2> HIDE DEF trusted
  <2>2. /\ record[s].audit.authorization = caller[s]
        /\ record[s].audit.trustedOperatorSettlement = trusted
    BY <1>2 DEF DecorateSettlementMetadata, trusted
  <2>3. /\ SettlementReport(s).audit.authorization = record[s].audit.authorization
        /\ SettlementReport(s).audit.trustedOperatorSettlement
             = record[s].audit.trustedOperatorSettlement
    BY <1>2 DEF SettlementReport, SettlementAuditMetadata
  <2>4. SettlementReport(s).audit.trustedOperatorSettlement = trusted
    BY <2>2, <2>3
  <2> QED
    BY <2>1, <2>2, <2>3, <2>4
<1>5. SettlementReport(s).linkedSignedIntents = [i \in ids |-> LinkedSignedIntentReport(i)]
  <2>1. {i \in ids : intent[i] # None} = ids
    BY <1>2
  <2> QED
    BY <1>1, <2>1 DEF SettlementReport
<1> QED
  BY <1>1, <1>4, <1>5 DEF LinkedSignedIntentReport

\* A settlement reported as an app's is backed by at least one intent, each
\* signed by its user for that app: because intents are compared with the
\* request before it is taken, keep signer and app for ever, and every writer
\* of the record copies the request (settlementService.ts, gatewayLedger.ts).
THEOREM SignedTheorem == Spec => []AppSettlementsAreSigned
<1>1. RegistryInv => AppSettlementsAreSigned
  <2> SUFFICES ASSUME RegistryInv, NEW s \in Recorded, caller[s] = "app"
               PROVE  LET linked == SettlementReport(s).linkedSignedIntents IN
                      /\ DOMAIN linked # {}
                      /\ \A i \in DOMAIN linked :
                           /\ linked[i].userAddress = record[s].userAddress
                           /\ linked[i].appId = record[s].appId
    BY ReportFacts DEF AppSettlementsAreSigned
  <2> QED
    BY RecordFacts, ReportFacts
<1> QED
  BY <1>1, RegistryInvariant, PTL

\* The report names the credentials a settlement came with, and an operator's
\* trust exactly if nothing is linked, as decorateSettlementMetadata overwrites
\* what the caller wrote under its name (settlementService.ts).
THEOREM ReportTheorem == Spec => []ReportIsTrue
<1>1. RegistryInv => ReportIsTrue
  <2> SUFFICES ASSUME RegistryInv, NEW s \in Recorded
               PROVE  LET report == SettlementReport(s) IN
                      /\ report.audit.authorization = caller[s]
                      /\ report.audit.trustedOperatorSettlement
                           <=> caller[s] = "admin" /\ DOMAIN report.linkedSignedIntents = {}
    BY DEF ReportIsTrue
  <2> QED
    BY ReportFacts
<1> QED
  BY <1>1, RegistryInvariant, PTL

\* After the answer every linked intent is shown as consumed, by a confirmed
\* settlement of the same user and app, also if another settlement with the
\* same intent or a deadline came in between (settlementService.ts).
THEOREM ConsumptionTheorem == Spec => []ReportShowsConsumption
<1>1. RegistryInv => ReportShowsConsumption
  <2> SUFFICES ASSUME RegistryInv, NEW s \in Settlements, pc[s] = "confirmed",
                      NEW linked, linked = SettlementReport(s).linkedSignedIntents,
                      NEW i \in DOMAIN linked,
                      NEW consumer, consumer = linked[i].consumedBySettlementId
               PROVE  /\ linked[i].status = "CONSUMED"
                      /\ consumer \in Recorded
                      /\ i \in record[consumer].signedIntentIds
                      /\ record[consumer].status = "ONCHAIN_CONFIRMED"
                      /\ record[consumer].userAddress = record[s].userAddress
                      /\ record[consumer].appId = record[s].appId
    BY DEF ReportShowsConsumption
  <2>1. s \in Recorded
    BY DEF RegistryInv, RecordsFollowRequests, Recorded
  <2>2. /\ i \in record[s].signedIntentIds /\ linked[i].status = intent[i].status
        /\ consumer = intent[i].consumedBySettlementId
    BY <2>1, ReportFacts
  <2>3. /\ i \in Intents /\ intent[i] # None
        /\ intent[i].userAddress = record[s].userAddress /\ intent[i].appId = record[s].appId
    BY <2>1, <2>2, RecordFacts
  <2>4. intent[i].status = "CONSUMED"
    BY <2>2 DEF RegistryInv, AnswersConsumed
  <2>5. /\ consumer \in Recorded /\ record[consumer].status = "ONCHAIN_CONFIRMED"
        /\ i \in record[consumer].signedIntentIds
    BY <2>2, <2>3, <2>4 DEF RegistryInv, ConsumersConfirmed, Recorded
  <2>6. /\ intent[i].userAddress = record[consumer].userAddress
        /\ intent[i].appId = record[consumer].appId
    BY <2>5, RecordFacts
  <2> QED
    BY <2>2, <2>3, <2>4, <2>5, <2>6
<1> QED
  BY <1>1, RegistryInvariant, PTL
=============================================================================
