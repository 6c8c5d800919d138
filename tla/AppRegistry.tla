---------------------------- MODULE AppRegistry ----------------------------
(***************************************************************************)
(* Who may settle what, and what the audit report says about it later:     *)
(* the app registry with the authorisation of POST /settlements            *)
(* (appRegistry.ts), POST /intents/verify (authRoutes.ts), the linking of  *)
(* signed intents and the audit report (settlementService.ts).             *)
(*                                                                         *)
(* The registry is read from REGISTERED_APPS when the process starts, so   *)
(* an intent verified under one registry may be settled under another.     *)
(* Signatures, nonces, amounts and the transaction itself are left to      *)
(* WithdrawalService and SettlementService: here a transaction either      *)
(* takes effect or not, no answer of the node is lost, and the process is  *)
(* only stopped while no handler is at work.                               *)
(***************************************************************************)
EXTENDS FiniteSetsExt, Sequences

CONSTANTS
  Users,
  AppIds,           \* the appIds in use
  Secrets, Tokens,  \* app secrets and bearer tokens in use
  AdminToken,       \* GATEWAY_ADMIN_TOKEN
  Configurations,   \* the values REGISTERED_APPS may take
  SettlementTypes,
  CallerAudits,     \* what callers put into metadata.settlementAudit themselves
  Intents,          \* ids of signed intents
  Settlements,      \* the calls of submitSettlement
  MaxRestarts,      \* bound on the restarts of the backend
  None

SystemAppId == "collateral-gateway"

\* One "appId:appSecret" of REGISTERED_APPS; None for a part that is missing.
Entries == [appId : AppIds \union {None}, appSecret : Secrets \union {None}]

\* metadata.settlementAudit: who settled, and with how many signatures.
Audits == [authorization : {"admin", "app", "internal"}, linkedIntentCount : Nat,
           trustedOperatorSettlement : BOOLEAN]

ASSUME RegistryAssumption ==
  /\ SystemAppId \in AppIds
  /\ AdminToken \in Tokens
  /\ None \notin AppIds /\ None \notin Secrets /\ None \notin Tokens
  /\ CallerAudits \subseteq Audits
  /\ Configurations \subseteq Seq(Entries)
  /\ IsFiniteSet(Intents)
  /\ MaxRestarts \in Nat

\* A stored intent, a prepared request and a settlement record.
SignedIntents ==
  [userAddress : Users, appId : AppIds, status : {"VERIFIED", "EXPIRED", "CONSUMED"},
   consumedBySettlementId : Settlements \union {None}]
Requests ==
  [userAddress : Users, appId : AppIds, signedIntentIds : SUBSET Intents, audit : Audits]
Records ==
  [userAddress : Users, appId : AppIds, audit : Audits, signedIntentIds : SUBSET Intents,
   status : {"ONCHAIN_SUBMITTED", "ONCHAIN_CONFIRMED"}]

\* A missing one is none of them.
ASSUME NoneAssumption ==
  None \notin Audits /\ None \notin SignedIntents /\ None \notin Requests /\ None \notin Records

VARIABLES
  registeredApps,   \* REGISTERED_APPS of the running process
  intent,           \* the stored intents
  overdue,          \* intents whose deadline has passed
  request,          \* the prepared request of each call
  pc,               \* how far each call has come
  inFlight,         \* settlementInFlight of each user
  record,           \* the stored settlement records
  caller,           \* history: the credentials each call came with
  restarts

vars == <<registeredApps, intent, overdue, request, pc, inFlight, record, caller, restarts>>

Init ==
  /\ registeredApps \in Configurations
  /\ intent = [i \in Intents |-> None]
  /\ overdue = {}
  /\ request = [s \in Settlements |-> None]
  /\ pc = [s \in Settlements |-> "unsent"]
  /\ inFlight = [u \in Users |-> None]
  /\ record = [s \in Settlements |-> None]
  /\ caller = [s \in Settlements |-> None]
  /\ restarts = 0

-----------------------------------------------------------------------------
(* The registry. *)

\* No entry means that any type is allowed.
DefaultAllowedSettlementTypes(appId) ==
  CASE appId = "trading-example" -> {"TRADING_PNL"}
    [] appId = "fantasy-trading-app" -> {"EXTERNAL_APP_REWARD"}
    [] OTHER -> {}

\* parseRegisteredApps: incomplete entries are skipped, and of several entries
\* for one app the last one counts.
ParseRegisteredApps(entries) ==
  LET complete == {n \in DOMAIN entries : entries[n].appId # None /\ entries[n].appSecret # None}
      last(appId) == Max({n \in complete : entries[n].appId = appId})
  IN [appId \in {entries[n].appId : n \in complete} |->
       [appSecret |-> entries[last(appId)].appSecret,
        allowedSettlementTypes |-> DefaultAllowedSettlementTypes(appId)]]

apps == ParseRegisteredApps(registeredApps)

SettlementTypeAllowed(appId, settlementType) ==
  LET allowed == apps[appId].allowedSettlementTypes
  IN allowed = {} \/ settlementType \in allowed

\* What a caller may put into the headers.
Headers == [bearer : Tokens \union {None}, appId : AppIds \union {None},
            appSecret : Secrets \union {None}]

\* authorizeSettlementRequest: a bearer token is never ignored, even a wrong one
\* beside good app credentials.
AuthorizedAs(headers, appId, settlementType) ==
  IF headers.bearer # None
  THEN IF headers.bearer = AdminToken THEN "admin" ELSE "refused"
  ELSE IF /\ headers.appId = appId
          /\ appId \in DOMAIN apps
          /\ headers.appSecret = apps[appId].appSecret
          /\ SettlementTypeAllowed(appId, settlementType)
       THEN "app" ELSE "refused"

\* requireRegisteredIntentApp.
IntentAppRegistered(appId) == appId = SystemAppId \/ appId \in DOMAIN apps

\* POST /intents/verify with a signature that is good.
VerifyIntent(i, user, appId) ==
  /\ intent[i] = None
  /\ IntentAppRegistered(appId)
  /\ intent' = [intent EXCEPT ![i] =
       [userAddress |-> user, appId |-> appId, status |-> "VERIFIED",
        consumedBySettlementId |-> None]]
  /\ UNCHANGED <<registeredApps, overdue, request, pc, inFlight, record, caller, restarts>>

DeadlinePasses(i) ==
  /\ intent[i] # None
  /\ overdue' = overdue \union {i}
  /\ UNCHANGED <<registeredApps, intent, request, pc, inFlight, record, caller, restarts>>

-----------------------------------------------------------------------------
(* A settlement. *)

\* Mutation: the app an intent was signed for is not compared.
LinkableForAnyApp(i, user, appId) ==
  /\ intent[i] # None /\ intent[i].status = "VERIFIED"
  /\ intent[i].userAddress = user
  /\ i \notin overdue

\* The tests of validateSettlementSignedIntents for one linked intent.
Linkable(i, user, appId) ==
  /\ intent[i] # None /\ intent[i].status = "VERIFIED"
  /\ intent[i].userAddress = user
  /\ intent[i].appId = appId
  /\ i \notin overdue

\* Mutation: the caller's metadata is not overwritten.
KeepSettlementMetadata(metadata, kind, linkedIntentCount) ==
  IF metadata # None THEN metadata
  ELSE [authorization |-> kind, linkedIntentCount |-> linkedIntentCount,
        trustedOperatorSettlement |-> kind # "app" /\ linkedIntentCount = 0]

\* decorateSettlementMetadata: the gateway's own audit entry replaces whatever
\* the caller put under its name.
DecorateSettlementMetadata(metadata, kind, linkedIntentCount) ==
  [authorization |-> kind, linkedIntentCount |-> linkedIntentCount,
   trustedOperatorSettlement |-> kind # "app" /\ linkedIntentCount = 0]

\* submitSettlement up to its first await.
Submit(s, kind, user, appId, intents, metadata) ==
  /\ pc[s] = "unsent"
  /\ kind = "app" => intents # {}
  /\ \A i \in intents : Linkable(i, user, appId)
  /\ inFlight[user] = None
  /\ pc' = [pc EXCEPT ![s] = "loading"]
  /\ request' = [request EXCEPT ![s] =
       [userAddress |-> user, appId |-> appId, signedIntentIds |-> intents,
        audit |-> DecorateSettlementMetadata(metadata, kind, Cardinality(intents))]]
  /\ caller' = [caller EXCEPT ![s] = kind]
  /\ UNCHANGED <<registeredApps, intent, overdue, inFlight, record, restarts>>

\* POST /settlements.
Post(s, headers, appId, settlementType) ==
  LET kind == AuthorizedAs(headers, appId, settlementType) IN
  /\ kind # "refused"
  /\ \E user \in Users, intents \in SUBSET Intents, metadata \in CallerAudits \union {None} :
       Submit(s, kind, user, appId, intents, metadata)

\* Mutation: a refusal over a passed deadline marks any intent.
ExpireAny(i) ==
  /\ intent[i] # None /\ i \in overdue
  /\ intent' = [intent EXCEPT ![i].status = "EXPIRED"]
  /\ UNCHANGED <<registeredApps, overdue, request, pc, inFlight, record, caller, restarts>>

\* A request is refused over an intent whose deadline has passed, which marks it.
ExpireIntent(i) ==
  /\ intent[i] # None /\ intent[i].status = "VERIFIED" /\ i \in overdue
  /\ intent' = [intent EXCEPT ![i].status = "EXPIRED"]
  /\ UNCHANGED <<registeredApps, overdue, request, pc, inFlight, record, caller, restarts>>

\* The vault's deployment is loaded: the in-flight mark is tested again.
Begin(s) ==
  LET user == request[s].userAddress IN
  /\ pc[s] = "loading"
  /\ IF inFlight[user] = None
     THEN pc' = [pc EXCEPT ![s] = "sending"] /\ inFlight' = [inFlight EXCEPT ![user] = s]
     ELSE pc' = [pc EXCEPT ![s] = "refused"] /\ UNCHANGED inFlight
  /\ UNCHANGED <<registeredApps, intent, overdue, request, record, caller, restarts>>

\* makeSettlementRecord, from the request or from its in-flight mark.
RecordOf(s, status) ==
  [userAddress |-> request[s].userAddress, appId |-> request[s].appId,
   audit |-> request[s].audit, signedIntentIds |-> request[s].signedIntentIds,
   status |-> status]

\* The node took the transaction; the indexer may have been faster.
RecordSubmitted(s) ==
  /\ pc[s] = "sending"
  /\ pc' = [pc EXCEPT ![s] = "waiting"]
  /\ record' = [record EXCEPT ![s] = IF @ = None THEN RecordOf(s, "ONCHAIN_SUBMITTED") ELSE @]
  /\ UNCHANGED <<registeredApps, intent, overdue, request, inFlight, caller, restarts>>

\* applyIndexedSettlement, for the indexer and for the handler.
Confirmed(s) ==
  /\ record' = [record EXCEPT ![s] = RecordOf(s, "ONCHAIN_CONFIRMED")]
  /\ inFlight' = [u \in Users |-> IF inFlight[u] = s THEN None ELSE inFlight[u]]

IndexSettlement(s) ==
  /\ pc[s] \in {"sending", "waiting"}
  /\ Confirmed(s)
  /\ UNCHANGED <<registeredApps, intent, overdue, request, pc, caller, restarts>>

\* The receipt is there: the linked intents are consumed.
Confirm(s) ==
  /\ pc[s] = "waiting"
  /\ Confirmed(s)
  /\ pc' = [pc EXCEPT ![s] = "confirmed"]
  /\ intent' = [i \in Intents |->
       IF i \in record[s].signedIntentIds
       THEN [intent[i] EXCEPT !.status = "CONSUMED", !.consumedBySettlementId = s]
       ELSE intent[i]]
  /\ UNCHANGED <<registeredApps, overdue, request, caller, restarts>>

\* The transaction is refused or reverts; its record stays as it is.
Abandon(s) ==
  /\ pc[s] \in {"sending", "waiting"}
  /\ record[s] # None => record[s].status = "ONCHAIN_SUBMITTED"
  /\ pc' = [pc EXCEPT ![s] = "failed"]
  /\ inFlight' = [inFlight EXCEPT ![request[s].userAddress] = None]
  /\ UNCHANGED <<registeredApps, intent, overdue, request, record, caller, restarts>>

\* The operator edits REGISTERED_APPS and restarts the backend.
Restart(entries) ==
  /\ restarts < MaxRestarts
  /\ \A s \in Settlements : pc[s] \notin {"loading", "sending", "waiting"}
  /\ registeredApps' = entries
  /\ restarts' = restarts + 1
  /\ UNCHANGED <<intent, overdue, request, pc, inFlight, record, caller>>

Next ==
  \/ \E i \in Intents :
       \/ \E u \in Users, a \in AppIds : VerifyIntent(i, u, a)
       \/ DeadlinePasses(i) \/ ExpireIntent(i)
  \/ \E s \in Settlements :
       \/ \E h \in Headers, a \in AppIds, t \in SettlementTypes : Post(s, h, a, t)
       \/ Begin(s) \/ RecordSubmitted(s) \/ IndexSettlement(s) \/ Confirm(s) \/ Abandon(s)
  \/ \E entries \in Configurations : Restart(entries)

Spec == Init /\ [][Next]_vars
-----------------------------------------------------------------------------
\* buildSettlementAuditMetadata reads the audit entry back.
SettlementAuditMetadata(audit) ==
  IF audit = None THEN [authorization |-> "unknown", trustedOperatorSettlement |-> FALSE]
  ELSE [authorization |-> audit.authorization,
        trustedOperatorSettlement |-> audit.trustedOperatorSettlement]

\* toLinkedSignedIntentReport: an intent as it is stored now.
LinkedSignedIntentReport(i) ==
  [userAddress |-> intent[i].userAddress, appId |-> intent[i].appId,
   status |-> intent[i].status, consumedBySettlementId |-> intent[i].consumedBySettlementId]

\* getSettlementReport: how a settlement was authorised, and its intents.
SettlementReport(s) ==
  [audit |-> SettlementAuditMetadata(record[s].audit),
   linkedSignedIntents |->
     [i \in {i \in record[s].signedIntentIds : intent[i] # None} |-> LinkedSignedIntentReport(i)]]

Recorded == {s \in Settlements : record[s] # None}

\* A settlement reported as the doing of an app is backed by intents its user
\* signed for that very app, and by at least one: whatever the registry was
\* when they were verified, was when it settled and is by now.
AppSettlementsAreSigned ==
  \A s \in Recorded :
    LET report == SettlementReport(s)
        linked == report.linkedSignedIntents
    IN report.audit.authorization = "app" =>
         /\ DOMAIN linked # {}
         /\ \A i \in DOMAIN linked : /\ linked[i].userAddress = record[s].userAddress
                                     /\ linked[i].appId = record[s].appId

\* The report says with which credentials a settlement was really requested,
\* and warns of an operator acting on trust exactly if no signature is linked,
\* whatever audit data the caller sent along and whoever wrote the record.
ReportIsTrue ==
  \A s \in Recorded :
    LET report == SettlementReport(s) IN
    /\ report.audit.authorization = caller[s]
    /\ report.audit.trustedOperatorSettlement
         <=> caller[s] = "admin" /\ DOMAIN report.linkedSignedIntents = {}

\* Once a settlement has been answered, its report shows every linked intent as
\* consumed, by a confirmed settlement of the same user and app that links it;
\* a deadline that passes later does not turn it into an expired one.
ReportShowsConsumption ==
  \A s \in Settlements : pc[s] = "confirmed" =>
    LET linked == SettlementReport(s).linkedSignedIntents IN
    \A i \in DOMAIN linked :
      LET consumer == linked[i].consumedBySettlementId IN
      /\ linked[i].status = "CONSUMED"
      /\ consumer \in Recorded
      /\ i \in record[consumer].signedIntentIds
      /\ record[consumer].status = "ONCHAIN_CONFIRMED"
      /\ record[consumer].userAddress = record[s].userAddress
      /\ record[consumer].appId = record[s].appId
=============================================================================
