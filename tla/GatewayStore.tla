---------------------------- MODULE GatewayStore ----------------------------
(***************************************************************************)
(* The ledger's books in memory and in the store (gatewayLedger.ts over    *)
(* sqliteStore.ts, and memoryStore.ts as its twin).                        *)
(*                                                                         *)
(* The ledger keeps every user's state in memory, read from the store when *)
(* the user is first met, and writes through: each turn of the event loop  *)
(* changes the memory and makes calls of the repositories.  Turns are not  *)
(* interrupted by other turns, so a turn is one action; but no transaction *)
(* surrounds its statements, so the process may be killed between any two  *)
(* of them: todo holds the calls the turn has still to make, running the   *)
(* statements the current call has still to run.                           *)
(*                                                                         *)
(* The memory backend gets the same calls, as the twin, until a kill, in   *)
(* which it would lose everything.                                         *)
(*                                                                         *)
(* One symbol is traded, without fees; an intent is named by its nonce, as *)
(* UNIQUE(userAddress, nonce) allows one each; a settlement is the one of  *)
(* its transaction; of a balance the withdrawal columns, saved with the    *)
(* others, are left out, and so is the indexer's cursor (BlockchainIndexer *)
(* has it).                                                                *)
(***************************************************************************)
EXTENDS FiniteSums, Sequences

CONSTANTS
  Users, Settlements,
  Intents,      \* signed intents, named by their nonces
  Orders,       \* client order ids
  Deposits,     \* the Deposited logs
  Deltas,       \* amounts of generic settlements and gains of sales
  MaxQuantity, MaxCollateral, MaxPnl,   \* bounds on a user's books
  MaxKills,     \* bound on the kills
  None          \* a missing row

SettlementLogs == Settlements \X {"SettlementApplied", "PnlSettled"}
Logs == Deposits \union SettlementLogs

ASSUME StoreAssumption ==
  /\ IsFiniteSet(Settlements) /\ IsFiniteSet(Intents)
  /\ Deltas \subseteq Int
  /\ MaxQuantity \in Nat /\ MaxCollateral \in Nat /\ MaxPnl \in Nat /\ MaxKills \in Nat

\* What the rows of the tables, and the ledger's records of them, may be.
Types == {"TRADING_PNL", "GENERIC"}
Balances == [collateral : Nat, pnl : Int]
Positions == [quantity : Nat, realized : Int]
Rows ==
  [user : Users, type : Types, amount : Int,
   status : {"ONCHAIN_SUBMITTED", "ONCHAIN_CONFIRMED"}]
Records == [row : Rows, intents : SUBSET Intents]
Requests == [user : Users, type : Types, amount : Int, intents : SUBSET Intents]
Views ==
  [balance : Balances, position : Positions, orders : SUBSET Orders, trades : SUBSET Orders,
   settlements : [Settlements -> {None} \union Records],
   inFlight : {None} \union Settlements]

\* A missing row is none of them.
ASSUME NoneAssumption ==
  /\ None \notin Settlements /\ None \notin Balances /\ None \notin Positions
  /\ None \notin Rows /\ None \notin Records /\ None \notin Requests /\ None \notin Views
  /\ None \notin Users \X {"ISSUED", "USED"}

VARIABLES
  db,        \* the tables of the SQLite file
  twin,      \* the maps of a MemoryStorage given the same calls, or None
  mem,       \* Ledger.users: what each loaded user's state is
  seen,      \* Ledger.processedIndexedEvents
  todo,      \* the calls of repositories the current turn has still to make
  running,   \* the statements the current call has still to run
  handling,  \* the settlements whose handler waits for node or receipt
  sent,      \* what each settlement's request asked for
  kills,
  torn       \* history: users whose books a kill left half written

vars == <<db, twin, mem, seen, todo, running, handling, sent, kills, torn>>

-----------------------------------------------------------------------------
(* Tables. *)

NoBalance == [collateral |-> 0, pnl |-> 0]
NoPosition == [quantity |-> 0, realized |-> 0]
NoIntent == [status |-> "NONE", by |-> None]

Empty ==
  [users |-> {},
   balances |-> [u \in Users |-> None],
   positions |-> [u \in Users |-> None],
   orders |-> [u \in Users |-> [c \in Orders |-> 0]],     \* rows of each client order id
   keys |-> {},                                           \* idempotency_keys
   trades |-> [u \in Users |-> [c \in Orders |-> 0]],
   nonces |-> [n \in Intents |-> None],                   \* <<user, status>>
   intents |-> [n \in Intents |-> NoIntent],
   settlements |-> [s \in Settlements |-> None],
   links |-> {},                                          \* settlement_intents
   events |-> {}]                                         \* indexed_chain_events

Row(user, type, amount, status) ==
  [user |-> user, type |-> type, amount |-> amount, status |-> status]

Intent(status, by) == [status |-> status, by |-> by]

\* A repository call and a statement name what they touch, and with which value.
Call(name, user, key, value) == [name |-> name, user |-> user, key |-> key, value |-> value]

\* The queries: what the tables hold for a user.
OrNothing(row, nothing) == IF row = None THEN nothing ELSE row

ListOrders(d, u) == {c \in Orders : d.orders[u][c] > 0}

ListTrades(d, u) == {c \in Orders : d.trades[u][c] > 0}

LinkedTo(d, s) == {n \in Intents : <<s, n>> \in d.links}

ListSettlements(d, u) ==
  [s \in Settlements |->
     IF d.settlements[s] # None /\ d.settlements[s].user = u
     THEN [row |-> d.settlements[s], intents |-> LinkedTo(d, s)] ELSE None]

\* getOrCreate: a user's state as read from a store.
View(d, u) ==
  [balance |-> OrNothing(d.balances[u], NoBalance),
   position |-> OrNothing(d.positions[u], NoPosition),
   orders |-> ListOrders(d, u),
   trades |-> ListTrades(d, u),
   settlements |-> ListSettlements(d, u),
   inFlight |-> None]

Init ==
  /\ db = Empty /\ twin = Empty
  /\ mem = [u \in Users |-> None] /\ seen = {}
  /\ todo = <<>> /\ running = <<>>
  /\ handling = {} /\ sent = [s \in Settlements |-> None]
  /\ kills = 0 /\ torn = {}

-----------------------------------------------------------------------------
(* SqliteStorage. *)

\* INSERT OR IGNORE of an order: id is fresh, UNIQUE(userAddress, clientOrderId) decides.
InsertOnce(count) == IF count = 0 THEN 1 ELSE count

\* The tables of each repository after one of its statements.
LedgerTables(d, st) ==
  IF st.name = "ensureUser" THEN [d EXCEPT !.users = @ \union {st.user}]
                            ELSE [d EXCEPT !.balances[st.user] = st.value]

IntentTables(d, st) ==
  LET k == st.key IN
  CASE st.name = "issueNonce"   -> [d EXCEPT !.nonces[k] = IF @ = None THEN <<st.user, "ISSUED">> ELSE @]
    [] st.name = "useNonce"     -> [d EXCEPT !.nonces[k] = <<st.user, "USED">>]
    [] st.name = "recordIntent" -> [d EXCEPT !.intents[k] = IF @ = NoIntent THEN st.value ELSE @]
    [] st.name = "markIntent"   -> [d EXCEPT !.intents[k] = st.value]

OrderTables(d, st) ==
  IF st.name = "addOrder" THEN [d EXCEPT !.orders[st.user][st.key] = InsertOnce(@)]
                          ELSE [d EXCEPT !.keys = @ \union {<<st.user, st.key>>}]

PositionTable(d, st) == [d EXCEPT !.positions[st.user] = st.value]

TradeTable(d, st) == [d EXCEPT !.trades[st.user][st.key] = @ + 1]

SettlementTables(d, st) ==
  CASE st.name = "upsertRow" -> [d EXCEPT !.settlements[st.key] = st.value]
    [] st.name = "unlink"    -> [d EXCEPT !.links = {l \in @ : l[1] # st.key}]
    [] st.name = "link"      -> [d EXCEPT !.links = @ \union {<<st.key, st.value>>}]

EventTable(d, st) == [d EXCEPT !.events = @ \union {st.key}]

\* The repository each statement and call belongs to.
LedgerCalls == {"ensureUser", "saveBalance"}
IntentCalls == {"issueNonce", "useNonce", "recordIntent", "markIntent"}
OrderCalls == {"addOrder", "addKey"}

\* The database after one statement.
Sqlite(d, st) ==
  CASE st.name \in LedgerCalls                     -> LedgerTables(d, st)
    [] st.name \in IntentCalls                     -> IntentTables(d, st)
    [] st.name \in OrderCalls                      -> OrderTables(d, st)
    [] st.name = "setPosition"                     -> PositionTable(d, st)
    [] st.name = "addTrade"                        -> TradeTable(d, st)
    [] st.name \in {"upsertRow", "unlink", "link"} -> SettlementTables(d, st)
    [] st.name = "claimEvent"                      -> EventTable(d, st)

\* What a statement's foreign keys refer to.
References(d, st) ==
  CASE st.name \in {"ensureUser", "claimEvent"} -> TRUE
    [] st.name = "link" -> d.settlements[st.key] # None /\ d.intents[st.value] # NoIntent
    [] OTHER -> st.user \in d.users

\* The inserts of a settlement's links, in some order.
Links(call) ==
  LET linked == call.value.intents IN
  [i \in 1..Cardinality(linked) |-> Call("link", call.user, call.key, Numbering(linked)[i])]

\* Mutation: the links are written before the row they refer to.
LinksBeforeRow(call) ==
  CASE call.name \in {"saveBalance", "issueNonce", "recordIntent"} ->
         <<Call("ensureUser", call.user, None, None), call>>
    [] call.name = "upsertSettlement" ->
         <<Call("unlink", call.user, call.key, None)>> \o
         Links(call) \o
         <<Call("upsertRow", call.user, call.key, call.value.row)>>
    [] OTHER -> <<call>>

\* Mutation: the links are written again before the old ones are deleted.
LinkThenUnlink(call) ==
  CASE call.name \in {"saveBalance", "issueNonce", "recordIntent"} ->
         <<Call("ensureUser", call.user, None, None), call>>
    [] call.name = "upsertSettlement" ->
         <<Call("upsertRow", call.user, call.key, call.value.row)>> \o
         Links(call) \o
         <<Call("unlink", call.user, call.key, None)>>
    [] OTHER -> <<call>>

\* The statements of one repository call, in order.
Statements(call) ==
  CASE call.name \in {"saveBalance", "issueNonce", "recordIntent"} ->
         <<Call("ensureUser", call.user, None, None), call>>
    [] call.name = "upsertSettlement" ->
         <<Call("upsertRow", call.user, call.key, call.value.row),
           Call("unlink", call.user, call.key, None)>> \o
         Links(call)
    [] OTHER -> <<call>>

-----------------------------------------------------------------------------
(* MemoryStorage: a map or list per repository, each call done at once. *)

MemoryLedger(d, call) ==
  LET known == [d EXCEPT !.users = @ \union {call.user}] IN
  IF call.name = "ensureUser" THEN known ELSE [known EXCEPT !.balances[call.user] = call.value]

\* The maps are keyed by user and nonce, and by id.
MemoryIntents(d, call) ==
  LET u == call.user  k == call.key IN
  CASE call.name = "issueNonce" ->
         [d EXCEPT !.users = @ \union {u}, !.nonces[k] = <<u, "ISSUED">>]
    [] call.name = "useNonce" ->
         [d EXCEPT !.nonces[k] = IF @ = None THEN None ELSE <<u, "USED">>]
    [] call.name = "recordIntent" ->
         IF d.intents[k] # NoIntent THEN d
         ELSE [d EXCEPT !.users = @ \union {u}, !.intents[k] = call.value]
    [] call.name = "markIntent" ->
         [d EXCEPT !.intents[k] = IF @ = NoIntent THEN NoIntent ELSE call.value]

\* Only the order's id, which is fresh, is compared.
MemoryOrders(d, call) ==
  IF call.name = "addOrder" THEN [d EXCEPT !.orders[call.user][call.key] = @ + 1]
                            ELSE [d EXCEPT !.keys = @ \union {<<call.user, call.key>>}]

MemoryPositions(d, call) == [d EXCEPT !.positions[call.user] = call.value]

MemoryTrades(d, call) == [d EXCEPT !.trades[call.user][call.key] = @ + 1]

MemorySettlements(d, call) ==
  [d EXCEPT !.settlements[call.key] = call.value.row,
            !.links = {l \in @ : l[1] # call.key} \union ({call.key} \X call.value.intents)]

MemoryEvents(d, call) == [d EXCEPT !.events = @ \union {call.key}]

Memory(d, call) ==
  CASE call.name \in LedgerCalls         -> MemoryLedger(d, call)
    [] call.name \in IntentCalls         -> MemoryIntents(d, call)
    [] call.name \in OrderCalls          -> MemoryOrders(d, call)
    [] call.name = "setPosition"         -> MemoryPositions(d, call)
    [] call.name = "addTrade"            -> MemoryTrades(d, call)
    [] call.name = "upsertSettlement"    -> MemorySettlements(d, call)
    [] call.name = "claimEvent"          -> MemoryEvents(d, call)

-----------------------------------------------------------------------------
(* Turns. *)

Idle == todo = <<>> /\ running = <<>>

\* A turn leaves the user's state as view and makes the calls.
Turn(u, view, calls) ==
  /\ Idle
  /\ mem' = [mem EXCEPT ![u] = view]
  /\ todo' = calls
  /\ UNCHANGED <<db, twin, running, kills, torn>>

Save(u, balance) == Call("saveBalance", u, None, balance)

Loaded(u) == mem[u] # None

\* getOrCreate, on the first mention of a user.
Load(u) ==
  /\ ~ Loaded(u)
  /\ Turn(u, View(db, u),
          <<Call("ensureUser", u, None, None)>> \o
          (IF db.balances[u] = None THEN <<Save(u, NoBalance)>> ELSE <<>>))
  /\ UNCHANGED <<seen, handling, sent>>

\* issueIntentNonce: the nonce is drawn at random.
IssueNonce(u, n) ==
  /\ Loaded(u)
  /\ db.nonces[n] = None
  /\ Turn(u, mem[u], <<Call("issueNonce", u, n, None)>>)
  /\ UNCHANGED <<seen, handling, sent>>

\* consumeIntentNonce and recordVerifiedIntent, for an intent signed by its user.
VerifyIntent(u, n) ==
  /\ Loaded(u)
  /\ db.nonces[n] = <<u, "ISSUED">>
  /\ Turn(u, mem[u], <<Call("useNonce", u, n, None),
                       Call("recordIntent", u, n, Intent("VERIFIED", None))>>)
  /\ UNCHANGED <<seen, handling, sent>>

\* expireSignedIntent.
ExpireIntent(u, n) ==
  /\ Loaded(u)
  /\ db.nonces[n] = <<u, "USED">> /\ db.intents[n].status = "VERIFIED"
  /\ Turn(u, mem[u], <<Call("markIntent", u, n, Intent("EXPIRED", None))>>)
  /\ UNCHANGED <<seen, handling, sent>>

\* Mutation: a client order id may be used twice.
UsedAtMostOnce(u, c) == db.trades[u][c] < 2

\* assertUniqueClientOrderId.
UniqueClientOrderId(u, c) ==
  /\ c \notin mem[u].orders
  /\ db.orders[u][c] = 0
  /\ <<u, c>> \notin db.keys

\* Mutation: the row of every closed position is deleted.
StoredWhileOpen(position) == IF position.quantity = 0 THEN None ELSE position

\* setPosition: a closed position without realized P&L has no row.
Stored(position) == IF position = NoPosition THEN None ELSE position

\* placeOrder's writes for a purchase or a sale with a gain.
Fill(u, c, position, gain) ==
  LET balance == [mem[u].balance EXCEPT !.pnl = @ + gain] IN
  /\ Loaded(u)
  /\ UniqueClientOrderId(u, c)
  /\ position.quantity \in 0..MaxQuantity
  /\ balance.pnl \in -MaxPnl..MaxPnl /\ position.realized \in -MaxPnl..MaxPnl
  /\ Turn(u, [mem[u] EXCEPT !.position = position, !.balance = balance,
                            !.orders = @ \union {c}, !.trades = @ \union {c}],
          <<Call("setPosition", u, None, Stored(position)),
            Save(u, balance),
            Call("addOrder", u, c, None),
            Call("addKey", u, c, None),
            Call("addTrade", u, c, None)>>)
  /\ UNCHANGED <<seen, handling, sent>>

Buy(u, c) ==
  Loaded(u) /\ Fill(u, c, [mem[u].position EXCEPT !.quantity = @ + 1], 0)

Sell(u, c, gain) ==
  /\ Loaded(u)
  /\ mem[u].position.quantity > 0
  /\ Fill(u, c, [mem[u].position EXCEPT !.quantity = @ - 1, !.realized = @ + gain], gain)

\* recordIndexedChainEvent: claimed by this process, or in the table already.
Fresh(log) == log \notin seen /\ log \notin db.events

\* handleDeposited and applyIndexedDeposit.
IndexDeposit(u, log) ==
  LET balance == [mem[u].balance EXCEPT !.collateral = @ + 1] IN
  /\ Loaded(u)
  /\ Fresh(log)
  /\ balance.collateral <= MaxCollateral
  /\ Turn(u, [mem[u] EXCEPT !.balance = balance],
          <<Call("claimEvent", u, log, None), Save(u, balance)>>)
  /\ seen' = seen \union {log}
  /\ UNCHANGED <<handling, sent>>

-----------------------------------------------------------------------------
(* Settlements. *)

Request(user, type, amount, intents) ==
  [user |-> user, type |-> type, amount |-> amount, intents |-> intents]

Verified(u) == {n \in Intents : db.nonces[n] = <<u, "USED">> /\ db.intents[n].status = "VERIFIED"}

\* beginOnchainSettlement; the amount of a P&L settlement is the whole P&L and
\* it links all order intents.
BeginSettlement(u, s, type, amount, intents) ==
  /\ Loaded(u) /\ mem[u].inFlight = None
  /\ sent[s] = None
  /\ amount # 0
  /\ IF type = "TRADING_PNL" THEN amount = mem[u].balance.pnl /\ intents = Verified(u)
                             ELSE intents \subseteq Verified(u)
  /\ Turn(u, [mem[u] EXCEPT !.inFlight = s], <<>>)
  /\ sent' = [sent EXCEPT ![s] = Request(u, type, amount, intents)]
  /\ handling' = handling \union {s}
  /\ UNCHANGED seen

Upsert(s, record) == Call("upsertSettlement", record.row.user, s, record)

\* recordOnchainSettlementSubmitted: unless the indexer was faster.
RecordSubmitted(s) ==
  LET r == sent[s]
      u == r.user
      record == [row |-> Row(u, r.type, r.amount, "ONCHAIN_SUBMITTED"), intents |-> r.intents]
  IN
  /\ s \in handling /\ Loaded(u)
  /\ mem[u].settlements[s] = None
  /\ Turn(u, [mem[u] EXCEPT !.inFlight = s, !.settlements[s] = record],
          <<Upsert(s, record)>>)
  /\ UNCHANGED <<seen, handling, sent>>

\* The context a confirmation is recorded with: the record, or else whatever
\* is in flight for the user.
Context(u, s) ==
  LET record == mem[u].settlements[s]
      flight == mem[u].inFlight
  IN CASE record # None -> [type |-> record.row.type, intents |-> record.intents]
       [] record = None /\ flight # None ->
            [type |-> sent[flight].type, intents |-> sent[flight].intents]
       [] OTHER -> [type |-> "GENERIC", intents |-> {}]

\* Mutation: every confirmation counts.
NeverConfirmed(u, s) == FALSE

AlreadyConfirmed(u, s) ==
  mem[u].settlements[s] # None /\ mem[u].settlements[s].row.status = "ONCHAIN_CONFIRMED"

\* consumeSignedIntents.
Consume(s, intents) ==
  [i \in 1..Cardinality(intents) |->
     Call("markIntent", sent[s].user, Numbering(intents)[i], Intent("CONSUMED", s))]

\* applyIndexedSettlement: the calls it makes, after those its caller makes
\* before, and with the consumption of the intents if its caller goes on to it;
\* newBalance is what the log says.
ApplySettlement(u, s, newBalance, before, consuming) ==
  LET v == mem[u]
      amount == sent[s].amount
      context == Context(u, s)
      balance == [collateral |-> newBalance,
                  pnl |-> v.balance.pnl - (IF context.type = "TRADING_PNL" THEN amount ELSE 0)]
      record == [row |-> Row(u, context.type, amount, "ONCHAIN_CONFIRMED"),
                 intents |-> context.intents]
      after(intents) == IF consuming THEN Consume(s, intents) ELSE <<>>
      released == v.inFlight # None /\ (v.inFlight = s \/ sent[v.inFlight].amount = amount)
  IN
  IF AlreadyConfirmed(u, s)
  THEN Turn(u, v, before \o after(v.settlements[s].intents))
  ELSE /\ balance.pnl \in -MaxPnl..MaxPnl
       /\ Turn(u, [v EXCEPT !.balance = balance,
                            !.inFlight = IF released THEN None ELSE @,
                            !.settlements[s] = record],
               before \o <<Save(u, balance), Upsert(s, record)>> \o after(record.intents))

\* handleSettlementApplied and handlePnlSettled: the transaction's two logs.
IndexSettlement(log, newBalance) ==
  LET s == log[1]  u == sent[s].user IN
  /\ sent[s] # None /\ Loaded(u)
  /\ Fresh(log)
  /\ ApplySettlement(u, s, newBalance, <<Call("claimEvent", u, log, None)>>, FALSE)
  /\ seen' = seen \union {log}
  /\ UNCHANGED <<handling, sent>>

\* submitSettlement after its receipt.
ConfirmSettlement(s, newBalance) ==
  LET u == sent[s].user IN
  /\ s \in handling /\ Loaded(u)
  /\ mem[u].settlements[s] # None
  /\ ApplySettlement(u, s, newBalance, <<>>, TRUE)
  /\ handling' = handling \ {s}
  /\ UNCHANGED <<seen, sent>>

\* clearOnchainSettlementInFlight, whatever is in flight by now.
AbandonSettlement(s) ==
  LET u == sent[s].user IN
  /\ s \in handling /\ Loaded(u)
  /\ Turn(u, [mem[u] EXCEPT !.inFlight = None], <<>>)
  /\ handling' = handling \ {s}
  /\ UNCHANGED <<seen, sent>>

-----------------------------------------------------------------------------
(* Statements and kills. *)

\* The next call begins with its first statement.
BeginCall ==
  /\ running = <<>> /\ todo # <<>>
  /\ db' = Sqlite(db, Head(Statements(Head(todo))))
  /\ running' = Tail(Statements(Head(todo)))
  /\ todo' = Tail(todo)
  /\ twin' = IF twin = None THEN None ELSE Memory(twin, Head(todo))
  /\ UNCHANGED <<mem, seen, handling, sent, kills, torn>>

ContinueCall ==
  /\ running # <<>>
  /\ db' = Sqlite(db, Head(running))
  /\ running' = Tail(running)
  /\ UNCHANGED <<todo, twin, mem, seen, handling, sent, kills, torn>>

\* The calls of a name not yet carried out.
Pending(name) == {call \in Range(todo) \union Range(running) : call.name = name}

\* The users for whom a turn has written the first part of what belongs
\* together and not the last: a fill whose position is stored and whose P&L is
\* not; a confirmation whose balance is stored and whose record is not, so that
\* the transaction's other log, or the same one if it was not claimed, takes the
\* P&L off again.
HalfWritten ==
  IF Pending("saveBalance") # {}
  THEN IF Pending("setPosition") = {} THEN {call.user : call \in Pending("addOrder")} ELSE {}
  ELSE {call.user : call \in {c \in Pending("upsertSettlement") :
                                c.value.row.status = "ONCHAIN_CONFIRMED"}}

\* The process is killed; the next one starts from the file.
Kill ==
  /\ kills < MaxKills
  /\ kills' = kills + 1
  /\ torn' = torn \union HalfWritten
  /\ twin' = None
  /\ mem' = [u \in Users |-> None] /\ seen' = {} /\ handling' = {}
  /\ todo' = <<>> /\ running' = <<>>
  /\ UNCHANGED <<db, sent>>

Next ==
  \/ BeginCall \/ ContinueCall \/ Kill
  \/ \E u \in Users :
       \/ Load(u)
       \/ \E n \in Intents : IssueNonce(u, n) \/ VerifyIntent(u, n) \/ ExpireIntent(u, n)
       \/ \E c \in Orders : Buy(u, c) \/ \E gain \in Deltas \union {0} : Sell(u, c, gain)
       \/ \E log \in Deposits : IndexDeposit(u, log)
       \/ \E s \in Settlements, intents \in SUBSET Intents :
            \/ \E amount \in -MaxPnl..MaxPnl : BeginSettlement(u, s, "TRADING_PNL", amount, intents)
            \/ \E amount \in Deltas : BeginSettlement(u, s, "GENERIC", amount, intents)
  \/ \E log \in SettlementLogs, newBalance \in 0..MaxCollateral : IndexSettlement(log, newBalance)
  \/ \E s \in Settlements :
       \/ RecordSubmitted(s) \/ AbandonSettlement(s)
       \/ \E newBalance \in 0..MaxCollateral : ConfirmSettlement(s, newBalance)

Spec == Init /\ [][Next]_vars
-----------------------------------------------------------------------------
\* Between two turns, what the ledger answers from memory about a user it has
\* loaded is what a restarted process would read from the file, the in-flight
\* mark excepted: a restart loses nothing and revives nothing.
CacheMatchesStore ==
  Idle => \A u \in Users :
    Loaded(u) => [mem[u] EXCEPT !.inFlight = None] = View(db, u)

\* Between two turns the memory backend and SQLite hold the same rows after the
\* same calls, although they detect duplicates by different keys.
BackendsAgree == Idle /\ twin # None => twin = db

\* No statement of any turn is refused by a foreign key, whatever was killed
\* before: a refusal would leave the turn half written.
NoStatementRefused ==
  /\ running # <<>> => References(db, Head(running))
  /\ running = <<>> /\ todo # <<>> => References(db, Head(Statements(Head(todo))))

Settled(u) ==
  SumOver(Settlements, [s \in Settlements |->
             IF /\ db.settlements[s] # None
                /\ db.settlements[s].user = u
                /\ db.settlements[s].type = "TRADING_PNL"
                /\ db.settlements[s].status = "ONCHAIN_CONFIRMED"
             THEN db.settlements[s].amount ELSE 0])

\* In the file, the P&L a user's fills have realized is either still pending or
\* in a confirmed P&L settlement, and in one only: across restarts, repeated
\* client orders, the two logs of a settlement and its handler.  The only
\* exceptions are kills in the two windows of HalfWritten.
BooksBalance ==
  Idle => \A u \in Users \ torn :
    OrNothing(db.positions[u], NoPosition).realized =
      OrNothing(db.balances[u], NoBalance).pnl + Settled(u)

\* An intent is marked CONSUMED only when its link to the settlement is in the
\* file, so that no kill leaves a consumed intent no report accounts for.
ConsumedIsLinked ==
  \A n \in Intents :
    db.intents[n].status = "CONSUMED" => <<db.intents[n].by, n>> \in db.links
=============================================================================
