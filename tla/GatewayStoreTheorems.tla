---------------------- MODULE GatewayStoreTheorems ----------------------
(***************************************************************************)
(* What holds of GatewayStore for any number of users, orders, intents and *)
(* settlements and any number of kills.                                    *)
(*                                                                         *)
(* TypeInv types the database and the queues and says which calls of a     *)
(* turn may follow which (Ordered). Turned(u) sums up what any turn does   *)
(* to the memory and the queues, so that each invariant has four cases:    *)
(* BeginCall, ContinueCall, Kill and a turn (the lemma Steps). On top lie  *)
(* ReferencesInv (nothing refers to a missing row), CacheInv (memory is    *)
(* the file once the queues are written), ConsumedInv (who may consume),   *)
(* TwinInv (where the memory backend stands) and BooksInv (what the books  *)
(* will be).                                                               *)
(***************************************************************************)
EXTENDS GatewayStore, ArithmeticTheorems

-----------------------------------------------------------------------------
(* Sequences of calls. *)

LEMMA HeadAndTail ==
  ASSUME NEW S, NEW s \in Seq(S), s # <<>>
  PROVE  /\ Head(s) \in S /\ Tail(s) \in Seq(S)
         /\ 1 \in DOMAIN s /\ s[1] = Head(s)
         /\ \A i \in DOMAIN Tail(s) : i \in Nat /\ i + 1 \in DOMAIN s /\ Tail(s)[i] = s[i + 1]
         /\ \A c : c \in Range(s) <=> c = Head(s) \/ c \in Range(Tail(s))
         /\ Head(s) \in S
<1>1. PICK n \in Nat : n = Len(s) /\ n > 0
  OBVIOUS
<1>2. /\ Head(s) \in S /\ Tail(s) \in Seq(S) /\ s[1] = Head(s)
      /\ DOMAIN s = 1..n /\ DOMAIN Tail(s) = 1..(n - 1)
      /\ \A i \in 1..(n - 1) : Tail(s)[i] = s[i + 1]
  BY <1>1
<1>3. /\ \A i \in 1..(n - 1) : i \in Nat /\ i + 1 \in 1..n
      /\ \A i \in 1..n : i = 1 \/ \E j \in 1..(n - 1) : i = j + 1
  <2>1. ASSUME NEW i \in 1..n, i # 1
        PROVE  \E j \in 1..(n - 1) : i = j + 1
    <3>1. i - 1 \in 1..(n - 1) /\ i = (i - 1) + 1
      BY <1>1, <2>1
    <3> QED
      BY <3>1
  <2> QED
    BY <1>1, <2>1
<1>4. ASSUME NEW c
      PROVE  c \in Range(s) <=> c = Head(s) \/ c \in Range(Tail(s))
  <2>1. ASSUME NEW i \in 1..n
        PROVE  s[i] = Head(s) \/ s[i] \in Range(Tail(s))
    <3>1. CASE i = 1
      BY <1>2, <3>1
    <3>2. CASE i # 1
      <4>1. PICK j \in 1..(n - 1) : i = j + 1
        BY <1>3, <3>2
      <4>2. Tail(s)[j] = s[i] /\ j \in DOMAIN Tail(s)
        BY <1>2, <4>1
      <4> QED
        BY <4>2 DEF Range
    <3> QED
      BY <3>1, <3>2
  <2>2. ASSUME NEW i \in 1..(n - 1)
        PROVE  Tail(s)[i] \in Range(s)
    BY <1>2, <1>3, <2>2 DEF Range
  <2>3. Head(s) \in Range(s)
    BY <1>1, <1>2 DEF Range
  <2> QED
    BY <1>2, <2>1, <2>2, <2>3 DEF Range
<1> QED
  BY <1>1, <1>2, <1>3, <1>4

LEMMA RangeTyped ==
  ASSUME NEW S, NEW s \in Seq(S)
  PROVE  /\ \A c \in Range(s) : c \in S
         /\ \A i \in DOMAIN s : i \in Nat /\ s[i] \in S /\ s[i] \in Range(s)
         /\ \A c \in Range(s) : \E i \in DOMAIN s : s[i] = c
         /\ s = <<>> <=> Range(s) = {}
<1>1. DOMAIN s = 1..Len(s) /\ Len(s) \in Nat
  OBVIOUS
<1>2. /\ \A c \in Range(s) : \E i \in DOMAIN s : s[i] = c
      /\ \A i \in DOMAIN s : s[i] \in Range(s)
  BY DEF Range
<1>3. \A i \in DOMAIN s : i \in Nat /\ s[i] \in S
  BY <1>1
<1>4. s # <<>> => 1 \in DOMAIN s
  BY <1>1
<1>5. s = <<>> => Range(s) = {}
  BY DEF Range
<1> QED
  BY <1>2, <1>3, <1>4, <1>5

LEMMA EmptyRange == Range(<<>>) = {} /\ DOMAIN <<>> = {} /\ Len(<<>>) = 0
BY DEF Range

LEMMA ConcatRange ==
  ASSUME NEW S, NEW s \in Seq(S), NEW t \in Seq(S)
  PROVE  /\ s \o t \in Seq(S)
         /\ \A c : c \in Range(s \o t) <=> c \in Range(s) \/ c \in Range(t)
<1>1. PICK n \in Nat : n = Len(s)
  OBVIOUS
<1>2. PICK m \in Nat : m = Len(t)
  OBVIOUS
<1>3. /\ s \o t \in Seq(S)
      /\ DOMAIN s = 1..n /\ DOMAIN t = 1..m /\ DOMAIN (s \o t) = 1..(n + m)
      /\ \A i \in 1..(n + m) : (s \o t)[i] = IF i <= n THEN s[i] ELSE t[i - n]
  BY <1>1, <1>2
<1>4. \A i \in 1..n : (s \o t)[i] = s[i] /\ i \in 1..(n + m)
  BY <1>3
<1>5. ASSUME NEW i \in 1..m
      PROVE  (s \o t)[n + i] = t[i] /\ n + i \in 1..(n + m)
  <2>1. n + i \in 1..(n + m) /\ ~ (n + i <= n) /\ (n + i) - n = i
    OBVIOUS
  <2> QED
    BY <1>3, <2>1
<1>6. ASSUME NEW i \in 1..(n + m)
      PROVE  i \in 1..n \/ (i - n \in 1..m /\ (s \o t)[i] = t[i - n])
  BY <1>3
<1>7. ASSUME NEW c, c \in Range(s \o t)
      PROVE  c \in Range(s) \/ c \in Range(t)
  <2>1. PICK i \in 1..(n + m) : c = (s \o t)[i]
    BY <1>3, <1>7 DEF Range
  <2> QED
    BY <1>3, <1>4, <1>6, <2>1 DEF Range
<1>8. ASSUME NEW c, c \in Range(s)
      PROVE  c \in Range(s \o t)
  BY <1>3, <1>4, <1>8 DEF Range
<1>9. ASSUME NEW c, c \in Range(t)
      PROVE  c \in Range(s \o t)
  <2>1. PICK i \in 1..m : c = t[i]
    BY <1>3, <1>9 DEF Range
  <2> QED
    BY <1>3, <1>5, <2>1 DEF Range
<1> QED
  BY <1>3, <1>7, <1>8, <1>9

-----------------------------------------------------------------------------
(* Types. *)

IntentRows == [status : {"NONE", "VERIFIED", "EXPIRED", "CONSUMED"}, by : {None} \union Settlements]

Databases ==
  [users : SUBSET Users,
   balances : [Users -> {None} \union Balances],
   positions : [Users -> {None} \union Positions],
   orders : [Users -> [Orders -> Nat]],
   keys : SUBSET (Users \X Orders),
   trades : [Users -> [Orders -> Nat]],
   nonces : [Intents -> {None} \union (Users \X {"ISSUED", "USED"})],
   intents : [Intents -> IntentRows],
   settlements : [Settlements -> {None} \union Rows],
   links : SUBSET (Settlements \X Intents),
   events : SUBSET Logs]

\* What a repository call passes on.
OrderNames == {"addOrder", "addKey", "addTrade"}
NonceNames == {"issueNonce", "useNonce"}
CallNames ==
  {"ensureUser", "saveBalance", "setPosition", "recordIntent", "markIntent",
   "upsertSettlement", "claimEvent"} \union OrderNames \union NonceNames
StatementNames == {"upsertRow", "unlink", "link"}

Keys == {None} \union Intents \union Orders \union Logs \union Settlements
Values ==
  {None} \union Balances \union Positions \union IntentRows \union Rows \union Records
    \union Intents

WellFormed(c) ==
  /\ c.name = "saveBalance" => c.value \in Balances
  /\ c.name = "setPosition" => c.value \in {None} \union Positions
  /\ c.name \in OrderNames => c.key \in Orders
  /\ c.name \in NonceNames => c.key \in Intents
  /\ c.name = "recordIntent" =>
       c.key \in Intents /\ c.value \in IntentRows /\ c.value.status = "VERIFIED"
  /\ c.name = "markIntent" =>
       /\ c.key \in Intents /\ c.value \in IntentRows
       /\ \/ c.value.status = "EXPIRED"
          \/ c.value.status = "CONSUMED" /\ c.value.by \in Settlements
  /\ c.name = "upsertSettlement" => c.key \in Settlements /\ c.value \in Records
  /\ c.name = "upsertRow" => c.key \in Settlements /\ c.value \in Rows
  /\ c.name = "unlink" => c.key \in Settlements
  /\ c.name = "link" => c.key \in Settlements /\ c.value \in Intents
  /\ c.name = "claimEvent" => c.key \in Logs

Calls ==
  {c \in [name : CallNames \union StatementNames, user : Users, key : Keys, value : Values] :
     WellFormed(c)}

\* What the code never does after a call or statement: it stores a position
\* first, issues a nonce on its own, saves a balance before the order and the
\* settlement, and marks intents last.
MayFollow(c, d) ==
  /\ d.name \notin {"setPosition", "issueNonce", "unlink"}
  /\ d.name = "addOrder" => c.name # "addOrder"
  /\ d.name = "saveBalance" => c.name \notin {"saveBalance", "addOrder", "upsertSettlement"}
  /\ d.name = "upsertSettlement" => c.name \notin {"upsertSettlement", "markIntent"}

Ordered(s) == \A i, j \in DOMAIN s : i < j => MayFollow(s[i], s[j])

TypeInv ==
  /\ db \in Databases
  /\ mem \in [Users -> {None} \union Views]
  /\ sent \in [Settlements -> {None} \union Requests]
  /\ handling \subseteq Settlements /\ \A s \in handling : sent[s] # None
  /\ todo \in Seq(Calls) /\ running \in Seq(Calls)
  /\ \A c \in Range(todo) : c.name \in CallNames
  /\ \A c \in Range(running) :
       c.name \in {"saveBalance", "issueNonce", "recordIntent", "unlink", "link"}
  /\ Ordered(todo) /\ Ordered(running)
  /\ \A c \in Range(running), d \in Range(todo) : MayFollow(c, d)
  /\ \A c, d \in Range(todo) \union Range(running) : c.user = d.user

-----------------------------------------------------------------------------
(* Order. *)

LEMMA OrderedTail ==
  ASSUME NEW S, NEW s \in Seq(S), s # <<>>, Ordered(s)
  PROVE  Ordered(Tail(s)) /\ \A c \in Range(Tail(s)) : MayFollow(Head(s), c)
<1>1. /\ 1 \in DOMAIN s /\ s[1] = Head(s) /\ Tail(s) \in Seq(S)
      /\ \A i \in DOMAIN Tail(s) : i \in Nat /\ i + 1 \in DOMAIN s /\ Tail(s)[i] = s[i + 1]
  BY HeadAndTail
<1>2. ASSUME NEW i \in DOMAIN Tail(s), NEW j \in DOMAIN Tail(s), i < j
      PROVE  MayFollow(Tail(s)[i], Tail(s)[j])
  <2>1. i + 1 < j + 1
    BY <1>1, <1>2
  <2> QED
    BY <1>1, <1>2, <2>1 DEF Ordered
<1>3. ASSUME NEW c \in Range(Tail(s))
      PROVE  MayFollow(Head(s), c)
  <2>1. PICK i \in DOMAIN Tail(s) : Tail(s)[i] = c
    BY <1>1, RangeTyped
  <2>2. i \in Nat /\ i >= 1
    <3>1. PICK n \in Nat : n = Len(Tail(s))
      BY <1>1
    <3> QED
      BY <1>1, <3>1
  <2>3. 1 < i + 1
    BY <2>2
  <2> QED
    BY <1>1, <2>1, <2>3 DEF Ordered
<1> QED
  BY <1>2, <1>3 DEF Ordered

LEMMA ConcatOrdered ==
  ASSUME NEW S, NEW s \in Seq(S), NEW t \in Seq(S), Ordered(s), Ordered(t),
         \A c \in Range(s), d \in Range(t) : MayFollow(c, d)
  PROVE  Ordered(s \o t)
<1>1. PICK n \in Nat : n = Len(s)
  OBVIOUS
<1>2. PICK m \in Nat : m = Len(t)
  OBVIOUS
<1>3. /\ DOMAIN s = 1..n /\ DOMAIN t = 1..m /\ DOMAIN (s \o t) = 1..(n + m)
      /\ \A i \in 1..(n + m) : (s \o t)[i] = IF i <= n THEN s[i] ELSE t[i - n]
  BY <1>1, <1>2
<1>4. ASSUME NEW i \in 1..(n + m), NEW j \in 1..(n + m), i < j
      PROVE  MayFollow((s \o t)[i], (s \o t)[j])
  <2>1. CASE j <= n
    <3>1. i \in 1..n /\ j \in 1..n /\ i <= n
      BY <1>4, <2>1
    <3>2. (s \o t)[i] = s[i] /\ (s \o t)[j] = s[j]
      BY <1>3, <2>1, <3>1
    <3> QED
      BY <1>3, <1>4, <3>1, <3>2 DEF Ordered
  <2>2. CASE i > n
    <3>1. i - n \in 1..m /\ j - n \in 1..m /\ i - n < j - n /\ ~ (i <= n) /\ ~ (j <= n)
      BY <1>4, <2>2
    <3>2. (s \o t)[i] = t[i - n] /\ (s \o t)[j] = t[j - n]
      BY <1>3, <3>1
    <3> QED
      BY <1>3, <3>1, <3>2 DEF Ordered
  <2>3. CASE i <= n /\ ~ (j <= n)
    <3>1. i \in 1..n /\ j - n \in 1..m
      BY <1>4, <2>3
    <3>2. (s \o t)[i] = s[i] /\ (s \o t)[j] = t[j - n]
      BY <1>3, <2>3
    <3>3. s[i] \in Range(s) /\ t[j - n] \in Range(t)
      BY <1>3, <3>1 DEF Range
    <3> QED
      BY <3>2, <3>3
  <2>4. j <= n \/ i > n \/ (i <= n /\ ~ (j <= n))
    BY <1>4
  <2> QED
    BY <2>1, <2>2, <2>3, <2>4, Zenon
<1> QED
  BY <1>3, <1>4 DEF Ordered

\* One call or statement.
LEMMA Single ==
  ASSUME NEW S, NEW c \in S
  PROVE  /\ <<c>> \in Seq(S) /\ Ordered(<<c>>)
         /\ \A x : x \in Range(<<c>>) <=> x = c
<1>1. DOMAIN <<c>> = {1} /\ <<c>>[1] = c
  OBVIOUS
<1>2. Ordered(<<c>>)
  BY <1>1 DEF Ordered
<1> QED
  BY <1>1, <1>2 DEF Range

LEMMA EmptyOrdered == Ordered(<<>>)
BY EmptyRange DEF Ordered


-----------------------------------------------------------------------------
(* What a statement does to the tables. *)

LEMMA DatabaseColumns ==
  ASSUME NEW d \in Databases
  PROVE  /\ d.users \subseteq Users
         /\ d.balances \in [Users -> {None} \union Balances]
         /\ d.positions \in [Users -> {None} \union Positions]
         /\ d.orders \in [Users -> [Orders -> Nat]]
         /\ d.keys \subseteq Users \X Orders
         /\ d.trades \in [Users -> [Orders -> Nat]]
         /\ d.nonces \in [Intents -> {None} \union (Users \X {"ISSUED", "USED"})]
         /\ d.intents \in [Intents -> IntentRows]
         /\ d.settlements \in [Settlements -> {None} \union Rows]
         /\ d.links \subseteq Settlements \X Intents
         /\ d.events \subseteq Logs
BY DEF Databases

\* Each statement writes one table.
Tables(d, e, c) ==
  /\ e.users = IF c.name = "ensureUser" THEN d.users \union {c.user}
       ELSE d.users
  /\ e.balances = IF c.name = "saveBalance" THEN [d.balances EXCEPT ![c.user] = c.value]
       ELSE d.balances
  /\ e.positions = IF c.name = "setPosition" THEN [d.positions EXCEPT ![c.user] = c.value]
       ELSE d.positions
  /\ e.orders = IF c.name = "addOrder" THEN [d.orders EXCEPT ![c.user][c.key] = InsertOnce(@)]
       ELSE d.orders
  /\ e.keys = IF c.name = "addKey" THEN d.keys \union {<<c.user, c.key>>}
       ELSE d.keys
  /\ e.trades = IF c.name = "addTrade" THEN [d.trades EXCEPT ![c.user][c.key] = @ + 1]
       ELSE d.trades
  /\ e.nonces =
       IF c.name = "issueNonce" THEN [d.nonces EXCEPT ![c.key] = IF @ = None THEN <<c.user, "ISSUED">> ELSE @]
       ELSE IF c.name = "useNonce" THEN [d.nonces EXCEPT ![c.key] = <<c.user, "USED">>]
       ELSE d.nonces
  /\ e.intents =
       IF c.name = "recordIntent" THEN [d.intents EXCEPT ![c.key] = IF @ = NoIntent THEN c.value ELSE @]
       ELSE IF c.name = "markIntent" THEN [d.intents EXCEPT ![c.key] = c.value]
       ELSE d.intents
  /\ e.settlements = IF c.name = "upsertRow" THEN [d.settlements EXCEPT ![c.key] = c.value]
       ELSE d.settlements
  /\ e.links = IF c.name = "unlink" THEN {l \in d.links : l[1] # c.key}
       ELSE IF c.name = "link" THEN d.links \union {<<c.key, c.value>>}
       ELSE d.links
  /\ e.events = IF c.name = "claimEvent" THEN d.events \union {c.key}
       ELSE d.events

LEMMA StatementTables ==
  ASSUME NEW d \in Databases, NEW c \in Calls, c.name # "upsertSettlement"
  PROVE  Tables(d, Sqlite(d, c), c)
<1> DEFINE e == Sqlite(d, c)
<1> USE DEF Tables, LedgerCalls, IntentCalls, OrderCalls
<1>0. d = [users |-> d.users, balances |-> d.balances, positions |-> d.positions,
           orders |-> d.orders, keys |-> d.keys, trades |-> d.trades, nonces |-> d.nonces,
           intents |-> d.intents, settlements |-> d.settlements, links |-> d.links,
           events |-> d.events]
  BY DEF Databases
<1>1. CASE c.name = "ensureUser"
  <2>1. e = [d EXCEPT !.users = d.users \union {c.user}]
    BY <1>1 DEF Sqlite, LedgerTables
  <2> HIDE DEF e
  <2> QED
    BY <1>0, <1>1, <2>1 DEF e
<1>2. CASE c.name = "saveBalance"
  <2>1. e = [d EXCEPT !.balances = [d.balances EXCEPT ![c.user] = c.value]]
    BY <1>2 DEF Sqlite, LedgerTables
  <2> HIDE DEF e
  <2> QED
    BY <1>0, <1>2, <2>1 DEF e
<1>3. CASE c.name = "issueNonce"
  <2>1. e = [d EXCEPT !.nonces =
             [d.nonces EXCEPT ![c.key] = IF @ = None THEN <<c.user, "ISSUED">> ELSE @]]
    BY <1>3 DEF Sqlite, IntentTables
  <2> HIDE DEF e
  <2> QED
    BY <1>0, <1>3, <2>1 DEF e
<1>4. CASE c.name = "useNonce"
  <2>1. e = [d EXCEPT !.nonces = [d.nonces EXCEPT ![c.key] = <<c.user, "USED">>]]
    BY <1>4 DEF Sqlite, IntentTables
  <2> HIDE DEF e
  <2> QED
    BY <1>0, <1>4, <2>1 DEF e
<1>5. CASE c.name = "recordIntent"
  <2>1. e = [d EXCEPT !.intents = [d.intents EXCEPT ![c.key] = IF @ = NoIntent THEN c.value ELSE @]]
    BY <1>5 DEF Sqlite, IntentTables
  <2> HIDE DEF e
  <2> QED
    BY <1>0, <1>5, <2>1 DEF e
<1>6. CASE c.name = "markIntent"
  <2>1. e = [d EXCEPT !.intents = [d.intents EXCEPT ![c.key] = c.value]]
    BY <1>6 DEF Sqlite, IntentTables
  <2> HIDE DEF e
  <2> QED
    BY <1>0, <1>6, <2>1 DEF e
<1>7. CASE c.name = "addOrder"
  <2>1. e = [d EXCEPT !.orders = [d.orders EXCEPT ![c.user][c.key] = InsertOnce(@)]]
    BY <1>7 DEF Sqlite, OrderTables
  <2> HIDE DEF e
  <2> QED
    BY <1>0, <1>7, <2>1 DEF e
<1>8. CASE c.name = "addKey"
  <2>1. e = [d EXCEPT !.keys = d.keys \union {<<c.user, c.key>>}]
    BY <1>8 DEF Sqlite, OrderTables
  <2> HIDE DEF e
  <2> QED
    BY <1>0, <1>8, <2>1 DEF e
<1>9. CASE c.name = "setPosition"
  <2>1. e = [d EXCEPT !.positions = [d.positions EXCEPT ![c.user] = c.value]]
    BY <1>9 DEF Sqlite, PositionTable
  <2> HIDE DEF e
  <2> QED
    BY <1>0, <1>9, <2>1 DEF e
<1>10. CASE c.name = "addTrade"
  <2>1. e = [d EXCEPT !.trades = [d.trades EXCEPT ![c.user][c.key] = @ + 1]]
    BY <1>10 DEF Sqlite, TradeTable
  <2> HIDE DEF e
  <2> QED
    BY <1>0, <1>10, <2>1 DEF e
<1>11. CASE c.name = "upsertRow"
  <2>1. e = [d EXCEPT !.settlements = [d.settlements EXCEPT ![c.key] = c.value]]
    BY <1>11 DEF Sqlite, SettlementTables
  <2> HIDE DEF e
  <2> QED
    BY <1>0, <1>11, <2>1 DEF e
<1>12. CASE c.name = "unlink"
  <2>1. e = [d EXCEPT !.links = {l \in d.links : l[1] # c.key}]
    BY <1>12 DEF Sqlite, SettlementTables
  <2> HIDE DEF e
  <2> QED
    BY <1>0, <1>12, <2>1 DEF e
<1>13. CASE c.name = "link"
  <2>1. e = [d EXCEPT !.links = d.links \union {<<c.key, c.value>>}]
    BY <1>13 DEF Sqlite, SettlementTables
  <2> HIDE DEF e
  <2> QED
    BY <1>0, <1>13, <2>1 DEF e
<1>14. CASE c.name = "claimEvent"
  <2>1. e = [d EXCEPT !.events = d.events \union {c.key}]
    BY <1>14 DEF Sqlite, EventTable
  <2> HIDE DEF e
  <2> QED
    BY <1>0, <1>14, <2>1 DEF e
<1> QED
  BY <1>1, <1>2, <1>3, <1>4, <1>5, <1>6, <1>7, <1>8,
     <1>9, <1>10, <1>11, <1>12, <1>13, <1>14
  DEF Calls, CallNames, StatementNames, OrderNames, NonceNames

LEMMA StatementTyped ==
  ASSUME NEW d \in Databases, NEW c \in Calls, c.name # "upsertSettlement"
  PROVE  Sqlite(d, c) \in Databases
<1> DEFINE e == Sqlite(d, c)
<1>1. Tables(d, e, c)
  BY StatementTables
<1>2. e = [users |-> e.users, balances |-> e.balances, positions |-> e.positions,
           orders |-> e.orders, keys |-> e.keys, trades |-> e.trades, nonces |-> e.nonces,
           intents |-> e.intents, settlements |-> e.settlements, links |-> e.links,
           events |-> e.events]
  <2>1. d = [users |-> d.users, balances |-> d.balances, positions |-> d.positions,
             orders |-> d.orders, keys |-> d.keys, trades |-> d.trades, nonces |-> d.nonces,
             intents |-> d.intents, settlements |-> d.settlements, links |-> d.links,
             events |-> d.events]
    BY DEF Databases
  <2> QED
    BY <2>1 DEF Sqlite, LedgerCalls, IntentCalls, OrderCalls, LedgerTables, IntentTables,
       OrderTables, PositionTable, TradeTable, SettlementTables, EventTable, Calls, CallNames,
       StatementNames, OrderNames, NonceNames
<1>3. c.user \in Users /\ WellFormed(c)
  BY DEF Calls
<1> HIDE DEF e
<1> USE DatabaseColumns
<1>4. e.users \subseteq Users /\ e.balances \in [Users -> {None} \union Balances]
      /\ e.positions \in [Users -> {None} \union Positions]
  BY <1>1, <1>3 DEF Tables, WellFormed
<1>5. e.orders \in [Users -> [Orders -> Nat]]
  BY <1>1, <1>3 DEF Tables, WellFormed, OrderNames, InsertOnce
<1>6. e.keys \subseteq Users \X Orders
  BY <1>1, <1>3 DEF Tables, WellFormed, OrderNames
<1>7. e.trades \in [Users -> [Orders -> Nat]]
  BY <1>1, <1>3 DEF Tables, WellFormed, OrderNames
<1>8. e.nonces \in [Intents -> {None} \union (Users \X {"ISSUED", "USED"})]
  BY <1>1, <1>3 DEF Tables, WellFormed, NonceNames
<1>9. e.intents \in [Intents -> IntentRows]
  BY <1>1, <1>3 DEF Tables, WellFormed
<1>10. e.settlements \in [Settlements -> {None} \union Rows]
  BY <1>1, <1>3 DEF Tables, WellFormed
<1>11. e.links \subseteq Settlements \X Intents
  BY <1>1, <1>3 DEF Tables, WellFormed
<1>12. e.events \subseteq Logs
  BY <1>1, <1>3 DEF Tables, WellFormed
<1> QED
  BY <1>2, <1>4, <1>5, <1>6, <1>7, <1>8, <1>9, <1>10, <1>11, <1>12 DEF Databases, e

-----------------------------------------------------------------------------
(* What a call begins with, and what is left of it then. *)

LEMMA CallFields ==
  ASSUME NEW name, NEW user, NEW key, NEW value
  PROVE  LET c == Call(name, user, key, value) IN
         c.name = name /\ c.user = user /\ c.key = key /\ c.value = value
BY DEF Call

\* A call is a call if its parts are what its name asks for.
LEMMA CallTyped ==
  ASSUME NEW name \in CallNames \union StatementNames, NEW user \in Users,
         NEW key \in Keys, NEW value \in Values, WellFormed(Call(name, user, key, value))
  PROVE  Call(name, user, key, value) \in Calls
BY DEF Calls, Call

First(c) == Head(Statements(c))
Rest(c) == Tail(Statements(c))

Ensuring == {"saveBalance", "issueNonce", "recordIntent"}

LEMMA Subsets ==
  ASSUME NEW intents \in SUBSET Intents
  PROVE  /\ IsFiniteSet(intents) /\ Cardinality(intents) \in Nat
         /\ \A i \in 1..Cardinality(intents) : Numbering(intents)[i] \in intents
         /\ \A n \in intents : \E i \in 1..Cardinality(intents) : Numbering(intents)[i] = n
<1>1. IsFiniteSet(intents)
  BY FS_Subset, StoreAssumption
<1> QED
  BY <1>1, NumberingIsBijection

LEMMA LinksOf ==
  ASSUME NEW c \in Calls, c.name = "upsertSettlement"
  PROVE  /\ Links(c) \in Seq(Calls)
         /\ \A x : x \in Range(Links(c)) <=>
              \E n \in c.value.intents : x = Call("link", c.user, c.key, n)
<1> DEFINE linked == c.value.intents
           size == Cardinality(linked)
<1>1. c.user \in Users /\ c.key \in Settlements /\ linked \in SUBSET Intents
  BY DEF Calls, WellFormed, Records
<1>2. \A n \in linked : Call("link", c.user, c.key, n) \in Calls
  <2> SUFFICES ASSUME NEW n \in linked
               PROVE  Call("link", c.user, c.key, n) \in Calls
    OBVIOUS
  <2>1. n \in Intents
    BY <1>1
  <2> QED
    BY <1>1, <2>1, CallTyped, CallFields
    DEF WellFormed, CallNames, StatementNames, OrderNames, NonceNames, Keys, Values
<1>3. /\ size \in Nat
      /\ \A i \in 1..size : Numbering(linked)[i] \in linked
      /\ \A n \in linked : \E i \in 1..size : Numbering(linked)[i] = n
  BY <1>1, Subsets
<1>4. Links(c) = [i \in 1..size |-> Call("link", c.user, c.key, Numbering(linked)[i])]
  BY DEF Links
<1> HIDE DEF linked, size
<1>5. Links(c) \in Seq(Calls) /\ DOMAIN Links(c) = 1..size
  BY <1>2, <1>3, <1>4
<1>6. ASSUME NEW x
      PROVE  x \in Range(Links(c)) <=> \E n \in linked : x = Call("link", c.user, c.key, n)
  <2>1. x \in Range(Links(c)) <=> \E i \in 1..size : x = Links(c)[i]
    BY <1>5 DEF Range
  <2> QED
    BY <1>3, <1>4, <2>1
<1> QED
  BY <1>5, <1>6 DEF linked

LEMMA Beginnings ==
  ASSUME NEW c \in Calls, c.name \in CallNames
  PROVE  /\ Statements(c) # <<>> /\ Statements(c) \in Seq(Calls)
         /\ c.name \in Ensuring =>
              First(c) = Call("ensureUser", c.user, None, None) /\ Rest(c) = <<c>>
         /\ c.name = "upsertSettlement" =>
              /\ First(c) = Call("upsertRow", c.user, c.key, c.value.row)
              /\ Rest(c) = <<Call("unlink", c.user, c.key, None)>> \o Links(c)
         /\ c.name \notin Ensuring \union {"upsertSettlement"} => First(c) = c /\ Rest(c) = <<>>
<1>1. CASE c.name \in Ensuring
  <2>1. Statements(c) = <<Call("ensureUser", c.user, None, None), c>>
    BY <1>1 DEF Statements, Ensuring
  <2>2. Call("ensureUser", c.user, None, None) \in Calls
    BY CallTyped, CallFields
    DEF WellFormed, CallNames, StatementNames, OrderNames, NonceNames, Keys, Values, Calls
  <2> QED
    BY <1>1, <2>1, <2>2 DEF First, Rest, Ensuring
<1>2. CASE c.name = "upsertSettlement"
  <2> DEFINE row == Call("upsertRow", c.user, c.key, c.value.row)
             unlink == Call("unlink", c.user, c.key, None)
  <2>1. Statements(c) = <<row, unlink>> \o Links(c)
    BY <1>2 DEF Statements
  <2>2. c.user \in Users /\ c.key \in Settlements /\ c.value.row \in Rows
    BY <1>2 DEF Calls, WellFormed, Records
  <2>3. row \in Calls
    BY <2>2, CallTyped, CallFields
    DEF WellFormed, CallNames, StatementNames, OrderNames, NonceNames, Keys, Values
  <2>4. unlink \in Calls
    BY <2>2, CallTyped, CallFields
    DEF WellFormed, CallNames, StatementNames, OrderNames, NonceNames, Keys, Values
  <2>5. Links(c) \in Seq(Calls)
    BY <1>2, LinksOf
  <2> HIDE DEF row, unlink
  <2>6. /\ <<row, unlink>> \o Links(c) \in Seq(Calls)
        /\ <<row, unlink>> \o Links(c) # <<>>
        /\ Head(<<row, unlink>> \o Links(c)) = row
        /\ Tail(<<row, unlink>> \o Links(c)) = <<unlink>> \o Links(c)
    BY <2>3, <2>4, <2>5
  <2> QED
    BY <1>2, <2>1, <2>6 DEF First, Rest, Ensuring, row, unlink
<1>3. CASE c.name \notin Ensuring \union {"upsertSettlement"}
  <2>1. Statements(c) = <<c>>
    BY <1>3 DEF Statements, Ensuring
  <2> QED
    BY <1>3, <2>1 DEF First, Rest
<1> QED
  BY <1>1, <1>2, <1>3

\* What is left of a call that has begun.
LEMMA Leftovers ==
  ASSUME NEW c \in Calls, c.name \in CallNames
  PROVE  /\ First(c) \in Calls /\ First(c).user = c.user
         /\ First(c).name # "upsertSettlement" /\ Rest(c) \in Seq(Calls)
         /\ c.name \in Ensuring => \A x : x \in Range(Rest(c)) <=> x = c
         /\ c.name = "upsertSettlement" =>
              /\ Rest(c) # <<>> /\ Rest(c)[1].name = "unlink"
              /\ \A i \in DOMAIN Rest(c) : Rest(c)[i].name = "unlink" => i = 1
              /\ \A x : x \in Range(Rest(c)) <=>
                   \/ x = Call("unlink", c.user, c.key, None)
                   \/ \E n \in c.value.intents : x = Call("link", c.user, c.key, n)
         /\ c.name \notin Ensuring \union {"upsertSettlement"} => Range(Rest(c)) = {}
<1>1. First(c) \in Calls /\ Rest(c) \in Seq(Calls)
  BY Beginnings, HeadAndTail DEF First, Rest
<1>2. First(c).user = c.user /\ First(c).name # "upsertSettlement"
  <2>1. CASE c.name \in Ensuring
    <3>1. First(c) = Call("ensureUser", c.user, None, None)
      BY <2>1, Beginnings
    <3> QED
      BY <3>1, CallFields
  <2>2. CASE c.name = "upsertSettlement"
    <3>1. First(c) = Call("upsertRow", c.user, c.key, c.value.row)
      BY <2>2, Beginnings
    <3> QED
      BY <3>1, CallFields
  <2>3. CASE c.name \notin Ensuring \union {"upsertSettlement"}
    <3>1. First(c) = c
      BY <2>3, Beginnings
    <3> QED
      BY <2>3, <3>1
  <2> QED
    BY <2>1, <2>2, <2>3
<1>4. ASSUME c.name \in Ensuring
      PROVE  \A x : x \in Range(Rest(c)) <=> x = c
  <2>1. Rest(c) = <<c>>
    BY <1>4, Beginnings
  <2>2. DOMAIN <<c>> = {1} /\ <<c>>[1] = c
    OBVIOUS
  <2> QED
    BY <2>1, <2>2 DEF Range
<1>5. ASSUME c.name = "upsertSettlement"
      PROVE  /\ Rest(c) # <<>> /\ Rest(c)[1].name = "unlink"
             /\ \A i \in DOMAIN Rest(c) : Rest(c)[i].name = "unlink" => i = 1
             /\ \A x : x \in Range(Rest(c)) <=>
                  \/ x = Call("unlink", c.user, c.key, None)
                  \/ \E n \in c.value.intents : x = Call("link", c.user, c.key, n)
  <2> DEFINE unlink == Call("unlink", c.user, c.key, None)
  <2>1. Rest(c) = <<unlink>> \o Links(c)
    BY <1>5, Beginnings
  <2>2. Links(c) \in Seq(Calls)
    BY <1>5, LinksOf
  <2>3. c.user \in Users /\ c.key \in Settlements
    BY <1>5 DEF Calls, WellFormed
  <2>4. unlink \in Calls
    BY <2>3, CallTyped, CallFields
    DEF WellFormed, CallNames, StatementNames, OrderNames, NonceNames, Keys, Values
  <2>5. unlink.name = "unlink"
    BY CallFields
  <2>6. \A x : x \in Range(Links(c)) <=>
             \E n \in c.value.intents : x = Call("link", c.user, c.key, n)
    BY <1>5, LinksOf
  <2>7. <<unlink>> \in Seq(Calls) /\ Range(<<unlink>>) = {unlink}
    <3>1. DOMAIN <<unlink>> = {1} /\ <<unlink>>[1] = unlink
      OBVIOUS
    <3> HIDE DEF unlink
    <3> QED
      BY <2>4, <3>1 DEF Range
  <2> HIDE DEF unlink
  <2>8. \A x : x \in Range(Rest(c)) <=> x = unlink \/ x \in Range(Links(c))
    BY <2>1, <2>2, <2>7, ConcatRange
  <2>9. ASSUME NEW i \in DOMAIN Rest(c), i # 1
        PROVE  Rest(c)[i].name # "unlink"
    <3>1. Rest(c)[i] \in Range(Links(c))
      <4>1. PICK m \in Nat : m = Len(Links(c))
        BY <2>2
      <4>2. DOMAIN Rest(c) = 1..(1 + m) /\ i - 1 \in 1..m /\ Rest(c)[i] = Links(c)[i - 1]
        BY <2>1, <2>2, <2>4, <2>9, <4>1
      <4>3. DOMAIN Links(c) = 1..m
        BY <2>2, <4>1
      <4> QED
        BY <4>2, <4>3 DEF Range
    <3>2. PICK n \in c.value.intents : Rest(c)[i] = Call("link", c.user, c.key, n)
      BY <2>6, <3>1
    <3> QED
      BY <3>2, CallFields
  <2>10. Rest(c) # <<>> /\ Rest(c)[1] = unlink
    BY <2>1, <2>2, <2>4
  <2> QED
    BY <2>5, <2>6, <2>8, <2>9, <2>10 DEF unlink
<1>6. c.name \notin Ensuring \union {"upsertSettlement"} => Range(Rest(c)) = {}
  BY Beginnings, EmptyRange
<1> QED
  BY <1>1, <1>2, <1>4, <1>5, <1>6

RunningNames == {"saveBalance", "issueNonce", "recordIntent", "unlink", "link"}

LEMMA RestOrdered ==
  ASSUME NEW c \in Calls, c.name \in CallNames
  PROVE  /\ Ordered(Rest(c))
         /\ \A x \in Range(Rest(c)) :
              /\ x.user = c.user /\ x.name \in RunningNames
              /\ \A d : d.name \in CallNames /\ MayFollow(c, d) => MayFollow(x, d)
<1>1. CASE c.name \in Ensuring
  <2>1. Rest(c) = <<c>>
    BY <1>1, Beginnings
  <2>2. Ordered(Rest(c)) /\ \A x \in Range(Rest(c)) : x = c
    BY <2>1, Single
  <2> QED
    BY <1>1, <2>2 DEF Ensuring, RunningNames
<1>2. CASE c.name = "upsertSettlement"
  <2>1. /\ \A i \in DOMAIN Rest(c) : Rest(c)[i].name = "unlink" => i = 1
        /\ \A x : x \in Range(Rest(c)) <=>
             \/ x = Call("unlink", c.user, c.key, None)
             \/ \E n \in c.value.intents : x = Call("link", c.user, c.key, n)
        /\ Rest(c) \in Seq(Calls)
    BY <1>2, Leftovers
  <2>2. \A x \in Range(Rest(c)) : x.user = c.user /\ x.name \in {"unlink", "link"}
    BY <2>1, CallFields
  <2>3. ASSUME NEW i \in DOMAIN Rest(c), NEW j \in DOMAIN Rest(c), i < j
        PROVE  MayFollow(Rest(c)[i], Rest(c)[j])
    <3>1. i >= 1
      <4>1. PICK n \in Nat : n = Len(Rest(c))
        BY <2>1
      <4> QED
        BY <2>1, <4>1
    <3>2. j # 1
      <4>1. PICK n \in Nat : n = Len(Rest(c))
        BY <2>1
      <4> QED
        BY <2>1, <2>3, <3>1, <4>1
    <3>3. Rest(c)[j] \in Range(Rest(c)) /\ Rest(c)[i] \in Range(Rest(c))
      BY DEF Range
    <3>4. Rest(c)[j].name = "link"
      BY <2>1, <2>2, <3>2, <3>3
    <3> QED
      BY <3>4 DEF MayFollow
  <2>4. ASSUME NEW x \in Range(Rest(c)), NEW d, d.name \in CallNames, MayFollow(c, d)
        PROVE  MayFollow(x, d)
    BY <1>2, <2>2, <2>4 DEF MayFollow, CallNames, OrderNames, NonceNames
  <2> QED
    BY <2>2, <2>3, <2>4 DEF Ordered, RunningNames
<1>3. CASE c.name \notin Ensuring \union {"upsertSettlement"}
  <2>1. Rest(c) = <<>>
    BY <1>3, Beginnings
  <2> QED
    BY <2>1, EmptyOrdered, EmptyRange
<1> QED
  BY <1>1, <1>2, <1>3

-----------------------------------------------------------------------------
(* What BeginCall and ContinueCall do. *)

LEMMA BeginFacts ==
  ASSUME TypeInv, BeginCall
  PROVE  LET h == Head(todo) IN
         /\ running = <<>> /\ todo # <<>>
         /\ h \in Calls /\ h.name \in CallNames
         /\ db' = Sqlite(db, First(h)) /\ Tables(db, db', First(h)) /\ db' \in Databases
         /\ running' = Rest(h) /\ running' \in Seq(Calls)
         /\ \A c : c \in Range(todo) <=> c = h \/ c \in Range(todo')
         /\ \A c : c \notin Range(running)
         /\ todo' \in Seq(Calls) /\ Ordered(todo')
         /\ \A c \in Range(todo') :
              c \in Calls /\ MayFollow(h, c) /\ c.name \in CallNames /\ c.user = h.user
         /\ twin' = IF twin = None THEN None ELSE Memory(twin, h)
         /\ UNCHANGED <<mem, seen, handling, sent, kills, torn>>
<1> DEFINE h == Head(todo)
<1>1. /\ running = <<>> /\ todo # <<>> /\ running' = Rest(h) /\ todo' = Tail(todo)
      /\ db' = Sqlite(db, First(h))
      /\ twin' = IF twin = None THEN None ELSE Memory(twin, h)
      /\ UNCHANGED <<mem, seen, handling, sent, kills, torn>>
  BY DEF BeginCall, First, Rest
<1>2. /\ db \in Databases /\ todo \in Seq(Calls) /\ Ordered(todo)
      /\ \A c \in Range(todo) : c.name \in CallNames
      /\ \A c, d \in Range(todo) : c.user = d.user
  BY DEF TypeInv
<1>3. /\ h \in Calls /\ Tail(todo) \in Seq(Calls)
      /\ \A c : c \in Range(todo) <=> c = h \/ c \in Range(Tail(todo))
  BY <1>1, <1>2, HeadAndTail
<1>4. Ordered(Tail(todo)) /\ \A c \in Range(Tail(todo)) : MayFollow(h, c)
  BY <1>1, <1>2, OrderedTail
<1>5. h.name \in CallNames
  BY <1>2, <1>3
<1>6. First(h) \in Calls /\ First(h).name # "upsertSettlement" /\ Rest(h) \in Seq(Calls)
  BY <1>3, <1>5, Leftovers
<1> HIDE DEF h
<1>7. Tables(db, db', First(h)) /\ db' \in Databases
  BY <1>1, <1>2, <1>6, StatementTables, StatementTyped
<1>8. \A c : c \notin Range(running)
  BY <1>1, EmptyRange
<1>9. \A c \in Range(Tail(todo)) : c \in Calls /\ c.name \in CallNames /\ c.user = h.user
  BY <1>2, <1>3, RangeTyped
<1> QED
  BY <1>1, <1>3, <1>4, <1>5, <1>6, <1>7, <1>8, <1>9 DEF h

LEMMA ContinueFacts ==
  ASSUME TypeInv, ContinueCall
  PROVE  LET r == Head(running) IN
         /\ running # <<>>
         /\ r \in Calls /\ r.name \in RunningNames
         /\ db' = Sqlite(db, r) /\ Tables(db, db', r) /\ db' \in Databases
         /\ running' = Tail(running) /\ running' \in Seq(Calls) /\ Ordered(running')
         /\ \A c : c \in Range(running) <=> c = r \/ c \in Range(running')
         /\ \A c \in Range(running') : c \in Calls /\ MayFollow(r, c) /\ c.name \in RunningNames
         /\ \A c \in Range(todo) : MayFollow(r, c)
         /\ UNCHANGED <<todo, twin, mem, seen, handling, sent, kills, torn>>
<1> DEFINE r == Head(running)
<1>1. /\ running # <<>> /\ running' = Tail(running) /\ db' = Sqlite(db, r)
      /\ UNCHANGED <<todo, twin, mem, seen, handling, sent, kills, torn>>
  BY DEF ContinueCall
<1>2. /\ db \in Databases /\ running \in Seq(Calls) /\ Ordered(running)
      /\ \A c \in Range(running) : c.name \in RunningNames
      /\ \A c \in Range(running), d \in Range(todo) : MayFollow(c, d)
  BY DEF TypeInv, RunningNames
<1>3. /\ r \in Calls /\ Tail(running) \in Seq(Calls)
      /\ \A c : c \in Range(running) <=> c = r \/ c \in Range(Tail(running))
  BY <1>1, <1>2, HeadAndTail
<1>4. Ordered(Tail(running)) /\ \A c \in Range(Tail(running)) : MayFollow(r, c)
  BY <1>1, <1>2, OrderedTail
<1> HIDE DEF r
<1>5. r.name \in RunningNames /\ \A c \in Range(todo) : MayFollow(r, c)
  BY <1>2, <1>3
<1>6. Tables(db, db', r) /\ db' \in Databases
  BY <1>1, <1>2, <1>3, <1>5, StatementTables, StatementTyped DEF RunningNames
<1>7. \A c \in Range(Tail(running)) : c \in Calls /\ c.name \in RunningNames
  BY <1>2, <1>3, RangeTyped
<1> QED
  BY <1>1, <1>3, <1>4, <1>5, <1>6, <1>7 DEF r

LEMMA BeginType == TypeInv /\ BeginCall => TypeInv'
<1> SUFFICES ASSUME TypeInv, BeginCall
             PROVE  TypeInv'
  OBVIOUS
<1> DEFINE h == Head(todo)
<1>1. /\ h \in Calls /\ h.name \in CallNames /\ db' \in Databases
      /\ running' = Rest(h) /\ running' \in Seq(Calls)
      /\ todo' \in Seq(Calls) /\ Ordered(todo')
      /\ \A c \in Range(todo') : MayFollow(h, c) /\ c.name \in CallNames /\ c.user = h.user
      /\ UNCHANGED <<mem, seen, handling, sent, kills, torn>>
  BY BeginFacts
<1> HIDE DEF h
<1>2. /\ Ordered(running')
      /\ \A x \in Range(running') :
           /\ x.user = h.user /\ x.name \in RunningNames
           /\ \A d : d.name \in CallNames /\ MayFollow(h, d) => MayFollow(x, d)
  BY <1>1, RestOrdered
<1>3. \A x \in Range(running'), d \in Range(todo') : MayFollow(x, d)
  BY <1>1, <1>2
<1>4. \A c, d \in Range(todo') \union Range(running') : c.user = d.user
  BY <1>1, <1>2
<1> QED
  BY <1>1, <1>2, <1>3, <1>4 DEF TypeInv, RunningNames

LEMMA ContinueType == TypeInv /\ ContinueCall => TypeInv'
<1> SUFFICES ASSUME TypeInv, ContinueCall
             PROVE  TypeInv'
  OBVIOUS
<1> DEFINE r == Head(running)
<1>1. /\ db' \in Databases /\ running' \in Seq(Calls) /\ Ordered(running')
      /\ \A c : c \in Range(running) <=> c = r \/ c \in Range(running')
      /\ \A c \in Range(running') : c.name \in RunningNames
      /\ UNCHANGED <<todo, twin, mem, seen, handling, sent, kills, torn>>
  BY ContinueFacts
<1> HIDE DEF r
<1> QED
  BY <1>1 DEF TypeInv, RunningNames

LEMMA KillType == TypeInv /\ Kill => TypeInv'
<1> SUFFICES ASSUME TypeInv, Kill
             PROVE  TypeInv'
  OBVIOUS
<1>1. mem' = [u \in Users |-> None] /\ handling' = {} /\ todo' = <<>> /\ running' = <<>>
      /\ UNCHANGED <<db, sent>>
  BY DEF Kill
<1> QED
  BY <1>1, EmptyRange, EmptyOrdered DEF TypeInv

-----------------------------------------------------------------------------
(* References. *)

Recorded(intents) == \A n \in intents : db.intents[n] # NoIntent

\* A loaded user has a row or the call that inserts it is still to come.
UsersKnown ==
  \A u \in Users : Loaded(u) =>
    u \in db.users \/ \E c \in Range(todo) : c.name = "ensureUser" /\ c.user = u

CallsKnown ==
  \A c \in Range(todo) :
    c.name \notin {"ensureUser", "saveBalance", "claimEvent"} => c.user \in db.users

StatementsKnown ==
  \A c \in Range(running) :
    /\ c.user \in db.users
    /\ c.name = "link" => db.settlements[c.key] # None /\ Recorded({c.value})

\* Every settlement is of the user who asked for it, and links recorded intents.
UpsertsKnown ==
  \A c \in Range(todo) : c.name = "upsertSettlement" =>
    /\ sent[c.key] # None /\ sent[c.key].user = c.user /\ c.value.row.user = c.user
    /\ Recorded(c.value.intents)

RowsKnown ==
  \A s \in Settlements :
    /\ sent[s] # None => Recorded(sent[s].intents)
    /\ db.settlements[s] # None => sent[s] # None /\ db.settlements[s].user = sent[s].user

MemoryKnown ==
  \A u \in Users, s \in Settlements :
    Loaded(u) /\ mem[u].settlements[s] # None =>
      /\ sent[s] # None /\ sent[s].user = u /\ mem[u].settlements[s].row.user = u
      /\ Recorded(mem[u].settlements[s].intents)

FlightsKnown ==
  \A u \in Users : Loaded(u) /\ mem[u].inFlight # None => sent[mem[u].inFlight] # None

LinksKnown == \A l \in db.links : Recorded({l[2]})

ReferencesInv ==
  /\ UsersKnown /\ CallsKnown /\ StatementsKnown /\ UpsertsKnown
  /\ RowsKnown /\ MemoryKnown /\ FlightsKnown /\ LinksKnown

ConfirmedRow(s) == db.settlements[s] # None /\ db.settlements[s].status = "ONCHAIN_CONFIRMED"

Consumes(c) == c.name = "markIntent" /\ c.value.status = "CONSUMED"

-----------------------------------------------------------------------------
(* What a turn leaves behind, whichever it is. *)

LEMMA CallsTyped ==
  ASSUME NEW u \in Users
  PROVE  /\ Call("ensureUser", u, None, None) \in Calls
         /\ \A b \in Balances : Call("saveBalance", u, None, b) \in Calls
         /\ \A p \in {None} \union Positions : Call("setPosition", u, None, p) \in Calls
         /\ \A o \in Orders :
              /\ Call("addOrder", u, o, None) \in Calls
              /\ Call("addKey", u, o, None) \in Calls
              /\ Call("addTrade", u, o, None) \in Calls
         /\ \A n \in Intents :
              /\ Call("issueNonce", u, n, None) \in Calls
              /\ Call("useNonce", u, n, None) \in Calls
              /\ Call("recordIntent", u, n, Intent("VERIFIED", None)) \in Calls
              /\ Call("markIntent", u, n, Intent("EXPIRED", None)) \in Calls
              /\ \A s \in Settlements : Call("markIntent", u, n, Intent("CONSUMED", s)) \in Calls
         /\ \A s \in Settlements, r \in Records : Call("upsertSettlement", u, s, r) \in Calls
         /\ \A log \in Logs : Call("claimEvent", u, log, None) \in Calls
<1> USE CallFields DEF WellFormed, CallNames, StatementNames, OrderNames, NonceNames, Keys, Values
<1>1. Call("ensureUser", u, None, None) \in Calls
  BY CallTyped
<1>2. \A b \in Balances : Call("saveBalance", u, None, b) \in Calls
  BY CallTyped
<1>3. \A p \in {None} \union Positions : Call("setPosition", u, None, p) \in Calls
  BY CallTyped
<1>4. ASSUME NEW o \in Orders
      PROVE  /\ Call("addOrder", u, o, None) \in Calls
             /\ Call("addKey", u, o, None) \in Calls
             /\ Call("addTrade", u, o, None) \in Calls
  BY CallTyped
<1>5. ASSUME NEW n \in Intents
      PROVE  /\ Call("issueNonce", u, n, None) \in Calls
             /\ Call("useNonce", u, n, None) \in Calls
  BY CallTyped
<1>6. /\ Intent("VERIFIED", None) \in IntentRows /\ Intent("VERIFIED", None).status = "VERIFIED"
      /\ Intent("EXPIRED", None) \in IntentRows /\ Intent("EXPIRED", None).status = "EXPIRED"
      /\ \A s \in Settlements :
           /\ Intent("CONSUMED", s) \in IntentRows
           /\ Intent("CONSUMED", s).status = "CONSUMED" /\ Intent("CONSUMED", s).by = s
  BY DEF IntentRows, Intent
<1>7. ASSUME NEW n \in Intents
      PROVE  Call("recordIntent", u, n, Intent("VERIFIED", None)) \in Calls
  BY <1>6, CallTyped
<1>8. ASSUME NEW n \in Intents
      PROVE  Call("markIntent", u, n, Intent("EXPIRED", None)) \in Calls
  BY <1>6, CallTyped
<1>9. ASSUME NEW n \in Intents, NEW s \in Settlements
      PROVE  Call("markIntent", u, n, Intent("CONSUMED", s)) \in Calls
  BY <1>6, CallTyped
<1>10. \A s \in Settlements, r \in Records : Call("upsertSettlement", u, s, r) \in Calls
  BY CallTyped
<1>11. \A log \in Logs : Call("claimEvent", u, log, None) \in Calls
  BY CallTyped
<1> QED
  BY <1>1, <1>2, <1>3, <1>4, <1>5, <1>7, <1>8, <1>9, <1>10, <1>11

LEMMA Pair ==
  ASSUME NEW S, NEW c \in S, NEW d \in S
  PROVE  /\ <<c, d>> \in Seq(S)
         /\ MayFollow(c, d) => Ordered(<<c, d>>)
         /\ \A x : x \in Range(<<c, d>>) <=> x = c \/ x = d
<1>1. DOMAIN <<c, d>> = {1, 2} /\ <<c, d>>[1] = c /\ <<c, d>>[2] = d
  OBVIOUS
<1>2. MayFollow(c, d) => Ordered(<<c, d>>)
  BY <1>1 DEF Ordered
<1> QED
  BY <1>1, <1>2 DEF Range

\* A user's state as the last turn left it, or as the next will find it.
Known(u) == IF Loaded(u) THEN mem[u] ELSE View(db, u)

TurnBasics(u) ==
  /\ Idle
  /\ UNCHANGED <<db, twin, running, kills, torn>>
  /\ mem'[u] \in Views /\ mem' = [mem EXCEPT ![u] = mem'[u]]
  /\ todo' \in Seq(Calls) /\ Ordered(todo')
  /\ \A c \in Range(todo') : c.user = u /\ c.name \in CallNames
  /\ Loaded(u) \/ \E c \in Range(todo') : c.name = "ensureUser"
  /\ Loaded(u) \/ \A c \in Range(todo') : c.name \in {"ensureUser", "saveBalance"}

\* Settlements are asked for by one request each.
TurnRequests(u) ==
  /\ sent' \in [Settlements -> {None} \union Requests]
  /\ \A s \in Settlements :
       sent'[s] # sent[s] => sent[s] = None /\ sent'[s] # None /\ Recorded(sent'[s].intents)
  /\ handling' \subseteq Settlements /\ \A s \in handling' : sent'[s] # None
  /\ mem'[u].inFlight # None => sent'[mem'[u].inFlight] # None

\* What the calls write is what memory has, and what they do not write is unchanged.
TurnWrites(u) ==
  LET calls == Range(todo')  new == mem'[u]  old == Known(u) IN
  /\ \A c \in calls : c.name = "saveBalance" => c.value = new.balance
  /\ (\A c \in calls : c.name # "saveBalance") => new.balance = old.balance
  /\ \A c \in calls : c.name = "setPosition" => c.value = Stored(new.position)
  /\ (\A c \in calls : c.name # "setPosition") => new.position = old.position
  /\ \A o \in Orders :
       /\ o \in new.orders <=> o \in old.orders \/ \E c \in calls : c.name = "addOrder" /\ c.key = o
       /\ o \in new.trades <=> o \in old.trades \/ \E c \in calls : c.name = "addTrade" /\ c.key = o
  /\ \A c \in calls : c.name = "upsertSettlement" => c.value = new.settlements[c.key]
  /\ \A s \in Settlements :
       (\A c \in calls : ~ (c.name = "upsertSettlement" /\ c.key = s))
          => new.settlements[s] = old.settlements[s]

\* A settlement is written for its user, and not again once it is confirmed;
\* an intent is consumed after that.
TurnSettlements(u) ==
  LET calls == Range(todo') IN
  /\ \A c \in calls : c.name = "upsertSettlement" =>
       /\ sent[c.key] # None /\ sent[c.key].user = u /\ c.value.row.user = u
       /\ Recorded(c.value.intents) /\ ~ AlreadyConfirmed(u, c.key)
       /\ \A d \in calls : d.name \notin {"addOrder", "setPosition"}
  /\ \A c \in calls : Consumes(c) =>
       LET s == c.value.by IN
       \/ \E d \in calls :
            /\ d.name = "upsertSettlement" /\ d.key = s
            /\ c.key \in d.value.intents /\ d.value.row.status = "ONCHAIN_CONFIRMED"
       \/ /\ AlreadyConfirmed(u, s) /\ c.key \in mem[u].settlements[s].intents
          /\ \A d \in calls : d.name # "upsertSettlement"

\* What a call needs in the tables to do the same on both backends.
Expected(c) ==
  /\ c.name = "issueNonce" => db.nonces[c.key] = None
  /\ c.name = "useNonce" => db.nonces[c.key] # None
  /\ c.name = "markIntent" => db.intents[c.key] # NoIntent
  /\ c.name = "addOrder" => db.orders[c.user][c.key] = 0

Share(row) == IF row.type = "TRADING_PNL" THEN row.amount ELSE 0

ConfirmedCall(c) == c.name = "upsertSettlement" /\ c.value.row.status = "ONCHAIN_CONFIRMED"

\* A fill adds the same to both sides of the books, a confirmation moves its
\* share from the pending to the settled P&L.
TurnPnl(u) ==
  LET calls == Range(todo')  new == mem'[u]  old == Known(u) IN
  /\ \A c \in calls : c.name = "setPosition" =>
       \E d, e \in calls : d.name = "saveBalance" /\ e.name = "addOrder"
  /\ \A c \in calls : ConfirmedCall(c) =>
       /\ new.position = old.position
       /\ new.balance.pnl = old.balance.pnl - Share(c.value.row)
  /\ (\A c \in calls : ~ ConfirmedCall(c)) =>
       new.position.realized - old.position.realized = new.balance.pnl - old.balance.pnl

Turned(u) ==
  /\ TurnBasics(u) /\ TurnRequests(u) /\ TurnWrites(u) /\ TurnSettlements(u)
  /\ \A c \in Range(todo') : Expected(c)
  /\ TurnPnl(u)

LEMMA ViewTyped ==
  ASSUME NEW d \in Databases, NEW u \in Users
  PROVE  /\ View(d, u) \in Views
         /\ View(d, u).balance = OrNothing(d.balances[u], NoBalance)
         /\ View(d, u).position = OrNothing(d.positions[u], NoPosition)
         /\ View(d, u).orders = ListOrders(d, u) /\ View(d, u).trades = ListTrades(d, u)
         /\ View(d, u).settlements = ListSettlements(d, u) /\ View(d, u).inFlight = None
<1> USE DatabaseColumns
<1>1. OrNothing(d.balances[u], NoBalance) \in Balances
  BY DEF OrNothing, NoBalance, Balances
<1>2. OrNothing(d.positions[u], NoPosition) \in Positions
  BY DEF OrNothing, NoPosition, Positions
<1>3. ListOrders(d, u) \subseteq Orders /\ ListTrades(d, u) \subseteq Orders
  BY DEF ListOrders, ListTrades
<1>4. \A s \in Settlements : LinkedTo(d, s) \subseteq Intents
  BY DEF LinkedTo
<1>5. ListSettlements(d, u) \in [Settlements -> {None} \union Records]
  <2> SUFFICES ASSUME NEW s \in Settlements, d.settlements[s] # None
               PROVE  [row |-> d.settlements[s], intents |-> LinkedTo(d, s)] \in Records
    BY DEF ListSettlements
  <2>1. d.settlements[s] \in Rows
    OBVIOUS
  <2> QED
    BY <1>4, <2>1 DEF Records
<1> QED
  BY <1>1, <1>2, <1>3, <1>5 DEF View, Views

LEMMA ViewFields ==
  ASSUME NEW v \in Views
  PROVE  /\ v = [balance |-> v.balance, position |-> v.position, orders |-> v.orders,
                 trades |-> v.trades, settlements |-> v.settlements, inFlight |-> v.inFlight]
         /\ v.balance \in Balances /\ v.position \in Positions
         /\ v.balance = [collateral |-> v.balance.collateral, pnl |-> v.balance.pnl]
         /\ v.balance.collateral \in Nat /\ v.balance.pnl \in Int
         /\ v.position.quantity \in Nat /\ v.position.realized \in Int
         /\ v.orders \subseteq Orders /\ v.trades \subseteq Orders
         /\ v.settlements \in [Settlements -> {None} \union Records]
         /\ v.inFlight \in {None} \union Settlements
BY DEF Views, Balances, Positions

LEMMA KnownTyped ==
  ASSUME TypeInv, NEW u \in Users
  PROVE  /\ Known(u) \in Views
         /\ Loaded(u) => mem[u] \in Views /\ Known(u) = mem[u]
<1>1. Loaded(u) => mem[u] \in Views
  BY DEF TypeInv, Loaded
<1>2. View(db, u) \in Views
  BY ViewTyped DEF TypeInv
<1> QED
  BY <1>1, <1>2 DEF Known

LEMMA TurnOf ==
  ASSUME TypeInv, NEW u \in Users, NEW view, NEW calls, Turn(u, view, calls)
  PROVE  /\ Idle /\ Range(todo) = {} /\ Range(running) = {}
         /\ mem' = [mem EXCEPT ![u] = mem'[u]] /\ mem'[u] = view
         /\ todo' = calls
         /\ UNCHANGED <<db, twin, running, kills, torn>>
<1>1. mem \in [Users -> {None} \union Views]
  BY DEF TypeInv
<1> QED
  BY <1>1, EmptyRange DEF Turn, Idle

\* A turn that changes no books.
QuietNames == {"ensureUser", "issueNonce", "useNonce", "recordIntent", "markIntent", "claimEvent"}

LEMMA QuietTurn ==
  ASSUME TypeInv, NEW u \in Users,
         mem'[u].balance = Known(u).balance, mem'[u].position = Known(u).position,
         mem'[u].orders = Known(u).orders, mem'[u].trades = Known(u).trades,
         mem'[u].settlements = Known(u).settlements,
         \A c \in Range(todo') :
           /\ ~ Consumes(c)
           /\ c.name \in QuietNames \/ (c.name = "saveBalance" /\ c.value = Known(u).balance)
  PROVE  TurnWrites(u) /\ TurnSettlements(u) /\ TurnPnl(u)
<1>1. \A c \in Range(todo') :
        c.name \notin {"setPosition", "addOrder", "addTrade", "upsertSettlement"}
  BY DEF QuietNames
<1>2. \A c \in Range(todo') : c.name = "saveBalance" => c.value = mem'[u].balance
  BY DEF QuietNames
<1>3. TurnWrites(u)
  BY <1>1, <1>2 DEF TurnWrites
<1>4. TurnSettlements(u)
  BY <1>1 DEF TurnSettlements
<1>5. mem'[u].position.realized - Known(u).position.realized
        = mem'[u].balance.pnl - Known(u).balance.pnl
  <2>1. Known(u).position.realized \in Int /\ Known(u).balance.pnl \in Int
    BY KnownTyped, ViewFields
  <2> QED
    BY <2>1
<1>6. TurnPnl(u)
  BY <1>1, <1>5 DEF TurnPnl, ConfirmedCall
<1> QED
  BY <1>3, <1>4, <1>6

LEMMA SameRequests ==
  ASSUME TypeInv, ReferencesInv, NEW u \in Users, sent' = sent, handling' \subseteq handling,
         mem'[u].inFlight = None \/ (Loaded(u) /\ mem'[u].inFlight = mem[u].inFlight)
           \/ sent[mem'[u].inFlight] # None
  PROVE  TurnRequests(u)
<1>1. sent \in [Settlements -> {None} \union Requests]
      /\ handling \subseteq Settlements /\ \A s \in handling : sent[s] # None
  BY DEF TypeInv
<1>2. mem'[u].inFlight # None => sent[mem'[u].inFlight] # None
  BY DEF ReferencesInv, FlightsKnown, RowsKnown, MemoryKnown
<1> QED
  BY <1>1, <1>2 DEF TurnRequests

LEMMA LoadTurn ==
  ASSUME TypeInv, ReferencesInv, NEW u \in Users, Load(u)
  PROVE  Turned(u)
<1> DEFINE ensure == Call("ensureUser", u, None, None)
           save == Save(u, NoBalance)
           saves == IF db.balances[u] = None THEN <<save>> ELSE <<>>
<1>1. /\ ~ Loaded(u) /\ sent' = sent /\ handling' = handling
      /\ Turn(u, View(db, u), <<ensure>> \o saves)
  BY DEF Load
<1>2. /\ Idle /\ mem' = [mem EXCEPT ![u] = mem'[u]] /\ mem'[u] = View(db, u)
      /\ todo' = <<ensure>> \o saves /\ UNCHANGED <<db, twin, running, kills, torn>>
  BY <1>1, TurnOf
<1>3. Known(u) = View(db, u) /\ View(db, u) \in Views /\ View(db, u).inFlight = None
      /\ View(db, u).balance = OrNothing(db.balances[u], NoBalance)
  BY <1>1, ViewTyped DEF Known, TypeInv
<1>4. ensure.name = "ensureUser" /\ ensure.user = u
      /\ save.name = "saveBalance" /\ save.user = u /\ save.value = NoBalance
  BY CallFields DEF Save
<1>5. ensure \in Calls /\ save \in Calls
  <2>1. NoBalance \in Balances
    BY DEF NoBalance, Balances
  <2> QED
    BY <2>1, CallsTyped DEF Save
<1>6. /\ saves \in Seq(Calls) /\ Ordered(saves)
      /\ \A c \in Range(saves) : c = save /\ db.balances[u] = None
  <2>1. CASE db.balances[u] = None
    BY <1>5, <2>1, Single
  <2>2. CASE db.balances[u] # None
    BY <2>2, EmptyOrdered, EmptyRange
  <2> QED
    BY <2>1, <2>2
<1>7. /\ <<ensure>> \in Seq(Calls) /\ Ordered(<<ensure>>)
      /\ \A c : c \in Range(<<ensure>>) <=> c = ensure
  BY <1>5, Single
<1> HIDE DEF ensure, save, saves
<1>8. /\ todo' \in Seq(Calls)
      /\ \A c : c \in Range(todo') <=> c = ensure \/ c \in Range(saves)
  BY <1>2, <1>6, <1>7, ConcatRange
<1>9. MayFollow(ensure, save)
  BY <1>4 DEF MayFollow
<1>10. Ordered(todo')
  BY <1>2, <1>6, <1>7, <1>9, ConcatOrdered
<1>11. TurnBasics(u)
  BY <1>2, <1>3, <1>4, <1>6, <1>8, <1>10 DEF TurnBasics, CallNames
<1>12. \A c \in Range(todo') :
         /\ ~ Consumes(c)
         /\ c.name \in QuietNames \/ (c.name = "saveBalance" /\ c.value = Known(u).balance)
  BY <1>3, <1>4, <1>6, <1>8 DEF Consumes, QuietNames, OrNothing
<1>13. TurnWrites(u) /\ TurnSettlements(u) /\ TurnPnl(u)
  BY <1>2, <1>3, <1>12, QuietTurn
<1>14. TurnRequests(u)
  BY <1>1, <1>2, <1>3, SameRequests
<1>15. \A c \in Range(todo') : Expected(c)
  BY <1>4, <1>6, <1>8 DEF Expected
<1> QED
  BY <1>11, <1>13, <1>14, <1>15 DEF Turned

\* Turns that leave a loaded user as it was and make one call or two.
LEMMA QuietActions ==
  ASSUME TypeInv, ReferencesInv, NEW u \in Users, Loaded(u), NEW calls,
         Turn(u, mem[u], calls), sent' = sent, handling' = handling,
         calls \in Seq(Calls), Ordered(calls),
         \A c \in Range(calls) : c.user = u /\ c.name \in QuietNames /\ ~ Consumes(c) /\ Expected(c)
  PROVE  Turned(u)
<1>1. /\ Idle /\ mem' = [mem EXCEPT ![u] = mem'[u]] /\ mem'[u] = mem[u]
      /\ todo' = calls /\ UNCHANGED <<db, twin, running, kills, torn>>
  BY TurnOf
<1>2. mem[u] \in Views /\ Known(u) = mem[u]
  BY KnownTyped
<1>3. TurnBasics(u)
  BY <1>1, <1>2 DEF TurnBasics, CallNames, QuietNames, OrderNames, NonceNames
<1>4. TurnWrites(u) /\ TurnSettlements(u) /\ TurnPnl(u)
  BY <1>1, <1>2, QuietTurn
<1>5. TurnRequests(u)
  BY <1>1, SameRequests
<1> QED
  BY <1>1, <1>3, <1>4, <1>5 DEF Turned

LEMMA IntentTurns ==
  ASSUME TypeInv, ReferencesInv, NEW u \in Users, NEW n \in Intents,
         IssueNonce(u, n) \/ VerifyIntent(u, n) \/ ExpireIntent(u, n)
  PROVE  Turned(u)
<1> DEFINE issue == Call("issueNonce", u, n, None)
           use == Call("useNonce", u, n, None)
           record == Call("recordIntent", u, n, Intent("VERIFIED", None))
           expire == Call("markIntent", u, n, Intent("EXPIRED", None))
<1>1. issue \in Calls /\ use \in Calls /\ record \in Calls /\ expire \in Calls
  BY CallsTyped
<1>2. /\ issue.name = "issueNonce" /\ issue.user = u /\ issue.key = n
      /\ use.name = "useNonce" /\ use.user = u /\ use.key = n
      /\ record.name = "recordIntent" /\ record.user = u
      /\ expire.name = "markIntent" /\ expire.user = u /\ expire.key = n
      /\ expire.value.status = "EXPIRED"
  BY CallFields DEF Intent
<1>3. Loaded(u) /\ sent' = sent /\ handling' = handling
  BY DEF IssueNonce, VerifyIntent, ExpireIntent
<1>4. CASE IssueNonce(u, n)
  <2>1. Turn(u, mem[u], <<issue>>) /\ db.nonces[n] = None
    BY <1>4 DEF IssueNonce
  <2> HIDE DEF issue
  <2>2. <<issue>> \in Seq(Calls) /\ Ordered(<<issue>>) /\ \A x \in Range(<<issue>>) : x = issue
    BY <1>1, Single
  <2>3. issue.name \in QuietNames /\ ~ Consumes(issue) /\ Expected(issue)
    BY <1>2, <2>1 DEF QuietNames, Consumes, Expected
  <2> QED
    BY <1>2, <1>3, <2>1, <2>2, <2>3, QuietActions
<1>5. CASE VerifyIntent(u, n)
  <2>1. Turn(u, mem[u], <<use, record>>) /\ db.nonces[n] = <<u, "ISSUED">>
    BY <1>5 DEF VerifyIntent
  <2>2. db.nonces[n] # None
    BY <2>1, NoneAssumption
  <2> HIDE DEF use, record
  <2>3. MayFollow(use, record)
    BY <1>2 DEF MayFollow
  <2>4. /\ <<use, record>> \in Seq(Calls) /\ Ordered(<<use, record>>)
        /\ \A x \in Range(<<use, record>>) : x = use \/ x = record
    BY <1>1, <2>3, Pair
  <2>5. use.name \in QuietNames /\ ~ Consumes(use) /\ Expected(use)
    BY <1>2, <2>2 DEF QuietNames, Consumes, Expected
  <2>6. record.name \in QuietNames /\ ~ Consumes(record) /\ Expected(record)
    BY <1>2 DEF QuietNames, Consumes, Expected
  <2> QED
    BY <1>2, <1>3, <2>1, <2>4, <2>5, <2>6, QuietActions
<1>6. CASE ExpireIntent(u, n)
  <2>1. Turn(u, mem[u], <<expire>>) /\ db.intents[n].status = "VERIFIED"
    BY <1>6 DEF ExpireIntent
  <2>2. db.intents[n] # NoIntent
    BY <2>1 DEF NoIntent
  <2> HIDE DEF expire
  <2>3. <<expire>> \in Seq(Calls) /\ Ordered(<<expire>>) /\ \A x \in Range(<<expire>>) : x = expire
    BY <1>1, Single
  <2>4. expire.name \in QuietNames /\ ~ Consumes(expire) /\ Expected(expire)
    BY <1>2, <2>2 DEF QuietNames, Consumes, Expected
  <2> QED
    BY <1>2, <1>3, <2>1, <2>3, <2>4, QuietActions
<1> QED
  BY <1>4, <1>5, <1>6

LEMMA Quintuple ==
  ASSUME NEW S, NEW a \in S, NEW b \in S, NEW c \in S, NEW d \in S, NEW e \in S
  PROVE  /\ <<a, b, c, d, e>> \in Seq(S)
         /\ (/\ MayFollow(a, b) /\ MayFollow(a, c) /\ MayFollow(a, d) /\ MayFollow(a, e)
             /\ MayFollow(b, c) /\ MayFollow(b, d) /\ MayFollow(b, e)
             /\ MayFollow(c, d) /\ MayFollow(c, e) /\ MayFollow(d, e))
            => Ordered(<<a, b, c, d, e>>)
         /\ \A x : x \in Range(<<a, b, c, d, e>>) <=> x = a \/ x = b \/ x = c \/ x = d \/ x = e
<1> DEFINE s == <<a, b, c, d, e>>
<1>1. /\ DOMAIN s = {1, 2, 3, 4, 5}
      /\ s[1] = a /\ s[2] = b /\ s[3] = c /\ s[4] = d /\ s[5] = e /\ s \in Seq(S)
  OBVIOUS
<1> HIDE DEF s
<1>2. ASSUME MayFollow(a, b), MayFollow(a, c), MayFollow(a, d), MayFollow(a, e),
             MayFollow(b, c), MayFollow(b, d), MayFollow(b, e),
             MayFollow(c, d), MayFollow(c, e), MayFollow(d, e),
             NEW i \in {1, 2, 3, 4, 5}, NEW j \in {1, 2, 3, 4, 5}, i < j
      PROVE  MayFollow(s[i], s[j])
  <2>1. CASE i = 1
    BY <1>1, <1>2, <2>1
  <2>2. CASE i = 2
    BY <1>1, <1>2, <2>2
  <2>3. CASE i \in {3, 4, 5}
    BY <1>1, <1>2, <2>3
  <2> QED
    BY <1>2, <2>1, <2>2, <2>3
<1>3. \A x : x \in Range(s) <=> x = a \/ x = b \/ x = c \/ x = d \/ x = e
  BY <1>1 DEF Range
<1> QED
  BY <1>1, <1>2, <1>3 DEF Ordered, s

Filled(v, position, balance, c) ==
  [v EXCEPT !.position = position, !.balance = balance,
            !.orders = @ \union {c}, !.trades = @ \union {c}]

LEMMA FilledView ==
  ASSUME NEW v \in Views, NEW balance, NEW position, NEW c
  PROVE  Filled(v, position, balance, c)
         = [balance |-> balance, position |-> position, orders |-> v.orders \union {c},
            trades |-> v.trades \union {c}, settlements |-> v.settlements,
            inFlight |-> v.inFlight]
<1> DEFINE a == [v EXCEPT !.position = position]
           b == [a EXCEPT !.balance = balance]
           d == [b EXCEPT !.orders = @ \union {c}]
           e == [d EXCEPT !.trades = @ \union {c}]
<1>0. v = [balance |-> v.balance, position |-> v.position, orders |-> v.orders,
           trades |-> v.trades, settlements |-> v.settlements, inFlight |-> v.inFlight]
  BY ViewFields
<1>1. a = [balance |-> v.balance, position |-> position, orders |-> v.orders,
           trades |-> v.trades, settlements |-> v.settlements, inFlight |-> v.inFlight]
  BY <1>0
<1>2. b = [balance |-> balance, position |-> position, orders |-> v.orders,
           trades |-> v.trades, settlements |-> v.settlements, inFlight |-> v.inFlight]
  <2> HIDE DEF a
  <2> QED
    BY <1>1
<1>3. d = [balance |-> balance, position |-> position, orders |-> v.orders \union {c},
           trades |-> v.trades, settlements |-> v.settlements, inFlight |-> v.inFlight]
  <2> HIDE DEF b
  <2> QED
    BY <1>2
<1>4. e = [balance |-> balance, position |-> position, orders |-> v.orders \union {c},
           trades |-> v.trades \union {c}, settlements |-> v.settlements,
           inFlight |-> v.inFlight]
  <2> HIDE DEF d
  <2> QED
    BY <1>3
<1>5. Filled(v, position, balance, c) = e
  BY DEF Filled
<1> QED
  BY <1>4, <1>5

LEMMA SoldPosition ==
  ASSUME NEW q \in Nat, NEW r \in Int, NEW gain \in Int,
         NEW p, p = [quantity |-> q, realized |-> r]
  PROVE  [p EXCEPT !.quantity = @ - 1, !.realized = @ + gain]
         = [quantity |-> q - 1, realized |-> r + gain]
<1> DEFINE a == [p EXCEPT !.quantity = @ - 1]
           b == [a EXCEPT !.realized = @ + gain]
<1>1. a = [quantity |-> q - 1, realized |-> r]
  OBVIOUS
<1>2. b = [quantity |-> q - 1, realized |-> r + gain]
  <2> HIDE DEF a
  <2> QED
    BY <1>1
<1>3. [p EXCEPT !.quantity = @ - 1, !.realized = @ + gain] = b
  OBVIOUS
<1> QED
  BY <1>2, <1>3

LEMMA FillTurn ==
  ASSUME TypeInv, ReferencesInv, NEW u \in Users, NEW c \in Orders, NEW position,
         NEW gain \in Int, Fill(u, c, position, gain),
         position = [quantity |-> position.quantity, realized |-> mem[u].position.realized + gain]
  PROVE  Turned(u)
<1> DEFINE balance == [mem[u].balance EXCEPT !.pnl = @ + gain]
           view == [mem[u] EXCEPT !.position = position, !.balance = balance,
                                  !.orders = @ \union {c}, !.trades = @ \union {c}]
           set == Call("setPosition", u, None, Stored(position))
           save == Save(u, balance)
           order == Call("addOrder", u, c, None)
           key == Call("addKey", u, c, None)
           trade == Call("addTrade", u, c, None)
<1>1. /\ Loaded(u) /\ UniqueClientOrderId(u, c)
      /\ position.quantity \in 0..MaxQuantity
      /\ Turn(u, view, <<set, save, order, key, trade>>)
      /\ sent' = sent /\ handling' = handling
  BY DEF Fill
<1>2. mem[u] \in Views /\ Known(u) = mem[u]
  BY <1>1, KnownTyped
<1>3. /\ mem[u] = [balance |-> mem[u].balance, position |-> mem[u].position,
                   orders |-> mem[u].orders, trades |-> mem[u].trades,
                   settlements |-> mem[u].settlements, inFlight |-> mem[u].inFlight]
      /\ mem[u].balance = [collateral |-> mem[u].balance.collateral, pnl |-> mem[u].balance.pnl]
      /\ mem[u].balance.collateral \in Nat /\ mem[u].balance.pnl \in Int
      /\ mem[u].position.realized \in Int
      /\ mem[u].orders \subseteq Orders /\ mem[u].trades \subseteq Orders
      /\ mem[u].settlements \in [Settlements -> {None} \union Records]
      /\ mem[u].inFlight \in {None} \union Settlements
  BY <1>2, ViewFields
<1>4. balance = [collateral |-> mem[u].balance.collateral, pnl |-> mem[u].balance.pnl + gain]
  BY <1>3
<1>5. balance \in Balances /\ balance.pnl = mem[u].balance.pnl + gain
  BY <1>3, <1>4 DEF Balances
<1>6. /\ position \in Positions /\ position.realized = mem[u].position.realized + gain
  <2>1. position.quantity \in Nat
    BY <1>1, StoreAssumption
  <2> QED
    BY <1>3, <2>1 DEF Positions
<1> HIDE DEF balance
<1>7. /\ view.position = position /\ view.balance = balance
      /\ view.orders = mem[u].orders \union {c} /\ view.trades = mem[u].trades \union {c}
      /\ view.settlements = mem[u].settlements /\ view.inFlight = mem[u].inFlight
      /\ view = [balance |-> balance, position |-> position,
                 orders |-> mem[u].orders \union {c}, trades |-> mem[u].trades \union {c},
                 settlements |-> mem[u].settlements, inFlight |-> mem[u].inFlight]
  <2>1. view = [balance |-> balance, position |-> position,
                orders |-> mem[u].orders \union {c}, trades |-> mem[u].trades \union {c},
                settlements |-> mem[u].settlements, inFlight |-> mem[u].inFlight]
    <3>1. PICK v \in Views : v = mem[u]
      BY <1>2
    <3>2. Filled(v, position, balance, c)
            = [balance |-> balance, position |-> position, orders |-> v.orders \union {c},
               trades |-> v.trades \union {c}, settlements |-> v.settlements,
               inFlight |-> v.inFlight]
      BY FilledView
    <3>3. view = Filled(v, position, balance, c)
      BY <3>1 DEF Filled
    <3> HIDE DEF view
    <3> QED
      BY <3>1, <3>2, <3>3
  <2> HIDE DEF view
  <2> QED
    BY <2>1
<1> HIDE DEF view
<1>8. view \in Views
  BY <1>3, <1>5, <1>6, <1>7 DEF Views
<1>9. /\ set.name = "setPosition" /\ set.user = u /\ set.value = Stored(position)
      /\ save.name = "saveBalance" /\ save.user = u /\ save.value = balance
      /\ order.name = "addOrder" /\ order.user = u /\ order.key = c
      /\ key.name = "addKey" /\ key.user = u
      /\ trade.name = "addTrade" /\ trade.user = u /\ trade.key = c
  BY CallFields DEF Save
<1>10. set \in Calls /\ save \in Calls /\ order \in Calls /\ key \in Calls /\ trade \in Calls
  <2>1. Stored(position) \in {None} \union Positions
    BY <1>6 DEF Stored
  <2> QED
    BY <1>5, <2>1, CallsTyped DEF Save
<1>11. /\ Idle /\ mem' = [mem EXCEPT ![u] = mem'[u]] /\ mem'[u] = view
       /\ todo' = <<set, save, order, key, trade>>
       /\ UNCHANGED <<db, twin, running, kills, torn>>
  BY <1>1, TurnOf
<1> HIDE DEF set, save, order, key, trade
<1>12. /\ MayFollow(set, save) /\ MayFollow(set, order) /\ MayFollow(set, key)
       /\ MayFollow(set, trade) /\ MayFollow(save, order) /\ MayFollow(save, key)
       /\ MayFollow(save, trade) /\ MayFollow(order, key) /\ MayFollow(order, trade)
       /\ MayFollow(key, trade)
  BY <1>9 DEF MayFollow
<1>13. /\ todo' \in Seq(Calls) /\ Ordered(todo')
       /\ \A x : x \in Range(todo') <=> x = set \/ x = save \/ x = order \/ x = key \/ x = trade
  BY <1>10, <1>11, <1>12, Quintuple
<1>14. TurnBasics(u)
  BY <1>1, <1>8, <1>9, <1>11, <1>13 DEF TurnBasics, CallNames, OrderNames
<1>15. TurnRequests(u)
  BY <1>1, <1>7, <1>11, SameRequests
<1>16. TurnWrites(u)
  <2>1. \A x \in Range(todo') : x.name = "saveBalance" => x.value = mem'[u].balance
    BY <1>7, <1>9, <1>11, <1>13
  <2>2. save \in Range(todo') /\ set \in Range(todo')
    BY <1>13
  <2>3. \A x \in Range(todo') : x.name = "setPosition" => x.value = Stored(mem'[u].position)
    BY <1>7, <1>9, <1>11, <1>13
  <2>4. ASSUME NEW o \in Orders
        PROVE  /\ o \in mem'[u].orders <=>
                    o \in mem[u].orders \/ \E x \in Range(todo') : x.name = "addOrder" /\ x.key = o
               /\ o \in mem'[u].trades <=>
                    o \in mem[u].trades \/ \E x \in Range(todo') : x.name = "addTrade" /\ x.key = o
    BY <1>7, <1>9, <1>11, <1>13
  <2>5. \A x \in Range(todo') : x.name # "upsertSettlement"
    BY <1>9, <1>13
  <2>6. mem'[u].settlements = mem[u].settlements
    BY <1>7, <1>11
  <2> QED
    BY <1>2, <1>9, <2>1, <2>2, <2>3, <2>4, <2>5, <2>6 DEF TurnWrites
<1>17. TurnSettlements(u)
  BY <1>9, <1>13 DEF TurnSettlements, Consumes
<1>18. \A x \in Range(todo') : Expected(x)
  <2>1. db.orders[u][c] = 0
    BY <1>1 DEF UniqueClientOrderId
  <2> QED
    BY <1>9, <1>13, <2>1 DEF Expected
<1>19. TurnPnl(u)
  <2>1. mem'[u].position.realized - mem[u].position.realized = mem'[u].balance.pnl - mem[u].balance.pnl
    <3>1. \A x, y, g \in Int : (x + g) - x = (y + g) - y
      OBVIOUS
    <3>2. /\ mem'[u].position.realized = mem[u].position.realized + gain
          /\ mem'[u].balance.pnl = mem[u].balance.pnl + gain
      BY <1>5, <1>6, <1>7, <1>11
    <3> QED
      BY <1>3, <3>1, <3>2
  <2>2. save \in Range(todo') /\ order \in Range(todo')
    BY <1>13
  <2>3. \A x \in Range(todo') : ~ ConfirmedCall(x)
    BY <1>9, <1>13 DEF ConfirmedCall
  <2> QED
    BY <1>2, <1>9, <2>1, <2>2, <2>3 DEF TurnPnl
<1> QED
  BY <1>14, <1>15, <1>16, <1>17, <1>18, <1>19 DEF Turned

LEMMA TradeTurns ==
  ASSUME TypeInv, ReferencesInv, NEW u \in Users, NEW c \in Orders,
         Buy(u, c) \/ \E gain \in Deltas \union {0} : Sell(u, c, gain)
  PROVE  Turned(u)
<1>1. Loaded(u)
  BY DEF Buy, Sell
<1>2. mem[u].position \in Positions
  BY <1>1, KnownTyped, ViewFields
<1>3. CASE Buy(u, c)
  <2> DEFINE position == [mem[u].position EXCEPT !.quantity = @ + 1]
  <2>1. Fill(u, c, position, 0)
    BY <1>3 DEF Buy
  <2>2. position = [quantity |-> position.quantity, realized |-> mem[u].position.realized + 0]
    BY <1>2 DEF Positions
  <2> HIDE DEF position
  <2> QED
    BY <2>1, <2>2, FillTurn
<1>4. ASSUME NEW gain \in Deltas \union {0}, Sell(u, c, gain)
      PROVE  Turned(u)
  <2> DEFINE position == [mem[u].position EXCEPT !.quantity = @ - 1, !.realized = @ + gain]
  <2>1. Fill(u, c, position, gain)
    BY <1>4 DEF Sell
  <2>2. gain \in Int
    BY StoreAssumption
  <2>3. position = [quantity |-> position.quantity, realized |-> mem[u].position.realized + gain]
    <3>1. PICK q \in Nat, r \in Int : mem[u].position = [quantity |-> q, realized |-> r]
      BY <1>2 DEF Positions
    <3>2. position = [quantity |-> q - 1, realized |-> r + gain]
      BY <2>2, <3>1, SoldPosition
    <3> HIDE DEF position
    <3> QED
      BY <3>1, <3>2
  <2> HIDE DEF position
  <2> QED
    BY <2>1, <2>2, <2>3, FillTurn
<1> QED
  BY <1>3, <1>4

LEMMA RequestFields ==
  ASSUME TypeInv, NEW s \in Settlements, sent[s] # None
  PROVE  /\ sent[s].user \in Users /\ sent[s].type \in Types /\ sent[s].amount \in Int
         /\ sent[s].intents \subseteq Intents
<1>1. sent[s] \in Requests
  BY DEF TypeInv
<1> QED
  BY <1>1 DEF Requests

\* A user's state is kept but for what is in flight.
LEMMA InFlightTurn ==
  ASSUME TypeInv, ReferencesInv, NEW u \in Users, Loaded(u), NEW flight \in {None} \union Settlements,
         Turn(u, [mem[u] EXCEPT !.inFlight = flight], <<>>)
  PROVE  /\ TurnBasics(u) /\ TurnWrites(u) /\ TurnSettlements(u) /\ TurnPnl(u)
         /\ \A c \in Range(todo') : Expected(c)
         /\ mem'[u].inFlight = flight /\ UNCHANGED db
<1> DEFINE view == [mem[u] EXCEPT !.inFlight = flight]
<1>1. /\ Idle /\ mem' = [mem EXCEPT ![u] = mem'[u]] /\ mem'[u] = view
      /\ todo' = <<>> /\ UNCHANGED <<db, twin, running, kills, torn>>
  BY TurnOf
<1>2. mem[u] \in Views /\ Known(u) = mem[u]
  BY KnownTyped
<1>3. view = [balance |-> mem[u].balance, position |-> mem[u].position, orders |-> mem[u].orders,
              trades |-> mem[u].trades, settlements |-> mem[u].settlements, inFlight |-> flight]
  <2>1. PICK v \in Views : v = mem[u]
    BY <1>2
  <2>2. v = [balance |-> v.balance, position |-> v.position, orders |-> v.orders,
             trades |-> v.trades, settlements |-> v.settlements, inFlight |-> v.inFlight]
    BY ViewFields
  <2>3. [v EXCEPT !.inFlight = flight]
          = [balance |-> v.balance, position |-> v.position, orders |-> v.orders,
             trades |-> v.trades, settlements |-> v.settlements, inFlight |-> flight]
    BY <2>2
  <2> QED
    BY <2>1, <2>3
<1> HIDE DEF view
<1>4. view \in Views
  BY <1>2, <1>3, ViewFields DEF Views
<1>5. todo' \in Seq(Calls) /\ Ordered(todo') /\ Range(todo') = {}
  BY <1>1, EmptyOrdered, EmptyRange
<1>6. TurnBasics(u)
  BY <1>1, <1>4, <1>5 DEF TurnBasics
<1>7. /\ view.balance = mem[u].balance /\ view.position = mem[u].position
      /\ view.orders = mem[u].orders /\ view.trades = mem[u].trades
      /\ view.settlements = mem[u].settlements /\ view.inFlight = flight
  BY <1>3
<1>8. TurnWrites(u) /\ TurnSettlements(u) /\ TurnPnl(u)
  BY <1>1, <1>2, <1>5, <1>7, QuietTurn
<1> QED
  BY <1>1, <1>5, <1>6, <1>7, <1>8

LEMMA BeginSettlementTurn ==
  ASSUME TypeInv, ReferencesInv, NEW u \in Users, NEW s \in Settlements, NEW type \in Types,
         NEW amount \in Int, NEW intents \in SUBSET Intents,
         BeginSettlement(u, s, type, amount, intents)
  PROVE  Turned(u)
<1> DEFINE request == Request(u, type, amount, intents)
<1>1. /\ Loaded(u) /\ sent[s] = None
      /\ Turn(u, [mem[u] EXCEPT !.inFlight = s], <<>>)
      /\ sent' = [sent EXCEPT ![s] = request] /\ handling' = handling \union {s}
      /\ intents \subseteq Verified(u)
  BY DEF BeginSettlement
<1>2. /\ TurnBasics(u) /\ TurnWrites(u) /\ TurnSettlements(u) /\ TurnPnl(u)
      /\ \A c \in Range(todo') : Expected(c)
      /\ mem'[u].inFlight = s
  BY <1>1, InFlightTurn
<1>3. request \in Requests /\ request.intents = intents /\ request # None
  <2>1. request \in Requests /\ request.intents = intents
    BY DEF Request, Requests
  <2> QED
    BY <2>1, NoneAssumption
<1> HIDE DEF request
<1>4. Recorded(intents)
  BY <1>1 DEF Recorded, Verified, NoIntent
<1>5. /\ sent \in [Settlements -> {None} \union Requests]
      /\ handling \subseteq Settlements /\ \A x \in handling : sent[x] # None
  BY DEF TypeInv
<1>6. /\ sent'[s] = request
      /\ \A x \in Settlements : x # s => sent'[x] = sent[x]
      /\ sent' \in [Settlements -> {None} \union Requests]
  BY <1>1, <1>3, <1>5
<1>7. \A x \in handling' : sent'[x] # None
  BY <1>1, <1>3, <1>5, <1>6
<1>8. TurnRequests(u)
  BY <1>1, <1>2, <1>3, <1>4, <1>5, <1>6, <1>7 DEF TurnRequests
<1> QED
  BY <1>2, <1>8 DEF Turned

LEMMA AbandonTurn ==
  ASSUME TypeInv, ReferencesInv, NEW s \in Settlements, AbandonSettlement(s)
  PROVE  \E u \in Users : Turned(u)
<1> DEFINE u == sent[s].user
<1>1. /\ s \in handling /\ Loaded(u)
      /\ Turn(u, [mem[u] EXCEPT !.inFlight = None], <<>>)
      /\ handling' = handling \ {s} /\ sent' = sent
  BY DEF AbandonSettlement
<1>2. sent[s] # None
  BY <1>1 DEF TypeInv
<1>3. u \in Users
  BY <1>2, RequestFields
<1> HIDE DEF u
<1>4. /\ TurnBasics(u) /\ TurnWrites(u) /\ TurnSettlements(u) /\ TurnPnl(u)
      /\ \A c \in Range(todo') : Expected(c)
      /\ mem'[u].inFlight = None
  BY <1>1, <1>3, InFlightTurn
<1>5. TurnRequests(u)
  BY <1>1, <1>3, <1>4, SameRequests
<1> QED
  BY <1>3, <1>4, <1>5 DEF Turned

Submitted(v, s, record) == [v EXCEPT !.inFlight = s, !.settlements[s] = record]

LEMMA SubmittedView ==
  ASSUME NEW v \in Views, NEW s \in Settlements, NEW record
  PROVE  Submitted(v, s, record)
         = [balance |-> v.balance, position |-> v.position, orders |-> v.orders,
            trades |-> v.trades, settlements |-> [v.settlements EXCEPT ![s] = record],
            inFlight |-> s]
<1> DEFINE a == [v EXCEPT !.inFlight = s]
           b == [a EXCEPT !.settlements = [@ EXCEPT ![s] = record]]
<1>0. v = [balance |-> v.balance, position |-> v.position, orders |-> v.orders,
           trades |-> v.trades, settlements |-> v.settlements, inFlight |-> v.inFlight]
  BY ViewFields
<1>1. a = [balance |-> v.balance, position |-> v.position, orders |-> v.orders,
           trades |-> v.trades, settlements |-> v.settlements, inFlight |-> s]
  BY <1>0
<1>2. b = [balance |-> v.balance, position |-> v.position, orders |-> v.orders,
           trades |-> v.trades, settlements |-> [v.settlements EXCEPT ![s] = record],
           inFlight |-> s]
  <2> HIDE DEF a
  <2> QED
    BY <1>1
<1>3. Submitted(v, s, record) = b
  BY DEF Submitted
<1> QED
  BY <1>2, <1>3

Applied(v, balance, flight, s, record) ==
  [v EXCEPT !.balance = balance, !.inFlight = flight, !.settlements[s] = record]

LEMMA AppliedView ==
  ASSUME NEW v \in Views, NEW balance, NEW flight, NEW s \in Settlements, NEW record
  PROVE  Applied(v, balance, flight, s, record)
         = [balance |-> balance, position |-> v.position, orders |-> v.orders,
            trades |-> v.trades, settlements |-> [v.settlements EXCEPT ![s] = record],
            inFlight |-> flight]
<1> DEFINE a == [v EXCEPT !.balance = balance]
           b == [a EXCEPT !.inFlight = flight]
           d == [b EXCEPT !.settlements = [@ EXCEPT ![s] = record]]
<1>0. v = [balance |-> v.balance, position |-> v.position, orders |-> v.orders,
           trades |-> v.trades, settlements |-> v.settlements, inFlight |-> v.inFlight]
  BY ViewFields
<1>1. a = [balance |-> balance, position |-> v.position, orders |-> v.orders,
           trades |-> v.trades, settlements |-> v.settlements, inFlight |-> v.inFlight]
  BY <1>0
<1>2. b = [balance |-> balance, position |-> v.position, orders |-> v.orders,
           trades |-> v.trades, settlements |-> v.settlements, inFlight |-> flight]
  <2> HIDE DEF a
  <2> QED
    BY <1>1
<1>3. d = [balance |-> balance, position |-> v.position, orders |-> v.orders,
           trades |-> v.trades, settlements |-> [v.settlements EXCEPT ![s] = record],
           inFlight |-> flight]
  <2> HIDE DEF b
  <2> QED
    BY <1>2
<1>4. Applied(v, balance, flight, s, record) = d
  BY DEF Applied
<1> QED
  BY <1>3, <1>4

LEMMA SubmittedTurn ==
  ASSUME TypeInv, ReferencesInv, NEW s \in Settlements, RecordSubmitted(s)
  PROVE  \E u \in Users : Turned(u)
<1> DEFINE r == sent[s]
           u == r.user
           row == Row(u, r.type, r.amount, "ONCHAIN_SUBMITTED")
           record == [row |-> row, intents |-> r.intents]
           view == [mem[u] EXCEPT !.inFlight = s, !.settlements[s] = record]
           upsert == Upsert(s, record)
<1>1. /\ s \in handling /\ Loaded(u) /\ mem[u].settlements[s] = None
      /\ Turn(u, view, <<upsert>>)
      /\ handling' = handling /\ sent' = sent
  BY DEF RecordSubmitted
<1>2. r # None
  BY <1>1 DEF TypeInv
<1>3. u \in Users /\ r.type \in Types /\ r.amount \in Int /\ r.intents \subseteq Intents
  BY <1>2, RequestFields
<1>4. Recorded(r.intents)
  BY <1>2 DEF ReferencesInv, FlightsKnown, RowsKnown, MemoryKnown
<1>5. row \in Rows /\ row.user = u /\ row.status = "ONCHAIN_SUBMITTED"
  BY <1>3 DEF Row, Rows
<1>6. record \in Records /\ record.row = row /\ record.intents = r.intents
  BY <1>3, <1>5 DEF Records
<1>7. mem[u] \in Views /\ Known(u) = mem[u]
  BY <1>1, <1>3, KnownTyped
<1>8. view = [balance |-> mem[u].balance, position |-> mem[u].position, orders |-> mem[u].orders,
              trades |-> mem[u].trades,
              settlements |-> [mem[u].settlements EXCEPT ![s] = record], inFlight |-> s]
  <2>1. PICK v \in Views : v = mem[u]
    BY <1>7
  <2> HIDE DEF record, u
  <2>2. Submitted(v, s, record)
          = [balance |-> v.balance, position |-> v.position, orders |-> v.orders,
             trades |-> v.trades, settlements |-> [v.settlements EXCEPT ![s] = record],
             inFlight |-> s]
    BY SubmittedView
  <2>3. view = Submitted(v, s, record)
    BY <2>1 DEF Submitted
  <2> HIDE DEF view
  <2> QED
    BY <2>1, <2>2, <2>3
<1>9. upsert.name = "upsertSettlement" /\ upsert.user = u /\ upsert.key = s /\ upsert.value = record
  BY <1>5, <1>6, CallFields DEF Upsert
<1>10. upsert \in Calls
  BY <1>3, <1>5, <1>6, CallsTyped DEF Upsert
<1> HIDE DEF view, upsert, record, row, u
<1>11. /\ Idle /\ mem' = [mem EXCEPT ![u] = mem'[u]] /\ mem'[u] = view
       /\ todo' = <<upsert>> /\ UNCHANGED <<db, twin, running, kills, torn>>
  BY <1>1, <1>3, TurnOf
<1>12. /\ todo' \in Seq(Calls) /\ Ordered(todo')
       /\ \A x : x \in Range(todo') <=> x = upsert
  BY <1>10, <1>11, Single
<1>13. mem[u].settlements \in [Settlements -> {None} \union Records]
  BY <1>7, ViewFields
<1>14. /\ view.balance = mem[u].balance /\ view.position = mem[u].position
       /\ view.orders = mem[u].orders /\ view.trades = mem[u].trades
       /\ view.settlements = [mem[u].settlements EXCEPT ![s] = record] /\ view.inFlight = s
       /\ view.settlements[s] = record
       /\ \A x \in Settlements : x # s => view.settlements[x] = mem[u].settlements[x]
  <2>1. /\ view.balance = mem[u].balance /\ view.position = mem[u].position
        /\ view.orders = mem[u].orders /\ view.trades = mem[u].trades
        /\ view.settlements = [mem[u].settlements EXCEPT ![s] = record] /\ view.inFlight = s
    BY <1>8
  <2> QED
    BY <1>13, <2>1
<1>15. view \in Views
  <2>1. [mem[u].settlements EXCEPT ![s] = record] \in [Settlements -> {None} \union Records]
    BY <1>6, <1>13
  <2> QED
    BY <1>7, <1>8, <2>1, ViewFields DEF Views
<1>16. TurnBasics(u)
  BY <1>1, <1>9, <1>11, <1>12, <1>15 DEF TurnBasics, CallNames
<1>17. TurnRequests(u)
  BY <1>1, <1>2, <1>3, <1>11, <1>14, SameRequests
<1>18. TurnWrites(u)
  BY <1>7, <1>9, <1>11, <1>12, <1>14 DEF TurnWrites
<1>19. TurnSettlements(u)
  <2>1. ~ AlreadyConfirmed(u, s)
    BY <1>1 DEF AlreadyConfirmed
  <2>2. sent[s].user = u
    BY DEF u
  <2> QED
    BY <1>2, <1>4, <1>5, <1>6, <1>9, <1>12, <2>1, <2>2 DEF TurnSettlements, Consumes
<1>20. \A c \in Range(todo') : Expected(c)
  BY <1>9, <1>12 DEF Expected
<1>21. TurnPnl(u)
  <2>1. \A c \in Range(todo') : ~ ConfirmedCall(c) /\ c.name # "setPosition"
    BY <1>5, <1>6, <1>9, <1>12 DEF ConfirmedCall
  <2>2. mem[u].position.realized \in Int /\ mem[u].balance.pnl \in Int
    BY <1>7, ViewFields
  <2>3. mem'[u].position.realized - mem[u].position.realized
          = mem'[u].balance.pnl - mem[u].balance.pnl
    BY <1>11, <1>14, <2>2
  <2> QED
    BY <1>7, <2>1, <2>3 DEF TurnPnl
<1> QED
  BY <1>3, <1>16, <1>17, <1>18, <1>19, <1>20, <1>21 DEF Turned

LEMMA ConsumeCalls ==
  ASSUME NEW s \in Settlements, NEW intents \in SUBSET Intents, sent[s].user \in Users
  PROVE  /\ Consume(s, intents) \in Seq(Calls) /\ Ordered(Consume(s, intents))
         /\ \A x : x \in Range(Consume(s, intents)) <=>
              \E n \in intents : x = Call("markIntent", sent[s].user, n, Intent("CONSUMED", s))
<1> DEFINE u == sent[s].user
           size == Cardinality(intents)
           Mark(n) == Call("markIntent", u, n, Intent("CONSUMED", s))
           calls == Consume(s, intents)
<1>1. /\ size \in Nat
      /\ \A i \in 1..size : Numbering(intents)[i] \in intents
      /\ \A n \in intents : \E i \in 1..size : Numbering(intents)[i] = n
  BY Subsets
<1>2. \A n \in intents : Mark(n) \in Calls /\ Mark(n).name = "markIntent"
  BY CallsTyped, CallFields
<1>3. calls = [i \in 1..size |-> Mark(Numbering(intents)[i])]
  BY DEF Consume
<1> HIDE DEF Mark, size, calls
<1>4. calls \in Seq(Calls) /\ DOMAIN calls = 1..size
  BY <1>1, <1>2, <1>3
<1>5. ASSUME NEW x
      PROVE  x \in Range(calls) <=> \E n \in intents : x = Mark(n)
  <2>1. x \in Range(calls) <=> \E i \in 1..size : x = calls[i]
    BY <1>4 DEF Range
  <2> QED
    BY <1>1, <1>3, <2>1
<1>6. \A i \in DOMAIN calls : calls[i].name = "markIntent"
  BY <1>1, <1>2, <1>3, <1>4
<1>7. Ordered(calls)
  BY <1>6 DEF Ordered, MayFollow
<1> QED
  BY <1>4, <1>5, <1>7 DEF Mark, calls

\* What the caller of applyIndexedSettlement does before and after it.
Around(u, before, after) ==
  /\ before \in Seq(Calls) /\ Ordered(before)
  /\ \A c \in Range(before) : c.name = "claimEvent" /\ c.user = u
  /\ after \in Seq(Calls) /\ Ordered(after)
  /\ \A c \in Range(after) : c.name = "markIntent" /\ c.user = u

LEMMA AroundFacts ==
  ASSUME NEW u \in Users, NEW before, NEW after, Around(u, before, after)
  PROVE  /\ before \o after \in Seq(Calls) /\ Ordered(before \o after)
         /\ \A c : c \in Range(before \o after) <=> c \in Range(before) \/ c \in Range(after)
         /\ \A a, b \in Calls :
              a.name = "saveBalance" /\ b.name = "upsertSettlement" =>
                /\ before \o <<a, b>> \o after \in Seq(Calls)
                /\ Ordered(before \o <<a, b>> \o after)
                /\ \A c : c \in Range(before \o <<a, b>> \o after) <=>
                     c \in Range(before) \/ c = a \/ c = b \/ c \in Range(after)
<1>1. /\ before \in Seq(Calls) /\ Ordered(before)
      /\ \A c \in Range(before) : c.name = "claimEvent"
      /\ after \in Seq(Calls) /\ Ordered(after)
      /\ \A c \in Range(after) : c.name = "markIntent"
  BY DEF Around
<1>2. \A c \in Range(before), d \in Range(after) : MayFollow(c, d)
  BY <1>1 DEF MayFollow
<1>3. /\ before \o after \in Seq(Calls)
      /\ \A c : c \in Range(before \o after) <=> c \in Range(before) \/ c \in Range(after)
      /\ Ordered(before \o after)
  BY <1>1, <1>2, ConcatRange, ConcatOrdered
<1>4. ASSUME NEW a \in Calls, NEW b \in Calls,
             a.name = "saveBalance", b.name = "upsertSettlement"
      PROVE  /\ before \o <<a, b>> \o after \in Seq(Calls)
             /\ Ordered(before \o <<a, b>> \o after)
             /\ \A c : c \in Range(before \o <<a, b>> \o after) <=>
                  c \in Range(before) \/ c = a \/ c = b \/ c \in Range(after)
  <2> DEFINE pair == <<a, b>>
             front == before \o pair
  <2>1. MayFollow(a, b)
    BY <1>4 DEF MayFollow
  <2>2. /\ pair \in Seq(Calls) /\ Ordered(pair)
        /\ \A x : x \in Range(pair) <=> x = a \/ x = b
    BY <2>1, Pair
  <2> HIDE DEF pair
  <2>3. \A c \in Range(before), d \in Range(pair) : MayFollow(c, d)
    BY <1>1, <1>4, <2>2 DEF MayFollow
  <2>4. /\ front \in Seq(Calls) /\ Ordered(front)
        /\ \A c : c \in Range(front) <=> c \in Range(before) \/ c \in Range(pair)
    BY <1>1, <2>2, <2>3, ConcatRange, ConcatOrdered
  <2> HIDE DEF front
  <2>5. \A c \in Range(front), d \in Range(after) : MayFollow(c, d)
    BY <1>1, <1>4, <2>2, <2>4 DEF MayFollow
  <2>6. /\ front \o after \in Seq(Calls) /\ Ordered(front \o after)
        /\ \A c : c \in Range(front \o after) <=> c \in Range(front) \/ c \in Range(after)
    BY <1>1, <2>4, <2>5, ConcatRange, ConcatOrdered
  <2> QED
    BY <2>2, <2>4, <2>6 DEF front, pair
<1> QED
  BY <1>3, <1>4

\* What may be in the calls after a confirmation.
ConsumesOnly(u, s, intents, after) ==
  \A c \in Range(after) :
    /\ c.name = "markIntent" /\ c.user = u /\ c.key \in intents
    /\ c.value.status = "CONSUMED" /\ c.value.by = s

\* A confirmation of what is confirmed already.
LEMMA ConfirmedAgainTurn ==
  ASSUME TypeInv, ReferencesInv, NEW u \in Users, NEW s \in Settlements, Loaded(u),
         AlreadyConfirmed(u, s), NEW before, NEW after, Around(u, before, after),
         ConsumesOnly(u, s, mem[u].settlements[s].intents, after),
         Turn(u, mem[u], before \o after), sent' = sent, handling' \subseteq handling
  PROVE  Turned(u)
<1>1. /\ Idle /\ mem' = [mem EXCEPT ![u] = mem'[u]] /\ mem'[u] = mem[u]
      /\ todo' = before \o after /\ UNCHANGED <<db, twin, running, kills, torn>>
  BY TurnOf
<1>2. mem[u] \in Views /\ Known(u) = mem[u]
  BY KnownTyped
<1>3. /\ todo' \in Seq(Calls) /\ Ordered(todo')
      /\ \A c : c \in Range(todo') <=> c \in Range(before) \/ c \in Range(after)
  BY <1>1, AroundFacts
<1>4. \A c \in Range(todo') :
        /\ c.user = u /\ c.name \in {"claimEvent", "markIntent"}
        /\ c.name = "markIntent" => c \in Range(after)
  BY <1>3 DEF Around
<1>5. TurnBasics(u)
  BY <1>1, <1>2, <1>3, <1>4 DEF TurnBasics, CallNames
<1>6. TurnRequests(u)
  BY <1>1, SameRequests
<1>7. TurnWrites(u)
  BY <1>1, <1>2, <1>4 DEF TurnWrites
<1>8. TurnSettlements(u)
  <2>1. ASSUME NEW c \in Range(todo'), Consumes(c)
        PROVE  c.value.by = s /\ c.key \in mem[u].settlements[s].intents
    BY <1>4, <2>1 DEF Consumes, ConsumesOnly
  <2> QED
    BY <1>4, <2>1 DEF TurnSettlements
<1>9. \A c \in Range(todo') : Expected(c)
  <2>1. Recorded(mem[u].settlements[s].intents)
    BY DEF ReferencesInv, FlightsKnown, RowsKnown, MemoryKnown, AlreadyConfirmed
  <2> QED
    BY <1>4, <2>1 DEF Expected, ConsumesOnly, Recorded
<1>10. TurnPnl(u)
  <2>1. mem[u].position.realized \in Int /\ mem[u].balance.pnl \in Int
    BY <1>2, ViewFields
  <2>2. mem'[u].position.realized - mem[u].position.realized
          = mem'[u].balance.pnl - mem[u].balance.pnl
    BY <1>1, <2>1
  <2> QED
    BY <1>2, <1>4, <2>2 DEF TurnPnl, ConfirmedCall
<1> QED
  BY <1>5, <1>6, <1>7, <1>8, <1>9, <1>10 DEF Turned

\* A first confirmation.
LEMMA ConfirmedTurn ==
  ASSUME TypeInv, ReferencesInv, NEW u \in Users, NEW s \in Settlements, Loaded(u),
         sent[s] # None, sent[s].user = u, ~ AlreadyConfirmed(u, s),
         NEW balance, NEW flight, NEW record \in Records,
         balance \in Balances, balance.pnl = mem[u].balance.pnl - Share(record.row),
         flight = None \/ flight = mem[u].inFlight,
         record.row.user = u, record.row.status = "ONCHAIN_CONFIRMED", Recorded(record.intents),
         NEW before, NEW after, Around(u, before, after), ConsumesOnly(u, s, record.intents, after),
         Turn(u, Applied(mem[u], balance, flight, s, record),
              before \o <<Save(u, balance), Upsert(s, record)>> \o after),
         sent' = sent, handling' \subseteq handling
  PROVE  Turned(u)
<1> DEFINE view == Applied(mem[u], balance, flight, s, record)
           save == Save(u, balance)
           upsert == Upsert(s, record)
<1>1. /\ Idle /\ mem' = [mem EXCEPT ![u] = mem'[u]] /\ mem'[u] = view
      /\ todo' = before \o <<save, upsert>> \o after
      /\ UNCHANGED <<db, twin, running, kills, torn>>
  <2> DEFINE calls == before \o <<save, upsert>> \o after
  <2>1. Turn(u, view, calls)
    OBVIOUS
  <2> HIDE DEF calls, view
  <2>2. /\ Idle /\ mem' = [mem EXCEPT ![u] = mem'[u]] /\ mem'[u] = view
        /\ todo' = calls /\ UNCHANGED <<db, twin, running, kills, torn>>
    BY <2>1, TurnOf
  <2> QED
    BY <2>2 DEF calls
<1>2. mem[u] \in Views /\ Known(u) = mem[u]
  BY KnownTyped
<1>3. view = [balance |-> balance, position |-> mem[u].position, orders |-> mem[u].orders,
              trades |-> mem[u].trades,
              settlements |-> [mem[u].settlements EXCEPT ![s] = record], inFlight |-> flight]
  <2>1. PICK v \in Views : v = mem[u]
    BY <1>2
  <2>2. Applied(v, balance, flight, s, record)
          = [balance |-> balance, position |-> v.position, orders |-> v.orders,
             trades |-> v.trades, settlements |-> [v.settlements EXCEPT ![s] = record],
             inFlight |-> flight]
    BY AppliedView
  <2> QED
    BY <2>1, <2>2
<1>4. mem[u].settlements \in [Settlements -> {None} \union Records]
      /\ mem[u].inFlight \in {None} \union Settlements
  BY <1>2, ViewFields
<1>5. /\ save.name = "saveBalance" /\ save.user = u /\ save.value = balance
      /\ upsert.name = "upsertSettlement" /\ upsert.user = u /\ upsert.key = s
      /\ upsert.value = record
  BY CallFields DEF Save, Upsert
<1>6. save \in Calls /\ upsert \in Calls
  BY CallsTyped DEF Save, Upsert
<1> HIDE DEF view, save, upsert
<1>7. /\ todo' \in Seq(Calls) /\ Ordered(todo')
      /\ \A c : c \in Range(todo') <=>
           c \in Range(before) \/ c = save \/ c = upsert \/ c \in Range(after)
  BY <1>1, <1>5, <1>6, AroundFacts
<1>8. /\ view.balance = balance /\ view.position = mem[u].position
      /\ view.orders = mem[u].orders /\ view.trades = mem[u].trades
      /\ view.settlements = [mem[u].settlements EXCEPT ![s] = record]
      /\ view.inFlight = flight
  BY <1>3
<1>9. /\ view.settlements[s] = record
      /\ \A x \in Settlements : x # s => view.settlements[x] = mem[u].settlements[x]
      /\ view.settlements \in [Settlements -> {None} \union Records]
  BY <1>4, <1>8
<1>10. view \in Views
  BY <1>2, <1>3, <1>4, <1>8, <1>9, ViewFields DEF Views
<1>11. \A c \in Range(before) : c.name = "claimEvent" /\ c.user = u
  BY DEF Around
<1>12. \A c \in Range(after) : c.name = "markIntent" /\ c.user = u
  BY DEF Around
<1>13. TurnBasics(u)
  BY <1>1, <1>5, <1>7, <1>10, <1>11, <1>12 DEF TurnBasics, CallNames
<1>14. TurnRequests(u)
  BY <1>1, <1>8, SameRequests
<1>15. TurnWrites(u)
  BY <1>1, <1>2, <1>5, <1>7, <1>8, <1>9, <1>11, <1>12 DEF TurnWrites
<1>16. TurnSettlements(u)
  <2>1. ASSUME NEW c \in Range(todo'), Consumes(c)
        PROVE  c.value.by = s /\ c.key \in record.intents
    BY <1>5, <1>7, <1>11, <2>1 DEF Consumes, ConsumesOnly
  <2>2. ASSUME NEW c \in Range(todo'), c.name = "upsertSettlement"
        PROVE  c.key = s /\ c.value = record
    BY <1>5, <1>7, <1>11, <1>12, <2>2
  <2>3. \A c \in Range(todo') : c.name \notin {"addOrder", "setPosition"}
    BY <1>5, <1>7, <1>11, <1>12
  <2>4. upsert \in Range(todo')
    BY <1>7
  <2> QED
    BY <1>5, <2>1, <2>2, <2>3, <2>4 DEF TurnSettlements
<1>17. \A c \in Range(todo') : Expected(c)
  <2>1. \A c \in Range(after) : db.intents[c.key] # NoIntent
    BY DEF Recorded, ConsumesOnly
  <2> QED
    BY <1>5, <1>7, <1>11, <1>12, <2>1 DEF Expected
<1>18. TurnPnl(u)
  <2>1. upsert \in Range(todo') /\ ConfirmedCall(upsert)
    BY <1>5, <1>7 DEF ConfirmedCall
  <2>2. ASSUME NEW c \in Range(todo'), ConfirmedCall(c)
        PROVE  c.value = record
    BY <1>5, <1>7, <1>11, <1>12, <2>2 DEF ConfirmedCall
  <2>3. \A c \in Range(todo') : c.name # "setPosition"
    BY <1>5, <1>7, <1>11, <1>12
  <2> QED
    BY <1>1, <1>2, <1>8, <2>1, <2>2, <2>3 DEF TurnPnl
<1> QED
  BY <1>13, <1>14, <1>15, <1>16, <1>17, <1>18 DEF Turned

\* The context of a confirmation.
LEMMA ContextFacts ==
  ASSUME TypeInv, ReferencesInv, NEW u \in Users, NEW s \in Settlements, Loaded(u)
  PROVE  /\ Context(u, s).type \in Types /\ Context(u, s).intents \subseteq Intents
         /\ Recorded(Context(u, s).intents)
<1>1. mem[u].settlements \in [Settlements -> {None} \union Records]
      /\ mem[u].inFlight \in {None} \union Settlements
  BY KnownTyped, ViewFields
<1>2. CASE mem[u].settlements[s] # None
  <2>1. mem[u].settlements[s] \in Records
    BY <1>1, <1>2
  <2>2. Recorded(mem[u].settlements[s].intents)
    BY <1>2 DEF ReferencesInv, FlightsKnown, RowsKnown, MemoryKnown
  <2>3. Context(u, s) = [type |-> mem[u].settlements[s].row.type,
                         intents |-> mem[u].settlements[s].intents]
    BY <1>2 DEF Context
  <2> QED
    BY <2>1, <2>2, <2>3 DEF Records, Rows
<1>3. CASE mem[u].settlements[s] = None /\ mem[u].inFlight # None
  <2>1. mem[u].inFlight \in Settlements /\ sent[mem[u].inFlight] # None
    BY <1>1, <1>3 DEF ReferencesInv, FlightsKnown, RowsKnown, MemoryKnown
  <2>2. /\ sent[mem[u].inFlight].type \in Types /\ sent[mem[u].inFlight].intents \subseteq Intents
        /\ Recorded(sent[mem[u].inFlight].intents)
    BY <2>1, RequestFields DEF ReferencesInv, FlightsKnown, RowsKnown, MemoryKnown
  <2>3. Context(u, s) = [type |-> sent[mem[u].inFlight].type,
                         intents |-> sent[mem[u].inFlight].intents]
    BY <1>3 DEF Context
  <2> QED
    BY <2>2, <2>3
<1>4. CASE mem[u].settlements[s] = None /\ mem[u].inFlight = None
  <2>1. Context(u, s) = [type |-> "GENERIC", intents |-> {}]
    BY <1>4 DEF Context
  <2> QED
    BY <2>1 DEF Types, Recorded
<1> QED
  BY <1>2, <1>3, <1>4

LEMMA ApplyTurn ==
  ASSUME TypeInv, ReferencesInv, NEW s \in Settlements, sent[s] # None, Loaded(sent[s].user),
         NEW newBalance \in Nat, NEW before, NEW consuming \in BOOLEAN,
         before \in Seq(Calls), Ordered(before),
         \A c \in Range(before) : c.name = "claimEvent" /\ c.user = sent[s].user,
         ApplySettlement(sent[s].user, s, newBalance, before, consuming),
         sent' = sent, handling' \subseteq handling
  PROVE  Turned(sent[s].user)
<1> DEFINE u == sent[s].user
           amount == sent[s].amount
           context == Context(u, s)
           pnl == mem[u].balance.pnl - (IF context.type = "TRADING_PNL" THEN amount ELSE 0)
           balance == [collateral |-> newBalance, pnl |-> pnl]
           row == Row(u, context.type, amount, "ONCHAIN_CONFIRMED")
           record == [row |-> row, intents |-> context.intents]
           after(intents) == IF consuming THEN Consume(s, intents) ELSE <<>>
           released == mem[u].inFlight # None
                         /\ (mem[u].inFlight = s \/ sent[mem[u].inFlight].amount = amount)
           flight == IF released THEN None ELSE mem[u].inFlight
<1>1. u \in Users /\ amount \in Int
  BY RequestFields
<1>2. ASSUME NEW intents \in SUBSET Intents
      PROVE  Around(u, before, after(intents)) /\ ConsumesOnly(u, s, intents, after(intents))
  <2>1. CASE consuming
    <3>1. /\ Consume(s, intents) \in Seq(Calls) /\ Ordered(Consume(s, intents))
          /\ \A x : x \in Range(Consume(s, intents)) <=>
               \E n \in intents : x = Call("markIntent", u, n, Intent("CONSUMED", s))
      BY <1>1, <1>2, ConsumeCalls
    <3>2. \A n : LET c == Call("markIntent", u, n, Intent("CONSUMED", s)) IN
            /\ c.name = "markIntent" /\ c.user = u /\ c.key = n
            /\ c.value.status = "CONSUMED" /\ c.value.by = s
      BY CallFields DEF Intent
    <3>3. after(intents) = Consume(s, intents)
      BY <2>1
    <3> HIDE DEF after, u
    <3>4. \A x \in Range(after(intents)) :
            /\ x.name = "markIntent" /\ x.user = u /\ x.key \in intents
            /\ x.value.status = "CONSUMED" /\ x.value.by = s
      BY <3>1, <3>2, <3>3
    <3> QED
      BY <3>1, <3>3, <3>4 DEF Around, ConsumesOnly, u
  <2>2. CASE ~ consuming
    <3>1. after(intents) = <<>>
      BY <2>2
    <3> HIDE DEF after
    <3> QED
      BY <3>1, EmptyRange, EmptyOrdered DEF Around, ConsumesOnly
  <2> QED
    BY <2>1, <2>2
<1>3. context.type \in Types /\ context.intents \in SUBSET Intents /\ Recorded(context.intents)
  BY <1>1, ContextFacts
<1>4. mem[u] \in Views /\ mem[u].balance.pnl \in Int
      /\ mem[u].settlements \in [Settlements -> {None} \union Records]
  BY <1>1, KnownTyped, ViewFields
<1>5. CASE AlreadyConfirmed(u, s)
  <2>1. mem[u].settlements[s].intents \in SUBSET Intents
    BY <1>4, <1>5 DEF AlreadyConfirmed, Records
  <2>2. Turn(u, mem[u], before \o after(mem[u].settlements[s].intents))
    BY <1>5 DEF ApplySettlement
  <2>3. /\ Around(u, before, after(mem[u].settlements[s].intents))
        /\ ConsumesOnly(u, s, mem[u].settlements[s].intents, after(mem[u].settlements[s].intents))
    BY <1>2, <2>1
  <2> HIDE DEF after, u
  <2>4. Loaded(u)
    BY DEF u
  <2>5. Turned(u)
    BY <1>1, <1>5, <2>2, <2>3, <2>4, ConfirmedAgainTurn
  <2> QED
    BY <2>5 DEF u
<1>6. CASE ~ AlreadyConfirmed(u, s)
  <2>1. /\ row \in Rows /\ row.user = u /\ row.status = "ONCHAIN_CONFIRMED"
        /\ Share(row) = IF context.type = "TRADING_PNL" THEN amount ELSE 0
    BY <1>1, <1>3 DEF Row, Rows, Share
  <2>2. record \in Records /\ record.row = row /\ record.intents = context.intents
    BY <1>3, <2>1 DEF Records
  <2>3. balance \in Balances /\ balance.pnl = mem[u].balance.pnl - Share(record.row)
    BY <1>1, <1>4, <2>1, <2>2 DEF Balances
  <2>4. flight = None \/ flight = mem[u].inFlight
    OBVIOUS
  <2>5. Turn(u, Applied(mem[u], balance, flight, s, record),
             before \o <<Save(u, balance), Upsert(s, record)>> \o after(record.intents))
    BY <1>6 DEF ApplySettlement, Applied
  <2>6. /\ Around(u, before, after(record.intents))
        /\ ConsumesOnly(u, s, record.intents, after(record.intents))
    BY <1>2, <1>3, <2>2
  <2>7. Loaded(u) /\ sent[s].user = u
    OBVIOUS
  <2>8. record.row.user = u /\ record.row.status = "ONCHAIN_CONFIRMED" /\ Recorded(record.intents)
    BY <1>3, <2>1, <2>2
  <2> HIDE DEF after, u, record, balance, flight
  <2>9. Turned(u)
    BY <1>1, <1>6, <2>2, <2>3, <2>4, <2>5, <2>6, <2>7, <2>8, ConfirmedTurn
  <2> QED
    BY <2>9 DEF u
<1> QED
  BY <1>5, <1>6

LEMMA IndexTurn ==
  ASSUME TypeInv, ReferencesInv, NEW log \in SettlementLogs, NEW newBalance \in 0..MaxCollateral,
         IndexSettlement(log, newBalance)
  PROVE  \E u \in Users : Turned(u)
<1> DEFINE s == log[1]
           u == sent[s].user
           claim == Call("claimEvent", u, log, None)
<1>1. s \in Settlements /\ log \in Logs
  BY DEF SettlementLogs, Logs
<1>2. /\ sent[s] # None /\ Loaded(u)
      /\ ApplySettlement(u, s, newBalance, <<claim>>, FALSE)
      /\ handling' = handling /\ sent' = sent
  BY DEF IndexSettlement
<1>3. u \in Users
  BY <1>1, <1>2, RequestFields
<1>4. claim \in Calls /\ claim.name = "claimEvent" /\ claim.user = u
  BY <1>1, <1>3, CallsTyped, CallFields
<1>5. newBalance \in Nat
  BY StoreAssumption
<1> HIDE DEF claim, s
<1>6. /\ <<claim>> \in Seq(Calls) /\ Ordered(<<claim>>)
      /\ \A c \in Range(<<claim>>) : c = claim
  BY <1>4, Single
<1>7. Turned(u)
  BY <1>1, <1>2, <1>4, <1>5, <1>6, ApplyTurn
<1> QED
  BY <1>3, <1>7

LEMMA ConfirmTurn ==
  ASSUME TypeInv, ReferencesInv, NEW s \in Settlements, NEW newBalance \in 0..MaxCollateral,
         ConfirmSettlement(s, newBalance)
  PROVE  \E u \in Users : Turned(u)
<1> DEFINE u == sent[s].user
<1>1. /\ s \in handling /\ Loaded(u)
      /\ ApplySettlement(u, s, newBalance, <<>>, TRUE)
      /\ handling' = handling \ {s} /\ sent' = sent
  BY DEF ConfirmSettlement
<1>2. sent[s] # None
  BY <1>1 DEF TypeInv
<1>3. u \in Users
  BY <1>2, RequestFields
<1>4. newBalance \in Nat
  BY StoreAssumption
<1>5. <<>> \in Seq(Calls) /\ Ordered(<<>>) /\ \A c \in Range(<<>>) : FALSE
  BY EmptyRange, EmptyOrdered
<1>6. Turned(u)
  BY <1>1, <1>2, <1>4, <1>5, ApplyTurn
<1> QED
  BY <1>3, <1>6

LEMMA DepositTurn ==
  ASSUME TypeInv, ReferencesInv, NEW u \in Users, NEW log \in Deposits, IndexDeposit(u, log)
  PROVE  Turned(u)
<1> DEFINE balance == [mem[u].balance EXCEPT !.collateral = @ + 1]
           view == [mem[u] EXCEPT !.balance = balance]
           claim == Call("claimEvent", u, log, None)
           save == Save(u, balance)
<1>1. /\ Loaded(u) /\ Turn(u, view, <<claim, save>>)
      /\ handling' = handling /\ sent' = sent
  BY DEF IndexDeposit
<1>2. mem[u] \in Views /\ Known(u) = mem[u]
  BY <1>1, KnownTyped
<1>3. balance \in Balances /\ balance.pnl = mem[u].balance.pnl
  <2>1. PICK b \in Balances : b = mem[u].balance
    BY <1>2, ViewFields
  <2>2. PICK x \in Nat, y \in Int : b = [collateral |-> x, pnl |-> y]
    BY DEF Balances
  <2>3. [b EXCEPT !.collateral = @ + 1] = [collateral |-> x + 1, pnl |-> y]
    BY <2>2
  <2> QED
    BY <2>1, <2>2, <2>3 DEF Balances
<1> HIDE DEF balance
<1>4. view = [balance |-> balance, position |-> mem[u].position, orders |-> mem[u].orders,
              trades |-> mem[u].trades, settlements |-> mem[u].settlements,
              inFlight |-> mem[u].inFlight]
  <2>1. PICK v \in Views : v = mem[u]
    BY <1>2
  <2>2. v = [balance |-> v.balance, position |-> v.position, orders |-> v.orders,
             trades |-> v.trades, settlements |-> v.settlements, inFlight |-> v.inFlight]
    BY ViewFields
  <2>3. [v EXCEPT !.balance = balance]
          = [balance |-> balance, position |-> v.position, orders |-> v.orders,
             trades |-> v.trades, settlements |-> v.settlements, inFlight |-> v.inFlight]
    BY <2>2
  <2> QED
    BY <2>1, <2>3
<1>5. /\ claim.name = "claimEvent" /\ claim.user = u
      /\ save.name = "saveBalance" /\ save.user = u /\ save.value = balance
  BY CallFields DEF Save
<1>6. claim \in Calls /\ save \in Calls
  <2>1. log \in Logs
    BY DEF Logs
  <2> QED
    BY <1>3, <2>1, CallsTyped DEF Save
<1> HIDE DEF view, claim, save
<1>7. /\ view.balance = balance /\ view.position = mem[u].position
      /\ view.orders = mem[u].orders /\ view.trades = mem[u].trades
      /\ view.settlements = mem[u].settlements /\ view.inFlight = mem[u].inFlight
  BY <1>4
<1>8. view \in Views
  BY <1>2, <1>3, <1>4, ViewFields DEF Views
<1>9. /\ Idle /\ mem' = [mem EXCEPT ![u] = mem'[u]] /\ mem'[u] = view
      /\ todo' = <<claim, save>> /\ UNCHANGED <<db, twin, running, kills, torn>>
  BY <1>1, TurnOf
<1>10. MayFollow(claim, save)
  BY <1>5 DEF MayFollow
<1>11. /\ todo' \in Seq(Calls) /\ Ordered(todo')
       /\ \A c : c \in Range(todo') <=> c = claim \/ c = save
  BY <1>6, <1>9, <1>10, Pair
<1>12. TurnBasics(u)
  BY <1>1, <1>5, <1>8, <1>9, <1>11 DEF TurnBasics, CallNames
<1>13. TurnRequests(u)
  BY <1>1, <1>7, <1>9, SameRequests
<1>14. TurnWrites(u)
  BY <1>2, <1>5, <1>7, <1>9, <1>11 DEF TurnWrites
<1>15. TurnSettlements(u)
  BY <1>5, <1>11 DEF TurnSettlements, Consumes
<1>16. \A c \in Range(todo') : Expected(c)
  BY <1>5, <1>11 DEF Expected
<1>17. TurnPnl(u)
  <2>1. mem[u].position.realized \in Int /\ mem[u].balance.pnl \in Int
    BY <1>2, ViewFields
  <2>2. mem'[u].position.realized - mem[u].position.realized
          = mem'[u].balance.pnl - mem[u].balance.pnl
    BY <1>3, <1>7, <1>9, <2>1
  <2> QED
    BY <1>2, <1>5, <1>11, <2>2 DEF TurnPnl, ConfirmedCall
<1> QED
  BY <1>12, <1>13, <1>14, <1>15, <1>16, <1>17 DEF Turned

\* Every step is a statement, a kill or a turn.
LEMMA Steps ==
  ASSUME TypeInv, ReferencesInv, Next
  PROVE  BeginCall \/ ContinueCall \/ Kill \/ \E u \in Users : Turned(u)
<1>1. MaxPnl \in Nat /\ Deltas \subseteq Int
  BY StoreAssumption
<1>2. ASSUME NEW u \in Users, Load(u)
      PROVE  Turned(u)
  BY <1>2, LoadTurn
<1>3. ASSUME NEW u \in Users, NEW n \in Intents,
             IssueNonce(u, n) \/ VerifyIntent(u, n) \/ ExpireIntent(u, n)
      PROVE  Turned(u)
  BY <1>3, IntentTurns
<1>4. ASSUME NEW u \in Users, NEW c \in Orders,
             Buy(u, c) \/ \E gain \in Deltas \union {0} : Sell(u, c, gain)
      PROVE  Turned(u)
  BY <1>4, TradeTurns
<1>5. ASSUME NEW u \in Users, NEW log \in Deposits, IndexDeposit(u, log)
      PROVE  Turned(u)
  BY <1>5, DepositTurn
<1>6. ASSUME NEW u \in Users, NEW s \in Settlements, NEW intents \in SUBSET Intents,
             \/ \E amount \in -MaxPnl..MaxPnl :
                  BeginSettlement(u, s, "TRADING_PNL", amount, intents)
             \/ \E amount \in Deltas : BeginSettlement(u, s, "GENERIC", amount, intents)
      PROVE  Turned(u)
  <2>1. PICK type \in Types, amount \in Int : BeginSettlement(u, s, type, amount, intents)
    BY <1>1, <1>6 DEF Types
  <2> QED
    BY <2>1, BeginSettlementTurn
<1>7. ASSUME NEW log \in SettlementLogs, NEW newBalance \in 0..MaxCollateral,
             IndexSettlement(log, newBalance)
      PROVE  \E u \in Users : Turned(u)
  BY <1>7, IndexTurn
<1>8. ASSUME NEW s \in Settlements,
             \/ RecordSubmitted(s) \/ AbandonSettlement(s)
             \/ \E newBalance \in 0..MaxCollateral : ConfirmSettlement(s, newBalance)
      PROVE  \E u \in Users : Turned(u)
  BY <1>8, SubmittedTurn, AbandonTurn, ConfirmTurn
<1> QED
  BY <1>2, <1>3, <1>4, <1>5, <1>6, <1>7, <1>8 DEF Next

-----------------------------------------------------------------------------
(* Types and references are inductive. *)

LEMMA TurnType ==
  ASSUME TypeInv, NEW u \in Users, Turned(u)
  PROVE  TypeInv'
<1>1. /\ db' = db /\ running' = <<>> /\ mem'[u] \in Views /\ mem' = [mem EXCEPT ![u] = mem'[u]]
      /\ todo' \in Seq(Calls) /\ Ordered(todo')
      /\ \A c \in Range(todo') : c.user = u /\ c.name \in CallNames
  BY DEF Turned, TurnBasics, Idle
<1>2. /\ sent' \in [Settlements -> {None} \union Requests]
      /\ handling' \subseteq Settlements /\ \A s \in handling' : sent'[s] # None
  BY DEF Turned, TurnRequests
<1>3. Range(running') = {} /\ Ordered(running') /\ running' \in Seq(Calls)
  BY <1>1, EmptyRange, EmptyOrdered
<1>4. mem' \in [Users -> {None} \union Views]
  BY <1>1 DEF TypeInv
<1>5. db' \in Databases
  BY <1>1 DEF TypeInv
<1> QED
  BY <1>1, <1>2, <1>3, <1>4, <1>5 DEF TypeInv

LEMMA InitType == Init => TypeInv
<1> SUFFICES ASSUME Init
             PROVE  TypeInv
  OBVIOUS
<1>1. /\ db = Empty /\ mem = [u \in Users |-> None] /\ todo = <<>> /\ running = <<>>
      /\ handling = {} /\ sent = [s \in Settlements |-> None]
  BY DEF Init
<1>2. NoIntent \in IntentRows
  BY DEF NoIntent, IntentRows
<1>3. db \in Databases
  BY <1>1, <1>2 DEF Empty, Databases
<1> QED
  BY <1>1, <1>3, EmptyRange, EmptyOrdered DEF TypeInv

\* Statements never take a row of these away.
LEMMA RowsStay ==
  ASSUME NEW d \in Databases, NEW e, NEW c \in Calls, Tables(d, e, c)
  PROVE  /\ d.users \subseteq e.users
         /\ \A n \in Intents : d.intents[n] # NoIntent => e.intents[n] # NoIntent
         /\ \A s \in Settlements : d.settlements[s] # None => e.settlements[s] # None
<1>1. WellFormed(c) /\ c.user \in Users
  BY DEF Calls
<1>2. d.users \subseteq e.users
  BY DEF Tables
<1>3. \A n \in Intents : d.intents[n] # NoIntent => e.intents[n] # NoIntent
  <2> SUFFICES ASSUME NEW n \in Intents, d.intents[n] # NoIntent
               PROVE  e.intents[n] # NoIntent
    OBVIOUS
  <2>1. d.intents \in [Intents -> IntentRows]
    BY DatabaseColumns
  <2>2. CASE c.name = "recordIntent"
    <3>1. e.intents = [d.intents EXCEPT ![c.key] = IF @ = NoIntent THEN c.value ELSE @]
      BY <2>2 DEF Tables
    <3> QED
      BY <2>1, <3>1
  <2>3. CASE c.name = "markIntent"
    <3>1. e.intents = [d.intents EXCEPT ![c.key] = c.value]
      BY <2>3 DEF Tables
    <3>2. c.value # NoIntent
      BY <1>1, <2>3 DEF WellFormed, NoIntent
    <3> QED
      BY <2>1, <3>1, <3>2
  <2>4. CASE c.name \notin {"recordIntent", "markIntent"}
    BY <2>4 DEF Tables
  <2> QED
    BY <2>2, <2>3, <2>4
<1>4. \A s \in Settlements : d.settlements[s] # None => e.settlements[s] # None
  <2> SUFFICES ASSUME NEW s \in Settlements, d.settlements[s] # None
               PROVE  e.settlements[s] # None
    OBVIOUS
  <2>1. d.settlements \in [Settlements -> {None} \union Rows]
    BY DatabaseColumns
  <2>2. CASE c.name = "upsertRow"
    <3>1. e.settlements = [d.settlements EXCEPT ![c.key] = c.value]
      BY <2>2 DEF Tables
    <3>2. c.value # None
      BY <1>1, <2>2, NoneAssumption DEF WellFormed
    <3> QED
      BY <2>1, <3>1, <3>2
  <2>3. CASE c.name # "upsertRow"
    BY <2>3 DEF Tables
  <2> QED
    BY <2>2, <2>3
<1> QED
  BY <1>2, <1>3, <1>4

LEMMA TurnReferences ==
  ASSUME TypeInv, ReferencesInv, NEW u \in Users, Turned(u)
  PROVE  ReferencesInv'
<1>1. /\ todo = <<>> /\ running = <<>> /\ db' = db /\ running' = <<>>
      /\ mem' = [mem EXCEPT ![u] = mem'[u]] /\ mem'[u] \in Views
      /\ \A c \in Range(todo') : c.user = u /\ c.name \in CallNames
      /\ Loaded(u) \/ \E c \in Range(todo') : c.name = "ensureUser"
      /\ Loaded(u) \/ \A c \in Range(todo') : c.name \in {"ensureUser", "saveBalance"}
      /\ todo' \in Seq(Calls)
  BY DEF Turned, TurnBasics, Idle
<1>2. /\ \A s \in Settlements :
           sent'[s] # sent[s] => sent[s] = None /\ sent'[s] # None /\ Recorded(sent'[s].intents)
      /\ mem'[u].inFlight # None => sent'[mem'[u].inFlight] # None
  BY DEF Turned, TurnRequests
<1>3. TypeInv'
  BY TurnType
<1>4. /\ \A v \in Users : v # u => mem'[v] = mem[v]
      /\ mem \in [Users -> {None} \union Views]
  BY <1>1 DEF TypeInv
<1>5. Range(todo) = {} /\ Range(running') = {}
  BY <1>1, EmptyRange
<1>6. \A v \in Users : Loaded(v) => v \in db.users
  BY <1>5 DEF ReferencesInv, UsersKnown
<1>7. \A s \in Settlements : sent[s] # None => sent'[s] = sent[s]
  BY <1>2
<1>8. UsersKnown'
  BY <1>1, <1>4, <1>6 DEF UsersKnown, Loaded
<1>9. CallsKnown'
  BY <1>1, <1>6 DEF CallsKnown
<1>10. StatementsKnown'
  BY <1>5 DEF StatementsKnown
<1>11. UpsertsKnown'
  <2> SUFFICES ASSUME NEW c \in Range(todo'), c.name = "upsertSettlement"
               PROVE  /\ sent'[c.key] # None /\ sent'[c.key].user = c.user
                      /\ c.value.row.user = c.user /\ Recorded(c.value.intents)'
    BY DEF UpsertsKnown
  <2>1. c \in Calls
    BY <1>1, RangeTyped
  <2>2. c.key \in Settlements
    BY <2>1 DEF Calls, WellFormed
  <2>3. /\ sent[c.key] # None /\ sent[c.key].user = u /\ c.value.row.user = u
        /\ Recorded(c.value.intents)
    BY DEF Turned, TurnSettlements
  <2> QED
    BY <1>1, <1>7, <2>2, <2>3 DEF Recorded
<1>12. RowsKnown'
  BY <1>1, <1>2, <1>7 DEF ReferencesInv, RowsKnown, Recorded
<1>13. MemoryKnown'
  <2> SUFFICES ASSUME NEW v \in Users, NEW s \in Settlements, Loaded(v)',
                      mem'[v].settlements[s] # None
               PROVE  /\ sent'[s] # None /\ sent'[s].user = v
                      /\ mem'[v].settlements[s].row.user = v
                      /\ Recorded(mem'[v].settlements[s].intents)
    BY <1>1 DEF MemoryKnown, Recorded
  <2>1. CASE v # u
    BY <1>4, <1>7, <2>1 DEF ReferencesInv, MemoryKnown, Loaded
  <2>2. CASE v = u /\ \E c \in Range(todo') : c.name = "upsertSettlement" /\ c.key = s
    <3>1. PICK c \in Range(todo') : c.name = "upsertSettlement" /\ c.key = s
      BY <2>2
    <3>2. c.value = mem'[u].settlements[s]
      BY <3>1 DEF Turned, TurnWrites
    <3>3. /\ sent[s] # None /\ sent[s].user = u /\ c.value.row.user = u
          /\ Recorded(c.value.intents)
      BY <3>1 DEF Turned, TurnSettlements
    <3> QED
      BY <1>7, <2>2, <3>2, <3>3
  <2>3. CASE v = u /\ \A c \in Range(todo') : ~ (c.name = "upsertSettlement" /\ c.key = s)
    <3>1. mem'[u].settlements[s] = Known(u).settlements[s]
      BY <2>3 DEF Turned, TurnWrites
    <3>2. CASE Loaded(u)
      <4>1. Known(u) = mem[u]
        BY <3>2, KnownTyped
      <4> QED
        BY <1>7, <2>3, <3>1, <3>2, <4>1 DEF ReferencesInv, MemoryKnown
    <3>3. CASE ~ Loaded(u)
      <4>1. Known(u).settlements[s] = ListSettlements(db, u)[s]
        BY <3>3, ViewTyped DEF Known, TypeInv
      <4>2. /\ db.settlements[s] # None /\ db.settlements[s].user = u
            /\ Known(u).settlements[s] = [row |-> db.settlements[s], intents |-> LinkedTo(db, s)]
        BY <2>3, <3>1, <4>1 DEF ListSettlements
      <4>3. Recorded(LinkedTo(db, s))
        BY DEF ReferencesInv, LinksKnown, LinkedTo, Recorded
      <4> QED
        BY <1>7, <2>3, <3>1, <4>2, <4>3 DEF ReferencesInv, RowsKnown
    <3> QED
      BY <3>2, <3>3
  <2> QED
    BY <2>1, <2>2, <2>3
<1>14. FlightsKnown'
  <2> SUFFICES ASSUME NEW v \in Users, Loaded(v)', mem'[v].inFlight # None
               PROVE  sent'[mem'[v].inFlight] # None
    BY DEF FlightsKnown
  <2>1. CASE v # u
    <3>1. Loaded(v) /\ mem'[v] = mem[v] /\ mem[v] \in Views
      BY <1>4, <2>1 DEF Loaded
    <3>2. mem[v].inFlight \in Settlements
      BY <3>1, ViewFields
    <3> QED
      BY <1>7, <3>1, <3>2 DEF ReferencesInv, FlightsKnown
  <2> QED
    BY <1>2, <2>1
<1>15. LinksKnown'
  BY <1>1 DEF ReferencesInv, LinksKnown, Recorded
<1> QED
  BY <1>8, <1>9, <1>10, <1>11, <1>12, <1>13, <1>14, <1>15 DEF ReferencesInv

\* What only speaks of rows that stay.
LEMMA MemoryStays ==
  ASSUME TypeInv, RowsKnown, MemoryKnown, FlightsKnown, UNCHANGED <<mem, sent>>,
         \A n \in Intents : db.intents[n] # NoIntent => db'.intents[n] # NoIntent
  PROVE  /\ MemoryKnown' /\ FlightsKnown'
         /\ \A s \in Settlements : sent[s] # None => Recorded(sent[s].intents)'
<1>1. MemoryKnown'
  <2> SUFFICES ASSUME NEW u \in Users, NEW s \in Settlements, Loaded(u)',
                      mem'[u].settlements[s] # None
               PROVE  /\ sent'[s] # None /\ sent'[s].user = u
                      /\ mem'[u].settlements[s].row.user = u
                      /\ Recorded(mem[u].settlements[s].intents)'
    BY DEF MemoryKnown
  <2>1. Loaded(u) /\ mem[u].settlements[s] # None
    BY DEF Loaded
  <2>2. /\ sent[s] # None /\ sent[s].user = u /\ mem[u].settlements[s].row.user = u
        /\ Recorded(mem[u].settlements[s].intents)
    BY <2>1 DEF MemoryKnown
  <2>3. mem[u].settlements \in [Settlements -> {None} \union Records]
    BY <2>1, KnownTyped, ViewFields
  <2>4. mem[u].settlements[s].intents \subseteq Intents
    BY <2>1, <2>3 DEF Records
  <2> QED
    BY <2>2, <2>4 DEF Recorded
<1>2. FlightsKnown'
  BY DEF FlightsKnown, Loaded
<1>3. ASSUME NEW s \in Settlements, sent[s] # None
      PROVE  Recorded(sent[s].intents)'
  <2>1. sent[s].intents \subseteq Intents
    BY <1>3, RequestFields
  <2>2. Recorded(sent[s].intents)
    BY <1>3 DEF RowsKnown
  <2> QED
    BY <2>1, <2>2 DEF Recorded
<1> QED
  BY <1>1, <1>2, <1>3

\* What a call begins with.
LEMMA FirstOf ==
  ASSUME NEW c \in Calls, c.name \in CallNames
  PROVE  /\ First(c) \in Calls /\ First(c).user = c.user
         /\ c.name \in Ensuring => First(c).name = "ensureUser"
         /\ c.name = "upsertSettlement" =>
              First(c).name = "upsertRow" /\ First(c).key = c.key /\ First(c).value = c.value.row
         /\ c.name \notin Ensuring \union {"upsertSettlement"} => First(c) = c
<1>1. First(c) \in Calls /\ First(c).user = c.user
  BY Leftovers
<1>2. ASSUME c.name \in Ensuring
      PROVE  First(c).name = "ensureUser"
  <2>1. First(c) = Call("ensureUser", c.user, None, None)
    BY <1>2, Beginnings
  <2> QED
    BY <2>1, CallFields
<1>3. ASSUME c.name = "upsertSettlement"
      PROVE  First(c).name = "upsertRow" /\ First(c).key = c.key /\ First(c).value = c.value.row
  <2>1. First(c) = Call("upsertRow", c.user, c.key, c.value.row)
    BY <1>3, Beginnings
  <2> QED
    BY <2>1, CallFields
<1>4. c.name \notin Ensuring \union {"upsertSettlement"} => First(c) = c
  BY Beginnings
<1> QED
  BY <1>1, <1>2, <1>3, <1>4

LEMMA BeginReferences ==
  ASSUME TypeInv, ReferencesInv, BeginCall
  PROVE  ReferencesInv'
<1> DEFINE h == Head(todo)
           f == First(h)
<1>1. /\ h \in Calls /\ h.name \in CallNames /\ f \in Calls
      /\ Tables(db, db', f) /\ running' = Rest(h)
      /\ \A c : c \in Range(todo) <=> c = h \/ c \in Range(todo')
      /\ UNCHANGED <<mem, sent>> /\ db \in Databases
  <2>1. /\ h \in Calls /\ h.name \in CallNames
        /\ Tables(db, db', f) /\ running' = Rest(h)
        /\ \A c : c \in Range(todo) <=> c = h \/ c \in Range(todo')
        /\ UNCHANGED <<mem, sent>>
    BY BeginFacts
  <2>2. db \in Databases
    BY DEF TypeInv
  <2> HIDE DEF h
  <2> QED
    BY <2>1, <2>2, FirstOf
<1> HIDE DEF h
<1>2. /\ f.user = h.user
      /\ h.name \in Ensuring => f.name = "ensureUser"
      /\ h.name = "upsertSettlement" =>
           f.name = "upsertRow" /\ f.key = h.key /\ f.value = h.value.row
      /\ h.name \notin Ensuring \union {"upsertSettlement"} => f = h
  BY <1>1, FirstOf
<1> HIDE DEF f
<1>3. \A x \in Range(running') :
        /\ x.user = h.user
        /\ h.name \in Ensuring \union {"upsertSettlement"}
        /\ x.name = "link" =>
             h.name = "upsertSettlement" /\ x.key = h.key /\ x.value \in h.value.intents
  <2>1. CASE h.name \in Ensuring
    <3>1. \A x \in Range(Rest(h)) : x = h
      BY <1>1, <2>1, Leftovers
    <3> QED
      BY <1>1, <2>1, <3>1 DEF Ensuring
  <2>2. CASE h.name = "upsertSettlement"
    <3>1. \A x \in Range(Rest(h)) :
            \/ x = Call("unlink", h.user, h.key, None)
            \/ \E n \in h.value.intents : x = Call("link", h.user, h.key, n)
      BY <1>1, <2>2, Leftovers
    <3> QED
      BY <1>1, <2>2, <3>1, CallFields
  <2>3. CASE h.name \notin Ensuring \union {"upsertSettlement"}
    BY <1>1, <2>3, Leftovers
  <2> QED
    BY <2>1, <2>2, <2>3
<1>4. /\ db.users \subseteq db'.users
      /\ \A n \in Intents : db.intents[n] # NoIntent => db'.intents[n] # NoIntent
      /\ \A s \in Settlements : db.settlements[s] # None => db'.settlements[s] # None
  BY <1>1, RowsStay
<1>5. f.name = "ensureUser" => h.user \in db'.users
  BY <1>1, <1>2 DEF Tables
<1>6. UsersKnown'
  BY <1>1, <1>2, <1>4, <1>5 DEF ReferencesInv, UsersKnown, Loaded, Ensuring
<1>7. CallsKnown'
  BY <1>1, <1>4 DEF ReferencesInv, CallsKnown
<1>8. h.name = "upsertSettlement" =>
        /\ h.key \in Settlements /\ h.value.row \in Rows /\ h.value.intents \subseteq Intents
        /\ sent[h.key] # None /\ sent[h.key].user = h.user /\ h.value.row.user = h.user
        /\ Recorded(h.value.intents) /\ h.user \in db.users
        /\ db'.settlements = [db.settlements EXCEPT ![h.key] = h.value.row]
  <2> SUFFICES ASSUME h.name = "upsertSettlement"
               PROVE  /\ h.key \in Settlements
                      /\ h.value.row \in Rows /\ h.value.intents \subseteq Intents
                      /\ sent[h.key] # None /\ sent[h.key].user = h.user /\ h.value.row.user = h.user
                      /\ Recorded(h.value.intents) /\ h.user \in db.users
                      /\ db'.settlements = [db.settlements EXCEPT ![h.key] = h.value.row]
    OBVIOUS
  <2>1. h.key \in Settlements /\ h.value \in Records
    BY <1>1 DEF Calls, WellFormed
  <2>2. h \in Range(todo)
    BY <1>1
  <2>3. h.user \in db.users
    BY <2>2 DEF ReferencesInv, CallsKnown
  <2>4. /\ sent[h.key] # None /\ sent[h.key].user = h.user /\ h.value.row.user = h.user
        /\ Recorded(h.value.intents)
    BY <2>2 DEF ReferencesInv, UpsertsKnown
  <2>5. db'.settlements = [db.settlements EXCEPT ![h.key] = h.value.row]
    BY <1>1, <1>2 DEF Tables
  <2> QED
    BY <2>1, <2>3, <2>4, <2>5 DEF Records
<1>9. h.name # "upsertSettlement" => db'.settlements = db.settlements
  <2>1. h.name # "upsertSettlement" => f.name # "upsertRow"
    BY <1>1, <1>2 DEF CallNames, OrderNames, NonceNames
  <2> QED
    BY <1>1, <2>1 DEF Tables
<1>10. db.settlements \in [Settlements -> {None} \union Rows]
  BY <1>1, DatabaseColumns
<1>11. StatementsKnown'
  <2> SUFFICES ASSUME NEW x \in Range(running')
               PROVE  /\ x.user \in db'.users
                      /\ x.name = "link" => db'.settlements[x.key] # None /\ Recorded({x.value})'
    BY DEF StatementsKnown
  <2>1. x.user \in db'.users
    BY <1>2, <1>3, <1>4, <1>5, <1>8
  <2>2. ASSUME x.name = "link"
        PROVE  db'.settlements[x.key] # None /\ Recorded({x.value})'
    <3>1. h.name = "upsertSettlement" /\ x.key = h.key /\ x.value \in h.value.intents
      BY <1>3, <2>2
    <3>2. db'.settlements[h.key] = h.value.row
      BY <1>8, <1>10, <3>1
    <3>3. x.value \in Intents /\ db.intents[x.value] # NoIntent
      BY <1>8, <3>1 DEF Recorded
    <3> QED
      BY <1>4, <1>8, <3>1, <3>2, <3>3, NoneAssumption DEF Recorded
  <2> QED
    BY <2>1, <2>2
<1>12. UpsertsKnown'
  <2> SUFFICES ASSUME NEW c \in Range(todo'), c.name = "upsertSettlement"
               PROVE  /\ sent'[c.key] # None /\ sent'[c.key].user = c.user
                      /\ c.value.row.user = c.user /\ Recorded(c.value.intents)'
    BY DEF UpsertsKnown
  <2>1. c \in Range(todo)
    BY <1>1
  <2>2. c \in Calls
    BY <2>1, RangeTyped DEF TypeInv
  <2>3. c.value.intents \subseteq Intents
    BY <2>2 DEF Calls, WellFormed, Records
  <2>4. /\ sent[c.key] # None /\ sent[c.key].user = c.user
        /\ c.value.row.user = c.user /\ Recorded(c.value.intents)
    BY <2>1 DEF ReferencesInv, UpsertsKnown
  <2> QED
    BY <1>1, <1>4, <2>3, <2>4 DEF Recorded
<1>13. /\ MemoryKnown' /\ FlightsKnown'
       /\ \A s \in Settlements : sent[s] # None => Recorded(sent[s].intents)'
  BY <1>1, <1>4, MemoryStays DEF ReferencesInv
<1>14. RowsKnown'
  <2> SUFFICES ASSUME NEW s \in Settlements
               PROVE  /\ sent[s] # None => Recorded(sent[s].intents)'
                      /\ db'.settlements[s] # None =>
                           sent[s] # None /\ db'.settlements[s].user = sent[s].user
    BY <1>1 DEF RowsKnown, Recorded
  <2>1. sent[s] # None => Recorded(sent[s].intents)'
    BY <1>13
  <2>2. db'.settlements[s] = db.settlements[s]
          \/ (h.name = "upsertSettlement" /\ s = h.key /\ db'.settlements[s] = h.value.row)
    BY <1>8, <1>9, <1>10
  <2>3. db'.settlements[s] # None => sent[s] # None /\ db'.settlements[s].user = sent[s].user
    BY <1>8, <2>2 DEF ReferencesInv, RowsKnown
  <2> QED
    BY <2>1, <2>3
<1>15. LinksKnown'
  <2>1. f.name \notin {"unlink", "link"}
    BY <1>1, <1>2 DEF CallNames, OrderNames, NonceNames, Ensuring
  <2>2. db'.links = db.links /\ db.links \subseteq Settlements \X Intents
    BY <1>1, <2>1, DatabaseColumns DEF Tables
  <2> QED
    BY <1>4, <2>2 DEF ReferencesInv, LinksKnown, Recorded
<1> QED
  BY <1>6, <1>7, <1>11, <1>12, <1>13, <1>14, <1>15 DEF ReferencesInv

LEMMA ContinueReferences ==
  ASSUME TypeInv, ReferencesInv, ContinueCall
  PROVE  ReferencesInv'
<1> DEFINE r == Head(running)
<1>1. /\ r \in Calls /\ r.name \in RunningNames /\ Tables(db, db', r)
      /\ \A c : c \in Range(running) <=> c = r \/ c \in Range(running')
      /\ \A c \in Range(running') : c \in Calls
      /\ UNCHANGED <<todo, mem, sent>> /\ db \in Databases
  BY ContinueFacts DEF TypeInv
<1> HIDE DEF r
<1>2. /\ db.users \subseteq db'.users
      /\ \A n \in Intents : db.intents[n] # NoIntent => db'.intents[n] # NoIntent
      /\ \A s \in Settlements : db.settlements[s] # None => db'.settlements[s] # None
  BY <1>1, RowsStay
<1>3. UsersKnown'
  BY <1>1, <1>2 DEF ReferencesInv, UsersKnown, Loaded
<1>4. CallsKnown'
  BY <1>1, <1>2 DEF ReferencesInv, CallsKnown
<1>5. StatementsKnown'
  <2> SUFFICES ASSUME NEW x \in Range(running')
               PROVE  /\ x.user \in db'.users
                      /\ x.name = "link" => db'.settlements[x.key] # None /\ Recorded({x.value})'
    BY DEF StatementsKnown
  <2>1. /\ x.user \in db.users
        /\ x.name = "link" => db.settlements[x.key] # None /\ Recorded({x.value})
    BY <1>1 DEF ReferencesInv, StatementsKnown
  <2>2. x.name = "link" => x.key \in Settlements /\ x.value \in Intents
    BY <1>1 DEF Calls, WellFormed
  <2> QED
    BY <1>2, <2>1, <2>2 DEF Recorded
<1>6. UpsertsKnown'
  <2> SUFFICES ASSUME NEW c \in Range(todo), c.name = "upsertSettlement"
               PROVE  /\ sent[c.key] # None /\ sent[c.key].user = c.user
                      /\ c.value.row.user = c.user /\ Recorded(c.value.intents)'
    BY <1>1 DEF UpsertsKnown
  <2>1. c \in Calls
    BY RangeTyped DEF TypeInv
  <2>2. c.value.intents \subseteq Intents
    BY <2>1 DEF Calls, WellFormed, Records
  <2>3. /\ sent[c.key] # None /\ sent[c.key].user = c.user
        /\ c.value.row.user = c.user /\ Recorded(c.value.intents)
    BY DEF ReferencesInv, UpsertsKnown
  <2> QED
    BY <1>2, <2>2, <2>3 DEF Recorded
<1>7. /\ MemoryKnown' /\ FlightsKnown'
      /\ \A s \in Settlements : sent[s] # None => Recorded(sent[s].intents)'
  BY <1>1, <1>2, MemoryStays DEF ReferencesInv
<1>8. RowsKnown'
  <2>1. db'.settlements = db.settlements
    BY <1>1 DEF Tables, RunningNames
  <2>2. \A s \in Settlements :
          db.settlements[s] # None => sent[s] # None /\ db.settlements[s].user = sent[s].user
    BY DEF ReferencesInv, RowsKnown
  <2> QED
    BY <1>1, <1>7, <2>1, <2>2 DEF RowsKnown, Recorded
<1>9. LinksKnown'
  <2>1. db.links \subseteq Settlements \X Intents
    BY <1>1, DatabaseColumns
  <2>2. \A l \in db.links : Recorded({l[2]})'
    BY <1>2, <2>1 DEF ReferencesInv, LinksKnown, Recorded
  <2>3. ASSUME NEW l \in db'.links, l \notin db.links
        PROVE  Recorded({l[2]})'
    <3>1. r.name = "link" /\ l = <<r.key, r.value>>
      BY <1>1, <2>3 DEF Tables
    <3>2. Recorded({r.value}) /\ r.value \in Intents
      BY <1>1, <3>1 DEF ReferencesInv, StatementsKnown, Calls, WellFormed
    <3> QED
      BY <1>2, <3>1, <3>2 DEF Recorded
  <2> QED
    BY <2>2, <2>3 DEF LinksKnown
<1> QED
  BY <1>3, <1>4, <1>5, <1>6, <1>7, <1>8, <1>9 DEF ReferencesInv

LEMMA KillReferences == TypeInv /\ ReferencesInv /\ Kill => ReferencesInv'
<1> SUFFICES ASSUME ReferencesInv, Kill
             PROVE  ReferencesInv'
  OBVIOUS
<1>1. mem' = [u \in Users |-> None] /\ todo' = <<>> /\ running' = <<>>
      /\ UNCHANGED <<db, sent>>
  BY DEF Kill
<1>2. Range(todo') = {} /\ Range(running') = {} /\ \A u \in Users : ~ Loaded(u)'
  BY <1>1, EmptyRange DEF Loaded
<1>3. UsersKnown' /\ CallsKnown' /\ StatementsKnown' /\ UpsertsKnown'
  BY <1>2 DEF UsersKnown, CallsKnown, StatementsKnown, UpsertsKnown
<1>4. MemoryKnown' /\ FlightsKnown'
  BY <1>2 DEF MemoryKnown, FlightsKnown
<1>5. RowsKnown' /\ LinksKnown'
  BY <1>1 DEF ReferencesInv, RowsKnown, LinksKnown, Recorded
<1> QED
  BY <1>3, <1>4, <1>5 DEF ReferencesInv

LEMMA InitReferences == Init => ReferencesInv
<1> SUFFICES ASSUME Init
             PROVE  ReferencesInv
  OBVIOUS
<1>1. /\ db = Empty /\ mem = [u \in Users |-> None] /\ todo = <<>> /\ running = <<>>
      /\ sent = [s \in Settlements |-> None]
  BY DEF Init
<1>2. Range(todo) = {} /\ Range(running) = {} /\ \A u \in Users : ~ Loaded(u)
  BY <1>1, EmptyRange DEF Loaded
<1>3. UsersKnown /\ CallsKnown /\ StatementsKnown /\ UpsertsKnown
  BY <1>2 DEF UsersKnown, CallsKnown, StatementsKnown, UpsertsKnown
<1>4. MemoryKnown /\ FlightsKnown
  BY <1>2 DEF MemoryKnown, FlightsKnown
<1>5. RowsKnown /\ LinksKnown
  BY <1>1 DEF RowsKnown, LinksKnown, Empty
<1> QED
  BY <1>3, <1>4, <1>5 DEF ReferencesInv

Base == TypeInv /\ ReferencesInv

LEMMA StepBase == Base /\ [Next]_vars => Base'
<1> SUFFICES ASSUME Base, [Next]_vars
             PROVE  Base'
  OBVIOUS
<1> USE DEF Base
<1>1. CASE Next
  <2>1. CASE BeginCall
    BY <2>1, BeginType, BeginReferences
  <2>2. CASE ContinueCall
    BY <2>2, ContinueType, ContinueReferences
  <2>3. CASE Kill
    BY <2>3, KillType, KillReferences
  <2>4. ASSUME NEW u \in Users, Turned(u)
        PROVE  Base'
    BY <2>4, TurnType, TurnReferences
  <2> QED
    BY <1>1, <2>1, <2>2, <2>3, <2>4, Steps
<1>2. CASE UNCHANGED vars
  <2> USE <1>2 DEF vars
  <2>1. TypeInv'
    BY DEF TypeInv, Ordered
  <2>2. ReferencesInv'
    BY DEF ReferencesInv, UsersKnown, CallsKnown, StatementsKnown, UpsertsKnown, RowsKnown,
           MemoryKnown, FlightsKnown, LinksKnown, Recorded, Loaded
  <2> QED
    BY <2>1, <2>2
<1> QED
  BY <1>1, <1>2

LEMMA BaseTheorem == Spec => []Base
<1>1. Init => Base
  BY InitType, InitReferences DEF Base
<1> QED
  BY <1>1, StepBase, PTL DEF Spec

LEMMA NothingRefused == Base => NoStatementRefused
<1> SUFFICES ASSUME TypeInv, ReferencesInv
             PROVE  NoStatementRefused
  BY DEF Base
<1>1. ASSUME running # <<>>
      PROVE  References(db, Head(running))
  <2> DEFINE r == Head(running)
  <2>1. running \in Seq(Calls) /\ \A c \in Range(running) : c.name \in RunningNames
    BY DEF TypeInv, RunningNames
  <2>2. r \in Range(running)
    BY <1>1, <2>1, HeadAndTail
  <2> HIDE DEF r
  <2>3. /\ r.user \in db.users
        /\ r.name = "link" => db.settlements[r.key] # None /\ db.intents[r.value] # NoIntent
    BY <2>2 DEF ReferencesInv, StatementsKnown, Recorded
  <2>4. References(db, r)
    BY <2>1, <2>2, <2>3 DEF References, RunningNames
  <2> QED
    BY <2>4 DEF r
<1>2. ASSUME todo # <<>>
      PROVE  References(db, First(Head(todo)))
  <2> DEFINE h == Head(todo)
             f == First(h)
  <2>1. todo \in Seq(Calls) /\ \A c \in Range(todo) : c.name \in CallNames
    BY DEF TypeInv
  <2>2. h \in Range(todo) /\ h \in Calls
    BY <1>2, <2>1, HeadAndTail
  <2>3. /\ f.user = h.user
        /\ h.name \in Ensuring => f.name = "ensureUser"
        /\ h.name = "upsertSettlement" => f.name = "upsertRow"
        /\ h.name \notin Ensuring \union {"upsertSettlement"} => f = h
    <3>1. h.name \in CallNames
      BY <2>1, <2>2
    <3> HIDE DEF h
    <3> QED
      BY <2>2, <3>1, FirstOf
  <2> HIDE DEF f, h
  <2>4. h.name \notin {"ensureUser", "saveBalance", "claimEvent"} => h.user \in db.users
    BY <2>2 DEF ReferencesInv, CallsKnown
  <2>5. References(db, f)
    BY <2>1, <2>2, <2>3, <2>4 DEF References, Ensuring, CallNames, OrderNames, NonceNames
  <2> QED
    BY <2>5 DEF f, h
<1> QED
  BY <1>1, <1>2 DEF NoStatementRefused, First

\* No statement of the gateway is ever refused by a foreign key, for any number
\* of users, settlements and kills: what a row refers to is inserted by an
\* earlier statement of the same call or by a call of an earlier turn
\* (sqliteStore.ts, gatewayLedger.ts).
THEOREM RefusalTheorem == Spec => []NoStatementRefused
BY BaseTheorem, NothingRefused, PTL

-----------------------------------------------------------------------------
(* The cache. *)

Writing(name, u) == {c \in Range(todo) \union Range(running) : c.name = name /\ c.user = u}

WritingKey(name, u, k) == {c \in Writing(name, u) : c.key = k}

\* The links a settlement will have when the current call is through: deleting
\* the old ones comes first.
LinksToBe(s) ==
  {n \in Intents :
     \/ <<s, n>> \in db.links /\ ~ \E c \in Range(running) : c.name = "unlink" /\ c.key = s
     \/ \E c \in Range(running) : c.name = "link" /\ c.key = s /\ c.value = n}

BalanceCached(u) ==
  /\ \A c \in Writing("saveBalance", u) : c.value = mem[u].balance
  /\ Writing("saveBalance", u) = {} => OrNothing(db.balances[u], NoBalance) = mem[u].balance

PositionCached(u) ==
  /\ \A c \in Writing("setPosition", u) : c.value = Stored(mem[u].position)
  /\ Writing("setPosition", u) = {} =>
       OrNothing(db.positions[u], NoPosition) = mem[u].position

OrdersCached(u) ==
  \A o \in Orders :
    /\ o \in mem[u].orders <=> db.orders[u][o] > 0 \/ WritingKey("addOrder", u, o) # {}
    /\ o \in mem[u].trades <=> db.trades[u][o] > 0 \/ WritingKey("addTrade", u, o) # {}

SettlementsCached(u) ==
  \A s \in Settlements :
    LET record == mem[u].settlements[s] IN
    /\ \A c \in WritingKey("upsertSettlement", u, s) : c.value = record
    /\ WritingKey("upsertSettlement", u, s) = {} =>
         IF record = None
         THEN db.settlements[s] = None \/ db.settlements[s].user # u
         ELSE db.settlements[s] = record.row /\ LinksToBe(s) = record.intents

CacheInv ==
  \A u \in Users : Loaded(u) =>
    BalanceCached(u) /\ PositionCached(u) /\ OrdersCached(u) /\ SettlementsCached(u)

\* What is still to be written, when a call begins and when it continues.
LEMMA BeginWriting ==
  ASSUME TypeInv, BeginCall, NEW u \in Users, NEW name \in CallNames
  PROVE  LET h == Head(todo) IN
         /\ h.name # name \/ h.user # u \/ h.name \in Ensuring =>
              Writing(name, u)' = Writing(name, u)
         /\ h.name = name /\ h.user = u => h \in Writing(name, u)
         /\ h.name = name /\ h.user = u /\ name \in {"setPosition", "addOrder", "upsertSettlement"} =>
              Writing(name, u)' = {}
         /\ Writing(name, u)' \subseteq Writing(name, u)
         /\ Writing(name, u) \subseteq Writing(name, u)' \union {h}
<1> DEFINE h == Head(todo)
<1>1. /\ h \in Calls /\ h.name \in CallNames
      /\ running = <<>> /\ running' = Rest(h)
      /\ \A c : c \in Range(todo) <=> c = h \/ c \in Range(todo')
      /\ \A c \in Range(todo') : MayFollow(h, c) /\ c.user = h.user
  BY BeginFacts
<1> HIDE DEF h
<1>2. Range(running) = {}
  BY <1>1, EmptyRange
<1>3. /\ h.name \in Ensuring => \A x : x \in Range(running') <=> x = h
      /\ h.name \notin Ensuring => \A x \in Range(running') : x.name \in {"unlink", "link"}
  <2>1. h.name \in Ensuring => \A x : x \in Range(Rest(h)) <=> x = h
    BY <1>1, Leftovers
  <2>2. ASSUME h.name = "upsertSettlement"
        PROVE  \A x \in Range(Rest(h)) : x.name \in {"unlink", "link"}
    <3>1. \A x \in Range(Rest(h)) :
            \/ x = Call("unlink", h.user, h.key, None)
            \/ \E n \in h.value.intents : x = Call("link", h.user, h.key, n)
      BY <1>1, <2>2, Leftovers
    <3> QED
      BY <3>1, CallFields
  <2>3. h.name \notin Ensuring \union {"upsertSettlement"} => Range(Rest(h)) = {}
    BY <1>1, Leftovers
  <2> QED
    BY <1>1, <2>1, <2>2, <2>3
<1>4. \A c : c \in Range(todo') \union Range(running') /\ c.name \in CallNames =>
               c \in Range(todo) \union Range(running)
  BY <1>1, <1>3 DEF CallNames, OrderNames, NonceNames
<1>5. \A c \in Range(todo) \union Range(running) :
        c.user = h.user /\ (c = h \/ c \in Range(todo') \union Range(running'))
  BY <1>1, <1>2
<1>6. h.name \in Ensuring => h \in Range(running')
  BY <1>3
<1>7. Writing(name, u)' \subseteq Writing(name, u)
  BY <1>4 DEF Writing
<1>8. Writing(name, u) \subseteq Writing(name, u)' \union {h}
  BY <1>5 DEF Writing
<1>9. ASSUME h.name # name \/ h.user # u \/ h.name \in Ensuring
      PROVE  Writing(name, u)' = Writing(name, u)
  <2>1. h \in Writing(name, u) => h \in Writing(name, u)'
    BY <1>6, <1>9 DEF Writing
  <2> QED
    BY <1>7, <1>8, <2>1
<1>10. h.name = name /\ h.user = u => h \in Writing(name, u)
  BY <1>1 DEF Writing
<1>11. ASSUME h.name = name, h.user = u, name \in {"setPosition", "addOrder", "upsertSettlement"}
       PROVE  Writing(name, u)' = {}
  <2>1. \A c \in Range(todo') : c.name # name
    BY <1>1, <1>11 DEF MayFollow
  <2>2. \A c \in Range(running') : c.name # name
    BY <1>3, <1>11 DEF Ensuring
  <2> QED
    BY <2>1, <2>2 DEF Writing
<1> QED
  BY <1>7, <1>8, <1>9, <1>10, <1>11 DEF h

LEMMA ContinueWriting ==
  ASSUME TypeInv, ContinueCall, NEW u \in Users, NEW name \in CallNames
  PROVE  LET r == Head(running) IN
         /\ r.name # name \/ r.user # u => Writing(name, u)' = Writing(name, u)
         /\ r.name = name /\ r.user = u => r \in Writing(name, u)
         /\ r.name = "saveBalance" /\ r.user = u => Writing("saveBalance", u)' = {}
<1> DEFINE r == Head(running)
<1>1. /\ r.name \in RunningNames /\ todo' = todo
      /\ \A c : c \in Range(running) <=> c = r \/ c \in Range(running')
      /\ \A c \in Range(running') : MayFollow(r, c)
      /\ \A c \in Range(todo) : MayFollow(r, c)
  BY ContinueFacts
<1> HIDE DEF r
<1>2. r.name # name \/ r.user # u => Writing(name, u)' = Writing(name, u)
  BY <1>1 DEF Writing
<1>3. r.name = name /\ r.user = u => r \in Writing(name, u)
  BY <1>1 DEF Writing
<1>4. r.name = "saveBalance" /\ r.user = u => Writing("saveBalance", u)' = {}
  BY <1>1 DEF Writing, MayFollow
<1> QED
  BY <1>2, <1>3, <1>4 DEF r

\* The links a settlement is to have do not change while its call continues.
LEMMA ContinueLinks ==
  ASSUME TypeInv, ContinueCall
  PROVE  \A s \in Settlements : LinksToBe(s)' = LinksToBe(s)
<1> DEFINE r == Head(running)
<1>1. /\ r \in Calls /\ r.name \in RunningNames /\ Tables(db, db', r)
      /\ \A c : c \in Range(running) <=> c = r \/ c \in Range(running')
      /\ \A c \in Range(running') : MayFollow(r, c)
  BY ContinueFacts
<1> HIDE DEF r
<1>2. \A c \in Range(running') : c.name # "unlink"
  BY <1>1 DEF MayFollow
<1> SUFFICES ASSUME NEW s \in Settlements, NEW n \in Intents
             PROVE  n \in LinksToBe(s)' <=> n \in LinksToBe(s)
  BY DEF LinksToBe
<1>3. n \in LinksToBe(s)' <=>
        \/ <<s, n>> \in db'.links
        \/ \E c \in Range(running') : c.name = "link" /\ c.key = s /\ c.value = n
  BY <1>2 DEF LinksToBe
<1>4. n \in LinksToBe(s) <=>
        \/ <<s, n>> \in db.links /\ ~ (r.name = "unlink" /\ r.key = s)
        \/ r.name = "link" /\ r.key = s /\ r.value = n
        \/ \E c \in Range(running') : c.name = "link" /\ c.key = s /\ c.value = n
  BY <1>1, <1>2 DEF LinksToBe
<1>5. CASE r.name = "unlink"
  <2>1. db'.links = {l \in db.links : l[1] # r.key}
    BY <1>1, <1>5 DEF Tables
  <2>2. <<s, n>> \in db'.links <=> <<s, n>> \in db.links /\ s # r.key
    BY <2>1
  <2> QED
    BY <1>3, <1>4, <1>5, <2>2
<1>6. CASE r.name = "link"
  <2>1. db'.links = db.links \union {<<r.key, r.value>>}
    BY <1>1, <1>6 DEF Tables
  <2>2. <<s, n>> \in db'.links <=> <<s, n>> \in db.links \/ (s = r.key /\ n = r.value)
    BY <2>1
  <2> QED
    BY <1>3, <1>4, <1>6, <2>2
<1>7. CASE r.name \notin {"unlink", "link"}
  <2>1. db'.links = db.links
    BY <1>1, <1>7 DEF Tables
  <2> QED
    BY <1>3, <1>4, <1>7, <2>1
<1> QED
  BY <1>5, <1>6, <1>7

LEMMA BeginLinks ==
  ASSUME TypeInv, BeginCall
  PROVE  LET h == Head(todo) IN
         \A s \in Settlements :
           LinksToBe(s)' = IF h.name = "upsertSettlement" /\ h.key = s THEN h.value.intents
                           ELSE LinksToBe(s)
<1> DEFINE h == Head(todo)
           f == First(h)
<1>1. /\ h \in Calls /\ h.name \in CallNames /\ Tables(db, db', f)
      /\ running = <<>> /\ running' = Rest(h)
  BY BeginFacts
<1>2. Range(running) = {}
  BY <1>1, EmptyRange
<1> HIDE DEF h
<1>3. f.name \notin {"unlink", "link"}
  <2>1. /\ h.name \in Ensuring => f.name = "ensureUser"
        /\ h.name = "upsertSettlement" => f.name = "upsertRow"
        /\ h.name \notin Ensuring \union {"upsertSettlement"} => f = h
    BY <1>1, FirstOf
  <2> HIDE DEF f
  <2> QED
    BY <1>1, <2>1 DEF CallNames, OrderNames, NonceNames
<1>4. db'.links = db.links
  BY <1>1, <1>3 DEF Tables
<1> SUFFICES ASSUME NEW s \in Settlements
             PROVE  LinksToBe(s)' = IF h.name = "upsertSettlement" /\ h.key = s
                                    THEN h.value.intents ELSE LinksToBe(s)
  BY DEF h
<1>5. LinksToBe(s) = {n \in Intents : <<s, n>> \in db.links}
  BY <1>2 DEF LinksToBe
<1>6. CASE h.name = "upsertSettlement"
  <2>1. \A x : x \in Range(running') <=>
          \/ x = Call("unlink", h.user, h.key, None)
          \/ \E n \in h.value.intents : x = Call("link", h.user, h.key, n)
    BY <1>1, <1>6, Leftovers
  <2>2. (\E c \in Range(running') : c.name = "unlink" /\ c.key = s) <=> h.key = s
    BY <2>1, CallFields
  <2>3. ASSUME NEW n
        PROVE  (\E c \in Range(running') : c.name = "link" /\ c.key = s /\ c.value = n)
                 <=> h.key = s /\ n \in h.value.intents
    BY <2>1, CallFields
  <2>4. h.value.intents \subseteq Intents
    BY <1>1, <1>6 DEF Calls, WellFormed, Records
  <2> QED
    BY <1>4, <1>5, <1>6, <2>2, <2>3, <2>4 DEF LinksToBe
<1>7. CASE h.name # "upsertSettlement"
  <2>1. \A x \in Range(running') : x.name \notin {"unlink", "link"}
    BY <1>1, <1>7, Leftovers DEF CallNames, OrderNames, NonceNames
  <2> QED
    BY <1>4, <1>5, <1>7, <2>1 DEF LinksToBe
<1> QED
  BY <1>6, <1>7

LEMMA StoredIs ==
  ASSUME NEW p \in Positions
  PROVE  OrNothing(Stored(p), NoPosition) = p
BY NoneAssumption DEF OrNothing, Stored

LEMMA BeginCache ==
  ASSUME Base, CacheInv, BeginCall, NEW u \in Users, Loaded(u)
  PROVE  BalanceCached(u)' /\ PositionCached(u)' /\ OrdersCached(u)' /\ SettlementsCached(u)'
<1> DEFINE h == Head(todo)
           f == First(h)
<1>1. /\ TypeInv /\ BalanceCached(u) /\ PositionCached(u) /\ OrdersCached(u) /\ SettlementsCached(u)
  BY DEF Base, CacheInv
<1>2. /\ h \in Calls /\ h.name \in CallNames /\ Tables(db, db', f)
      /\ UNCHANGED <<mem, sent>> /\ db \in Databases
      /\ \A c : c \in Range(todo) <=> c = h \/ c \in Range(todo')
  <2>1. /\ h \in Calls /\ h.name \in CallNames /\ Tables(db, db', f)
        /\ UNCHANGED <<mem, sent>>
        /\ \A c : c \in Range(todo) <=> c = h \/ c \in Range(todo')
    BY <1>1, BeginFacts
  <2> QED
    BY <1>1, <2>1 DEF TypeInv
<1>3. \A name \in CallNames :
        /\ h.name # name \/ h.user # u \/ h.name \in Ensuring =>
             Writing(name, u)' = Writing(name, u)
        /\ h.name = name /\ h.user = u => h \in Writing(name, u)
        /\ h.name = name /\ h.user = u /\ name \in {"setPosition", "addOrder", "upsertSettlement"} =>
             Writing(name, u)' = {}
        /\ Writing(name, u)' \subseteq Writing(name, u)
        /\ Writing(name, u) \subseteq Writing(name, u)' \union {h}
  BY <1>1, BeginWriting
<1>4. \A s \in Settlements :
        LinksToBe(s)' = IF h.name = "upsertSettlement" /\ h.key = s THEN h.value.intents
                        ELSE LinksToBe(s)
  BY <1>1, BeginLinks
<1> HIDE DEF h
<1>5. /\ h.user \in Users /\ WellFormed(h) /\ f.user = h.user
      /\ h.name \in Ensuring => f.name = "ensureUser"
      /\ h.name = "upsertSettlement" =>
           f.name = "upsertRow" /\ f.key = h.key /\ f.value = h.value.row
      /\ h.name \notin Ensuring \union {"upsertSettlement"} => f = h
  <2>1. h.user \in Users /\ WellFormed(h)
    BY <1>2 DEF Calls
  <2> QED
    BY <1>2, <2>1, FirstOf
<1> HIDE DEF f
<1>6. mem[u] \in Views
  BY <1>1, KnownTyped
<1>7. /\ db.positions \in [Users -> {None} \union Positions]
      /\ db.orders \in [Users -> [Orders -> Nat]] /\ db.trades \in [Users -> [Orders -> Nat]]
      /\ db.settlements \in [Settlements -> {None} \union Rows]
  BY <1>2, DatabaseColumns
<1>8. BalanceCached(u)'
  <2>1. Writing("saveBalance", u)' = Writing("saveBalance", u)
    BY <1>3 DEF CallNames, Ensuring
  <2>2. db'.balances = db.balances
    BY <1>2, <1>5 DEF Tables, Ensuring
  <2> QED
    BY <1>1, <1>2, <2>1, <2>2 DEF BalanceCached
<1>9. PositionCached(u)'
  <2>1. CASE h.name = "setPosition" /\ h.user = u
    <3>1. f = h
      BY <1>5, <2>1 DEF Ensuring
    <3>2. db'.positions[u] = h.value
      BY <1>2, <1>7, <2>1, <3>1 DEF Tables
    <3>3. h.value = Stored(mem[u].position)
      BY <1>1, <1>3, <2>1 DEF PositionCached, CallNames
    <3>4. Writing("setPosition", u)' = {}
      BY <1>3, <2>1 DEF CallNames
    <3>5. OrNothing(Stored(mem[u].position), NoPosition) = mem[u].position
      BY <1>6, ViewFields, StoredIs
    <3> QED
      BY <1>2, <3>2, <3>3, <3>4, <3>5 DEF PositionCached
  <2>2. CASE ~ (h.name = "setPosition" /\ h.user = u)
    <3>1. Writing("setPosition", u)' = Writing("setPosition", u)
      BY <1>3, <2>2 DEF CallNames
    <3>2. ~ (f.name = "setPosition" /\ f.user = u)
      BY <1>5, <2>2 DEF Ensuring
    <3>3. db'.positions[u] = db.positions[u]
      BY <1>2, <1>5, <1>7, <3>2 DEF Tables
    <3> QED
      BY <1>1, <1>2, <3>1, <3>3 DEF PositionCached
  <2> QED
    BY <2>1, <2>2
<1>10. OrdersCached(u)'
  <2> SUFFICES ASSUME NEW o \in Orders
               PROVE  /\ o \in mem[u].orders <=>
                           db'.orders[u][o] > 0 \/ WritingKey("addOrder", u, o)' # {}
                      /\ o \in mem[u].trades <=>
                           db'.trades[u][o] > 0 \/ WritingKey("addTrade", u, o)' # {}
    BY <1>2 DEF OrdersCached
  <2>1. /\ o \in mem[u].orders <=> db.orders[u][o] > 0 \/ WritingKey("addOrder", u, o) # {}
        /\ o \in mem[u].trades <=> db.trades[u][o] > 0 \/ WritingKey("addTrade", u, o) # {}
    BY <1>1 DEF OrdersCached
  <2>2. db.orders[u][o] \in Nat /\ db.trades[u][o] \in Nat
    BY <1>7
  <2>3. o \in mem[u].orders <=> db'.orders[u][o] > 0 \/ WritingKey("addOrder", u, o)' # {}
    <3>1. CASE h.name = "addOrder" /\ h.user = u
      <4>1. f = h
        BY <1>5, <3>1 DEF Ensuring
      <4>2. db'.orders = [db.orders EXCEPT ![u][h.key] = InsertOnce(@)]
        BY <1>2, <3>1, <4>1 DEF Tables
      <4>3. h.key \in Orders
        BY <1>5, <3>1 DEF WellFormed, OrderNames
      <4>4. Writing("addOrder", u)' = {} /\ h \in Writing("addOrder", u)
        BY <1>3, <3>1 DEF CallNames, OrderNames
      <4>5. WritingKey("addOrder", u, o)' = {}
        BY <4>4 DEF WritingKey
      <4>6. CASE o = h.key
        <5>1. WritingKey("addOrder", u, o) # {}
          BY <4>4, <4>6 DEF WritingKey
        <5>2. db'.orders[u][o] > 0
          BY <1>7, <2>2, <4>2, <4>3, <4>6 DEF InsertOnce
        <5> QED
          BY <2>1, <5>1, <5>2
      <4>7. CASE o # h.key
        <5>1. WritingKey("addOrder", u, o) = {}
          <6>1. Writing("addOrder", u) \subseteq {h}
            BY <1>3, <4>4 DEF CallNames, OrderNames
          <6> QED
            BY <4>7, <6>1 DEF WritingKey
        <5>2. db'.orders[u][o] = db.orders[u][o]
          BY <1>7, <4>2, <4>7
        <5> QED
          BY <2>1, <4>5, <5>1, <5>2
      <4> QED
        BY <4>6, <4>7
    <3>2. CASE ~ (h.name = "addOrder" /\ h.user = u)
      <4>1. Writing("addOrder", u)' = Writing("addOrder", u)
        BY <1>3, <3>2 DEF CallNames, OrderNames
      <4>2. WritingKey("addOrder", u, o)' = WritingKey("addOrder", u, o)
        BY <4>1 DEF WritingKey
      <4>3. ~ (f.name = "addOrder" /\ f.user = u)
        BY <1>5, <3>2 DEF Ensuring
      <4>4. db'.orders[u][o] = db.orders[u][o]
        BY <1>2, <1>5, <1>7, <4>3 DEF Tables
      <4> QED
        BY <2>1, <4>2, <4>4
    <3> QED
      BY <3>1, <3>2
  <2>4. o \in mem[u].trades <=> db'.trades[u][o] > 0 \/ WritingKey("addTrade", u, o)' # {}
    <3>1. CASE h.name = "addTrade" /\ h.user = u
      <4>1. f = h
        BY <1>5, <3>1 DEF Ensuring
      <4>2. db'.trades = [db.trades EXCEPT ![u][h.key] = @ + 1]
        BY <1>2, <3>1, <4>1 DEF Tables
      <4>3. h.key \in Orders
        BY <1>5, <3>1 DEF WellFormed, OrderNames
      <4>4. /\ h \in Writing("addTrade", u)
            /\ Writing("addTrade", u)' \subseteq Writing("addTrade", u)
            /\ Writing("addTrade", u) \subseteq Writing("addTrade", u)' \union {h}
        BY <1>3, <3>1 DEF CallNames, OrderNames
      <4>5. CASE o = h.key
        <5>1. WritingKey("addTrade", u, o) # {}
          BY <4>4, <4>5 DEF WritingKey
        <5>2. db'.trades[u][o] > 0
          BY <1>7, <2>2, <4>2, <4>3, <4>5
        <5> QED
          BY <2>1, <5>1, <5>2
      <4>6. CASE o # h.key
        <5>1. WritingKey("addTrade", u, o)' = WritingKey("addTrade", u, o)
          BY <4>4, <4>6 DEF WritingKey
        <5>2. db'.trades[u][o] = db.trades[u][o]
          BY <1>7, <4>2, <4>6
        <5> QED
          BY <2>1, <5>1, <5>2
      <4> QED
        BY <4>5, <4>6
    <3>2. CASE ~ (h.name = "addTrade" /\ h.user = u)
      <4>1. Writing("addTrade", u)' = Writing("addTrade", u)
        BY <1>3, <3>2 DEF CallNames, OrderNames
      <4>2. WritingKey("addTrade", u, o)' = WritingKey("addTrade", u, o)
        BY <4>1 DEF WritingKey
      <4>3. ~ (f.name = "addTrade" /\ f.user = u)
        BY <1>5, <3>2 DEF Ensuring
      <4>4. db'.trades[u][o] = db.trades[u][o]
        BY <1>2, <1>5, <1>7, <4>3 DEF Tables
      <4> QED
        BY <2>1, <4>2, <4>4
    <3> QED
      BY <3>1, <3>2
  <2> QED
    BY <2>3, <2>4
<1>11. SettlementsCached(u)'
  <2> SUFFICES ASSUME NEW s \in Settlements
               PROVE  LET record == mem[u].settlements[s] IN
                      /\ \A c \in WritingKey("upsertSettlement", u, s)' : c.value = record
                      /\ WritingKey("upsertSettlement", u, s)' = {} =>
                           IF record = None
                           THEN db'.settlements[s] = None \/ db'.settlements[s].user # u
                           ELSE db'.settlements[s] = record.row /\ LinksToBe(s)' = record.intents
    BY <1>2 DEF SettlementsCached
  <2> DEFINE record == mem[u].settlements[s]
  <2>1. /\ \A c \in WritingKey("upsertSettlement", u, s) : c.value = record
        /\ WritingKey("upsertSettlement", u, s) = {} =>
             IF record = None
             THEN db.settlements[s] = None \/ db.settlements[s].user # u
             ELSE db.settlements[s] = record.row /\ LinksToBe(s) = record.intents
    BY <1>1 DEF SettlementsCached
  <2>2. CASE h.name = "upsertSettlement" /\ h.key = s
    <3>1. db'.settlements = [db.settlements EXCEPT ![s] = h.value.row]
      BY <1>2, <1>5, <2>2 DEF Tables
    <3>2. db'.settlements[s] = h.value.row /\ LinksToBe(s)' = h.value.intents
      BY <1>4, <1>7, <2>2, <3>1
    <3>3. CASE h.user = u
      <4>1. Writing("upsertSettlement", u)' = {} /\ h \in Writing("upsertSettlement", u)
        BY <1>3, <2>2, <3>3 DEF CallNames
      <4>2. WritingKey("upsertSettlement", u, s)' = {} /\ h \in WritingKey("upsertSettlement", u, s)
        BY <2>2, <4>1 DEF WritingKey
      <4>3. h.value = record /\ record # None
        BY <1>5, <2>1, <2>2, <4>2, NoneAssumption DEF WellFormed
      <4> QED
        BY <3>2, <4>2, <4>3
    <3>4. CASE h.user # u
      <4>1. sent[s].user = h.user /\ h.value.row.user = h.user
        <5>1. h \in Range(todo)
          BY <1>2
        <5> QED
          BY <2>2, <5>1 DEF Base, ReferencesInv, UpsertsKnown
      <4>2. record = None
        BY <3>4, <4>1 DEF Base, ReferencesInv, MemoryKnown
      <4>3. Writing("upsertSettlement", u)' = Writing("upsertSettlement", u)
        BY <1>3, <3>4 DEF CallNames
      <4>4. WritingKey("upsertSettlement", u, s)' = WritingKey("upsertSettlement", u, s)
        BY <4>3 DEF WritingKey
      <4> QED
        BY <2>1, <3>2, <3>4, <4>1, <4>2, <4>4
    <3> QED
      BY <3>3, <3>4
  <2>3. CASE ~ (h.name = "upsertSettlement" /\ h.key = s)
    <3>1. LinksToBe(s)' = LinksToBe(s)
      BY <1>4, <2>3
    <3>2. db'.settlements[s] = db.settlements[s]
      <4>1. ~ (f.name = "upsertRow" /\ f.key = s)
        BY <1>2, <1>5, <2>3 DEF CallNames, OrderNames, NonceNames, Ensuring
      <4> QED
        BY <1>2, <1>7, <4>1 DEF Tables
    <3>3. WritingKey("upsertSettlement", u, s)' = WritingKey("upsertSettlement", u, s)
      <4>1. CASE h.name = "upsertSettlement" /\ h.user = u
        <5>1. Writing("upsertSettlement", u)' = {} /\ Writing("upsertSettlement", u) \subseteq {h}
          BY <1>3, <4>1 DEF CallNames
        <5> QED
          BY <2>3, <4>1, <5>1 DEF WritingKey
      <4>2. CASE ~ (h.name = "upsertSettlement" /\ h.user = u)
        <5>1. Writing("upsertSettlement", u)' = Writing("upsertSettlement", u)
          BY <1>3, <4>2 DEF CallNames
        <5> QED
          BY <5>1 DEF WritingKey
      <4> QED
        BY <4>1, <4>2
    <3> QED
      BY <2>1, <3>1, <3>2, <3>3
  <2> QED
    BY <2>2, <2>3
<1> QED
  BY <1>8, <1>9, <1>10, <1>11

LEMMA ContinueCache ==
  ASSUME Base, CacheInv, ContinueCall, NEW u \in Users, Loaded(u)
  PROVE  BalanceCached(u)' /\ PositionCached(u)' /\ OrdersCached(u)' /\ SettlementsCached(u)'
<1> DEFINE r == Head(running)
<1>1. /\ TypeInv /\ BalanceCached(u) /\ PositionCached(u) /\ OrdersCached(u) /\ SettlementsCached(u)
  BY DEF Base, CacheInv
<1>2. /\ r \in Calls /\ r.name \in RunningNames /\ Tables(db, db', r)
      /\ UNCHANGED <<mem, todo>>
  BY <1>1, ContinueFacts
<1>3. \A name \in CallNames :
        /\ r.name # name \/ r.user # u => Writing(name, u)' = Writing(name, u)
        /\ r.name = name /\ r.user = u => r \in Writing(name, u)
        /\ r.name = "saveBalance" /\ r.user = u => Writing("saveBalance", u)' = {}
  BY <1>1, ContinueWriting
<1>4. \A s \in Settlements : LinksToBe(s)' = LinksToBe(s)
  BY <1>1, ContinueLinks
<1> HIDE DEF r
<1>5. r.user \in Users
  BY <1>2 DEF Calls
<1>6. /\ db'.positions = db.positions /\ db'.orders = db.orders /\ db'.trades = db.trades
      /\ db'.settlements = db.settlements
      /\ db'.balances = IF r.name = "saveBalance" THEN [db.balances EXCEPT ![r.user] = r.value]
                        ELSE db.balances
  BY <1>2 DEF Tables, RunningNames
<1>7. \A name \in {"setPosition", "addOrder", "addTrade", "upsertSettlement"} :
        Writing(name, u)' = Writing(name, u)
  BY <1>2, <1>3 DEF CallNames, OrderNames, RunningNames
<1>8. BalanceCached(u)'
  <2>1. db.balances \in [Users -> {None} \union Balances]
    BY <1>1, DatabaseColumns DEF TypeInv
  <2>2. CASE r.name = "saveBalance" /\ r.user = u
    <3>1. Writing("saveBalance", u)' = {} /\ r \in Writing("saveBalance", u)
      BY <1>3, <2>2 DEF CallNames
    <3>2. r.value = mem[u].balance /\ r.value \in Balances
      BY <1>1, <1>2, <2>2, <3>1 DEF BalanceCached, Calls, WellFormed
    <3>3. db'.balances[u] = r.value
      BY <1>6, <2>1, <2>2
    <3> QED
      BY <1>2, <3>1, <3>2, <3>3, NoneAssumption DEF BalanceCached, OrNothing
  <2>3. CASE ~ (r.name = "saveBalance" /\ r.user = u)
    <3>1. Writing("saveBalance", u)' = Writing("saveBalance", u)
      BY <1>3, <2>3 DEF CallNames
    <3>2. db'.balances[u] = db.balances[u]
      BY <1>5, <1>6, <2>1, <2>3
    <3> QED
      BY <1>1, <1>2, <3>1, <3>2 DEF BalanceCached
  <2> QED
    BY <2>2, <2>3
<1>9. PositionCached(u)'
  BY <1>1, <1>2, <1>6, <1>7 DEF PositionCached
<1>10. OrdersCached(u)'
  BY <1>1, <1>2, <1>6, <1>7 DEF OrdersCached, WritingKey
<1>11. SettlementsCached(u)'
  BY <1>1, <1>2, <1>4, <1>6, <1>7 DEF SettlementsCached, WritingKey
<1> QED
  BY <1>8, <1>9, <1>10, <1>11

\* Between turns the tables hold what is known of a user.
LEMMA KnownCached ==
  ASSUME Base, CacheInv, Idle, NEW u \in Users
  PROVE  /\ OrNothing(db.balances[u], NoBalance) = Known(u).balance
         /\ OrNothing(db.positions[u], NoPosition) = Known(u).position
         /\ \A o \in Orders :
              /\ o \in Known(u).orders <=> db.orders[u][o] > 0
              /\ o \in Known(u).trades <=> db.trades[u][o] > 0
         /\ \A s \in Settlements :
              LET record == Known(u).settlements[s] IN
              IF record = None
              THEN db.settlements[s] = None \/ db.settlements[s].user # u
              ELSE db.settlements[s] = record.row /\ LinksToBe(s) = record.intents
<1>1. Range(todo) = {} /\ Range(running) = {}
  BY EmptyRange DEF Idle
<1>2. \A s \in Settlements : LinksToBe(s) = LinkedTo(db, s)
  BY <1>1 DEF LinksToBe, LinkedTo
<1>3. \A name, k : Writing(name, u) = {} /\ WritingKey(name, u, k) = {}
  BY <1>1 DEF Writing, WritingKey
<1>4. CASE Loaded(u)
  <2>1. Known(u) = mem[u]
    BY <1>4 DEF Known
  <2>2. BalanceCached(u) /\ PositionCached(u) /\ OrdersCached(u) /\ SettlementsCached(u)
    BY <1>4 DEF CacheInv
  <2> QED
    BY <1>3, <2>1, <2>2 DEF BalanceCached, PositionCached, OrdersCached, SettlementsCached
<1>5. CASE ~ Loaded(u)
  <2>1. Known(u) = View(db, u)
    BY <1>5 DEF Known
  <2>2. /\ Known(u).balance = OrNothing(db.balances[u], NoBalance)
        /\ Known(u).position = OrNothing(db.positions[u], NoPosition)
        /\ Known(u).orders = ListOrders(db, u) /\ Known(u).trades = ListTrades(db, u)
        /\ Known(u).settlements = ListSettlements(db, u)
    BY <2>1, ViewTyped DEF Base, TypeInv
  <2>3. ASSUME NEW s \in Settlements
        PROVE  LET record == Known(u).settlements[s] IN
               IF record = None
               THEN db.settlements[s] = None \/ db.settlements[s].user # u
               ELSE db.settlements[s] = record.row /\ LinksToBe(s) = record.intents
    <3>1. CASE db.settlements[s] # None /\ db.settlements[s].user = u
      <4>1. Known(u).settlements[s] = [row |-> db.settlements[s], intents |-> LinkedTo(db, s)]
        BY <2>2, <3>1 DEF ListSettlements
      <4>2. Known(u).settlements[s] # None
        <5>1. db.settlements[s] \in Rows
          BY <3>1, DatabaseColumns DEF Base, TypeInv
        <5>2. LinkedTo(db, s) \subseteq Intents
          BY DEF LinkedTo
        <5> QED
          BY <4>1, <5>1, <5>2, NoneAssumption DEF Records
      <4> QED
        BY <1>2, <4>1, <4>2
    <3>2. CASE ~ (db.settlements[s] # None /\ db.settlements[s].user = u)
      <4>1. Known(u).settlements[s] = None
        BY <2>2, <3>2 DEF ListSettlements
      <4> QED
        BY <3>2, <4>1
    <3> QED
      BY <3>1, <3>2
  <2> QED
    BY <2>2, <2>3 DEF ListOrders, ListTrades
<1> QED
  BY <1>4, <1>5

LEMMA TurnCache ==
  ASSUME Base, CacheInv, NEW u \in Users, Turned(u), NEW v \in Users, Loaded(v)'
  PROVE  BalanceCached(v)' /\ PositionCached(v)' /\ OrdersCached(v)' /\ SettlementsCached(v)'
<1>1. /\ Idle /\ UNCHANGED <<db, running>>
      /\ mem' = [mem EXCEPT ![u] = mem'[u]]
      /\ \A c \in Range(todo') : c.user = u
  BY DEF Turned, TurnBasics
<1>2. Range(todo) = {} /\ Range(running) = {} /\ Range(running') = {}
  BY <1>1, EmptyRange DEF Idle
<1>3. \A s \in Settlements : LinksToBe(s)' = LinksToBe(s)
  BY <1>1, <1>2 DEF LinksToBe
<1>4. CASE v # u
  <2>1. mem'[v] = mem[v]
    BY <1>1, <1>4 DEF Base, TypeInv
  <2>2. BalanceCached(v) /\ PositionCached(v) /\ OrdersCached(v) /\ SettlementsCached(v)
    BY <2>1 DEF CacheInv, Loaded
  <2>3. \A name, k : /\ Writing(name, v)' = {} /\ WritingKey(name, v, k)' = {}
                     /\ Writing(name, v) = {} /\ WritingKey(name, v, k) = {}
    BY <1>1, <1>2, <1>4 DEF Writing, WritingKey
  <2>4. BalanceCached(v)'
    BY <1>1, <2>1, <2>2, <2>3 DEF BalanceCached
  <2>5. PositionCached(v)'
    BY <1>1, <2>1, <2>2, <2>3 DEF PositionCached
  <2>6. OrdersCached(v)'
    BY <1>1, <2>1, <2>2, <2>3 DEF OrdersCached
  <2>7. SettlementsCached(v)'
    BY <1>1, <1>3, <2>1, <2>2, <2>3 DEF SettlementsCached
  <2> QED
    BY <2>4, <2>5, <2>6, <2>7
<1>5. CASE v = u
  <2>1. /\ OrNothing(db.balances[u], NoBalance) = Known(u).balance
        /\ OrNothing(db.positions[u], NoPosition) = Known(u).position
        /\ \A o \in Orders :
             /\ o \in Known(u).orders <=> db.orders[u][o] > 0
             /\ o \in Known(u).trades <=> db.trades[u][o] > 0
        /\ \A s \in Settlements :
             LET record == Known(u).settlements[s] IN
             IF record = None
             THEN db.settlements[s] = None \/ db.settlements[s].user # u
             ELSE db.settlements[s] = record.row /\ LinksToBe(s) = record.intents
    BY <1>1, KnownCached
  <2>2. TurnWrites(u)
    BY DEF Turned
  <2>3. \A name, c : c \in Writing(name, u)' <=> c \in Range(todo') /\ c.name = name
    BY <1>1, <1>2 DEF Writing
  <2>4. \A name, k, c : c \in WritingKey(name, u, k)' <=>
                          c \in Range(todo') /\ c.name = name /\ c.key = k
    BY <2>3 DEF WritingKey
  <2>5. BalanceCached(u)'
    BY <1>1, <2>1, <2>2, <2>3 DEF BalanceCached, TurnWrites
  <2>6. PositionCached(u)'
    BY <1>1, <2>1, <2>2, <2>3 DEF PositionCached, TurnWrites
  <2>7. OrdersCached(u)'
    <3> SUFFICES ASSUME NEW o \in Orders
                 PROVE  /\ o \in mem'[u].orders <=>
                             db.orders[u][o] > 0 \/ WritingKey("addOrder", u, o)' # {}
                        /\ o \in mem'[u].trades <=>
                             db.trades[u][o] > 0 \/ WritingKey("addTrade", u, o)' # {}
      BY <1>1 DEF OrdersCached
    <3>1. /\ o \in mem'[u].orders <=> o \in Known(u).orders
               \/ \E c \in Range(todo') : c.name = "addOrder" /\ c.key = o
          /\ o \in mem'[u].trades <=> o \in Known(u).trades
               \/ \E c \in Range(todo') : c.name = "addTrade" /\ c.key = o
      BY <2>2 DEF TurnWrites
    <3>2. /\ WritingKey("addOrder", u, o)' # {} <=>
               \E c \in Range(todo') : c.name = "addOrder" /\ c.key = o
          /\ WritingKey("addTrade", u, o)' # {} <=>
               \E c \in Range(todo') : c.name = "addTrade" /\ c.key = o
      BY <2>4
    <3> QED
      BY <2>1, <3>1, <3>2
  <2>8. SettlementsCached(u)'
    <3> SUFFICES ASSUME NEW s \in Settlements
                 PROVE  LET record == mem'[u].settlements[s] IN
                        /\ \A c \in WritingKey("upsertSettlement", u, s)' : c.value = record
                        /\ WritingKey("upsertSettlement", u, s)' = {} =>
                             IF record = None
                             THEN db.settlements[s] = None \/ db.settlements[s].user # u
                             ELSE db.settlements[s] = record.row /\ LinksToBe(s)' = record.intents
      BY <1>1 DEF SettlementsCached
    <3>1. \A c \in WritingKey("upsertSettlement", u, s)' : c.value = mem'[u].settlements[s]
      BY <2>2, <2>4 DEF TurnWrites
    <3>2. WritingKey("upsertSettlement", u, s)' = {} =>
            mem'[u].settlements[s] = Known(u).settlements[s]
      BY <2>2, <2>4 DEF TurnWrites
    <3> QED
      BY <1>3, <2>1, <3>1, <3>2
  <2> QED
    BY <1>5, <2>5, <2>6, <2>7, <2>8
<1> QED
  BY <1>4, <1>5

LEMMA StepCache == Base /\ CacheInv /\ [Next]_vars => CacheInv'
<1> SUFFICES ASSUME Base, CacheInv, [Next]_vars
             PROVE  CacheInv'
  OBVIOUS
<1>1. CASE BeginCall
  <2>1. mem' = mem
    BY <1>1 DEF BeginCall
  <2> QED
    BY <1>1, <2>1, BeginCache DEF CacheInv, Loaded
<1>2. CASE ContinueCall
  <2>1. mem' = mem
    BY <1>2 DEF ContinueCall
  <2> QED
    BY <1>2, <2>1, ContinueCache DEF CacheInv, Loaded
<1>3. CASE Kill
  BY <1>3 DEF Kill, CacheInv, Loaded
<1>4. ASSUME NEW u \in Users, Turned(u)
      PROVE  CacheInv'
  BY <1>4, TurnCache DEF CacheInv
<1>5. CASE UNCHANGED vars
  <2> USE <1>5 DEF vars
  <2>1. \A u \in Users, name \in CallNames : Writing(name, u)' = Writing(name, u)
    BY DEF Writing
  <2>2. \A s \in Settlements : LinksToBe(s)' = LinksToBe(s)
    BY DEF LinksToBe
  <2> QED
    BY <2>1, <2>2 DEF CacheInv, BalanceCached, PositionCached, OrdersCached, SettlementsCached,
       WritingKey, Loaded, CallNames, OrderNames
<1> QED
  BY <1>1, <1>2, <1>3, <1>4, <1>5, Steps DEF Base

LEMMA CacheInvariant == Spec => []CacheInv
<1>1. Init => CacheInv
  BY DEF Init, CacheInv, Loaded
<1> QED
  BY <1>1, BaseTheorem, StepCache, PTL DEF Spec

LEMMA CacheMatches == Base /\ CacheInv => CacheMatchesStore
<1> SUFFICES ASSUME Base, CacheInv, Idle, NEW u \in Users, Loaded(u)
             PROVE  [mem[u] EXCEPT !.inFlight = None] = View(db, u)
  BY DEF CacheMatchesStore
<1>1. Known(u) = mem[u]
  BY DEF Known
<1>2. /\ OrNothing(db.balances[u], NoBalance) = mem[u].balance
      /\ OrNothing(db.positions[u], NoPosition) = mem[u].position
      /\ \A o \in Orders :
           /\ o \in mem[u].orders <=> db.orders[u][o] > 0
           /\ o \in mem[u].trades <=> db.trades[u][o] > 0
      /\ \A s \in Settlements :
           LET record == mem[u].settlements[s] IN
           IF record = None
           THEN db.settlements[s] = None \/ db.settlements[s].user # u
           ELSE db.settlements[s] = record.row /\ LinksToBe(s) = record.intents
  BY <1>1, KnownCached
<1>3. PICK v \in Views : v = mem[u]
  BY KnownTyped DEF Base
<1>4. /\ v.orders \subseteq Orders /\ v.trades \subseteq Orders
      /\ v.settlements \in [Settlements -> {None} \union Records]
      /\ v = [balance |-> v.balance, position |-> v.position, orders |-> v.orders,
              trades |-> v.trades, settlements |-> v.settlements, inFlight |-> v.inFlight]
  BY ViewFields
<1>5. v.orders = ListOrders(db, u) /\ v.trades = ListTrades(db, u)
  BY <1>2, <1>3, <1>4 DEF ListOrders, ListTrades
<1>6. v.settlements = ListSettlements(db, u)
  <2>1. ASSUME NEW s \in Settlements
        PROVE  v.settlements[s] = ListSettlements(db, u)[s]
    <3>1. CASE v.settlements[s] = None
      <4>1. db.settlements[s] = None \/ db.settlements[s].user # u
        BY <1>2, <1>3, <3>1
      <4> QED
        BY <3>1, <4>1 DEF ListSettlements
    <3>2. CASE v.settlements[s] # None
      <4>1. db.settlements[s] = v.settlements[s].row /\ LinksToBe(s) = v.settlements[s].intents
        BY <1>2, <1>3, <3>2
      <4>2. v.settlements[s] \in Records
        BY <1>4, <3>2
      <4>3. /\ v.settlements[s] = [row |-> v.settlements[s].row, intents |-> v.settlements[s].intents]
            /\ v.settlements[s].row \in Rows
        BY <4>2 DEF Records
      <4>4. v.settlements[s].row.user = u
        BY <1>3, <3>2 DEF Base, ReferencesInv, MemoryKnown
      <4>5. LinksToBe(s) = LinkedTo(db, s)
        <5>1. Range(running) = {}
          BY EmptyRange DEF Idle
        <5> QED
          BY <5>1 DEF LinksToBe, LinkedTo
      <4>6. db.settlements[s] # None /\ db.settlements[s].user = u
        BY <4>1, <4>3, <4>4, NoneAssumption
      <4>7. ListSettlements(db, u)[s] = [row |-> db.settlements[s], intents |-> LinkedTo(db, s)]
        BY <4>6 DEF ListSettlements
      <4> QED
        BY <4>1, <4>3, <4>5, <4>7
    <3> QED
      BY <3>1, <3>2
  <2> QED
    BY <1>4, <2>1 DEF ListSettlements
<1>7. [v EXCEPT !.inFlight = None]
        = [balance |-> v.balance, position |-> v.position, orders |-> v.orders,
           trades |-> v.trades, settlements |-> v.settlements, inFlight |-> None]
  BY <1>4
<1>8. View(db, u)
        = [balance |-> v.balance, position |-> v.position, orders |-> v.orders,
           trades |-> v.trades, settlements |-> v.settlements, inFlight |-> None]
  BY <1>2, <1>3, <1>5, <1>6 DEF View
<1> QED
  BY <1>3, <1>7, <1>8

\* Between two turns, memory answers for every loaded user what a restarted
\* process would read from the file, for any number of users, settlements and
\* kills: each turn writes through all that it changes, and links of a
\* settlement are deleted before they are written again (gatewayLedger.ts,
\* sqliteStore.ts).
THEOREM CacheTheorem == Spec => []CacheMatchesStore
BY BaseTheorem, CacheInvariant, CacheMatches, PTL

-----------------------------------------------------------------------------
(* Consumed intents. *)

\* The settlement that consumed an intent is confirmed and linked to it, and its
\* links are not about to be deleted.
ConsumedBy(n, s) ==
  /\ ConfirmedRow(s) /\ <<s, n>> \in db.links
  /\ ~ \E c \in Range(running) : c.name = "unlink" /\ c.key = s

\* The call that links an intent to its confirmed settlement is still to come.
LinkingTo(n, s) ==
  \E d \in Range(todo) :
    /\ d.name = "upsertSettlement" /\ d.key = s
    /\ n \in d.value.intents /\ d.value.row.status = "ONCHAIN_CONFIRMED"

IntentsConsumed ==
  \A n \in Intents, s \in {None} \union Settlements :
    db.intents[n].status = "CONSUMED" /\ db.intents[n].by = s =>
      s \in Settlements /\ ConsumedBy(n, s)

ConsumedInv ==
  /\ IntentsConsumed
  /\ \A c \in Range(todo) : Consumes(c) =>
       \/ LinkingTo(c.key, c.value.by)
       \/ ConfirmedRow(c.value.by) /\ c.key \in LinksToBe(c.value.by)
  /\ \A c \in Range(todo) : c.name = "upsertSettlement" => ~ ConfirmedRow(c.key)


LEMMA TurnConsumed ==
  ASSUME Base, CacheInv, ConsumedInv, NEW u \in Users, Turned(u)
  PROVE  ConsumedInv'
<1>1. /\ Idle /\ UNCHANGED <<db, running>>
      /\ todo' \in Seq(Calls) /\ TurnSettlements(u)
      /\ Loaded(u) \/ \A c \in Range(todo') : c.name \in {"ensureUser", "saveBalance"}
  BY DEF Turned, TurnBasics
<1>2. Range(running') = {} /\ Range(running) = {}
  BY <1>1, EmptyRange DEF Idle
<1>3. \A s \in Settlements : LinksToBe(s)' = LinksToBe(s) /\ ConfirmedRow(s)' = ConfirmedRow(s)
  BY <1>1, <1>2 DEF LinksToBe, ConfirmedRow
\* What memory says of u's settlements is in the tables.
<1>4. ASSUME Loaded(u), NEW s \in Settlements
      PROVE  LET record == mem[u].settlements[s] IN
             IF record = None
             THEN db.settlements[s] = None \/ db.settlements[s].user # u
             ELSE db.settlements[s] = record.row /\ LinksToBe(s) = record.intents
  <2>1. Known(u) = mem[u]
    BY <1>4 DEF Known
  <2> QED
    BY <1>1, <2>1, KnownCached
<1>5. ASSUME NEW c \in Range(todo'), c.name = "upsertSettlement"
      PROVE  ~ ConfirmedRow(c.key)
  <2>1. /\ sent[c.key].user = u /\ ~ AlreadyConfirmed(u, c.key)
    BY <1>1, <1>5 DEF TurnSettlements
  <2>2. Loaded(u) /\ c.key \in Settlements
    BY <1>1, <1>5, RangeTyped DEF Calls, WellFormed
  <2>3. db.settlements[c.key] # None => db.settlements[c.key].user = u
    BY <2>1, <2>2 DEF Base, ReferencesInv, RowsKnown
  <2> QED
    BY <1>4, <2>1, <2>2, <2>3 DEF AlreadyConfirmed, ConfirmedRow
<1>6. ASSUME NEW c \in Range(todo'), Consumes(c)
      PROVE  LET s == c.value.by IN
             LinkingTo(c.key, s)' \/ (ConfirmedRow(s)' /\ c.key \in LinksToBe(s)')
  <2> DEFINE s == c.value.by
  <2>1. c \in Calls
    BY <1>1, <1>6, RangeTyped
  <2>2. s \in Settlements
    BY <1>6, <2>1 DEF Calls, WellFormed, Consumes
  <2>3. Loaded(u)
    BY <1>1, <1>6 DEF Consumes
  <2>4. CASE AlreadyConfirmed(u, s) /\ c.key \in mem[u].settlements[s].intents
    <3>1. /\ mem[u].settlements[s] # None
          /\ mem[u].settlements[s].row.status = "ONCHAIN_CONFIRMED"
      BY <2>4 DEF AlreadyConfirmed
    <3>2. db.settlements[s] = mem[u].settlements[s].row /\ LinksToBe(s) = mem[u].settlements[s].intents
      BY <1>4, <2>2, <2>3, <3>1
    <3>3. db.settlements[s] # None
      <4>1. mem[u].settlements[s] \in Records
        BY <2>2, <2>3, <3>1, KnownTyped, ViewFields DEF Base
      <4> QED
        BY <3>2, <4>1, NoneAssumption DEF Records
    <3>4. ConfirmedRow(s)
      BY <3>1, <3>2, <3>3 DEF ConfirmedRow
    <3> QED
      BY <1>3, <2>2, <2>4, <3>2, <3>4
  <2>5. \/ \E d \in Range(todo') :
             /\ d.name = "upsertSettlement" /\ d.key = s
             /\ c.key \in d.value.intents /\ d.value.row.status = "ONCHAIN_CONFIRMED"
        \/ AlreadyConfirmed(u, s) /\ c.key \in mem[u].settlements[s].intents
    BY <1>1, <1>6 DEF TurnSettlements
  <2> QED
    BY <2>4, <2>5 DEF LinkingTo
<1>7. IntentsConsumed'
  <2>1. \A n, s : ConsumedBy(n, s)' = ConsumedBy(n, s)
    BY <1>1, <1>2 DEF ConsumedBy, ConfirmedRow
  <2> QED
    BY <1>1, <2>1 DEF ConsumedInv, IntentsConsumed
<1>8. \A c \in Range(todo') : c.name = "upsertSettlement" => ~ ConfirmedRow(c.key)'
  BY <1>1, <1>3, <1>5, RangeTyped DEF Calls, WellFormed
<1> QED
  BY <1>6, <1>7, <1>8 DEF ConsumedInv

LEMMA BeginConsumed ==
  ASSUME Base, ConsumedInv, BeginCall
  PROVE  ConsumedInv'
<1> DEFINE h == Head(todo)
           f == First(h)
<1>1. /\ h \in Calls /\ h.name \in CallNames /\ db \in Databases
      /\ Tables(db, db', f) /\ running = <<>> /\ running' = Rest(h)
      /\ \A c : c \in Range(todo) <=> c = h \/ c \in Range(todo')
      /\ \A c : c \notin Range(running)
      /\ \A c \in Range(todo') : c \in Calls /\ MayFollow(h, c)
  BY BeginFacts DEF Base, TypeInv
<1>2. \A s \in Settlements :
        LinksToBe(s)' = IF h.name = "upsertSettlement" /\ h.key = s THEN h.value.intents
                        ELSE LinksToBe(s)
  BY BeginLinks DEF Base
<1> HIDE DEF h
<1>3. /\ h.name \in Ensuring => f.name = "ensureUser"
      /\ h.name = "upsertSettlement" =>
           f.name = "upsertRow" /\ f.key = h.key /\ f.value = h.value.row
      /\ h.name \notin Ensuring \union {"upsertSettlement"} => f = h
  BY <1>1, FirstOf
<1> HIDE DEF f
<1>4. WellFormed(h)
  BY <1>1 DEF Calls
<1>5. /\ f.name \notin {"unlink", "link", "recordIntent"}
      /\ f.name = "upsertRow" <=> h.name = "upsertSettlement"
      /\ f.name = "markIntent" <=> h.name = "markIntent"
  BY <1>1, <1>3 DEF Ensuring, CallNames, OrderNames, NonceNames
<1>6. db'.links = db.links
  BY <1>1, <1>5 DEF Tables
<1>7. /\ h.name # "upsertSettlement" => db'.settlements = db.settlements
      /\ h.name = "upsertSettlement" =>
           db'.settlements = [db.settlements EXCEPT ![h.key] = h.value.row]
  BY <1>1, <1>3, <1>5 DEF Tables
<1>8. /\ h.name # "markIntent" => db'.intents = db.intents
      /\ h.name = "markIntent" => db'.intents = [db.intents EXCEPT ![h.key] = h.value]
  <2>1. CASE h.name = "markIntent"
    <3>1. f = h
      BY <1>3, <2>1 DEF Ensuring
    <3> QED
      BY <1>1, <2>1, <3>1 DEF Tables
  <2>2. CASE h.name # "markIntent"
    BY <1>1, <1>5, <2>2 DEF Tables
  <2> QED
    BY <2>1, <2>2
<1>9. /\ db.intents \in [Intents -> IntentRows]
      /\ db.settlements \in [Settlements -> {None} \union Rows]
  BY <1>1, DatabaseColumns
\* A confirmed row is not written again.
<1>10. h.name = "upsertSettlement" => ~ ConfirmedRow(h.key)
  BY <1>1 DEF ConsumedInv
<1>11. \A s \in Settlements : ConfirmedRow(s) =>
         ConfirmedRow(s)' /\ ~ (h.name = "upsertSettlement" /\ h.key = s)
  BY <1>7, <1>9, <1>10 DEF ConfirmedRow
<1>12. \A c \in Range(running') : c.name = "unlink" =>
         h.name = "upsertSettlement" /\ c.key = h.key
  <2> SUFFICES ASSUME NEW c \in Range(running'), c.name = "unlink"
               PROVE  h.name = "upsertSettlement" /\ c.key = h.key
    OBVIOUS
  <2>1. CASE h.name = "upsertSettlement"
    <3>1. \/ c = Call("unlink", h.user, h.key, None)
          \/ \E n \in h.value.intents : c = Call("link", h.user, h.key, n)
      BY <1>1, <2>1, Leftovers
    <3> QED
      BY <2>1, <3>1, CallFields
  <2>2. CASE h.name \in Ensuring
    <3>1. c = h
      BY <1>1, <2>2, Leftovers
    <3> QED
      BY <2>2, <3>1 DEF Ensuring
  <2>3. CASE h.name \notin Ensuring \union {"upsertSettlement"}
    BY <1>1, <2>3, Leftovers
  <2> QED
    BY <2>1, <2>2, <2>3
<1>13. ASSUME NEW n \in Intents, NEW s \in {None} \union Settlements,
              db'.intents[n].status = "CONSUMED", db'.intents[n].by = s
       PROVE  s \in Settlements /\ ConfirmedRow(s) /\ <<s, n>> \in db.links
  <2>1. CASE h.name = "markIntent" /\ h.key = n
    <3>1. db'.intents[n] = h.value
      BY <1>8, <1>9, <2>1
    <3>2. Consumes(h) /\ h.value.by = s /\ s \in Settlements
      BY <1>4, <1>13, <2>1, <3>1 DEF Consumes, WellFormed
    <3>3. \A d \in Range(todo) : d.name # "upsertSettlement"
      BY <1>1, <2>1 DEF MayFollow
    <3>4. ConfirmedRow(s) /\ n \in LinksToBe(s)
      BY <1>1, <2>1, <3>2, <3>3 DEF ConsumedInv, LinkingTo
    <3>5. <<s, n>> \in db.links
      BY <1>1, <3>4 DEF LinksToBe
    <3> QED
      BY <3>2, <3>4, <3>5
  <2>2. CASE ~ (h.name = "markIntent" /\ h.key = n)
    <3>1. db'.intents[n] = db.intents[n]
      BY <1>8, <1>9, <2>2
    <3> QED
      BY <1>13, <3>1 DEF ConsumedInv, IntentsConsumed, ConsumedBy
  <2> QED
    BY <2>1, <2>2
<1>14. IntentsConsumed'
  <2> SUFFICES ASSUME NEW n \in Intents, NEW s \in {None} \union Settlements,
                      db'.intents[n].status = "CONSUMED", db'.intents[n].by = s
               PROVE  s \in Settlements /\ ConsumedBy(n, s)'
    BY DEF IntentsConsumed
  <2>1. s \in Settlements /\ ConfirmedRow(s) /\ <<s, n>> \in db.links
    BY <1>13
  <2>2. ConfirmedRow(s)' /\ ~ (h.name = "upsertSettlement" /\ h.key = s)
    BY <1>11, <2>1
  <2> QED
    BY <1>6, <1>12, <2>1, <2>2 DEF ConsumedBy
<1>15. ASSUME NEW c \in Range(todo'), Consumes(c)
       PROVE  LET s == c.value.by IN
              LinkingTo(c.key, s)' \/ (ConfirmedRow(s)' /\ c.key \in LinksToBe(s)')
  <2> DEFINE s == c.value.by
  <2>1. s \in Settlements
    BY <1>1, <1>15 DEF Calls, WellFormed, Consumes
  <2>2. CASE ConfirmedRow(s) /\ c.key \in LinksToBe(s)
    BY <1>2, <1>11, <2>1, <2>2
  <2>3. CASE LinkingTo(c.key, s)
    <3>1. PICK d \in Range(todo) :
            /\ d.name = "upsertSettlement" /\ d.key = s
            /\ c.key \in d.value.intents /\ d.value.row.status = "ONCHAIN_CONFIRMED"
      BY <2>3 DEF LinkingTo
    <3>2. CASE d = h
      <4>1. h.value.row # None
        BY <1>4, <3>1, <3>2, NoneAssumption DEF WellFormed, Records
      <4>2. db'.settlements[s] = h.value.row
        BY <1>7, <1>9, <2>1, <3>1, <3>2
      <4>3. ConfirmedRow(s)'
        BY <3>1, <3>2, <4>1, <4>2 DEF ConfirmedRow
      <4> QED
        BY <1>2, <2>1, <3>1, <3>2, <4>3
    <3>3. CASE d # h
      BY <1>1, <3>1, <3>3 DEF LinkingTo
    <3> QED
      BY <3>2, <3>3
  <2>4. LinkingTo(c.key, s) \/ (ConfirmedRow(s) /\ c.key \in LinksToBe(s))
    BY <1>1, <1>15 DEF ConsumedInv
  <2> QED
    BY <2>2, <2>3, <2>4
<1>16. \A c \in Range(todo') : c.name = "upsertSettlement" => ~ ConfirmedRow(c.key)'
  <2> SUFFICES ASSUME NEW c \in Range(todo'), c.name = "upsertSettlement"
               PROVE  ~ ConfirmedRow(c.key)'
    OBVIOUS
  <2>1. h.name # "upsertSettlement"
    BY <1>1 DEF MayFollow
  <2>2. ~ ConfirmedRow(c.key)
    BY <1>1 DEF ConsumedInv
  <2>3. db'.settlements = db.settlements
    BY <1>7, <2>1
  <2> QED
    BY <2>2, <2>3 DEF ConfirmedRow
<1> QED
  BY <1>14, <1>15, <1>16 DEF ConsumedInv

LEMMA ContinueConsumed ==
  ASSUME Base, ConsumedInv, ContinueCall
  PROVE  ConsumedInv'
<1> DEFINE r == Head(running)
<1>1. /\ r \in Calls /\ r.name \in RunningNames /\ db \in Databases
      /\ Tables(db, db', r) /\ UNCHANGED todo /\ todo \in Seq(Calls)
      /\ \A c : c \in Range(running) <=> c = r \/ c \in Range(running')
  BY ContinueFacts DEF Base, TypeInv
<1>2. \A s \in Settlements : LinksToBe(s)' = LinksToBe(s)
  BY ContinueLinks DEF Base
<1> HIDE DEF r
<1>3. db'.settlements = db.settlements
  BY <1>1 DEF Tables, RunningNames
<1>4. \A s : ConfirmedRow(s)' <=> ConfirmedRow(s)
  BY <1>3 DEF ConfirmedRow
<1>5. IntentsConsumed'
  <2> SUFFICES ASSUME NEW n \in Intents, NEW s \in {None} \union Settlements,
                      db'.intents[n].status = "CONSUMED", db'.intents[n].by = s
               PROVE  s \in Settlements /\ ConsumedBy(n, s)'
    BY DEF IntentsConsumed
  <2>1. db'.intents[n] = db.intents[n]
    <3>1. CASE r.name = "recordIntent"
      <4>1. db'.intents = [db.intents EXCEPT ![r.key] = IF @ = NoIntent THEN r.value ELSE @]
        BY <1>1, <3>1 DEF Tables
      <4>2. r.value.status = "VERIFIED"
        BY <1>1, <3>1 DEF Calls, WellFormed
      <4>3. db.intents \in [Intents -> IntentRows]
        BY <1>1, DatabaseColumns
      <4> QED
        BY <4>1, <4>2, <4>3
    <3>2. CASE r.name # "recordIntent"
      BY <1>1, <3>2 DEF Tables, RunningNames
    <3> QED
      BY <3>1, <3>2
  <2>2. /\ s \in Settlements /\ ConfirmedRow(s) /\ <<s, n>> \in db.links
        /\ ~ \E c \in Range(running) : c.name = "unlink" /\ c.key = s
    BY <2>1 DEF ConsumedInv, IntentsConsumed, ConsumedBy
  <2>3. ~ (r.name = "unlink" /\ r.key = s)
    BY <1>1, <2>2
  <2>4. <<s, n>> \in db'.links
    <3>1. CASE r.name = "unlink"
      BY <1>1, <2>2, <2>3, <3>1 DEF Tables
    <3>2. CASE r.name # "unlink"
      BY <1>1, <2>2, <3>2 DEF Tables
    <3> QED
      BY <3>1, <3>2
  <2> QED
    BY <1>1, <1>4, <2>2, <2>4 DEF ConsumedBy
<1>6. ASSUME NEW c \in Range(todo'), Consumes(c)
      PROVE  LET s == c.value.by IN
             LinkingTo(c.key, s)' \/ (ConfirmedRow(s)' /\ c.key \in LinksToBe(s)')
  <2>1. c.value.by \in Settlements
    BY <1>1, <1>6, RangeTyped DEF Calls, WellFormed, Consumes
  <2>2. \A n, s : LinkingTo(n, s)' <=> LinkingTo(n, s)
    BY <1>1 DEF LinkingTo
  <2> QED
    BY <1>1, <1>2, <1>4, <1>6, <2>1, <2>2 DEF ConsumedInv
<1>7. \A c \in Range(todo') : c.name = "upsertSettlement" => ~ ConfirmedRow(c.key)'
  BY <1>1, <1>4 DEF ConsumedInv
<1> QED
  BY <1>5, <1>6, <1>7 DEF ConsumedInv

LEMMA StepConsumed == Base /\ CacheInv /\ ConsumedInv /\ [Next]_vars => ConsumedInv'
<1> SUFFICES ASSUME Base, CacheInv, ConsumedInv, [Next]_vars
             PROVE  ConsumedInv'
  OBVIOUS
<1>1. CASE Kill
  <2>1. db' = db /\ Range(todo') = {} /\ Range(running') = {}
    BY <1>1, EmptyRange DEF Kill
  <2>2. \A n, s : ConsumedBy(n, s) => ConsumedBy(n, s)'
    BY <2>1 DEF ConsumedBy, ConfirmedRow
  <2> QED
    BY <2>1, <2>2 DEF ConsumedInv, IntentsConsumed
<1>2. CASE UNCHANGED vars
  <2>1. \A n, s : /\ ConfirmedRow(s)' <=> ConfirmedRow(s)
                  /\ LinksToBe(s)' = LinksToBe(s)
                  /\ ConsumedBy(n, s)' <=> ConsumedBy(n, s)
                  /\ LinkingTo(n, s)' <=> LinkingTo(n, s)
    BY <1>2 DEF vars, ConfirmedRow, LinksToBe, ConsumedBy, LinkingTo
  <2> QED
    BY <1>2, <2>1 DEF vars, ConsumedInv, IntentsConsumed
<1> QED
  BY <1>1, <1>2, BeginConsumed, ContinueConsumed, TurnConsumed, Steps DEF Base

LEMMA ConsumedInvariant == Spec => []ConsumedInv
<1>1. Init => ConsumedInv
  <2> SUFFICES ASSUME Init
               PROVE  ConsumedInv
    OBVIOUS
  <2>1. Range(todo) = {} /\ \A n \in Intents : db.intents[n].status = "NONE"
    BY EmptyRange DEF Init, Empty, NoIntent
  <2> QED
    BY <2>1 DEF ConsumedInv, IntentsConsumed
<1> QED
  BY <1>1, BaseTheorem, CacheInvariant, StepConsumed, PTL DEF Spec

\* An intent is marked consumed only when its link to the confirmed settlement
\* that consumed it is in the file, wherever a kill falls: a confirmed row is
\* never written again, so that its links are not deleted any more, and the
\* intents are marked after the settlement's upsert is through
\* (settlementService.ts, sqliteStore.ts).
THEOREM ConsumedTheorem == Spec => []ConsumedIsLinked
<1>1. Base /\ ConsumedInv => ConsumedIsLinked
  <2> SUFFICES ASSUME Base, ConsumedInv, NEW n \in Intents, db.intents[n].status = "CONSUMED"
               PROVE  <<db.intents[n].by, n>> \in db.links
    BY DEF ConsumedIsLinked
  <2>1. PICK s \in {None} \union Settlements : s = db.intents[n].by
    BY DatabaseColumns DEF Base, TypeInv, IntentRows
  <2> QED
    BY <2>1 DEF ConsumedInv, IntentsConsumed, ConsumedBy
<1> QED
  BY <1>1, BaseTheorem, ConsumedInvariant, PTL

-----------------------------------------------------------------------------
(* The twin. *)

Shaped(d) ==
  d = [users |-> d.users, balances |-> d.balances, positions |-> d.positions,
       orders |-> d.orders, keys |-> d.keys, trades |-> d.trades, nonces |-> d.nonces,
       intents |-> d.intents, settlements |-> d.settlements, links |-> d.links,
       events |-> d.events]

SameButLinks(d, e) ==
  /\ e.users = d.users /\ e.balances = d.balances /\ e.positions = d.positions
  /\ e.orders = d.orders /\ e.keys = d.keys /\ e.trades = d.trades
  /\ e.nonces = d.nonces /\ e.intents = d.intents /\ e.settlements = d.settlements
  /\ e.events = d.events

\* The memory backend is where SQLite will be when the current call is through.
Ahead ==
  /\ Shaped(twin)
  /\ \A c \in Range(running) : c.name \in Ensuring => Tables(db, twin, c)
  /\ (\A c \in Range(running) : c.name \notin Ensuring) =>
       /\ SameButLinks(db, twin)
       /\ twin.links = {l \in Settlements \X Intents : l[2] \in LinksToBe(l[1])}

TwinInv ==
  /\ twin # None => Ahead
  /\ \A c \in Range(running) : c.name \in Ensuring => running = <<c>>
  /\ \A c \in Range(todo) : Expected(c)


\* What each call does to the maps of the memory backend.
Maps(d, e, c) ==
  /\ e.users =
       IF \/ c.name \in {"ensureUser", "saveBalance", "issueNonce"}
          \/ c.name = "recordIntent" /\ d.intents[c.key] = NoIntent
       THEN d.users \union {c.user} ELSE d.users
  /\ e.balances = IF c.name = "saveBalance" THEN [d.balances EXCEPT ![c.user] = c.value]
       ELSE d.balances
  /\ e.positions = IF c.name = "setPosition" THEN [d.positions EXCEPT ![c.user] = c.value]
       ELSE d.positions
  /\ e.orders = IF c.name = "addOrder" THEN [d.orders EXCEPT ![c.user][c.key] = @ + 1]
       ELSE d.orders
  /\ e.keys = IF c.name = "addKey" THEN d.keys \union {<<c.user, c.key>>}
       ELSE d.keys
  /\ e.trades = IF c.name = "addTrade" THEN [d.trades EXCEPT ![c.user][c.key] = @ + 1]
       ELSE d.trades
  /\ e.nonces = IF c.name = "issueNonce" THEN [d.nonces EXCEPT ![c.key] = <<c.user, "ISSUED">>]
       ELSE IF c.name = "useNonce"
       THEN [d.nonces EXCEPT ![c.key] = IF @ = None THEN None ELSE <<c.user, "USED">>]
       ELSE d.nonces
  /\ e.intents = IF c.name = "recordIntent" /\ d.intents[c.key] = NoIntent
       THEN [d.intents EXCEPT ![c.key] = c.value]
       ELSE IF c.name = "markIntent"
       THEN [d.intents EXCEPT ![c.key] = IF @ = NoIntent THEN NoIntent ELSE c.value]
       ELSE d.intents
  /\ e.settlements = IF c.name = "upsertSettlement" THEN [d.settlements EXCEPT ![c.key] = c.value.row]
       ELSE d.settlements
  /\ e.links = IF c.name = "upsertSettlement"
       THEN {l \in d.links : l[1] # c.key} \union ({c.key} \X c.value.intents)
       ELSE d.links
  /\ e.events = IF c.name = "claimEvent" THEN d.events \union {c.key}
       ELSE d.events

LEMMA CallMaps ==
  ASSUME NEW d, Shaped(d), NEW c \in Calls, c.name \in CallNames
  PROVE  Shaped(Memory(d, c)) /\ Maps(d, Memory(d, c), c)
<1> DEFINE e == Memory(d, c)
<1> USE DEF Shaped, Maps, LedgerCalls, IntentCalls, OrderCalls
<1>1. CASE c.name = "ensureUser"
  <2>1. e = [d EXCEPT !.users = d.users \union {c.user}]
    BY <1>1 DEF Memory, MemoryLedger
  <2> HIDE DEF e
  <2> QED
    BY <1>1, <2>1 DEF e
<1>2. CASE c.name = "saveBalance"
  <2> DEFINE a == [d EXCEPT !.users = d.users \union {c.user}]
  <2>1. e = [a EXCEPT !.balances = [@ EXCEPT ![c.user] = c.value]]
    BY <1>2 DEF Memory, MemoryLedger
  <2>2. Shaped(a) /\ a.users = d.users \union {c.user}
        /\ a.links = d.links /\ a.balances = d.balances /\ a.positions = d.positions
        /\ a.orders = d.orders /\ a.keys = d.keys /\ a.trades = d.trades /\ a.nonces = d.nonces
        /\ a.intents = d.intents /\ a.settlements = d.settlements /\ a.events = d.events
    OBVIOUS
  <2> HIDE DEF a, e
  <2> QED
    BY <1>2, <2>1, <2>2 DEF e
<1>3. CASE c.name = "issueNonce"
  <2> DEFINE a == [d EXCEPT !.users = @ \union {c.user}]
  <2>1. e = [d EXCEPT !.users = @ \union {c.user}, !.nonces[c.key] = <<c.user, "ISSUED">>]
    BY <1>3 DEF Memory, MemoryIntents
  <2>2. e = [a EXCEPT !.nonces = [@ EXCEPT ![c.key] = <<c.user, "ISSUED">>]]
    BY <2>1
  <2>3. Shaped(a) /\ a.users = d.users \union {c.user}
        /\ a.links = d.links /\ a.balances = d.balances /\ a.positions = d.positions
        /\ a.orders = d.orders /\ a.keys = d.keys /\ a.trades = d.trades /\ a.nonces = d.nonces
        /\ a.intents = d.intents /\ a.settlements = d.settlements /\ a.events = d.events
    OBVIOUS
  <2> HIDE DEF a, e
  <2> QED
    BY <1>3, <2>2, <2>3 DEF e
<1>4. CASE c.name = "useNonce"
  <2>1. e = [d EXCEPT !.nonces =
             [d.nonces EXCEPT ![c.key] = IF @ = None THEN None ELSE <<c.user, "USED">>]]
    BY <1>4 DEF Memory, MemoryIntents
  <2> HIDE DEF e
  <2> QED
    BY <1>4, <2>1 DEF e
<1>5. CASE c.name = "recordIntent" /\ d.intents[c.key] # NoIntent
  <2>1. e = d
    BY <1>5 DEF Memory, MemoryIntents
  <2> HIDE DEF e
  <2> QED
    BY <1>5, <2>1 DEF e
<1>6. CASE c.name = "recordIntent" /\ d.intents[c.key] = NoIntent
  <2> DEFINE a == [d EXCEPT !.users = @ \union {c.user}]
  <2>1. e = [d EXCEPT !.users = @ \union {c.user}, !.intents[c.key] = c.value]
    BY <1>6 DEF Memory, MemoryIntents
  <2>2. e = [a EXCEPT !.intents = [@ EXCEPT ![c.key] = c.value]]
    BY <2>1
  <2>3. Shaped(a) /\ a.users = d.users \union {c.user}
        /\ a.links = d.links /\ a.balances = d.balances /\ a.positions = d.positions
        /\ a.orders = d.orders /\ a.keys = d.keys /\ a.trades = d.trades /\ a.nonces = d.nonces
        /\ a.intents = d.intents /\ a.settlements = d.settlements /\ a.events = d.events
    OBVIOUS
  <2> HIDE DEF a, e
  <2> QED
    BY <1>6, <2>2, <2>3 DEF e
<1>7. CASE c.name = "markIntent"
  <2>1. e = [d EXCEPT !.intents =
             [d.intents EXCEPT ![c.key] = IF @ = NoIntent THEN NoIntent ELSE c.value]]
    BY <1>7 DEF Memory, MemoryIntents
  <2> HIDE DEF e
  <2> QED
    BY <1>7, <2>1 DEF e
<1>8. CASE c.name = "addOrder"
  <2>1. e = [d EXCEPT !.orders = [d.orders EXCEPT ![c.user][c.key] = @ + 1]]
    BY <1>8 DEF Memory, MemoryOrders
  <2> HIDE DEF e
  <2> QED
    BY <1>8, <2>1 DEF e
<1>9. CASE c.name = "addKey"
  <2>1. e = [d EXCEPT !.keys = d.keys \union {<<c.user, c.key>>}]
    BY <1>9 DEF Memory, MemoryOrders
  <2> HIDE DEF e
  <2> QED
    BY <1>9, <2>1 DEF e
<1>10. CASE c.name = "setPosition"
  <2>1. e = [d EXCEPT !.positions = [d.positions EXCEPT ![c.user] = c.value]]
    BY <1>10 DEF Memory, MemoryPositions
  <2> HIDE DEF e
  <2> QED
    BY <1>10, <2>1 DEF e
<1>11. CASE c.name = "addTrade"
  <2>1. e = [d EXCEPT !.trades = [d.trades EXCEPT ![c.user][c.key] = @ + 1]]
    BY <1>11 DEF Memory, MemoryTrades
  <2> HIDE DEF e
  <2> QED
    BY <1>11, <2>1 DEF e
<1>12. CASE c.name = "upsertSettlement"
  <2> DEFINE rows == [d.settlements EXCEPT ![c.key] = c.value.row]
             links == {l \in d.links : l[1] # c.key} \union ({c.key} \X c.value.intents)
             a == [d EXCEPT !.settlements = rows]
  <2>1. e = [d EXCEPT !.settlements = rows, !.links = links]
    BY <1>12 DEF Memory, MemorySettlements
  <2> HIDE DEF rows, links
  <2>2. e = [a EXCEPT !.links = links]
    BY <2>1
  <2>3. Shaped(a) /\ a.users = d.users
        /\ a.links = d.links /\ a.balances = d.balances /\ a.positions = d.positions
        /\ a.orders = d.orders /\ a.keys = d.keys /\ a.trades = d.trades /\ a.nonces = d.nonces
        /\ a.intents = d.intents /\ a.settlements = rows /\ a.events = d.events
    OBVIOUS
  <2> HIDE DEF a, e
  <2> QED
    BY <1>12, <2>2, <2>3 DEF e, rows, links
<1>13. CASE c.name = "claimEvent"
  <2>1. e = [d EXCEPT !.events = d.events \union {c.key}]
    BY <1>13 DEF Memory, MemoryEvents
  <2> HIDE DEF e
  <2> QED
    BY <1>13, <2>1 DEF e
<1> QED
  BY <1>1, <1>2, <1>3, <1>4, <1>5, <1>6, <1>7, <1>8, <1>9, <1>10, <1>11, <1>12, <1>13
  DEF CallNames, OrderNames, NonceNames

LEMMA LinksAfter ==
  ASSUME NEW d \in Databases
  PROVE  d.links = {l \in Settlements \X Intents : l[2] \in LinkedTo(d, l[1])}
<1>1. d.links \subseteq Settlements \X Intents
  BY DatabaseColumns
<1>2. ASSUME NEW l \in Settlements \X Intents
      PROVE  l \in d.links <=> l[2] \in LinkedTo(d, l[1])
  <2>1. l = <<l[1], l[2]>> /\ l[2] \in Intents
    OBVIOUS
  <2> QED
    BY <2>1 DEF LinkedTo
<1> QED
  BY <1>1, <1>2

\* What the next call needs of the tables, the statements in between leave alone.
LEMMA StaysExpected ==
  ASSUME Base, NEW r \in Calls, Tables(db, db', r), NEW c \in Calls, MayFollow(r, c),
         r.name = "addOrder" => c.name # "addOrder", Expected(c)
  PROVE  Expected(c)'
<1>1. WellFormed(c) /\ WellFormed(r) /\ db \in Databases
  BY DEF Calls, Base, TypeInv
<1>2. c.name # "issueNonce"
  BY DEF MayFollow
<1>3. ASSUME c.name = "useNonce"
      PROVE  db'.nonces[c.key] # None
  <2>1. c.key \in Intents /\ db.nonces[c.key] # None
    BY <1>1, <1>3 DEF WellFormed, NonceNames, Expected
  <2>2. \A x, y : <<x, y>> \in Users \X {"ISSUED", "USED"} => <<x, y>> # None
    BY NoneAssumption
  <2>3. r.user \in Users
    BY DEF Calls
  <2>4. db.nonces \in [Intents -> {None} \union (Users \X {"ISSUED", "USED"})]
    BY <1>1, DatabaseColumns
  <2>5. CASE r.name = "useNonce"
    <3>1. db'.nonces = [db.nonces EXCEPT ![r.key] = <<r.user, "USED">>]
      BY <2>5 DEF Tables
    <3> QED
      BY <2>1, <2>2, <2>3, <2>4, <3>1
  <2>6. CASE r.name = "issueNonce"
    <3>1. db'.nonces = [db.nonces EXCEPT ![r.key] = IF @ = None THEN <<r.user, "ISSUED">> ELSE @]
      BY <2>6 DEF Tables
    <3> QED
      BY <2>1, <2>2, <2>3, <2>4, <3>1
  <2>7. CASE r.name \notin {"useNonce", "issueNonce"}
    BY <2>1, <2>7 DEF Tables
  <2> QED
    BY <2>5, <2>6, <2>7
<1>4. c.name = "markIntent" => db'.intents[c.key] # NoIntent
  <2>1. \A n \in Intents : db.intents[n] # NoIntent => db'.intents[n] # NoIntent
    BY <1>1, RowsStay
  <2> QED
    BY <1>1, <2>1 DEF WellFormed, Expected
<1>5. c.name = "addOrder" => db'.orders[c.user][c.key] = 0
  BY DEF Tables, Expected
<1> QED
  BY <1>2, <1>3, <1>4, <1>5 DEF Expected

\* After a call of one statement, and while a call of several runs.
LEMMA BeginAhead ==
  ASSUME Base, TwinInv, BeginCall, twin' # None
  PROVE  Ahead'
<1> DEFINE h == Head(todo)
           f == First(h)
<1>1. /\ h \in Calls /\ h.name \in CallNames /\ db \in Databases /\ db' \in Databases
      /\ Tables(db, db', f) /\ running = <<>> /\ running' = Rest(h)
      /\ \A c : c \in Range(todo) <=> c = h \/ c \in Range(todo')
      /\ \A c : c \notin Range(running)
      /\ twin' = IF twin = None THEN None ELSE Memory(twin, h)
  BY BeginFacts DEF Base, TypeInv
<1>2. \A s \in Settlements :
        LinksToBe(s)' = IF h.name = "upsertSettlement" /\ h.key = s THEN h.value.intents
                        ELSE LinksToBe(s)
  BY BeginLinks DEF Base
<1> HIDE DEF h
<1>3. /\ h.name \in Ensuring => f.name = "ensureUser" /\ f.user = h.user
      /\ h.name = "upsertSettlement" =>
           f.name = "upsertRow" /\ f.key = h.key /\ f.value = h.value.row
      /\ h.name \notin Ensuring \union {"upsertSettlement"} => f = h
  BY <1>1, FirstOf
<1> HIDE DEF f
<1>4. WellFormed(h) /\ Expected(h) /\ h.user \in Users
  BY <1>1 DEF Calls, TwinInv
<1>5. \A s \in Settlements : LinksToBe(s) = LinkedTo(db, s)
  BY <1>1 DEF LinksToBe, LinkedTo
<1>6. /\ Shaped(twin) /\ SameButLinks(db, twin) /\ twin.links = db.links
  <2>1. /\ Shaped(twin) /\ SameButLinks(db, twin)
        /\ twin.links = {l \in Settlements \X Intents : l[2] \in LinksToBe(l[1])}
    BY <1>1 DEF TwinInv, Ahead
  <2>2. twin.links = {l \in Settlements \X Intents : l[2] \in LinkedTo(db, l[1])}
    BY <1>5, <2>1
  <2> QED
    BY <1>1, <2>1, <2>2, LinksAfter
<1>7. twin' = Memory(twin, h)
  BY <1>1
<1>8. Shaped(twin') /\ Maps(twin, twin', h)
  BY <1>1, <1>6, <1>7, CallMaps
<1>9. Maps(db, twin', h)
  BY <1>6, <1>8 DEF Maps, SameButLinks
<1>10. db.links = {l \in Settlements \X Intents : l[2] \in LinkedTo(db, l[1])}
  BY <1>1, LinksAfter
<1>11. CASE h.name \in Ensuring
  <2>1. Tables(db', twin', h)
    <3>1. Tables(db, db', f) /\ f.name = "ensureUser" /\ f.user = h.user
      BY <1>1, <1>3, <1>11
    <3>2. CASE h.name = "saveBalance"
      BY <1>9, <3>1, <3>2 DEF Tables, Maps
    <3>3. CASE h.name = "issueNonce"
      <4>1. db.nonces[h.key] = None /\ h.key \in Intents
        BY <1>4, <3>3 DEF Expected, WellFormed, NonceNames
      <4>2. [db.nonces EXCEPT ![h.key] = IF @ = None THEN <<h.user, "ISSUED">> ELSE @]
            = [db.nonces EXCEPT ![h.key] = <<h.user, "ISSUED">>]
        BY <4>1
      <4> QED
        BY <1>9, <3>1, <3>3, <4>2 DEF Tables, Maps
    <3>4. CASE h.name = "recordIntent"
      <4>1. h.user \in db.users
        BY <1>1, <3>4 DEF Base, ReferencesInv, CallsKnown
      <4>2. db.intents \in [Intents -> IntentRows] /\ h.key \in Intents
        BY <1>1, <1>4, <3>4, DatabaseColumns DEF WellFormed
      <4>3. CASE db.intents[h.key] = NoIntent
        <5>1. [db.intents EXCEPT ![h.key] = IF @ = NoIntent THEN h.value ELSE @]
              = [db.intents EXCEPT ![h.key] = h.value]
          BY <4>2, <4>3
        <5> QED
          BY <1>9, <3>1, <3>4, <4>3, <5>1 DEF Tables, Maps
      <4>4. CASE db.intents[h.key] # NoIntent
        <5>1. [db.intents EXCEPT ![h.key] = IF @ = NoIntent THEN h.value ELSE @] = db.intents
          BY <4>2, <4>4
        <5>2. db.users \union {h.user} = db.users
          BY <4>1
        <5> QED
          BY <1>9, <3>1, <3>4, <4>4, <5>1, <5>2 DEF Tables, Maps
      <4> QED
        BY <4>3, <4>4
    <3> QED
      BY <1>11, <3>2, <3>3, <3>4 DEF Ensuring
  <2>2. \A c : c \in Range(running') <=> c = h
    BY <1>1, <1>11, Leftovers
  <2> QED
    BY <1>8, <1>11, <2>1, <2>2 DEF Ahead
<1>12. CASE h.name = "upsertSettlement"
  <2>1. SameButLinks(db', twin')
    BY <1>1, <1>3, <1>9, <1>12 DEF Tables, Maps, SameButLinks
  <2>2. h.key \in Settlements /\ h.value.intents \subseteq Intents
    BY <1>4, <1>12 DEF WellFormed, Records
  <2>3. twin'.links = {l \in db.links : l[1] # h.key} \union ({h.key} \X h.value.intents)
    BY <1>9, <1>12 DEF Maps
  <2>4. ASSUME NEW l
        PROVE  l \in twin'.links <=> l \in Settlements \X Intents /\ l[2] \in LinksToBe(l[1])'
    <3>1. l \in {h.key} \X h.value.intents <=>
            l \in Settlements \X Intents /\ l[1] = h.key /\ l[2] \in h.value.intents
      BY <2>2
    <3>2. l \in db.links <=> l \in Settlements \X Intents /\ l[2] \in LinksToBe(l[1])
      BY <1>5, <1>10
    <3>3. CASE l \in Settlements \X Intents /\ l[1] = h.key
      <4>1. PICK s \in Settlements : s = l[1]
        BY <3>3
      <4>2. LinksToBe(s)' = h.value.intents
        BY <1>2, <1>12, <3>3, <4>1
      <4> QED
        BY <2>3, <3>1, <3>3, <4>1, <4>2
    <3>4. CASE l \in Settlements \X Intents /\ l[1] # h.key
      <4>1. PICK s \in Settlements : s = l[1]
        BY <3>4
      <4>2. LinksToBe(s)' = LinksToBe(s)
        BY <1>2, <3>4, <4>1
      <4> QED
        BY <2>3, <3>1, <3>2, <3>4, <4>1, <4>2
    <3>5. CASE l \notin Settlements \X Intents
      BY <2>3, <3>1, <3>2, <3>5
    <3> QED
      BY <3>3, <3>4, <3>5
  <2>5. twin'.links = {l \in Settlements \X Intents : l[2] \in LinksToBe(l[1])'}
    BY <2>4
  <2>6. \A c \in Range(running') : c.name \notin Ensuring
    BY <1>1, <1>12, Leftovers, CallFields DEF Ensuring
  <2> QED
    BY <1>8, <2>1, <2>5, <2>6 DEF Ahead
<1>13. CASE h.name \notin Ensuring \union {"upsertSettlement"}
  <2>1. f = h /\ Tables(db, db', h)
    BY <1>1, <1>3, <1>13
  <2>2. Range(running') = {}
    BY <1>1, <1>13, Leftovers
  <2>3. db'.links = db.links /\ twin'.links = db.links
    BY <1>1, <1>9, <1>13, <2>1 DEF Tables, Maps, CallNames, OrderNames, NonceNames
  <2>4. SameButLinks(db', twin')
    <3>1. twin'.users = db'.users
      BY <1>9, <1>13, <2>1 DEF Tables, Maps, Ensuring
    <3>2. twin'.balances = db'.balances /\ twin'.positions = db'.positions /\ twin'.keys = db'.keys
          /\ twin'.trades = db'.trades /\ twin'.events = db'.events
      BY <1>9, <2>1 DEF Tables, Maps
    <3>3. twin'.settlements = db'.settlements
      BY <1>1, <1>9, <1>13, <2>1 DEF Tables, Maps, CallNames, OrderNames, NonceNames
    <3>4. twin'.orders = db'.orders
      <4>1. CASE h.name = "addOrder"
        <5>1. db.orders[h.user][h.key] = 0 /\ InsertOnce(0) = 0 + 1 /\ h.key \in Orders
          BY <1>4, <4>1 DEF Expected, InsertOnce, WellFormed, OrderNames
        <5>2. db.orders \in [Users -> [Orders -> Nat]]
          BY <1>1, DatabaseColumns
        <5>3. [db.orders EXCEPT ![h.user][h.key] = InsertOnce(@)]
              = [db.orders EXCEPT ![h.user][h.key] = @ + 1]
          BY <1>4, <5>1, <5>2
        <5> QED
          BY <1>9, <2>1, <4>1, <5>3 DEF Tables, Maps
      <4>2. CASE h.name # "addOrder"
        BY <1>9, <2>1, <4>2 DEF Tables, Maps
      <4> QED
        BY <4>1, <4>2
    <3>5. twin'.nonces = db'.nonces
      <4>1. CASE h.name = "useNonce"
        <5>1. db.nonces[h.key] # None
          BY <1>4, <4>1 DEF Expected
        <5>2. [db.nonces EXCEPT ![h.key] = IF @ = None THEN None ELSE <<h.user, "USED">>]
              = [db.nonces EXCEPT ![h.key] = <<h.user, "USED">>]
          BY <5>1
        <5> QED
          BY <1>9, <2>1, <4>1, <5>2 DEF Tables, Maps
      <4>2. CASE h.name # "useNonce"
        BY <1>9, <1>13, <2>1, <4>2 DEF Tables, Maps, Ensuring
      <4> QED
        BY <4>1, <4>2
    <3>6. twin'.intents = db'.intents
      <4>1. CASE h.name = "markIntent"
        <5>1. db.intents[h.key] # NoIntent
          BY <1>4, <4>1 DEF Expected
        <5>2. [db.intents EXCEPT ![h.key] = IF @ = NoIntent THEN NoIntent ELSE h.value]
              = [db.intents EXCEPT ![h.key] = h.value]
          BY <5>1
        <5> QED
          BY <1>9, <2>1, <4>1, <5>2 DEF Tables, Maps
      <4>2. CASE h.name # "markIntent"
        BY <1>9, <1>13, <2>1, <4>2 DEF Tables, Maps, Ensuring
      <4> QED
        BY <4>1, <4>2
    <3> QED
      BY <3>1, <3>2, <3>3, <3>4, <3>5, <3>6 DEF SameButLinks
  <2>5. \A s \in Settlements : LinksToBe(s)' = LinkedTo(db, s)
    BY <1>2, <1>5, <1>13
  <2>6. twin'.links = {l \in Settlements \X Intents : l[2] \in LinksToBe(l[1])'}
    BY <1>10, <2>3, <2>5
  <2> QED
    BY <1>8, <2>2, <2>4, <2>6 DEF Ahead
<1> QED
  BY <1>11, <1>12, <1>13

LEMMA ContinueAhead ==
  ASSUME Base, TwinInv, ContinueCall, twin' # None
  PROVE  Ahead'
<1> DEFINE r == Head(running)
<1>1. /\ r \in Calls /\ r.name \in RunningNames /\ db \in Databases /\ db' \in Databases
      /\ Tables(db, db', r) /\ twin' = twin /\ running' = Tail(running) /\ running # <<>>
      /\ \A c : c \in Range(running) <=> c = r \/ c \in Range(running')
      /\ running \in Seq(Calls)
  BY ContinueFacts DEF Base, TypeInv
<1>2. \A s \in Settlements : LinksToBe(s)' = LinksToBe(s)
  BY ContinueLinks DEF Base
<1> HIDE DEF r
<1>3. Ahead
  BY <1>1 DEF TwinInv
<1>4. CASE r.name \in Ensuring
  <2>1. running = <<r>> /\ Tables(db, twin, r)
    BY <1>1, <1>3, <1>4 DEF TwinInv, Ahead
  <2>2. Range(running') = {}
    <3>1. running' = <<>>
      BY <1>1, <2>1
    <3> QED
      BY <3>1, EmptyRange
  <2>3. SameButLinks(db', twin) /\ twin.links = db'.links
    BY <1>1, <2>1 DEF Tables, SameButLinks
  <2>4. \A s \in Settlements : LinksToBe(s)' = LinkedTo(db', s)
    BY <2>2 DEF LinksToBe, LinkedTo
  <2>5. twin.links = {l \in Settlements \X Intents : l[2] \in LinkedTo(db', l[1])}
    BY <1>1, <2>3, LinksAfter
  <2>6. twin.links = {l \in Settlements \X Intents : l[2] \in LinksToBe(l[1])'}
    BY <2>4, <2>5
  <2> QED
    BY <1>1, <1>3, <2>2, <2>3, <2>6 DEF Ahead
<1>5. CASE r.name \notin Ensuring
  <2>1. \A c \in Range(running) : c.name \notin Ensuring
    <3> SUFFICES ASSUME NEW c \in Range(running), c.name \in Ensuring
                 PROVE  FALSE
      OBVIOUS
    <3>1. running = <<c>>
      BY DEF TwinInv
    <3>2. r = c
      BY <1>1, <3>1 DEF r
    <3> QED
      BY <1>5, <3>2
  <2>2. /\ SameButLinks(db, twin)
        /\ twin.links = {l \in Settlements \X Intents : l[2] \in LinksToBe(l[1])}
    BY <1>3, <2>1 DEF Ahead
  <2>3. SameButLinks(db', twin)
    BY <1>1, <1>5, <2>2 DEF Tables, SameButLinks, RunningNames, Ensuring
  <2>4. twin.links = {l \in Settlements \X Intents : l[2] \in LinksToBe(l[1])'}
    BY <1>2, <2>2
  <2> QED
    BY <1>1, <1>3, <2>1, <2>3, <2>4 DEF Ahead
<1> QED
  BY <1>4, <1>5

LEMMA BeginTwin ==
  ASSUME Base, TwinInv, BeginCall
  PROVE  TwinInv'
<1> DEFINE h == Head(todo)
           f == First(h)
<1>1. /\ h \in Calls /\ h.name \in CallNames
      /\ Tables(db, db', f) /\ running' = Rest(h)
      /\ \A c : c \in Range(todo) <=> c = h \/ c \in Range(todo')
      /\ \A c \in Range(todo') : c \in Calls /\ MayFollow(h, c)
  BY BeginFacts DEF Base
<1> HIDE DEF h
<1>2. f \in Calls /\ (h.name \notin Ensuring \union {"upsertSettlement"} => f = h)
      /\ (h.name \in Ensuring => f.name = "ensureUser")
      /\ (h.name = "upsertSettlement" => f.name = "upsertRow")
  BY <1>1, FirstOf
<1>3. ASSUME NEW c \in Range(running'), c.name \in Ensuring
      PROVE  running' = <<c>>
  <2>1. CASE h.name \in Ensuring
    <3>1. Rest(h) = <<h>>
      BY <1>1, <2>1, Beginnings
    <3>2. c = h
      BY <1>1, <1>3, <2>1, Leftovers
    <3> QED
      BY <1>1, <3>1, <3>2
  <2>2. CASE h.name = "upsertSettlement"
    BY <1>1, <1>3, <2>2, Leftovers, CallFields DEF Ensuring
  <2>3. CASE h.name \notin Ensuring \union {"upsertSettlement"}
    BY <1>1, <1>3, <2>3, Leftovers
  <2> QED
    BY <2>1, <2>2, <2>3
<1> HIDE DEF f
<1>4. ASSUME NEW c \in Range(todo')
      PROVE  Expected(c)'
  <2>1. Expected(c) /\ c \in Calls /\ MayFollow(h, c)
    BY <1>1, <1>4 DEF TwinInv
  <2>2. CASE f = h
    <3>1. h.name = "addOrder" => c.name # "addOrder"
      BY <2>1 DEF MayFollow
    <3> QED
      BY <1>1, <1>2, <2>1, <2>2, <3>1, StaysExpected
  <2>3. CASE f # h
    <3>1. f.name \in {"ensureUser", "upsertRow"}
      BY <1>2, <2>3
    <3>2. db'.nonces = db.nonces /\ db'.intents = db.intents /\ db'.orders = db.orders
      BY <1>1, <3>1 DEF Tables
    <3> QED
      BY <2>1, <3>2 DEF Expected
  <2> QED
    BY <2>2, <2>3
<1> QED
  BY <1>3, <1>4, BeginAhead DEF TwinInv

LEMMA ContinueTwin ==
  ASSUME Base, TwinInv, ContinueCall
  PROVE  TwinInv'
<1> DEFINE r == Head(running)
<1>1. /\ r \in Calls /\ r.name \in RunningNames /\ Tables(db, db', r) /\ todo' = todo
      /\ running' = Tail(running) /\ running # <<>> /\ running \in Seq(Calls)
      /\ \A c : c \in Range(running) <=> c = r \/ c \in Range(running')
      /\ \A c \in Range(todo) : MayFollow(r, c)
      /\ todo \in Seq(Calls)
  BY ContinueFacts DEF Base, TypeInv
<1> HIDE DEF r
<1>2. ASSUME NEW c \in Range(running'), c.name \in Ensuring
      PROVE  FALSE
  <2>1. running = <<c>>
    BY <1>1, <1>2 DEF TwinInv
  <2>2. running' = <<>>
    BY <1>1, <2>1
  <2> QED
    BY <1>2, <2>2, EmptyRange
<1>3. ASSUME NEW c \in Range(todo')
      PROVE  Expected(c)'
  <2>1. Expected(c) /\ c \in Calls /\ MayFollow(r, c)
    BY <1>1, <1>3, RangeTyped DEF TwinInv
  <2> QED
    BY <1>1, <2>1, StaysExpected DEF RunningNames
<1> QED
  BY <1>2, <1>3, ContinueAhead DEF TwinInv

LEMMA StepTwin == Base /\ TwinInv /\ [Next]_vars => TwinInv'
<1> SUFFICES ASSUME Base, TwinInv, [Next]_vars
             PROVE  TwinInv'
  OBVIOUS
<1>1. CASE Kill
  <2>1. twin' = None /\ Range(todo') = {} /\ Range(running') = {}
    BY <1>1, EmptyRange DEF Kill
  <2> QED
    BY <2>1 DEF TwinInv
<1>2. CASE UNCHANGED vars
  <2>1. /\ \A s : LinksToBe(s)' = LinksToBe(s)
        /\ \A c : Expected(c)' <=> Expected(c)
    BY <1>2 DEF vars, LinksToBe, Expected
  <2> QED
    BY <1>2, <2>1 DEF vars, TwinInv, Ahead
<1>3. ASSUME NEW u \in Users, Turned(u)
      PROVE  TwinInv'
  <2>1. /\ UNCHANGED <<db, twin, running>> /\ \A c \in Range(todo') : Expected(c)
    BY <1>3 DEF Turned, TurnBasics
  <2>2. /\ \A s : LinksToBe(s)' = LinksToBe(s)
        /\ \A c : Expected(c)' <=> Expected(c)
    BY <2>1 DEF LinksToBe, Expected
  <2> QED
    BY <2>1, <2>2 DEF TwinInv, Ahead
<1> QED
  BY <1>1, <1>2, <1>3, BeginTwin, ContinueTwin, Steps DEF Base

LEMMA TwinInvariant == Spec => []TwinInv
<1>1. Init => TwinInv
  <2> SUFFICES ASSUME Init
               PROVE  TwinInv
    OBVIOUS
  <2>1. Range(todo) = {} /\ Range(running) = {} /\ db = Empty /\ twin = db
    BY EmptyRange DEF Init
  <2>2. Shaped(db) /\ db.links = {}
    BY <2>1 DEF Shaped, Empty
  <2>3. \A s : LinksToBe(s) = {}
    BY <2>1, <2>2 DEF LinksToBe
  <2> QED
    BY <2>1, <2>2, <2>3 DEF TwinInv, Ahead, SameButLinks
<1> QED
  BY <1>1, BaseTheorem, StepTwin, PTL DEF Spec

LEMMA TwinAgrees == Base /\ TwinInv => BackendsAgree
<1> SUFFICES ASSUME Base, TwinInv, Idle, twin # None
             PROVE  twin = db
  BY DEF BackendsAgree
<1>1. Range(running) = {} /\ db \in Databases
  BY EmptyRange DEF Idle, Base, TypeInv
<1>2. /\ Shaped(twin) /\ SameButLinks(db, twin)
      /\ twin.links = {l \in Settlements \X Intents : l[2] \in LinksToBe(l[1])}
  BY <1>1 DEF TwinInv, Ahead
<1>3. \A s \in Settlements : LinksToBe(s) = LinkedTo(db, s)
  BY <1>1 DEF LinksToBe, LinkedTo
<1>4. twin.links = {l \in Settlements \X Intents : l[2] \in LinkedTo(db, l[1])}
  BY <1>2, <1>3
<1>5. twin.links = db.links
  BY <1>1, <1>4, LinksAfter
<1>6. Shaped(db)
  BY <1>1 DEF Databases, Shaped
<1> QED
  BY <1>2, <1>5, <1>6 DEF Shaped, SameButLinks

\* Between two turns the maps of the memory backend hold what SQLite's tables
\* hold, although the one ignores a repeated order by its id and the other by
\* its client order id, the one overwrites a nonce that the other keeps, and
\* the one adds no user where the other does: no turn asks for what would make
\* them differ (memoryStore.ts, sqliteStore.ts).
THEOREM TwinTheorem == Spec => []BackendsAgree
BY BaseTheorem, TwinInvariant, TwinAgrees, PTL

-----------------------------------------------------------------------------
(* The books. *)

Realized(d, u) == OrNothing(d.positions[u], NoPosition).realized
Pnl(d, u) == OrNothing(d.balances[u], NoBalance).pnl

\* What a row adds to the settled P&L of a user.
Part(row, u) ==
  IF /\ row # None
     /\ row.user = u
     /\ row.type = "TRADING_PNL"
     /\ row.status = "ONCHAIN_CONFIRMED"
  THEN row.amount ELSE 0

SettledIn(rows, u) == SumOver(Settlements, [s \in Settlements |-> Part(rows[s], u)])

Balanced(u) == Realized(db, u) = Pnl(db, u) + SettledIn(db.settlements, u)

\* What the turn's calls, once carried out, make of the user's realized P&L and
\* of the pending P&L, and what they add to the settled P&L.
Realizes(u, r) ==
  \/ Writing("setPosition", u) = {} /\ r = Realized(db, u)
  \/ \E c \in Writing("setPosition", u) : r = OrNothing(c.value, NoPosition).realized

Leaves(u, p) ==
  \/ Writing("saveBalance", u) = {} /\ p = Pnl(db, u)
  \/ \E c \in Writing("saveBalance", u) : p = c.value.pnl

Adds(u, a) ==
  \/ ~ (\E c \in Writing("upsertSettlement", u) : ConfirmedCall(c)) /\ a = 0
  \/ \E c \in Writing("upsertSettlement", u) : ConfirmedCall(c) /\ a = Share(c.value.row)

BooksKept(u) ==
  \A r, p, a \in Int :
    Realizes(u, r) /\ Leaves(u, p) /\ Adds(u, a) => r = p + (SettledIn(db.settlements, u) + a)

\* Nothing of the user's books is left to be written.
Done(u) ==
  /\ Writing("setPosition", u) = {} /\ Writing("saveBalance", u) = {}
  /\ ~ \E c \in Writing("upsertSettlement", u) : ConfirmedCall(c)

BooksInv ==
  /\ \A c \in Range(todo) : c.name = "setPosition" =>
       \E d, e \in Range(todo) : d.name = "saveBalance" /\ e.name = "addOrder"
  /\ \A c, d \in Range(todo) :
       ~ (c.name = "upsertSettlement" /\ d.name \in {"addOrder", "setPosition"})
  /\ \A u \in Users \ torn : BooksKept(u) /\ (u \notin HalfWritten => Balanced(u))


LEMMA PartsTyped ==
  ASSUME NEW rows \in [Settlements -> {None} \union Rows], NEW u
  PROVE  /\ [s \in Settlements |-> Part(rows[s], u)] \in [Settlements -> Int]
         /\ SettledIn(rows, u) \in Int
<1>1. \A s \in Settlements : Part(rows[s], u) \in Int
  BY DEF Part, Rows
<1>2. [s \in Settlements |-> Part(rows[s], u)] \in [Settlements -> Int]
  BY <1>1
<1> QED
  BY <1>2, SumType, StoreAssumption DEF SettledIn

LEMMA BooksTyped ==
  ASSUME NEW d \in Databases, NEW u \in Users
  PROVE  Realized(d, u) \in Int /\ Pnl(d, u) \in Int /\ SettledIn(d.settlements, u) \in Int
<1>1. /\ d.positions[u] \in {None} \union Positions /\ d.balances[u] \in {None} \union Balances
      /\ d.settlements \in [Settlements -> {None} \union Rows]
  BY DatabaseColumns
<1>2. Realized(d, u) \in Int
  BY <1>1 DEF Realized, OrNothing, NoPosition, Positions
<1>3. Pnl(d, u) \in Int
  BY <1>1 DEF Pnl, OrNothing, NoBalance, Balances
<1> QED
  BY <1>1, <1>2, <1>3, PartsTyped

\* One row more or another row instead: the sum changes by the difference.
LEMMA SettledChanges ==
  ASSUME NEW rows \in [Settlements -> {None} \union Rows], NEW k \in Settlements,
         NEW row \in Rows, NEW new, new = [rows EXCEPT ![k] = row], NEW u
  PROVE  SettledIn(new, u) = SettledIn(rows, u) + Part(row, u) - Part(rows[k], u)
<1> DEFINE f == [s \in Settlements |-> Part(rows[s], u)]
           g == [s \in Settlements |-> Part(new[s], u)]
<1>1. new \in [Settlements -> {None} \union Rows] /\ new[k] = row
      /\ \A s \in Settlements \ {k} : new[s] = rows[s]
  OBVIOUS
<1>2. f \in [Settlements -> Int] /\ g \in [Settlements -> Int]
  BY <1>1, PartsTyped
<1>3. /\ \A s \in Settlements \ {k} : g[s] = f[s]
      /\ g[k] = Part(row, u) /\ f[k] = Part(rows[k], u)
  BY <1>1
<1>4. SettledIn(new, u) = SumOver(Settlements, g) /\ SettledIn(rows, u) = SumOver(Settlements, f)
  BY DEF SettledIn
<1> HIDE DEF f, g
<1>5. SumOver(Settlements, g) = SumOver(Settlements, f) + g[k] - f[k]
  BY <1>2, <1>3, SumDifference, StoreAssumption
<1> QED
  BY <1>3, <1>4, <1>5

LEMMA DoneBalanced ==
  ASSUME NEW u \in Users, db' \in Databases, BooksKept(u)', Done(u)'
  PROVE  Balanced(u)'
<1>1. Realized(db', u) \in Int /\ Pnl(db', u) \in Int /\ SettledIn(db'.settlements, u) \in Int
  BY BooksTyped
<1>2. PICK r \in Int, p \in Int : r = Realized(db', u) /\ p = Pnl(db', u)
  BY <1>1
<1>3. Realizes(u, r)' /\ Leaves(u, p)' /\ Adds(u, 0)'
  BY <1>2 DEF Done, Realizes, Leaves, Adds
<1>4. r = p + (SettledIn(db'.settlements, u) + 0)
  BY <1>3 DEF BooksKept
<1> QED
  BY <1>1, <1>2, <1>4 DEF Balanced

\* The calls and statements left after BeginCall and after ContinueCall.
LEMMA BeginPending ==
  ASSUME TypeInv, BeginCall, NEW name \in CallNames
  PROVE  LET h == Head(todo) IN
         /\ h.name # name \/ h.name \in Ensuring => Pending(name)' = Pending(name)
         /\ \A c : c \in Pending(name)' => c.name = name /\ (c = h \/ c \in Range(todo'))
         /\ \A c \in Range(todo') : c.name = name => c \in Pending(name)'
<1> DEFINE h == Head(todo)
<1>1. /\ h \in Calls /\ h.name \in CallNames /\ running' = Rest(h)
      /\ \A c : c \in Range(todo) <=> c = h \/ c \in Range(todo')
      /\ \A c : c \notin Range(running)
  BY BeginFacts
<1> HIDE DEF h
<1>2. \A c : c.name = name => (c \in Range(running') <=> c = h /\ h.name \in Ensuring)
  <2>1. CASE h.name \in Ensuring
    BY <1>1, <2>1, Leftovers
  <2>2. CASE h.name = "upsertSettlement"
    <3>1. \A c \in Range(running') : c.name \in {"unlink", "link"}
      BY <1>1, <2>2, Leftovers, CallFields
    <3> QED
      BY <2>2, <3>1 DEF Ensuring, CallNames, OrderNames, NonceNames
  <2>3. CASE h.name \notin Ensuring \union {"upsertSettlement"}
    BY <1>1, <2>3, Leftovers
  <2> QED
    BY <1>1, <2>1, <2>2, <2>3
<1>3. \A c : c \in Pending(name)' <=>
        c.name = name /\ (c \in Range(todo') \/ (c = h /\ h.name \in Ensuring))
  BY <1>2 DEF Pending
<1>4. \A c : c \in Pending(name) <=> c.name = name /\ (c \in Range(todo') \/ c = h)
  BY <1>1 DEF Pending
<1> QED
  BY <1>3, <1>4 DEF h

LEMMA ContinuePending ==
  ASSUME TypeInv, ContinueCall, NEW name \in CallNames
  PROVE  LET r == Head(running) IN
         /\ r.name # name => Pending(name)' = Pending(name)
         /\ \A c \in Pending(name)' : c.name = name /\ MayFollow(r, c)
<1> DEFINE r == Head(running)
<1>1. /\ \A c : c \in Range(running) <=> c = r \/ c \in Range(running')
      /\ \A c \in Range(running') : MayFollow(r, c)
      /\ \A c \in Range(todo) : MayFollow(r, c)
      /\ todo' = todo
  BY ContinueFacts
<1> HIDE DEF r
<1>2. \A c : c \in Pending(name)' <=> c.name = name /\ (c \in Range(todo) \/ c \in Range(running'))
  BY <1>1 DEF Pending
<1>3. \A c : c \in Pending(name) <=>
               c.name = name /\ (c \in Range(todo) \/ c = r \/ c \in Range(running'))
  BY <1>1 DEF Pending
<1> QED
  BY <1>1, <1>2, <1>3 DEF r

\* HalfWritten looks at four kinds of calls only.
HalfWrittenNames == {"saveBalance", "setPosition", "addOrder", "upsertSettlement"}

LEMMA SameHalfWritten ==
  ASSUME \A name \in HalfWrittenNames : Pending(name)' = Pending(name)
  PROVE  HalfWritten' = HalfWritten
BY DEF HalfWritten, HalfWrittenNames

\* The three tables the books are in.
LEMMA SameBalance ==
  ASSUME NEW u \in Users, db'.positions = db.positions, db'.balances = db.balances,
         db'.settlements = db.settlements, Balanced(u)
  PROVE  Balanced(u)'
BY DEF Balanced, Realized, Pnl

\* A confirmation adds its share, once; any other upsert adds nothing.
LEMMA UpsertSettles ==
  ASSUME Base, ConsumedInv, NEW h \in Range(todo), h.name = "upsertSettlement",
         db'.settlements = [db.settlements EXCEPT ![h.key] = h.value.row], NEW u \in Users
  PROVE  SettledIn(db'.settlements, u)
           = SettledIn(db.settlements, u)
             + (IF h.user = u /\ ConfirmedCall(h) THEN Share(h.value.row) ELSE 0)
<1>1. h \in Calls /\ db \in Databases
  BY RangeTyped DEF Base, TypeInv
<1>2. h.key \in Settlements /\ h.value.row \in Rows
      /\ db.settlements \in [Settlements -> {None} \union Rows]
  BY <1>1, DatabaseColumns DEF Calls, WellFormed, Records
<1>3. ~ ConfirmedRow(h.key)
  BY DEF ConsumedInv
<1>4. Part(db.settlements[h.key], u) = 0
  BY <1>3 DEF ConfirmedRow, Part
<1>5. h.value.row.user = h.user
  BY DEF Base, ReferencesInv, UpsertsKnown
<1>6. Part(h.value.row, u) = IF h.user = u /\ ConfirmedCall(h) THEN Share(h.value.row) ELSE 0
  BY <1>2, <1>5, NoneAssumption DEF Part, Share, ConfirmedCall, Rows, Types
<1>7. SettledIn(db'.settlements, u)
        = SettledIn(db.settlements, u) + Part(h.value.row, u) - Part(db.settlements[h.key], u)
  BY <1>2, SettledChanges
<1>8. SettledIn(db.settlements, u) \in Int /\ Part(h.value.row, u) \in Int
  BY <1>2, PartsTyped DEF Part, Rows
<1> QED
  BY <1>4, <1>6, <1>7, <1>8

LEMMA BeginKept ==
  ASSUME Base, ConsumedInv, BeginCall, NEW u \in Users, BooksKept(u)
  PROVE  BooksKept(u)'
<1> DEFINE h == Head(todo)
           f == First(h)
           more == IF h.name = "upsertSettlement" /\ h.user = u /\ ConfirmedCall(h)
                   THEN Share(h.value.row) ELSE 0
<1>1. /\ h \in Calls /\ h.name \in CallNames /\ db \in Databases
      /\ Tables(db, db', f)
      /\ \A c : c \in Range(todo) <=> c = h \/ c \in Range(todo')
  BY BeginFacts DEF Base, TypeInv
<1>2. \A name \in CallNames :
        /\ h.name # name \/ h.user # u \/ h.name \in Ensuring =>
             Writing(name, u)' = Writing(name, u)
        /\ h.name = name /\ h.user = u => h \in Writing(name, u)
        /\ h.name = name /\ h.user = u /\ name \in {"setPosition", "addOrder", "upsertSettlement"} =>
             Writing(name, u)' = {}
        /\ Writing(name, u) \subseteq Writing(name, u)' \union {h}
  BY BeginWriting DEF Base
<1> HIDE DEF h
<1>3. /\ h.name \in Ensuring => f.name = "ensureUser"
      /\ h.name = "upsertSettlement" =>
           f.name = "upsertRow" /\ f.key = h.key /\ f.value = h.value.row
      /\ h.name \notin Ensuring \union {"upsertSettlement"} => f = h
  BY <1>1, FirstOf
<1> HIDE DEF f
<1>4. WellFormed(h) /\ h.user \in Users
  BY <1>1 DEF Calls
<1>5. db'.balances = db.balances
  BY <1>1, <1>3 DEF Tables, Ensuring
<1>6. SettledIn(db'.settlements, u) = SettledIn(db.settlements, u) + more
  <2>1. CASE h.name = "upsertSettlement"
    <3>1. db'.settlements = [db.settlements EXCEPT ![h.key] = h.value.row]
      BY <1>1, <1>3, <2>1 DEF Tables
    <3> QED
      BY <1>1, <2>1, <3>1, UpsertSettles
  <2>2. CASE h.name # "upsertSettlement"
    <3>1. db'.settlements = db.settlements
      BY <1>1, <1>3, <2>2 DEF Tables, CallNames, OrderNames, NonceNames, Ensuring
    <3>2. SettledIn(db.settlements, u) \in Int
      BY <1>1, BooksTyped
    <3> QED
      BY <2>2, <3>1, <3>2
  <2> QED
    BY <2>1, <2>2
<1>7. more \in Int /\ SettledIn(db.settlements, u) \in Int
  <2>1. h.name = "upsertSettlement" => Share(h.value.row) \in Int
    BY <1>4 DEF WellFormed, Records, Rows, Share
  <2> QED
    BY <1>1, <2>1, BooksTyped
<1>8. ASSUME NEW r \in Int, Realizes(u, r)'
      PROVE  Realizes(u, r)
  <2>1. CASE h.name = "setPosition" /\ h.user = u
    <3>1. Writing("setPosition", u)' = {} /\ h \in Writing("setPosition", u)
      BY <1>2, <2>1 DEF CallNames
    <3>2. db'.positions = [db.positions EXCEPT ![u] = h.value]
      BY <1>1, <1>3, <2>1 DEF Tables, Ensuring
    <3>3. r = Realized(db', u)
      BY <1>8, <3>1 DEF Realizes
    <3>4. Realized(db', u) = OrNothing(h.value, NoPosition).realized
      BY <1>1, <3>2, DatabaseColumns DEF Realized
    <3> QED
      BY <3>1, <3>3, <3>4 DEF Realizes
  <2>2. CASE ~ (h.name = "setPosition" /\ h.user = u)
    <3>1. Writing("setPosition", u)' = Writing("setPosition", u)
      BY <1>2, <2>2 DEF CallNames
    <3>2. db'.positions[u] = db.positions[u]
      BY <1>1, <1>3, <1>4, <2>2, DatabaseColumns DEF Tables, Ensuring
    <3>3. Realized(db', u) = Realized(db, u)
      BY <3>2 DEF Realized
    <3> QED
      BY <1>8, <3>1, <3>3 DEF Realizes
  <2> QED
    BY <2>1, <2>2
<1>9. ASSUME NEW p \in Int, Leaves(u, p)'
      PROVE  Leaves(u, p)
  <2>1. Writing("saveBalance", u)' = Writing("saveBalance", u)
    BY <1>2 DEF CallNames, Ensuring
  <2>2. Pnl(db', u) = Pnl(db, u)
    BY <1>5 DEF Pnl
  <2> QED
    BY <1>9, <2>1, <2>2 DEF Leaves
<1>10. ASSUME NEW a \in Int, Adds(u, a)'
       PROVE  Adds(u, more + a)
  <2>1. CASE h.name = "upsertSettlement" /\ h.user = u
    <3>1. Writing("upsertSettlement", u)' = {} /\ h \in Writing("upsertSettlement", u)
          /\ Writing("upsertSettlement", u) \subseteq {h}
      BY <1>2, <2>1 DEF CallNames
    <3>2. a = 0
      BY <1>10, <3>1 DEF Adds
    <3>3. more + a = more
      BY <1>7, <3>2
    <3>4. CASE ConfirmedCall(h)
      BY <2>1, <3>1, <3>3, <3>4 DEF Adds
    <3>5. CASE ~ ConfirmedCall(h)
      BY <2>1, <3>1, <3>3, <3>5 DEF Adds
    <3> QED
      BY <3>4, <3>5
  <2>2. CASE ~ (h.name = "upsertSettlement" /\ h.user = u)
    <3>1. Writing("upsertSettlement", u)' = Writing("upsertSettlement", u)
      BY <1>2, <2>2 DEF CallNames
    <3>2. more + a = a
      BY <2>2
    <3> QED
      BY <1>10, <3>1, <3>2 DEF Adds
  <2> QED
    BY <2>1, <2>2
<1> HIDE DEF more
<1>11. ASSUME NEW r \in Int, NEW p \in Int, NEW a \in Int,
              Realizes(u, r)', Leaves(u, p)', Adds(u, a)'
       PROVE  r = p + (SettledIn(db'.settlements, u) + a)
  <2>1. Realizes(u, r) /\ Leaves(u, p) /\ Adds(u, more + a) /\ more + a \in Int
    BY <1>7, <1>8, <1>9, <1>10, <1>11
  <2>2. r = p + (SettledIn(db.settlements, u) + (more + a))
    BY <2>1 DEF BooksKept
  <2> QED
    BY <1>6, <1>7, <2>2
<1> QED
  BY <1>11 DEF BooksKept

LEMMA BeginBalanced ==
  ASSUME Base, BooksInv, BeginCall, NEW u \in Users, u \notin torn, u \notin HalfWritten',
         BooksKept(u)'
  PROVE  Balanced(u)'
<1> DEFINE h == Head(todo)
           f == First(h)
<1>1. /\ h \in Calls /\ h.name \in CallNames /\ db' \in Databases
      /\ Tables(db, db', f)
      /\ \A c : c \in Range(todo) <=> c = h \/ c \in Range(todo')
      /\ \A c \in Range(todo') : c \in Calls /\ MayFollow(h, c)
      /\ \A c : c \notin Range(running)
  BY BeginFacts DEF Base
<1>2. \A name \in CallNames :
        /\ h.name # name \/ h.name \in Ensuring => Pending(name)' = Pending(name)
        /\ \A c : c \in Pending(name)' => c.name = name /\ (c = h \/ c \in Range(todo'))
        /\ \A c \in Range(todo') : c.name = name => c \in Pending(name)'
  BY BeginPending DEF Base
<1>3. \A name \in CallNames :
        /\ h.name = name /\ h.user = u /\ name \in {"setPosition", "addOrder", "upsertSettlement"} =>
             Writing(name, u)' = {}
        /\ Writing(name, u)' \subseteq Writing(name, u)
  BY BeginWriting DEF Base
<1>4. \A c, d \in Range(todo) :
        ~ (c.name = "upsertSettlement" /\ d.name \in {"addOrder", "setPosition"})
  BY DEF BooksInv
<1>5. u \notin HalfWritten => Balanced(u)
  BY DEF BooksInv
<1>6. h.name = "setPosition" =>
        \E d, e \in Range(todo) : d.name = "saveBalance" /\ e.name = "addOrder"
  BY <1>1 DEF BooksInv
<1>7. \A c, d \in Range(todo) : c.user = d.user
  BY DEF Base, TypeInv
<1> HIDE DEF h
<1>8. /\ h.name \in Ensuring => f.name = "ensureUser"
      /\ h.name \notin Ensuring \union {"upsertSettlement"} => f = h
  BY <1>1, FirstOf
<1> HIDE DEF f
<1>9. CASE h.name = "setPosition" /\ h.user = u
  <2>1. PICK d \in Range(todo), e \in Range(todo) : d.name = "saveBalance" /\ e.name = "addOrder"
    BY <1>6, <1>9
  <2>2. d \in Range(todo') /\ e \in Range(todo') /\ e.user = u
    BY <1>1, <1>7, <1>9, <2>1
  <2>3. d \in Pending("saveBalance")' /\ e \in Pending("addOrder")'
    BY <1>2, <2>1, <2>2 DEF CallNames, OrderNames
  <2>4. Pending("setPosition")' = {}
    <3> SUFFICES ASSUME NEW c, c \in Pending("setPosition")'
                 PROVE  FALSE
      OBVIOUS
    <3>1. c \in Pending("setPosition")' => c.name = "setPosition" /\ (c = h \/ c \in Range(todo'))
      BY <1>2 DEF CallNames
    <3>2. c = h
      BY <1>1, <3>1 DEF MayFollow
    <3>3. c \in Range(todo') \union Range(running')
      BY DEF Pending
    <3>4. running' = Rest(h)
      BY BeginFacts DEF Base, h
    <3>5. Range(Rest(h)) = {}
      BY <1>1, <1>9, Leftovers DEF Ensuring
    <3> QED
      BY <1>1, <1>9, <3>2, <3>3, <3>4, <3>5 DEF MayFollow
  <2>5. u \in HalfWritten'
    BY <2>2, <2>3, <2>4 DEF HalfWritten
  <2> QED
    BY <2>5
<1>10. CASE h.name = "upsertSettlement" /\ h.user = u
  <2>1. Writing("upsertSettlement", u)' = {}
    BY <1>3, <1>10 DEF CallNames
  <2>2. Writing("setPosition", u)' = {}
    <3>1. Writing("setPosition", u)' \subseteq Writing("setPosition", u)
      BY <1>3 DEF CallNames
    <3>2. Writing("setPosition", u) = {}
      BY <1>1, <1>4, <1>10 DEF Writing
    <3> QED
      BY <3>1, <3>2
  <2>3. Writing("saveBalance", u)' = {}
    <3>1. \A c \in Range(todo') : c.name # "saveBalance"
      BY <1>1, <1>10 DEF MayFollow
    <3>2. Writing("saveBalance", u)' \subseteq Writing("saveBalance", u)
      BY <1>3 DEF CallNames
    <3>3. Writing("saveBalance", u) = {}
      BY <1>1, <1>10, <3>1 DEF Writing
    <3> QED
      BY <3>2, <3>3
  <2>4. Done(u)'
    BY <2>1, <2>2, <2>3 DEF Done
  <2> QED
    BY <1>1, <2>4, DoneBalanced
<1>11. CASE h.user # u
  <2>1. \A c \in Range(todo) : c.user # u
    BY <1>1, <1>7, <1>11
  <2>2. \A name \in CallNames : Writing(name, u)' = {}
    <3> SUFFICES ASSUME NEW name \in CallNames
                 PROVE  Writing(name, u)' = {}
      OBVIOUS
    <3>1. Writing(name, u) = {}
      BY <1>1, <2>1 DEF Writing
    <3> QED
      BY <1>3, <3>1
  <2>3. Done(u)'
    BY <2>2 DEF Done, CallNames
  <2> QED
    BY <1>1, <2>3, DoneBalanced
<1>12. CASE h.name \notin {"setPosition", "upsertSettlement"} /\ h.user = u
  <2>1. db'.positions = db.positions /\ db'.balances = db.balances /\ db'.settlements = db.settlements
    BY <1>1, <1>8, <1>12 DEF Tables, Ensuring, CallNames, OrderNames, NonceNames
  <2>2. HalfWritten' = HalfWritten
    <3>1. CASE h.name = "addOrder"
      <4>1. \A c \in Range(todo) : c.name # "saveBalance"
        BY <1>1, <3>1 DEF MayFollow
      <4>2. Pending("saveBalance") = {}
        BY <1>1, <4>1 DEF Pending
      <4>3. Pending("saveBalance")' = {} /\ Pending("upsertSettlement")' = Pending("upsertSettlement")
        BY <1>2, <3>1, <4>2 DEF CallNames
      <4> QED
        BY <4>2, <4>3 DEF HalfWritten
    <3>2. CASE h.name # "addOrder"
      <4>1. \A name \in HalfWrittenNames : Pending(name)' = Pending(name)
        BY <1>2, <1>12, <3>2 DEF HalfWrittenNames, CallNames, OrderNames, Ensuring
      <4> QED
        BY <4>1, SameHalfWritten
    <3> QED
      BY <3>1, <3>2
  <2> QED
    BY <1>5, <2>1, <2>2, SameBalance
<1> QED
  BY <1>9, <1>10, <1>11, <1>12

LEMMA BeginBooks ==
  ASSUME Base, ConsumedInv, BooksInv, BeginCall
  PROVE  BooksInv'
<1> DEFINE h == Head(todo)
<1>1. /\ \A c : c \in Range(todo) <=> c = h \/ c \in Range(todo')
      /\ \A c \in Range(todo') : MayFollow(h, c)
      /\ torn' = torn
  BY BeginFacts DEF Base
<1>2. \A c \in Range(todo') : c.name # "setPosition"
  BY <1>1 DEF MayFollow
<1>3. \A c, d \in Range(todo') :
        ~ (c.name = "upsertSettlement" /\ d.name \in {"addOrder", "setPosition"})
  BY <1>1 DEF BooksInv
<1>4. ASSUME NEW u \in Users, u \notin torn
      PROVE  BooksKept(u)' /\ (u \notin HalfWritten' => Balanced(u)')
  <2>1. BooksKept(u)'
    BY <1>4, BeginKept DEF BooksInv
  <2> QED
    BY <1>4, <2>1, BeginBalanced
<1> QED
  BY <1>1, <1>2, <1>3, <1>4 DEF BooksInv

LEMMA ContinueKept ==
  ASSUME Base, ContinueCall, NEW u \in Users, BooksKept(u)
  PROVE  BooksKept(u)'
<1> DEFINE r == Head(running)
<1>1. /\ r \in Calls /\ r.name \in RunningNames /\ db \in Databases /\ Tables(db, db', r)
  BY ContinueFacts DEF Base, TypeInv
<1>2. \A name \in CallNames :
        /\ r.name # name \/ r.user # u => Writing(name, u)' = Writing(name, u)
        /\ r.name = name /\ r.user = u => r \in Writing(name, u)
        /\ r.name = "saveBalance" /\ r.user = u => Writing("saveBalance", u)' = {}
  BY ContinueWriting DEF Base
<1> HIDE DEF r
<1>3. db'.positions = db.positions /\ db'.settlements = db.settlements
  BY <1>1 DEF Tables, RunningNames
<1>4. \A x \in Int : Realizes(u, x)' => Realizes(u, x)
  <2>1. Writing("setPosition", u)' = Writing("setPosition", u)
    BY <1>1, <1>2 DEF RunningNames, CallNames
  <2>2. Realized(db', u) = Realized(db, u)
    BY <1>3 DEF Realized
  <2> QED
    BY <2>1, <2>2 DEF Realizes
<1>5. \A a \in Int : Adds(u, a)' => Adds(u, a)
  <2>1. Writing("upsertSettlement", u)' = Writing("upsertSettlement", u)
    BY <1>1, <1>2 DEF RunningNames, CallNames
  <2> QED
    BY <2>1 DEF Adds
<1>6. ASSUME NEW p \in Int, Leaves(u, p)'
      PROVE  Leaves(u, p)
  <2>1. CASE r.name = "saveBalance" /\ r.user = u
    <3>1. Writing("saveBalance", u)' = {} /\ r \in Writing("saveBalance", u)
      BY <1>2, <2>1 DEF CallNames
    <3>2. p = Pnl(db', u)
      BY <1>6, <3>1 DEF Leaves
    <3>3. db'.balances = [db.balances EXCEPT ![u] = r.value]
      BY <1>1, <2>1 DEF Tables
    <3>4. r.value \in Balances
      BY <1>1, <2>1 DEF Calls, WellFormed
    <3>5. Pnl(db', u) = r.value.pnl
      BY <1>1, <3>3, <3>4, DatabaseColumns, NoneAssumption DEF Pnl, OrNothing
    <3> QED
      BY <3>1, <3>2, <3>5 DEF Leaves
  <2>2. CASE ~ (r.name = "saveBalance" /\ r.user = u)
    <3>1. Writing("saveBalance", u)' = Writing("saveBalance", u)
      BY <1>2, <2>2 DEF CallNames
    <3>2. db'.balances[u] = db.balances[u]
      BY <1>1, <2>2, DatabaseColumns DEF Tables
    <3>3. Pnl(db', u) = Pnl(db, u)
      BY <3>2 DEF Pnl
    <3> QED
      BY <1>6, <3>1, <3>3 DEF Leaves
  <2> QED
    BY <2>1, <2>2
<1> QED
  BY <1>3, <1>4, <1>5, <1>6 DEF BooksKept

LEMMA ContinueBalanced ==
  ASSUME Base, BooksInv, ContinueCall, NEW u \in Users, u \notin torn, u \notin HalfWritten',
         BooksKept(u)'
  PROVE  Balanced(u)'
<1> DEFINE r == Head(running)
<1>1. /\ r \in Calls /\ r.name \in RunningNames /\ db' \in Databases /\ Tables(db, db', r)
  BY ContinueFacts DEF Base
<1>2. \A name \in CallNames :
        /\ r.name # name => Pending(name)' = Pending(name)
        /\ \A c \in Pending(name)' : c.name = name /\ MayFollow(r, c)
  BY ContinuePending DEF Base
<1> HIDE DEF r
<1>3. CASE r.name = "saveBalance"
  <2>1. Pending("saveBalance")' = {} /\ Pending("setPosition")' = {}
    BY <1>2, <1>3 DEF CallNames, MayFollow
  <2>2. \A name, c : c \in Writing(name, u)' => c \in Pending(name)' /\ c.user = u
    BY DEF Writing, Pending
  <2>3. \A c \in Pending("upsertSettlement")' :
          c.user = u => c.value.row.status # "ONCHAIN_CONFIRMED"
    BY <2>1 DEF HalfWritten
  <2>4. Done(u)'
    BY <2>1, <2>2, <2>3 DEF Done, ConfirmedCall
  <2> QED
    BY <1>1, <2>4, DoneBalanced
<1>4. CASE r.name # "saveBalance"
  <2>1. db'.positions = db.positions /\ db'.balances = db.balances /\ db'.settlements = db.settlements
    BY <1>1, <1>4 DEF Tables, RunningNames
  <2>2. \A name \in HalfWrittenNames : Pending(name)' = Pending(name)
    BY <1>1, <1>2, <1>4 DEF HalfWrittenNames, CallNames, OrderNames, RunningNames
  <2>3. HalfWritten' = HalfWritten
    BY <2>2, SameHalfWritten
  <2> QED
    BY <2>1, <2>3, SameBalance DEF BooksInv
<1> QED
  BY <1>3, <1>4

LEMMA ContinueBooks ==
  ASSUME Base, BooksInv, ContinueCall
  PROVE  BooksInv'
<1>1. UNCHANGED <<todo, torn>>
  BY DEF ContinueCall
<1>2. ASSUME NEW u \in Users, u \notin torn
      PROVE  BooksKept(u)' /\ (u \notin HalfWritten' => Balanced(u)')
  <2>1. BooksKept(u)'
    BY <1>2, ContinueKept DEF BooksInv
  <2> QED
    BY <1>2, <2>1, ContinueBalanced
<1> QED
  BY <1>1, <1>2 DEF BooksInv

LEMMA IdleBalanced ==
  ASSUME Idle, BooksInv, NEW u \in Users, u \notin torn
  PROVE  Balanced(u)
<1>1. \A name : Pending(name) = {}
  BY EmptyRange DEF Idle, Pending
<1>2. u \notin HalfWritten
  BY <1>1 DEF HalfWritten
<1> QED
  BY <1>2 DEF BooksInv

\* Nothing is to be written for the user: what is stored is what counts.
LEMMA NothingWritten ==
  ASSUME NEW u \in Users, \A name : Writing(name, u)' = {}, Balanced(u)', db' \in Databases
  PROVE  BooksKept(u)'
<1>1. Realized(db', u) \in Int /\ Pnl(db', u) \in Int /\ SettledIn(db'.settlements, u) \in Int
  BY BooksTyped
<1>2. ASSUME NEW r \in Int, NEW p \in Int, NEW a \in Int,
             Realizes(u, r)', Leaves(u, p)', Adds(u, a)'
      PROVE  r = p + (SettledIn(db'.settlements, u) + a)
  <2>1. r = Realized(db', u) /\ p = Pnl(db', u) /\ a = 0
    BY <1>2 DEF Realizes, Leaves, Adds
  <2>2. Realized(db', u) = Pnl(db', u) + SettledIn(db'.settlements, u)
    BY DEF Balanced
  <2> QED
    BY <1>1, <2>1, <2>2
<1> QED
  BY <1>2 DEF BooksKept

\* The turn of u itself.
LEMMA TurnKept ==
  ASSUME Base, CacheInv, NEW u \in Users, Turned(u), Balanced(u)
  PROVE  BooksKept(u)'
<1>1. /\ Idle /\ UNCHANGED <<db, running>> /\ TurnWrites(u) /\ TurnPnl(u)
      /\ mem'[u] \in Views
      /\ todo' \in Seq(Calls) /\ \A c \in Range(todo') : c.user = u
  BY DEF Turned, TurnBasics
<1>2. Range(running') = {}
  BY <1>1, EmptyRange DEF Idle
<1>3. \A name, c : c \in Writing(name, u)' <=> c \in Range(todo') /\ c.name = name
  BY <1>1, <1>2 DEF Writing
<1>4. PICK old \in Views, new \in Views : old = Known(u) /\ new = mem'[u]
  BY <1>1, KnownTyped DEF Base
<1>5. Realized(db, u) = old.position.realized /\ Pnl(db, u) = old.balance.pnl
  BY <1>1, <1>4, KnownCached DEF Realized, Pnl
<1>6. PICK q \in Int : q = SettledIn(db.settlements, u)
  BY BooksTyped DEF Base, TypeInv
<1>7. /\ old.position.realized \in Int /\ old.balance.pnl \in Int
      /\ new.position.realized \in Int /\ new.balance.pnl \in Int /\ new.position \in Positions
  BY ViewFields
<1>8. old.position.realized = old.balance.pnl + q
  BY <1>5, <1>6 DEF Balanced
<1>9. ASSUME NEW r \in Int, Realizes(u, r)'
      PROVE  r = new.position.realized
  <2>1. CASE Writing("setPosition", u)' = {}
    <3>1. r = Realized(db, u)
      BY <1>1, <1>9, <2>1 DEF Realizes
    <3>2. \A c \in Range(todo') : c.name # "setPosition"
      BY <1>3, <2>1
    <3>3. new.position = old.position
      BY <1>1, <1>4, <3>2 DEF TurnWrites
    <3> QED
      BY <1>5, <3>1, <3>3
  <2>2. CASE Writing("setPosition", u)' # {}
    <3>1. PICK c \in Writing("setPosition", u)' : r = OrNothing(c.value, NoPosition).realized
      BY <1>9, <2>2 DEF Realizes
    <3>2. c.value = Stored(new.position)
      BY <1>1, <1>3, <1>4, <3>1 DEF TurnWrites
    <3>3. OrNothing(Stored(new.position), NoPosition) = new.position
      BY <1>7, StoredIs
    <3> QED
      BY <3>1, <3>2, <3>3
  <2> QED
    BY <2>1, <2>2
<1>10. ASSUME NEW p \in Int, Leaves(u, p)'
       PROVE  p = new.balance.pnl
  <2>1. CASE Writing("saveBalance", u)' = {}
    <3>1. p = Pnl(db, u)
      BY <1>1, <1>10, <2>1 DEF Leaves
    <3>2. \A c \in Range(todo') : c.name # "saveBalance"
      BY <1>3, <2>1
    <3>3. new.balance = old.balance
      BY <1>1, <1>4, <3>2 DEF TurnWrites
    <3> QED
      BY <1>5, <3>1, <3>3
  <2>2. CASE Writing("saveBalance", u)' # {}
    <3>1. PICK c \in Writing("saveBalance", u)' : p = c.value.pnl
      BY <1>10, <2>2 DEF Leaves
    <3>2. c.value = new.balance
      BY <1>1, <1>3, <1>4, <3>1 DEF TurnWrites
    <3> QED
      BY <3>1, <3>2
  <2> QED
    BY <2>1, <2>2
<1>11. ASSUME NEW a \in Int, Adds(u, a)'
       PROVE  new.position.realized = new.balance.pnl + (q + a)
  <2>1. CASE \A c \in Range(todo') : ~ ConfirmedCall(c)
    <3>1. a = 0
      BY <1>3, <1>11, <2>1 DEF Adds
    <3>2. new.position.realized - old.position.realized = new.balance.pnl - old.balance.pnl
      BY <1>1, <1>4, <2>1 DEF TurnPnl
    <3> QED
      BY <1>7, <1>8, <3>1, <3>2
  <2>2. CASE \E c \in Range(todo') : ConfirmedCall(c)
    <3>1. PICK c \in Range(todo') : ConfirmedCall(c) /\ a = Share(c.value.row)
      BY <1>3, <1>11, <2>2 DEF Adds, ConfirmedCall
    <3>2. new.position = old.position /\ new.balance.pnl = old.balance.pnl - a
      BY <1>1, <1>4, <3>1 DEF TurnPnl
    <3> QED
      BY <1>7, <1>8, <3>2
  <2> QED
    BY <2>1, <2>2
<1>12. ASSUME NEW r \in Int, NEW p \in Int, NEW a \in Int,
              Realizes(u, r)', Leaves(u, p)', Adds(u, a)'
       PROVE  r = p + (SettledIn(db'.settlements, u) + a)
  <2>1. r = new.position.realized /\ p = new.balance.pnl
        /\ new.position.realized = new.balance.pnl + (q + a)
    BY <1>9, <1>10, <1>11, <1>12
  <2> QED
    BY <1>1, <1>6, <2>1
<1> QED
  BY <1>12 DEF BooksKept

LEMMA TurnBooks ==
  ASSUME Base, CacheInv, BooksInv, NEW u \in Users, Turned(u)
  PROVE  BooksInv'
<1>1. /\ Idle /\ UNCHANGED <<db, running, torn>> /\ TurnSettlements(u) /\ TurnPnl(u)
      /\ \A c \in Range(todo') : c.user = u
  BY DEF Turned, TurnBasics
<1>2. Range(running') = {} /\ db' \in Databases
  BY <1>1, EmptyRange DEF Idle, Base, TypeInv
<1>3. \A c \in Range(todo') : c.name = "setPosition" =>
        \E d, e \in Range(todo') : d.name = "saveBalance" /\ e.name = "addOrder"
  BY <1>1 DEF TurnPnl
<1>4. \A c, d \in Range(todo') :
        ~ (c.name = "upsertSettlement" /\ d.name \in {"addOrder", "setPosition"})
  BY <1>1 DEF TurnSettlements
<1>5. ASSUME NEW v \in Users, v \notin torn
      PROVE  BooksKept(v)' /\ Balanced(v)'
  <2>1. Balanced(v)
    BY <1>1, <1>5, IdleBalanced
  <2>2. Balanced(v)'
    BY <1>1, <2>1, SameBalance
  <2>3. CASE v = u
    BY <2>1, <2>2, <2>3, TurnKept
  <2>4. CASE v # u
    <3>1. \A name : Writing(name, v)' = {}
      BY <1>1, <1>2, <2>4 DEF Writing
    <3> QED
      BY <1>2, <2>2, <3>1, NothingWritten
  <2> QED
    BY <2>3, <2>4
<1> QED
  BY <1>1, <1>3, <1>4, <1>5 DEF BooksInv

LEMMA KillBooks ==
  ASSUME Base, BooksInv, Kill
  PROVE  BooksInv'
<1>1. /\ Range(todo') = {} /\ Range(running') = {} /\ db' = db
      /\ torn' = torn \union HalfWritten /\ db' \in Databases
  BY EmptyRange DEF Kill, Base, TypeInv
<1>2. ASSUME NEW u \in Users, u \notin torn'
      PROVE  BooksKept(u)' /\ Balanced(u)'
  <2>1. Balanced(u)
    BY <1>1, <1>2 DEF BooksInv
  <2>2. Balanced(u)'
    BY <1>1, <2>1, SameBalance
  <2>3. \A name : Writing(name, u)' = {}
    BY <1>1 DEF Writing
  <2> QED
    BY <1>1, <2>2, <2>3, NothingWritten
<1> QED
  BY <1>1, <1>2 DEF BooksInv

LEMMA StepBooks ==
  Base /\ CacheInv /\ ConsumedInv /\ BooksInv /\ [Next]_vars => BooksInv'
<1> SUFFICES ASSUME Base, CacheInv, ConsumedInv, BooksInv, [Next]_vars
             PROVE  BooksInv'
  OBVIOUS
<1>1. CASE UNCHANGED vars
  <2>1. \A name, u : Writing(name, u)' = Writing(name, u) /\ Pending(name)' = Pending(name)
    BY <1>1 DEF vars, Writing, Pending
  <2>2. HalfWritten' = HalfWritten
    BY <2>1, SameHalfWritten
  <2>3. db' = db /\ todo' = todo /\ torn' = torn
    BY <1>1 DEF vars
  <2>4. \A u \in Users : (BooksKept(u) => BooksKept(u)') /\ (Balanced(u) => Balanced(u)')
    BY <2>1, <2>3 DEF BooksKept, Balanced, Realizes, Leaves, Adds
  <2> QED
    BY <2>2, <2>3, <2>4 DEF BooksInv
<1> QED
  BY <1>1, BeginBooks, ContinueBooks, KillBooks, TurnBooks, Steps DEF Base

LEMMA InitBooks == Init => BooksInv
<1> SUFFICES ASSUME Init
             PROVE  BooksInv
  OBVIOUS
<1>1. Range(todo) = {} /\ Range(running) = {} /\ db = Empty
  BY EmptyRange DEF Init
<1>2. ASSUME NEW u \in Users
      PROVE  BooksKept(u) /\ Balanced(u)
  <2>1. Realized(db, u) = 0 /\ Pnl(db, u) = 0
    BY <1>1 DEF Empty, Realized, Pnl, OrNothing, NoPosition, NoBalance
  <2>2. SettledIn(db.settlements, u) = 0
    <3>1. [s \in Settlements |-> Part(db.settlements[s], u)] = [s \in Settlements |-> 0]
      BY <1>1 DEF Empty, Part
    <3> QED
      BY <3>1, SumOfZeros, StoreAssumption DEF SettledIn
  <2>3. \A name : Writing(name, u) = {}
    BY <1>1 DEF Writing
  <2>4. \A r, p, a \in Int : Realizes(u, r) /\ Leaves(u, p) /\ Adds(u, a) => r = 0 /\ p = 0 /\ a = 0
    BY <2>1, <2>3 DEF Realizes, Leaves, Adds
  <2> QED
    BY <2>1, <2>2, <2>4 DEF BooksKept, Balanced
<1> QED
  BY <1>1, <1>2 DEF BooksInv

LEMMA BooksInvariant == Spec => []BooksInv
BY InitBooks, BaseTheorem, CacheInvariant, ConsumedInvariant, StepBooks, PTL DEF Spec

\* In the file, the P&L a user's fills have realized is, between two turns,
\* still pending or in a confirmed P&L settlement, and in one only, for any
\* number of users, orders, settlements and kills, except for the users whom a
\* kill met between the statements that belong together: a fill writes the same
\* change to both sides, a confirmation moves what it settles from the one to
\* the other, and no settlement is confirmed twice (gatewayLedger.ts,
\* sqliteStore.ts).
THEOREM BooksTheorem == Spec => []BooksBalance
<1>1. BooksInv => BooksBalance
  <2> SUFFICES ASSUME BooksInv, Idle, NEW u \in Users \ torn
               PROVE  OrNothing(db.positions[u], NoPosition).realized =
                        OrNothing(db.balances[u], NoBalance).pnl + Settled(u)
    BY DEF BooksBalance
  <2>1. Balanced(u)
    BY IdleBalanced
  <2>2. Settled(u) = SettledIn(db.settlements, u)
    BY DEF Settled, SettledIn, Part
  <2> QED
    BY <2>1, <2>2 DEF Balanced, Realized, Pnl
<1> QED
  BY <1>1, BooksInvariant, PTL
=============================================================================
