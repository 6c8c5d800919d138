--------------------------- MODULE TradingEngine ---------------------------
(***************************************************************************)
(* The trading example over the gateway (examples/trading, riskService.ts, *)
(* verifySignedTradingOrder and settleUser): a user signs orders, each is  *)
(* verified across an await and then filled at once at the latest quote;   *)
(* quotes arrive from a provider whose requests overlap; the P&L is        *)
(* settled by requests that race with the orders and with each other.      *)
(*                                                                         *)
(* One user and one symbol.  Amounts are in the last decimal of Money, a   *)
(* signed quantity in steps of Fine to it.  An intent is named by its      *)
(* nonce.  The ledger is taken to agree with the vault and no handler is   *)
(* lost: SettlementService has these.                                      *)
(***************************************************************************)
EXTENDS Money, FiniteSums, Sequences

CONSTANTS
  Slots,          \* HTTP requests posting orders at the same time
  Nonces,
  ClientOrderIds,
  SignedOrders,   \* what the user signs: orders with their intents' nonce and deadline
  Settlements,    \* calls of settleUser
  Feed,           \* the market: Feed[t] is the price at time t
  Providers,      \* a subset of {"mock", "pyth", "coingecko"}
  SetPrices,      \* what the admin sets the mock price to
  Collaterals,    \* collateral the user may have deposited
  TakerFeeBps, MaxLeverage, MinCollateral, MaxPositionNotional, MaxPriceAge,
  None

Times == DOMAIN Feed

\* A call of settleUser once it has built its settlement.
SettlementRecords ==
  [phase : {"built", "begun", "applied", "done"}, amount : Int, tradeIds : SUBSET Nat,
   intents : SUBSET Nonces]

ASSUME TradingAssumption ==
  /\ SignedOrders \subseteq [nonce : Nonces, client : ClientOrderIds, side : {"BUY", "SELL"},
                             quantity : Nat \ {0}, deadline : Nat]
  /\ IsFiniteSet(Settlements)
  /\ Collaterals \subseteq Nat
  /\ Feed \in Seq(Nat \ {0}) /\ Feed # <<>> /\ SetPrices \subseteq Nat \ {0}
  /\ TakerFeeBps \in Nat /\ MaxLeverage \in Nat \ {0}
  /\ MinCollateral \in Nat /\ MaxPositionNotional \in Nat /\ MaxPriceAge \in Nat
  /\ None \notin Settlements /\ None \notin SettlementRecords

VARIABLES
  provider,    \* the configured market data provider
  now,
  quote,       \* the latest quote
  slot,        \* the order each request is verifying
  intent,      \* per nonce: its status and the order it was recorded for
  position, pending, collateral, orders, trades,   \* the user's books
  flight,      \* settlementInFlight
  settlement

books == <<position, pending, orders, trades>>
market == <<provider, now, quote>>
vars == <<market, slot, intent, books, collateral, flight, settlement>>

NoPosition == [quantity |-> 0, avgEntryPrice |-> 0, realizedPnl |-> 0]

Init ==
  /\ provider \in Providers
  /\ now = 1
  /\ quote = IF provider = "mock" THEN [price |-> Feed[1], at |-> 1] ELSE None
  /\ slot = [k \in Slots |-> None]
  /\ intent = [n \in Nonces |-> [status |-> "ISSUED", order |-> None]]
  /\ position = NoPosition /\ pending = 0 /\ orders = {} /\ trades = <<>>
  /\ collateral \in Collaterals
  /\ flight = None /\ settlement = [s \in Settlements |-> None]

-----------------------------------------------------------------------------
(* Market data. *)

Tick ==
  /\ now + 1 \in Times
  /\ now' = now + 1
  /\ UNCHANGED <<provider, quote, slot, intent, books, collateral, flight, settlement>>

\* Mutation: every quote is stamped when it arrives.
StampOnArrival(t) == now

\* The timestamp of a quote: Pyth's publish time, or for CoinGecko the moment
\* the answer arrived.
Timestamp(t) == IF provider = "coingecko" THEN now ELSE t

\* ingestQuote of an answer that tells of time t: the timer does not wait for
\* the last request, so answers may be of any age and arrive in any order, and
\* each becomes the quote, whatever the last one was.
IngestQuote(t) ==
  /\ provider # "mock" /\ t <= now
  /\ quote' = [price |-> Feed[t], at |-> Timestamp(t)]
  /\ UNCHANGED <<provider, now, slot, intent, books, collateral, flight, settlement>>

\* setPrice, with any time as the body's timestamp.
SetPrice(price, t) ==
  /\ provider = "mock"
  /\ quote' = [price |-> price, at |-> t]
  /\ UNCHANGED <<provider, now, slot, intent, books, collateral, flight, settlement>>

-----------------------------------------------------------------------------
(* A signed order. *)

Overdue(order) == order.deadline < now

\* POST /examples/trading/orders up to the recovery of the signer; the deadline
\* is tested before that and never again.
PostOrder(k, order) ==
  /\ slot[k] = None /\ ~ Overdue(order)
  /\ slot' = [slot EXCEPT ![k] = order]
  /\ UNCHANGED <<market, intent, books, collateral, flight, settlement>>

NonceUsable(n) == intent[n].status = "ISSUED"

\* Mutation: client order ids are not compared.
AnyClientOrderId(client) == TRUE

UniqueClientOrderId(client) == client \notin orders

\* applyLongOnlyFill.
CanFill(side, quantity) ==
  IF side = "BUY" THEN position.quantity + quantity > 0
                  ELSE position.quantity > 0 /\ quantity <= position.quantity

RealizedPnlDelta(side, quantity, price) ==
  IF side = "BUY" THEN 0 ELSE CalculatePnl(quantity, position.avgEntryPrice, price)

PositionAfter(side, quantity, price) ==
  IF side = "BUY"
  THEN [quantity |-> position.quantity + quantity,
        avgEntryPrice |->
          WeightedAveragePrice(position.quantity, position.avgEntryPrice, quantity, price),
        realizedPnl |-> position.realizedPnl]
  ELSE [quantity |-> position.quantity - quantity,
        avgEntryPrice |-> IF position.quantity = quantity THEN 0 ELSE position.avgEntryPrice,
        realizedPnl |-> position.realizedPnl + RealizedPnlDelta(side, quantity, price)]

\* checkPriceFreshness.
Fresh(q) == now - q.at <= MaxPriceAge

\* simulatePortfolio and snapshotState.
FreeCollateral(p, pnl, price) ==
  collateral + pnl + CalculatePnl(p.quantity, p.avgEntryPrice, price)
    - MarginUsed(p.quantity, price, MaxLeverage)

\* checkOrderAllowed.
OrderAllowed(p, pnlDelta) ==
  /\ Fresh(quote)
  /\ CalculateNotional(p.quantity, quote.price) <= MaxPositionNotional
  /\ collateral >= MinCollateral
  /\ FreeCollateral(p, pending + pnlDelta, quote.price) >= 0

\* placeOrder: the trade it makes of an order.
TradeOf(order) ==
  LET quantity == RoundMoney(order.quantity)
      notional == CalculateNotional(quantity, quote.price)
  IN [order |-> order, quantity |-> quantity, price |-> quote.price, notional |-> notional,
      fee |-> CalculateFee(notional, TakerFeeBps),
      realizedPnlDelta |-> RealizedPnlDelta(order.side, quantity, quote.price),
      quotedAt |-> quote.at, filledAt |-> now]

PlaceOrder(order) ==
  LET trade == TradeOf(order)
      after == PositionAfter(order.side, trade.quantity, trade.price)
      pnlDelta == trade.realizedPnlDelta - trade.fee
  IN IF /\ UniqueClientOrderId(order.client)
        /\ quote # None
        /\ CanFill(order.side, trade.quantity)
        /\ OrderAllowed(after, pnlDelta)
     THEN /\ position' = after
          /\ pending' = pending + pnlDelta
          /\ orders' = orders \union {order.client}
          /\ trades' = Append(trades, trade)
     ELSE UNCHANGED books

\* The signer is recovered: consumeIntentNonce, recordVerifiedIntent and
\* placeOrder, with nothing but resolved promises in between.  A refused order
\* has used its nonce and leaves a verified intent.
ExecuteOrder(k) ==
  LET order == slot[k] IN
  /\ order # None
  /\ slot' = [slot EXCEPT ![k] = None]
  /\ IF NonceUsable(order.nonce)
     THEN /\ intent' = [intent EXCEPT ![order.nonce] = [status |-> "VERIFIED", order |-> order]]
          /\ PlaceOrder(order)
     ELSE UNCHANGED <<intent, books>>
  /\ UNCHANGED <<market, collateral, flight, settlement>>

-----------------------------------------------------------------------------
(* Settlement of the pending P&L. *)

\* settlementTradeIds: every trade so far that moved the P&L.
SettlementTradeIds ==
  {i \in DOMAIN trades : trades[i].realizedPnlDelta # 0 \/ trades[i].fee # 0}

Verified == {n \in Nonces : intent[n].status = "VERIFIED"}

\* settleUser up to its first await.  It links every verified intent and is
\* refused over an overdue one.
SettleUser(s) ==
  /\ settlement[s] = None
  /\ pending # 0 /\ flight = None
  /\ \A n \in Verified : ~ Overdue(intent[n].order)
  /\ settlement' = [settlement EXCEPT ![s] =
       [phase |-> "built", amount |-> pending, tradeIds |-> SettlementTradeIds,
        intents |-> Verified]]
  /\ UNCHANGED <<market, slot, intent, books, collateral, flight>>

\* The refusal, of settleUser or of another request linking the intent, marks
\* the overdue intent, and the next settleUser passes it over.
ExpireIntent(n) ==
  /\ n \in Verified /\ Overdue(intent[n].order)
  /\ intent' = [intent EXCEPT ![n].status = "EXPIRED"]
  /\ UNCHANGED <<market, slot, books, collateral, flight, settlement>>

\* beginOnchainSettlement, unless another one is in flight by now.
BeginSettlement(s) ==
  /\ settlement[s] # None /\ settlement[s].phase = "built"
  /\ IF flight = None
     THEN flight' = s /\ settlement' = [settlement EXCEPT ![s].phase = "begun"]
     ELSE UNCHANGED flight /\ settlement' = [settlement EXCEPT ![s] = None]
  /\ UNCHANGED <<market, slot, intent, books, collateral>>

\* Mutation: the pending amount is cleared, whatever it is by now.
ClearPending(s) ==
  LET moved == FromMicroUsdc(ToMicroUsdc(settlement[s].amount)) IN
  /\ collateral + moved >= 0
  /\ collateral' = collateral + moved
  /\ pending' = 0
  /\ flight' = IF flight = s THEN None ELSE flight

\* applyIndexedSettlement, for the log of s: the vault moved whole units.
ApplySettlement(s) ==
  LET moved == FromMicroUsdc(ToMicroUsdc(settlement[s].amount)) IN
  /\ collateral + moved >= 0
  /\ collateral' = collateral + moved
  /\ pending' = DropDust(pending - moved)
  /\ flight' = IF flight # None /\ (flight = s \/ settlement[flight].amount = moved)
               THEN None ELSE flight

\* Mutation: whatever is verified by now is consumed.
ConsumeVerified(s) ==
  intent' = [n \in Nonces |->
    IF intent[n].status = "VERIFIED" THEN [intent[n] EXCEPT !.status = "CONSUMED"] ELSE intent[n]]

\* consumeSignedIntents, of intents that may have expired since they were linked.
ConsumeSignedIntents(s) ==
  intent' = [n \in Nonces |->
    IF n \in settlement[s].intents THEN [intent[n] EXCEPT !.status = "CONSUMED"] ELSE intent[n]]

\* The indexer is faster than the receipt.
IndexSettlement(s) ==
  /\ settlement[s] # None /\ settlement[s].phase = "begun"
  /\ ApplySettlement(s)
  /\ settlement' = [settlement EXCEPT ![s].phase = "applied"]
  /\ UNCHANGED <<market, slot, intent, position, orders, trades>>

\* submitSettlement after its receipt.
FinishSettlement(s) ==
  /\ settlement[s] # None
  /\ \/ settlement[s].phase = "begun" /\ ApplySettlement(s)
     \/ settlement[s].phase = "applied" /\ UNCHANGED <<collateral, pending, flight>>
  /\ ConsumeSignedIntents(s)
  /\ settlement' = [settlement EXCEPT ![s].phase = "done"]
  /\ UNCHANGED <<market, slot, position, orders, trades>>

\* The vault reverts, or the node refuses.
AbandonSettlement(s) ==
  /\ settlement[s] # None /\ settlement[s].phase = "begun"
  /\ flight' = None
  /\ settlement' = [settlement EXCEPT ![s] = None]
  /\ UNCHANGED <<market, slot, intent, books, collateral>>

Next ==
  \/ Tick
  \/ \E t \in Times :
       IngestQuote(t) \/ \E price \in SetPrices : SetPrice(price, t)
  \/ \E k \in Slots :
       (\E order \in SignedOrders : PostOrder(k, order)) \/ ExecuteOrder(k)
  \/ \E n \in Nonces : ExpireIntent(n)
  \/ \E s \in Settlements :
       \/ SettleUser(s) \/ BeginSettlement(s) \/ IndexSettlement(s)
       \/ FinishSettlement(s) \/ AbandonSettlement(s)

Spec == Init /\ [][Next]_vars
-----------------------------------------------------------------------------
Statuses == {"ISSUED", "VERIFIED", "CONSUMED", "EXPIRED"}

\* A fill never takes more than the position has, and only a used intent has an order.
TypeOK ==
  /\ provider \in Providers /\ now \in Times
  /\ quote # None => quote.at \in Times
  /\ slot \in [Slots -> {None} \union SignedOrders]
  /\ \A n \in Nonces : /\ intent[n].status \in Statuses
                       /\ intent[n].order = None <=> intent[n].status = "ISSUED"
  /\ position.quantity \in Nat /\ position.avgEntryPrice \in Nat
  /\ position.realizedPnl \in Int /\ pending \in Int /\ collateral \in Nat
  /\ orders \subseteq ClientOrderIds
  /\ flight # None => settlement[flight].phase = "begun"

Applied == {s \in Settlements : settlement[s] # None /\ settlement[s].phase \in {"applied", "done"}}

Settled == SumOver(Settlements, [s \in Settlements |->
  IF s \in Applied THEN FromMicroUsdc(ToMicroUsdc(settlement[s].amount)) ELSE 0])

\* Sums over fills: their P&L, the same with the fees taken off, what the sales
\* brought, and what and how much was bought.
Realized(fills) == SumTo([i \in DOMAIN fills |-> fills[i].realizedPnlDelta], Len(fills))
NetPnl(fills) ==
  SumTo([i \in DOMAIN fills |-> fills[i].realizedPnlDelta - fills[i].fee], Len(fills))
Received(fills) ==
  SumTo([i \in DOMAIN fills |-> IF fills[i].order.side = "SELL" THEN fills[i].notional ELSE 0],
        Len(fills))
Paid(fills) ==
  SumTo([i \in DOMAIN fills |-> IF fills[i].order.side = "BUY" THEN fills[i].notional ELSE 0],
        Len(fills))
Bought(fills) ==
  SumTo([i \in DOMAIN fills |-> IF fills[i].order.side = "BUY" THEN fills[i].quantity ELSE 0],
        Len(fills))

\* The P&L of all fills, fees taken off, is what was settled plus what is
\* pending, but for less than one unit of the token per settlement: although
\* orders are filled while a settlement is under way, and although two
\* requests may have taken the same pending amount.
BooksExplainTrades ==
  Magnitude(NetPnl(trades) - pending - Settled) <= (MicroUnit - 1) * Cardinality(Applied)

\* Whenever the position is closed, the P&L realized by its fills is what the
\* sales brought minus what the purchases cost, up to the rounding of each
\* fill: two costs cut, a notional and an average price rounded.
ClosedPositionMadeItsCash ==
  position.quantity = 0 =>
    2 * Scale * Magnitude(Realized(trades) - (Received(trades) - Paid(trades)))
      <= Len(trades) * (5 * Scale + Bought(trades))

\* Each fill executes the order an intent was recorded for, and no nonce and no
\* client order id is filled twice, however often and with however many
\* signatures the order is posted.
FilledAsSigned ==
  /\ \A i \in DOMAIN trades : trades[i].order = intent[trades[i].order.nonce].order
  /\ \A i, j \in DOMAIN trades : i # j =>
       /\ trades[i].order.nonce # trades[j].order.nonce
       /\ trades[i].order.client # trades[j].order.client

\* The price of a fill was on the market at most MaxPriceAge earlier, although
\* late answers may replace newer quotes.  The mock's prices are what the admin
\* says; CoinGecko's carry no time of their own.
FilledAtRecentPrice ==
  provider = "pyth" =>
    \A i \in DOMAIN trades : \E t \in Times :
      /\ Feed[t] = trades[i].price
      /\ trades[i].filledAt - t \in 0..MaxPriceAge

\* The signature behind every trade a finished settlement accounts for is
\* linked to that settlement or to another that was applied, although orders
\* are verified and settlements built, abandoned and finished in any order; a
\* signature is left out only if its own deadline passed and a refused request
\* marked it expired.
SettledTradesAreLinked ==
  \A s \in Settlements :
    settlement[s] # None /\ settlement[s].phase = "done" =>
      \A i \in settlement[s].tradeIds :
        LET n == trades[i].order.nonce IN
          \/ \E t \in Applied : n \in settlement[t].intents
          \/ intent[n].status = "EXPIRED" /\ Overdue(trades[i].order)

\* A settlement of the whole pending P&L leaves none, so that the user may
\* withdraw (checkNoPendingSettlement): the vault moves whole units of the
\* token, and what rounding leaves over is dropped.
SettlingClears ==
  [][\A s \in Settlements :
       (s \notin Applied /\ s \in Applied' /\ settlement[s].amount = pending) => pending' = 0]_vars
=============================================================================
