------------------------ MODULE TradingEngineTheorems ------------------------
(***************************************************************************)
(* Proofs about TradingEngine and the arithmetic of Money, for any orders, *)
(* prices, scales, risk limits and numbers of requests.                    *)
(***************************************************************************)
EXTENDS TradingEngine, ArithmeticTheorems

-----------------------------------------------------------------------------
(* What the helpers of money.ts promise: where their results lie, and how  *)
(* far rounding moves an amount, for every scale.                          *)

\* The vault moves whole units of the token: an amount converted to them and
\* back is less than one unit off, so that nothing but dust is left.
THEOREM ConversionLeavesDust ==
  ASSUME NEW amount \in Int
  PROVE  /\ FromMicroUsdc(ToMicroUsdc(amount)) \in Int
         /\ Magnitude(amount - FromMicroUsdc(ToMicroUsdc(amount))) < MicroUnit
BY MoneyAssumption, NearestMultiple DEF FromMicroUsdc, ToMicroUsdc

-----------------------------------------------------------------------------
(* Where the results of the helpers lie. *)

LEMMA MultiplyIntegers ==
  ASSUME NEW x \in Int, NEW y \in Int
  PROVE  x * y \in Int /\ (x \in Nat /\ y \in Nat => x * y \in Nat)
BY SMT

LEMMA RoundMoneyType ==
  ASSUME NEW raw \in Nat
  PROVE  RoundMoney(raw) \in Nat
BY MoneyAssumption, DivRoundOfNat DEF RoundMoney

LEMMA NotionalType ==
  ASSUME NEW quantity \in Nat, NEW price \in Nat
  PROVE  CalculateNotional(quantity, price) \in Nat
<1>1. quantity * price \in Nat
  BY MultiplyIntegers
<1> QED
  BY <1>1, MoneyAssumption, DivRoundOfNat DEF CalculateNotional, DecimalMul

LEMMA FeeType ==
  ASSUME NEW notional \in Nat, NEW feeBps \in Nat
  PROVE  CalculateFee(notional, feeBps) \in Nat
<1>1. notional * feeBps \in Nat
  BY MultiplyIntegers
<1> QED
  BY <1>1, DivRoundOfNat DEF CalculateFee

LEMMA PnlType ==
  ASSUME NEW quantity \in Nat, NEW entryPrice \in Nat, NEW exitPrice \in Nat
  PROVE  CalculatePnl(quantity, entryPrice, exitPrice) \in Int
<1>1. exitPrice - entryPrice \in Int
  OBVIOUS
<1>2. quantity * (exitPrice - entryPrice) \in Int
  BY <1>1, MultiplyIntegers
<1> QED
  BY <1>2, MoneyAssumption, RoundingError DEF CalculatePnl, DecimalMul

\* The average price of a purchase is again a price.
LEMMA AveragePriceType ==
  ASSUME NEW existingQuantity \in Nat, NEW existingAvgPrice \in Nat,
         NEW fillQuantity \in Nat, NEW fillPrice \in Nat,
         existingQuantity + fillQuantity > 0
  PROVE  WeightedAveragePrice(existingQuantity, existingAvgPrice, fillQuantity, fillPrice) \in Nat
<1>1. Scale \in Nat \ {0}
  BY MoneyAssumption
<1>2. ASSUME NEW n \in Nat
      PROVE  Truncated(n, Scale) \in Nat
  BY <1>1, DivBounds DEF Truncated
<1> DEFINE held == existingQuantity * existingAvgPrice
           paid == fillQuantity * fillPrice
           cost == Truncated(held, Scale) + Truncated(paid, Scale)
<1>3. held \in Nat /\ paid \in Nat
  BY MultiplyIntegers
<1>4. Truncated(held, Scale) \in Nat /\ Truncated(paid, Scale) \in Nat
  BY <1>2, <1>3
<1>5. cost \in Nat
  BY <1>4
<1>6. cost * Scale \in Nat
  BY <1>1, <1>5, MultiplyIntegers
<1>7. existingQuantity + fillQuantity \in Nat \ {0}
  OBVIOUS
<1>8. DivRound(cost * Scale, existingQuantity + fillQuantity) \in Nat
  BY <1>6, <1>7, DivRoundOfNat
<1> QED
  BY <1>8 DEF WeightedAveragePrice, DecimalDiv

-----------------------------------------------------------------------------
(* How far rounding takes the results from the exact products, doubled and *)
(* scaled.                                                                 *)

LEMMA NotionalError ==
  ASSUME NEW quantity \in Nat, NEW price \in Nat
  PROVE  2 * Magnitude(Scale * CalculateNotional(quantity, price) - quantity * price) =< Scale
<1>1. quantity * price \in Int
  BY MultiplyIntegers
<1> QED
  BY <1>1, MoneyAssumption, RoundingError DEF CalculateNotional, DecimalMul

LEMMA PnlError ==
  ASSUME NEW quantity \in Nat, NEW entryPrice \in Nat, NEW exitPrice \in Nat
  PROVE  2 * Magnitude(Scale * CalculatePnl(quantity, entryPrice, exitPrice)
                         - (quantity * exitPrice - quantity * entryPrice)) =< Scale
<1>1. exitPrice - entryPrice \in Int
  OBVIOUS
<1>2. /\ quantity * (exitPrice - entryPrice) \in Int
      /\ quantity * (exitPrice - entryPrice) = quantity * exitPrice - quantity * entryPrice
  BY <1>1, MultiplyIntegers
<1>3. 2 * Magnitude(Scale * CalculatePnl(quantity, entryPrice, exitPrice)
                      - quantity * (exitPrice - entryPrice)) =< Scale
  BY <1>2, MoneyAssumption, RoundingError DEF CalculatePnl, DecimalMul
<1> QED
  BY <1>2, <1>3

\* A position's cost at its average price is what it cost, up to the two costs
\* that are cut and the quotient that is rounded.
LEMMA AveragePriceError ==
  ASSUME NEW existingQuantity \in Nat, NEW existingAvgPrice \in Nat,
         NEW fillQuantity \in Nat, NEW fillPrice \in Nat,
         existingQuantity + fillQuantity > 0
  PROVE  2 * Magnitude((existingQuantity + fillQuantity)
                         * WeightedAveragePrice(existingQuantity, existingAvgPrice,
                                                fillQuantity, fillPrice)
                         - (existingQuantity * existingAvgPrice + fillQuantity * fillPrice))
           =< (existingQuantity + fillQuantity) + 4 * Scale
<1>1. Scale \in Nat \ {0}
  BY MoneyAssumption
<1>2. ASSUME NEW n \in Nat
      PROVE  /\ Truncated(n, Scale) \in Nat
             /\ Truncated(n, Scale) * Scale \in Nat
             /\ Truncated(n, Scale) * Scale =< n
             /\ n =< Truncated(n, Scale) * Scale + Scale
  <2>1. Truncated(n, Scale) = n \div Scale
    BY DEF Truncated
  <2>2. /\ n \div Scale \in Nat
        /\ Scale * (n \div Scale) =< n
        /\ n < Scale * (n \div Scale) + Scale
    BY <1>1, DivBounds
  <2> DEFINE c == n \div Scale
  <2> HIDE DEF c
  <2>3. Scale * c = c * Scale /\ c * Scale \in Nat
    BY <1>1, <2>2 DEF c
  <2> QED
    BY <1>1, <2>1, <2>2, <2>3 DEF c
<1> DEFINE held == existingQuantity * existingAvgPrice
           paid == fillQuantity * fillPrice
           cut == Truncated(held, Scale)
           fill == Truncated(paid, Scale)
           total == existingQuantity + fillQuantity
           price == DivRound((cut + fill) * Scale, total)
<1>3. held \in Nat /\ paid \in Nat
  BY MultiplyIntegers
<1>4. /\ cut \in Nat /\ cut * Scale \in Nat
      /\ cut * Scale =< held /\ held =< cut * Scale + Scale
  BY <1>2, <1>3
<1>5. /\ fill \in Nat /\ fill * Scale \in Nat
      /\ fill * Scale =< paid /\ paid =< fill * Scale + Scale
  BY <1>2, <1>3
<1>6. total \in Nat \ {0}
  OBVIOUS
<1>7. (cut + fill) * Scale = cut * Scale + fill * Scale
  <2> HIDE DEF cut, fill
  <2> QED
    BY <1>1, <1>4, <1>5
<1>8. price \in Int /\ 2 * Magnitude(total * price - (cut + fill) * Scale) =< total
  <2>1. (cut + fill) * Scale \in Int
    BY <1>4, <1>5, <1>7
  <2> HIDE DEF cut, fill, total
  <2> QED
    BY <1>6, <2>1, RoundingError
<1>9. total * price \in Int
  BY <1>6, <1>8, MultiplyIntegers
<1>10. WeightedAveragePrice(existingQuantity, existingAvgPrice, fillQuantity, fillPrice) = price
  BY DEF WeightedAveragePrice, DecimalDiv
<1>11. ASSUME NEW h \in Nat, NEW p \in Nat, NEW c \in Nat, NEW f \in Nat, NEW v \in Int,
              NEW q \in Nat,
              c =< h, h =< c + Scale, f =< p, p =< f + Scale, 2 * Magnitude(v - (c + f)) =< q
       PROVE  2 * Magnitude(v - (h + p)) =< q + 4 * Scale
  BY <1>1, <1>11 DEF Magnitude
<1>12. 2 * Magnitude(total * price - (cut * Scale + fill * Scale)) =< total
  BY <1>7, <1>8
<1>13. 2 * Magnitude(total * price - (held + paid)) =< total + 4 * Scale
  <2> HIDE DEF held, paid, cut, fill, total, price
  <2> QED
    BY <1>3, <1>4, <1>5, <1>6, <1>9, <1>11, <1>12
<1> QED
  BY <1>10, <1>13

-----------------------------------------------------------------------------
(* Types. *)

QuoteRecords == [price : Nat \ {0}, at : Times]

IntentRecords == [status : Statuses, order : {None} \union SignedOrders]

Positions == [quantity : Nat, avgEntryPrice : Nat, realizedPnl : Int]

TradeRecords ==
  [order : SignedOrders, quantity : Nat, price : Nat \ {0}, notional : Nat, fee : Nat,
   realizedPnlDelta : Int, quotedAt : Times, filledAt : Times]

\* What TypeOK leaves unsaid: the fields of the records.
RecordsTyped ==
  /\ quote \in {None} \union QuoteRecords
  /\ intent \in [Nonces -> IntentRecords]
  /\ position \in Positions
  /\ trades \in Seq(TradeRecords)
  /\ flight \in {None} \union Settlements
  /\ settlement \in [Settlements -> {None} \union SettlementRecords]

\* A settlement links only intents that were recorded, so that consuming them
\* leaves none without an order.
LinksAreRecorded ==
  \A s \in Settlements : settlement[s] # None =>
    \A n \in settlement[s].intents : intent[n].status # "ISSUED"

TypeInv == TypeOK /\ RecordsTyped /\ LinksAreRecorded

LEMMA TimesAreNumbers ==
  /\ Times \subseteq Nat \ {0} /\ 1 \in Times
  /\ \A t \in Times : Feed[t] \in Nat \ {0}
BY TradingAssumption DEF Times

LEMMA InitTyped == Init => TypeInv
<1> SUFFICES ASSUME Init
             PROVE  TypeInv
  OBVIOUS
<1> USE TimesAreNumbers, TradingAssumption DEF Init
<1>1. TypeOK
  BY DEF TypeOK, Statuses, NoPosition
<1>2. RecordsTyped
  BY DEF RecordsTyped, QuoteRecords, IntentRecords, Positions, SettlementRecords,
         Statuses, NoPosition
<1>3. LinksAreRecorded
  BY DEF LinksAreRecorded
<1> QED
  BY <1>1, <1>2, <1>3 DEF TypeInv

-----------------------------------------------------------------------------
(* Orders. *)

\* A fill leaves a position: what it takes is there, and the average price is
\* a price.
LEMMA FillTyped ==
  ASSUME NEW q \in Nat, NEW price \in Nat \ {0}, NEW side \in {"BUY", "SELL"},
         position \in Positions, CanFill(side, q)
  PROVE  /\ RealizedPnlDelta(side, q, price) \in Int
         /\ PositionAfter(side, q, price) \in Positions
<1>1. /\ position.quantity \in Nat /\ position.avgEntryPrice \in Nat
      /\ position.realizedPnl \in Int
  BY DEF Positions
<1>2. RealizedPnlDelta(side, q, price) \in Int
  BY <1>1, PnlType DEF RealizedPnlDelta
<1>3. CASE side = "BUY"
  <2>1. position.quantity + q > 0
    BY <1>3 DEF CanFill
  <2>2. WeightedAveragePrice(position.quantity, position.avgEntryPrice, q, price) \in Nat
    BY <1>1, <2>1, AveragePriceType
  <2> QED
    BY <1>1, <1>2, <1>3, <2>2 DEF PositionAfter, Positions
<1>4. CASE side = "SELL"
  <2>1. position.quantity - q \in Nat
    BY <1>1, <1>4 DEF CanFill
  <2> QED
    BY <1>1, <1>2, <1>4, <2>1 DEF PositionAfter, Positions
<1> QED
  BY <1>2, <1>3, <1>4

\* placeOrder either leaves the books alone or adds one trade of the order.
LEMMA PlaceOrderTyped ==
  ASSUME TypeInv, NEW order \in SignedOrders, PlaceOrder(order)
  PROVE  \/ UNCHANGED books
         \/ /\ UniqueClientOrderId(order.client) /\ quote # None /\ Fresh(quote)
            /\ TradeOf(order) \in TradeRecords
            /\ trades' = Append(trades, TradeOf(order))
            /\ orders' = orders \union {order.client}
            /\ position' \in Positions /\ pending' \in Int
<1> SUFFICES ASSUME ~ UNCHANGED books
             PROVE  /\ UniqueClientOrderId(order.client) /\ quote # None /\ Fresh(quote)
                    /\ TradeOf(order) \in TradeRecords
                    /\ trades' = Append(trades, TradeOf(order))
                    /\ orders' = orders \union {order.client}
                    /\ position' \in Positions /\ pending' \in Int
  OBVIOUS
<1> DEFINE trade == TradeOf(order)
<1>1. /\ order.quantity \in Nat /\ order.side \in {"BUY", "SELL"}
  BY TradingAssumption
<1>2. /\ UniqueClientOrderId(order.client) /\ quote # None
      /\ CanFill(order.side, trade.quantity)
      /\ OrderAllowed(PositionAfter(order.side, trade.quantity, trade.price),
                      trade.realizedPnlDelta - trade.fee)
      /\ position' = PositionAfter(order.side, trade.quantity, trade.price)
      /\ pending' = pending + (trade.realizedPnlDelta - trade.fee)
      /\ orders' = orders \union {order.client}
      /\ trades' = Append(trades, trade)
  BY DEF PlaceOrder
<1>3. /\ quote.price \in Nat \ {0} /\ quote.at \in Times
      /\ position \in Positions /\ pending \in Int /\ now \in Times
  BY <1>2 DEF TypeInv, TypeOK, RecordsTyped, QuoteRecords
<1> DEFINE quantity == RoundMoney(order.quantity)
           notional == CalculateNotional(quantity, quote.price)
           fee == CalculateFee(notional, TakerFeeBps)
           delta == RealizedPnlDelta(order.side, quantity, quote.price)
<1>4. quantity \in Nat
  BY <1>1, RoundMoneyType
<1>5. notional \in Nat
  BY <1>3, <1>4, NotionalType
<1>6. fee \in Nat
  BY <1>5, FeeType, TradingAssumption
<1>7. /\ trade.quantity = quantity /\ trade.price = quote.price
      /\ trade.fee = fee /\ trade.realizedPnlDelta = delta
      /\ trade = [order |-> order, quantity |-> quantity, price |-> quote.price,
                  notional |-> notional, fee |-> fee, realizedPnlDelta |-> delta,
                  quotedAt |-> quote.at, filledAt |-> now]
  BY DEF TradeOf
<1>8. delta \in Int /\ position' \in Positions
  BY <1>1, <1>2, <1>3, <1>4, <1>7, FillTyped
<1>9. trade \in TradeRecords
  <2> HIDE DEF quantity, notional, fee, delta
  <2> QED
    BY <1>3, <1>4, <1>5, <1>6, <1>7, <1>8 DEF TradeRecords
<1>10. pending' \in Int
  <2> HIDE DEF quantity, notional, fee, delta
  <2> QED
    BY <1>2, <1>3, <1>6, <1>7, <1>8
<1> QED
  BY <1>2, <1>8, <1>9, <1>10 DEF OrderAllowed

LEMMA ExecuteOrderTyped ==
  ASSUME TypeInv, NEW k \in Slots, ExecuteOrder(k)
  PROVE  TypeInv'
<1> DEFINE order == slot[k]
<1>1. /\ order # None /\ order \in SignedOrders
      /\ slot' = [slot EXCEPT ![k] = None]
      /\ UNCHANGED <<market, collateral, flight, settlement>>
  BY DEF ExecuteOrder, TypeInv, TypeOK
<1>2. order.nonce \in Nonces /\ order.client \in ClientOrderIds
  BY <1>1, TradingAssumption
<1>3. \/ UNCHANGED <<intent, books>>
      \/ /\ intent' = [intent EXCEPT ![order.nonce] = [status |-> "VERIFIED", order |-> order]]
         /\ PlaceOrder(order)
  BY DEF ExecuteOrder
<1>4. \/ UNCHANGED books
      \/ /\ TradeOf(order) \in TradeRecords /\ trades' = Append(trades, TradeOf(order))
         /\ orders' = orders \union {order.client}
         /\ position' \in Positions /\ pending' \in Int
  BY <1>1, <1>3, PlaceOrderTyped DEF books
<1> HIDE DEF order
<1>5. slot' \in [Slots -> {None} \union SignedOrders]
  BY <1>1 DEF TypeInv, TypeOK
<1>6. /\ intent' \in [Nonces -> IntentRecords]
      /\ \A n \in Nonces : /\ intent'[n].status \in Statuses
                           /\ intent'[n].order = None <=> intent'[n].status = "ISSUED"
  <2>1. CASE UNCHANGED intent
    BY <2>1 DEF TypeInv, TypeOK, RecordsTyped
  <2>2. CASE intent' = [intent EXCEPT ![order.nonce] = [status |-> "VERIFIED", order |-> order]]
    BY <1>1, <1>2, <2>2 DEF TypeInv, TypeOK, RecordsTyped, IntentRecords, Statuses
  <2> QED
    BY <1>3, <2>1, <2>2
<1>7. /\ position' \in Positions /\ pending' \in Int
      /\ orders' \subseteq ClientOrderIds /\ trades' \in Seq(TradeRecords)
  <2>1. CASE UNCHANGED books
    BY <2>1 DEF TypeInv, TypeOK, RecordsTyped, books
  <2>2. CASE /\ TradeOf(order) \in TradeRecords /\ trades' = Append(trades, TradeOf(order))
             /\ orders' = orders \union {order.client}
             /\ position' \in Positions /\ pending' \in Int
    <3>1. trades \in Seq(TradeRecords) /\ orders \subseteq ClientOrderIds
      BY DEF TypeInv, TypeOK, RecordsTyped
    <3>2. trades' \in Seq(TradeRecords)
      BY <2>2, <3>1
    <3> QED
      BY <1>2, <2>2, <3>1, <3>2
  <2> QED
    BY <1>4, <2>1, <2>2
<1>8. TypeOK'
  BY <1>1, <1>5, <1>6, <1>7 DEF TypeInv, TypeOK, market, Positions
<1>9. RecordsTyped'
  BY <1>1, <1>6, <1>7 DEF TypeInv, RecordsTyped, market
<1>10. \A n \in Nonces : intent[n].status # "ISSUED" => intent'[n].status # "ISSUED"
  BY <1>1, <1>2, <1>3 DEF TypeInv, RecordsTyped
<1>11. LinksAreRecorded'
  BY <1>1, <1>10 DEF TypeInv, RecordsTyped, LinksAreRecorded, SettlementRecords
<1> QED
  BY <1>8, <1>9, <1>11 DEF TypeInv

-----------------------------------------------------------------------------
(* Settlements. *)

\* A log moves whole units, and clears its own mark at least.
LEMMA ApplyTyped ==
  ASSUME TypeInv, NEW s \in Settlements,
         settlement[s] # None, settlement[s].phase = "begun", ApplySettlement(s)
  PROVE  collateral' \in Nat /\ pending' \in Int /\ flight' \in {None, flight} /\ flight' # s
<1> DEFINE moved == FromMicroUsdc(ToMicroUsdc(settlement[s].amount))
<1>1. settlement[s].amount \in Int /\ pending \in Int /\ collateral \in Nat
  BY DEF TypeInv, TypeOK, RecordsTyped, SettlementRecords
<1>2. moved \in Int
  BY <1>1, ConversionLeavesDust
<1>3. /\ collateral + moved >= 0 /\ collateral' = collateral + moved
      /\ pending' = DropDust(pending - moved)
      /\ flight' = IF flight # None /\ (flight = s \/ settlement[flight].amount = moved)
                   THEN None ELSE flight
  BY DEF ApplySettlement
<1> HIDE DEF moved
<1>4. collateral' \in Nat /\ pending' \in Int
  BY <1>1, <1>2, <1>3 DEF DropDust
<1>5. flight' \in {None, flight} /\ flight' # s
  BY <1>3, TradingAssumption
<1> QED
  BY <1>4, <1>5

\* A mark that stays or is cleared, while the settlement in it stays begun.
LEMMA MarkKept ==
  ASSUME TypeInv, NEW s \in Settlements, flight' \in {None, flight}, flight' # s,
         NEW record, settlement' = [settlement EXCEPT ![s] = record]
  PROVE  /\ flight' # None => settlement'[flight'].phase = "begun"
         /\ flight' \in {None} \union Settlements
BY DEF TypeInv, TypeOK, RecordsTyped

LEMMA SettleUserTyped ==
  ASSUME TypeInv, NEW s \in Settlements, SettleUser(s)
  PROVE  TypeInv'
<1> USE DEF SettleUser, TypeInv
<1>1. SettlementTradeIds \in SUBSET Nat
  BY DEF SettlementTradeIds, RecordsTyped
<1>2. Verified \in SUBSET Nonces
  BY DEF Verified
<1>3. settlement' \in [Settlements -> {None} \union SettlementRecords]
  BY <1>1, <1>2 DEF RecordsTyped, TypeOK, SettlementRecords
<1>4. TypeOK'
  BY DEF TypeOK, market, books
<1>5. RecordsTyped'
  BY <1>3 DEF RecordsTyped, market, books
<1>6. LinksAreRecorded'
  BY DEF LinksAreRecorded, RecordsTyped, Verified
<1> QED
  BY <1>4, <1>5, <1>6

LEMMA BeginSettlementTyped ==
  ASSUME TypeInv, NEW s \in Settlements, BeginSettlement(s)
  PROVE  TypeInv'
<1> USE DEF BeginSettlement, TypeInv
<1>1. settlement[s] \in SettlementRecords /\ settlement[s].phase = "built"
  BY DEF RecordsTyped
<1>2. /\ settlement' \in [Settlements -> {None} \union SettlementRecords]
      /\ flight' \in {None} \union Settlements
      /\ flight' # None => settlement'[flight'].phase = "begun"
  <2>1. CASE flight = None
    BY <1>1, <2>1 DEF RecordsTyped, SettlementRecords
  <2>2. CASE flight # None
    BY <1>1, <2>2 DEF RecordsTyped, TypeOK
  <2> QED
    BY <2>1, <2>2
<1>3. TypeOK'
  BY <1>2 DEF TypeOK, market, books
<1>4. RecordsTyped'
  BY <1>2 DEF RecordsTyped, market, books
<1>5. LinksAreRecorded'
  BY <1>1 DEF LinksAreRecorded, RecordsTyped, SettlementRecords
<1> QED
  BY <1>3, <1>4, <1>5

LEMMA IndexSettlementTyped ==
  ASSUME TypeInv, NEW s \in Settlements, IndexSettlement(s)
  PROVE  TypeInv'
<1>1. /\ settlement[s] # None /\ settlement[s].phase = "begun" /\ ApplySettlement(s)
      /\ settlement' = [settlement EXCEPT ![s].phase = "applied"]
      /\ UNCHANGED <<market, slot, intent, position, orders, trades>>
  BY DEF IndexSettlement
<1>2. collateral' \in Nat /\ pending' \in Int /\ flight' \in {None, flight} /\ flight' # s
  BY <1>1, ApplyTyped
<1>3. /\ flight' # None => settlement'[flight'].phase = "begun"
      /\ flight' \in {None} \union Settlements
  BY <1>1, <1>2, MarkKept
<1>4. settlement' \in [Settlements -> {None} \union SettlementRecords]
  BY <1>1 DEF TypeInv, RecordsTyped, SettlementRecords
<1>5. TypeOK'
  BY <1>1, <1>2, <1>3 DEF TypeInv, TypeOK, market
<1>6. RecordsTyped'
  BY <1>1, <1>3, <1>4 DEF TypeInv, RecordsTyped, market
<1>7. LinksAreRecorded'
  BY <1>1 DEF TypeInv, LinksAreRecorded, RecordsTyped, SettlementRecords
<1> QED
  BY <1>5, <1>6, <1>7 DEF TypeInv

LEMMA FinishSettlementTyped ==
  ASSUME TypeInv, NEW s \in Settlements, FinishSettlement(s)
  PROVE  TypeInv'
<1>1. /\ settlement[s] # None
      /\ \/ settlement[s].phase = "begun" /\ ApplySettlement(s)
         \/ settlement[s].phase = "applied" /\ UNCHANGED <<collateral, pending, flight>>
      /\ ConsumeSignedIntents(s)
      /\ settlement' = [settlement EXCEPT ![s].phase = "done"]
      /\ UNCHANGED <<market, slot, position, orders, trades>>
  BY DEF FinishSettlement
<1>2. collateral' \in Nat /\ pending' \in Int /\ flight' \in {None, flight} /\ flight' # s
  BY <1>1, ApplyTyped, TradingAssumption DEF TypeInv, TypeOK
<1>3. /\ flight' # None => settlement'[flight'].phase = "begun"
      /\ flight' \in {None} \union Settlements
  BY <1>1, <1>2, MarkKept
<1>4. settlement' \in [Settlements -> {None} \union SettlementRecords]
  BY <1>1 DEF TypeInv, RecordsTyped, SettlementRecords
<1>5. /\ intent' \in [Nonces -> IntentRecords]
      /\ \A n \in Nonces : /\ intent'[n].status \in Statuses
                           /\ intent'[n].order = intent[n].order
                           /\ intent'[n].status = "ISSUED" <=> intent[n].status = "ISSUED"
  BY <1>1 DEF TypeInv, TypeOK, RecordsTyped, LinksAreRecorded, ConsumeSignedIntents,
              IntentRecords, Statuses
<1>6. TypeOK'
  BY <1>1, <1>2, <1>3, <1>5 DEF TypeInv, TypeOK, market
<1>7. RecordsTyped'
  BY <1>1, <1>3, <1>4, <1>5 DEF TypeInv, RecordsTyped, market
<1>8. LinksAreRecorded'
  BY <1>1, <1>5 DEF TypeInv, LinksAreRecorded, RecordsTyped, SettlementRecords
<1> QED
  BY <1>6, <1>7, <1>8 DEF TypeInv

LEMMA AbandonSettlementTyped ==
  ASSUME TypeInv, NEW s \in Settlements, AbandonSettlement(s)
  PROVE  TypeInv'
<1> USE DEF AbandonSettlement, TypeInv
<1>1. TypeOK'
  BY DEF TypeOK, market, books
<1>2. RecordsTyped'
  BY DEF RecordsTyped, market, books
<1>3. LinksAreRecorded'
  BY DEF LinksAreRecorded, RecordsTyped
<1> QED
  BY <1>1, <1>2, <1>3

\* An intent that expires keeps its order, and no other is touched.
LEMMA ExpireIntentKeepsOrders ==
  ASSUME TypeInv, NEW n \in Nonces, ExpireIntent(n)
  PROVE  /\ intent[n].status = "VERIFIED" /\ Overdue(intent[n].order)
         /\ intent' \in [Nonces -> IntentRecords]
         /\ intent'[n].status = "EXPIRED" /\ intent'[n].order = intent[n].order
         /\ \A m \in Nonces : m # n => intent'[m] = intent[m]
BY DEF ExpireIntent, Verified, TypeInv, RecordsTyped, IntentRecords, Statuses

LEMMA ExpireIntentTyped ==
  ASSUME TypeInv, NEW n \in Nonces, ExpireIntent(n)
  PROVE  TypeInv'
<1>1. /\ intent' \in [Nonces -> IntentRecords]
      /\ \A m \in Nonces : /\ intent'[m].status \in Statuses
                           /\ intent'[m].order = intent[m].order
                           /\ intent'[m].status = "ISSUED" <=> intent[m].status = "ISSUED"
  BY ExpireIntentKeepsOrders DEF TypeInv, TypeOK, Statuses
<1>2. UNCHANGED <<market, slot, books, collateral, flight, settlement>>
  BY DEF ExpireIntent
<1>3. TypeOK'
  BY <1>1, <1>2 DEF TypeInv, TypeOK, market, books
<1>4. RecordsTyped'
  BY <1>1, <1>2 DEF TypeInv, RecordsTyped, market, books
<1>5. LinksAreRecorded'
  BY <1>1, <1>2 DEF TypeInv, LinksAreRecorded, RecordsTyped, SettlementRecords
<1> QED
  BY <1>3, <1>4, <1>5 DEF TypeInv

-----------------------------------------------------------------------------
LEMMA StepTyped == TypeInv /\ [Next]_vars => TypeInv'
<1> SUFFICES ASSUME TypeInv, [Next]_vars
             PROVE  TypeInv'
  OBVIOUS
<1> USE DEF TypeInv
<1>1. CASE Tick
  BY <1>1 DEF Tick, TypeOK, RecordsTyped, LinksAreRecorded, books
<1>2. ASSUME NEW t \in Times, IngestQuote(t)
      PROVE  TypeInv'
  <2>1. quote' \in QuoteRecords
    BY <1>2, TimesAreNumbers DEF IngestQuote, Timestamp, QuoteRecords, TypeOK
  <2> QED
    BY <1>2, <2>1 DEF IngestQuote, TypeOK, RecordsTyped, LinksAreRecorded, books, QuoteRecords
<1>3. ASSUME NEW t \in Times, NEW price \in SetPrices, SetPrice(price, t)
      PROVE  TypeInv'
  <2>1. quote' \in QuoteRecords
    BY <1>3, TradingAssumption DEF SetPrice, QuoteRecords
  <2> QED
    BY <1>3, <2>1 DEF SetPrice, TypeOK, RecordsTyped, LinksAreRecorded, books, QuoteRecords
<1>4. ASSUME NEW k \in Slots, NEW order \in SignedOrders, PostOrder(k, order)
      PROVE  TypeInv'
  BY <1>4 DEF PostOrder, TypeOK, RecordsTyped, LinksAreRecorded, market, books
<1>5. ASSUME NEW k \in Slots, ExecuteOrder(k)
      PROVE  TypeInv'
  BY <1>5, ExecuteOrderTyped
<1>6. ASSUME NEW n \in Nonces, ExpireIntent(n)
      PROVE  TypeInv'
  BY <1>6, ExpireIntentTyped
<1>7. ASSUME NEW s \in Settlements,
             \/ SettleUser(s) \/ BeginSettlement(s) \/ IndexSettlement(s)
             \/ FinishSettlement(s) \/ AbandonSettlement(s)
      PROVE  TypeInv'
  BY <1>7, SettleUserTyped, BeginSettlementTyped, IndexSettlementTyped,
     FinishSettlementTyped, AbandonSettlementTyped
<1>8. CASE UNCHANGED vars
  BY <1>8 DEF TypeOK, RecordsTyped, LinksAreRecorded, vars, market, books
<1> HIDE DEF TypeInv
<1> QED
  BY <1>1, <1>2, <1>3, <1>4, <1>5, <1>6, <1>7, <1>8 DEF Next

LEMMA Typed == Spec => []TypeInv
BY InitTyped, StepTyped, PTL DEF Spec

\* Every variable of the trading example keeps its type: no fill takes more
\* than a position has, average prices stay prices, and only a used nonce has
\* an order.
THEOREM TypeCorrect == Spec => []TypeOK
<1>1. TypeInv => TypeOK
  BY DEF TypeInv
<1> QED
  BY <1>1, Typed, PTL

-----------------------------------------------------------------------------
(* Each step is one of these. *)

\* What only the market, a posted request or nothing changes, or a deadline
\* that has passed.
Outside ==
  /\ UNCHANGED <<books, flight, settlement>>
  /\ UNCHANGED intent \/ \E n \in Nonces : ExpireIntent(n)

LEMMA Steps ==
  ASSUME [Next]_vars
  PROVE  \/ Outside
         \/ \E k \in Slots : ExecuteOrder(k)
         \/ \E s \in Settlements :
              \/ SettleUser(s) \/ BeginSettlement(s) \/ IndexSettlement(s)
              \/ FinishSettlement(s) \/ AbandonSettlement(s)
<1>1. Tick => Outside
  BY DEF Tick, Outside
<1>2. \A t \in Times : IngestQuote(t) => Outside
  BY DEF IngestQuote, Outside
<1>3. \A t \in Times, price \in SetPrices : SetPrice(price, t) => Outside
  BY DEF SetPrice, Outside
<1>4. \A k \in Slots, order \in SignedOrders : PostOrder(k, order) => Outside
  BY DEF PostOrder, Outside
<1>5. \A n \in Nonces : ExpireIntent(n) => Outside
  BY DEF ExpireIntent, Outside
<1>6. UNCHANGED vars => Outside
  BY DEF vars, Outside
<1> QED
  BY <1>1, <1>2, <1>3, <1>4, <1>5, <1>6 DEF Next

-----------------------------------------------------------------------------
(* A settlement leaves nothing pending. *)

LEMMA ApplyClears ==
  ASSUME TypeInv, NEW s \in Settlements,
         settlement[s] # None, ApplySettlement(s), settlement[s].amount = pending
  PROVE  pending' = 0
<1> DEFINE moved == FromMicroUsdc(ToMicroUsdc(pending))
<1>1. pending \in Int
  BY DEF TypeInv, TypeOK
<1>2. moved \in Int /\ Magnitude(pending - moved) < MicroUnit
  BY <1>1, ConversionLeavesDust
<1>3. pending' = DropDust(pending - moved)
  BY DEF ApplySettlement
<1> QED
  BY <1>2, <1>3 DEF DropDust

\* Settling the whole pending P&L leaves none, whatever the amounts and the
\* token's decimals: the conversion to whole units leaves only dust, and the
\* dust is dropped.
THEOREM SettlingTheorem == Spec => SettlingClears
<1> DEFINE Clears == \A s \in Settlements :
             (s \notin Applied /\ s \in Applied' /\ settlement[s].amount = pending) => pending' = 0
<1>1. ASSUME TypeInv, [Next]_vars
      PROVE  Clears
  <2> SUFFICES ASSUME NEW s \in Settlements,
                      s \notin Applied, s \in Applied', settlement[s].amount = pending
               PROVE  pending' = 0
    OBVIOUS
  <2>1. settlement'[s] # settlement[s]
    BY DEF Applied
  <2>2. /\ settlement \in [Settlements -> {None} \union SettlementRecords]
        /\ settlement'[s] # None /\ settlement'[s].phase \in {"applied", "done"}
    BY <1>1 DEF Applied, TypeInv, RecordsTyped
  <2>3. ~ Outside /\ \A k \in Slots : ~ ExecuteOrder(k)
    BY <2>1 DEF Outside, ExecuteOrder
  <2>4. PICK r \in Settlements :
          \/ SettleUser(r) \/ BeginSettlement(r) \/ IndexSettlement(r)
          \/ FinishSettlement(r) \/ AbandonSettlement(r)
    BY <1>1, <2>3, Steps
  <2>5. r = s
    BY <2>1, <2>2, <2>4 DEF SettleUser, BeginSettlement, IndexSettlement, FinishSettlement,
                            AbandonSettlement
  <2>6. ~ SettleUser(r) /\ ~ BeginSettlement(r) /\ ~ AbandonSettlement(r)
    BY <2>2, <2>5 DEF SettleUser, BeginSettlement, AbandonSettlement, SettlementRecords
  <2>7. settlement[s] # None /\ ApplySettlement(s)
    BY <2>2, <2>4, <2>5, <2>6 DEF IndexSettlement, FinishSettlement, Applied
  <2> QED
    BY <1>1, <2>7, ApplyClears
<1>2. TypeInv /\ [Next]_vars => [Clears]_vars
  BY <1>1
<1> QED
  BY <1>2, Typed, PTL DEF Spec, SettlingClears

-----------------------------------------------------------------------------
(* Fills and signatures. *)

\* Every fill has left its traces: its client order id, and its order with the
\* used nonce.
FillsAreRecorded ==
  \A i \in DOMAIN trades :
    /\ trades[i].order.client \in orders
    /\ intent[trades[i].order.nonce].status # "ISSUED"
    /\ trades[i].order = intent[trades[i].order.nonce].order

\* A step that adds no trade forgets nothing of the recorded ones.
LEMMA FillsKept ==
  ASSUME FillsAreRecorded, UNCHANGED <<orders, trades>>,
         \A i \in DOMAIN trades :
           LET n == trades[i].order.nonce IN
           intent'[n].order = intent[n].order
             /\ (intent[n].status # "ISSUED" => intent'[n].status # "ISSUED")
  PROVE  FillsAreRecorded'
BY DEF FillsAreRecorded

\* A fill is of a signed order.
LEMMA FillsAreOfSignedOrders ==
  ASSUME TypeInv
  PROVE  /\ trades \in Seq(TradeRecords)
         /\ \A i \in DOMAIN trades :
              trades[i].order \in SignedOrders /\ trades[i].order.nonce \in Nonces
<1>1. trades \in Seq(TradeRecords)
  BY DEF TypeInv, RecordsTyped
<1>2. ASSUME NEW i \in DOMAIN trades
      PROVE  trades[i].order \in SignedOrders
  <2>1. trades[i] \in TradeRecords
    BY <1>1
  <2> QED
    BY <2>1 DEF TradeRecords
<1>3. \A order \in SignedOrders : order.nonce \in Nonces
  BY TradingAssumption
<1> QED
  BY <1>1, <1>2, <1>3

SignedInv == FillsAreRecorded /\ FilledAsSigned

LEMMA ExecuteOrderSigned ==
  ASSUME TypeInv, SignedInv, NEW k \in Slots, ExecuteOrder(k)
  PROVE  SignedInv'
<1> DEFINE order == slot[k]
           trade == TradeOf(order)
<1>1. order \in SignedOrders /\ order.nonce \in Nonces
  BY TradingAssumption DEF ExecuteOrder, TypeInv, TypeOK
<1>2. trades \in Seq(TradeRecords) /\ \A i \in DOMAIN trades : trades[i].order.nonce \in Nonces
  BY FillsAreOfSignedOrders
<1>3. CASE UNCHANGED <<intent, books>>
  BY <1>3 DEF SignedInv, FillsAreRecorded, FilledAsSigned, books
<1>4. CASE /\ NonceUsable(order.nonce)
           /\ intent' = [intent EXCEPT ![order.nonce] = [status |-> "VERIFIED", order |-> order]]
           /\ PlaceOrder(order)
  <2>1. /\ intent'[order.nonce].order = order /\ intent'[order.nonce].status # "ISSUED"
        /\ intent[order.nonce].status = "ISSUED"
        /\ \A n \in Nonces : n # order.nonce => intent'[n] = intent[n]
    BY <1>1, <1>4 DEF TypeInv, RecordsTyped, NonceUsable
  <2>2. \A i \in DOMAIN trades :
          /\ trades[i].order.nonce # order.nonce
          /\ intent'[trades[i].order.nonce] = intent[trades[i].order.nonce]
    BY <1>2, <2>1 DEF SignedInv, FillsAreRecorded
  <2>3. CASE UNCHANGED books
    BY <2>2, <2>3 DEF SignedInv, FillsAreRecorded, FilledAsSigned, books
  <2>4. CASE /\ UniqueClientOrderId(order.client)
             /\ trade \in TradeRecords
             /\ trades' = Append(trades, trade)
             /\ orders' = orders \union {order.client}
    <3>1. trade.order = order
      BY DEF TradeOf
    <3> HIDE DEF trade, order
    <3>2. /\ DOMAIN trades = 1..Len(trades) /\ DOMAIN trades' = 1..(Len(trades) + 1)
          /\ \A i \in DOMAIN trades : trades'[i] = trades[i]
          /\ trades'[Len(trades) + 1] = trade
      BY <1>2, <2>4
    <3>3. \A i \in DOMAIN trades : trades[i].order.client # order.client
      BY <2>4 DEF SignedInv, FillsAreRecorded, UniqueClientOrderId
    <3>4. FillsAreRecorded'
      <4> SUFFICES ASSUME NEW i \in DOMAIN trades'
                   PROVE  /\ trades'[i].order.client \in orders'
                          /\ intent'[trades'[i].order.nonce].status # "ISSUED"
                          /\ trades'[i].order = intent'[trades'[i].order.nonce].order
        BY DEF FillsAreRecorded
      <4>1. CASE i \in DOMAIN trades
        BY <2>2, <2>4, <3>2, <4>1 DEF SignedInv, FillsAreRecorded
      <4>2. CASE i = Len(trades) + 1
        BY <2>1, <2>4, <3>1, <3>2, <4>2
      <4> QED
        BY <1>2, <3>2, <4>1, <4>2
    <3>5. FilledAsSigned'
      <4>1. ASSUME NEW i \in DOMAIN trades', NEW j \in DOMAIN trades', i # j
            PROVE  /\ trades'[i].order.nonce # trades'[j].order.nonce
                   /\ trades'[i].order.client # trades'[j].order.client
        <5>1. CASE i \in DOMAIN trades /\ j \in DOMAIN trades
          BY <3>2, <4>1, <5>1 DEF SignedInv, FilledAsSigned
        <5>2. CASE i \in DOMAIN trades /\ j = Len(trades) + 1
          BY <2>2, <3>1, <3>2, <3>3, <5>2
        <5>3. CASE i = Len(trades) + 1 /\ j \in DOMAIN trades
          BY <2>2, <3>1, <3>2, <3>3, <5>3
        <5> QED
          BY <1>2, <3>2, <4>1, <5>1, <5>2, <5>3
      <4> QED
        BY <3>4, <4>1 DEF FillsAreRecorded, FilledAsSigned
    <3> QED
      BY <3>4, <3>5 DEF SignedInv
  <2> QED
    BY <1>1, <1>4, <2>3, <2>4, PlaceOrderTyped
<1> QED
  BY <1>3, <1>4 DEF ExecuteOrder

\* A settlement only turns the intents it links into CONSUMED ones.
LEMMA SettlementStepKeepsOrders ==
  ASSUME TypeInv, NEW s \in Settlements,
         \/ SettleUser(s) \/ BeginSettlement(s) \/ IndexSettlement(s)
         \/ FinishSettlement(s) \/ AbandonSettlement(s)
  PROVE  /\ UNCHANGED <<orders, trades>>
         /\ \A n \in Nonces : /\ intent'[n].order = intent[n].order
                              /\ intent[n].status # "ISSUED" => intent'[n].status # "ISSUED"
<1>1. CASE SettleUser(s) \/ BeginSettlement(s) \/ IndexSettlement(s) \/ AbandonSettlement(s)
  BY <1>1 DEF SettleUser, BeginSettlement, IndexSettlement, AbandonSettlement, books
<1>2. CASE FinishSettlement(s)
  BY <1>2 DEF FinishSettlement, ConsumeSignedIntents, TypeInv, RecordsTyped, IntentRecords
<1> QED
  BY <1>1, <1>2

LEMMA StepSigned == TypeInv /\ SignedInv /\ [Next]_vars => SignedInv'
<1> SUFFICES ASSUME TypeInv, SignedInv, [Next]_vars
             PROVE  SignedInv'
  OBVIOUS
<1>1. \A i \in DOMAIN trades : trades[i].order.nonce \in Nonces
  BY FillsAreOfSignedOrders
<1>2. CASE Outside
  <2>1. \A n \in Nonces : /\ intent'[n].order = intent[n].order
                          /\ intent[n].status # "ISSUED" => intent'[n].status # "ISSUED"
    BY <1>2, ExpireIntentKeepsOrders DEF Outside
  <2>2. FillsAreRecorded'
    BY <1>1, <1>2, <2>1, FillsKept DEF SignedInv, Outside, books
  <2>3. FilledAsSigned'
    BY <1>2, <2>2 DEF SignedInv, FillsAreRecorded, FilledAsSigned, Outside, books
  <2> QED
    BY <2>2, <2>3 DEF SignedInv
<1>3. ASSUME NEW k \in Slots, ExecuteOrder(k)
      PROVE  SignedInv'
  BY <1>3, ExecuteOrderSigned
<1>4. ASSUME NEW s \in Settlements,
             \/ SettleUser(s) \/ BeginSettlement(s) \/ IndexSettlement(s)
             \/ FinishSettlement(s) \/ AbandonSettlement(s)
      PROVE  SignedInv'
  <2>1. FillsAreRecorded'
    BY <1>1, <1>4, SettlementStepKeepsOrders, FillsKept DEF SignedInv
  <2>2. FilledAsSigned'
    BY <1>4, <2>1, SettlementStepKeepsOrders DEF SignedInv, FillsAreRecorded, FilledAsSigned
  <2> QED
    BY <2>1, <2>2 DEF SignedInv
<1> QED
  BY <1>2, <1>3, <1>4, Steps

LEMMA Signed == Spec => []SignedInv
<1>1. Init => SignedInv
  BY DEF Init, SignedInv, FillsAreRecorded, FilledAsSigned
<1> QED
  BY <1>1, Typed, StepSigned, PTL DEF Spec

\* However often and with however many signatures orders are posted, each fill
\* executes the order its nonce was used for, and no nonce and no client order
\* id is filled twice.
THEOREM SignedTheorem == Spec => []FilledAsSigned
<1>1. SignedInv => FilledAsSigned
  BY DEF SignedInv
<1> QED
  BY <1>1, Signed, PTL

-----------------------------------------------------------------------------
(* Prices. *)

\* A quote of a provider that says when its prices held is one of the market.
QuoteWasOnMarket ==
  provider = "pyth" /\ quote # None => Feed[quote.at] = quote.price /\ quote.at <= now

PriceInv == QuoteWasOnMarket /\ FilledAtRecentPrice

\* What leaves quote and trades alone may let time pass.
LEMMA PricesKept ==
  ASSUME TypeInv, TypeInv', PriceInv, UNCHANGED <<provider, quote, trades>>, now' >= now
  PROVE  PriceInv'
<1>1. FilledAtRecentPrice'
  BY DEF PriceInv, FilledAtRecentPrice
<1>2. quote # None => quote.at \in Nat /\ now \in Nat /\ now' \in Nat
  BY TimesAreNumbers DEF TypeInv, TypeOK
<1>3. QuoteWasOnMarket'
  BY <1>2 DEF PriceInv, QuoteWasOnMarket
<1> QED
  BY <1>1, <1>3 DEF PriceInv

LEMMA ExecuteOrderPrices ==
  ASSUME TypeInv, TypeInv', PriceInv, NEW k \in Slots, ExecuteOrder(k)
  PROVE  PriceInv'
<1> DEFINE order == slot[k]
           trade == TradeOf(order)
<1>1. UNCHANGED <<provider, quote, now>> /\ now \in Nat
  BY TimesAreNumbers DEF ExecuteOrder, market, TypeInv, TypeOK
<1>2. CASE UNCHANGED books
  BY <1>1, <1>2, PricesKept DEF books
<1>3. CASE PlaceOrder(order)
  <2>1. order \in SignedOrders
    BY DEF ExecuteOrder, TypeInv, TypeOK
  <2>2. CASE /\ quote # None /\ Fresh(quote)
             /\ trades' = Append(trades, trade)
    <3>1. /\ trade.price = quote.price /\ trade.filledAt = now
      BY DEF TradeOf
    <3> HIDE DEF trade
    <3>2. /\ DOMAIN trades = 1..Len(trades) /\ DOMAIN trades' = 1..(Len(trades) + 1)
          /\ Len(trades) \in Nat
          /\ \A i \in DOMAIN trades : trades'[i] = trades[i]
          /\ trades'[Len(trades) + 1] = trade
      BY <2>2, FillsAreOfSignedOrders
    <3>3. /\ quote.at \in Times /\ quote.at \in Nat /\ MaxPriceAge \in Nat
          /\ now - quote.at <= MaxPriceAge
      BY <2>2, TimesAreNumbers, TradingAssumption DEF TypeInv, TypeOK, Fresh
    <3>4. FilledAtRecentPrice'
      <4> SUFFICES ASSUME provider = "pyth", NEW i \in DOMAIN trades'
                   PROVE  \E t \in Times : /\ Feed[t] = trades'[i].price
                                           /\ trades'[i].filledAt - t \in 0..MaxPriceAge
        BY <1>1 DEF FilledAtRecentPrice
      <4>1. CASE i \in DOMAIN trades
        BY <3>2, <4>1 DEF PriceInv, FilledAtRecentPrice
      <4>2. CASE i = Len(trades) + 1
        <5>1. Feed[quote.at] = quote.price /\ quote.at <= now
          BY <2>2 DEF PriceInv, QuoteWasOnMarket
        <5>2. now - quote.at \in 0..MaxPriceAge
          BY <1>1, <3>3, <5>1
        <5> QED
          BY <3>1, <3>2, <3>3, <4>2, <5>1, <5>2
      <4> QED
        BY <3>2, <4>1, <4>2
    <3>5. QuoteWasOnMarket'
      BY <1>1 DEF PriceInv, QuoteWasOnMarket
    <3> QED
      BY <3>4, <3>5 DEF PriceInv
  <2> QED
    BY <1>2, <1>3, <2>1, <2>2, PlaceOrderTyped
<1> QED
  BY <1>2, <1>3 DEF ExecuteOrder, books

LEMMA StepPrices == TypeInv /\ TypeInv' /\ PriceInv /\ [Next]_vars => PriceInv'
<1> SUFFICES ASSUME TypeInv, TypeInv', PriceInv, [Next]_vars
             PROVE  PriceInv'
  OBVIOUS
<1>1. now \in Nat
  BY TimesAreNumbers DEF TypeInv, TypeOK
<1>2. CASE Tick
  BY <1>1, <1>2, PricesKept DEF Tick, books
<1>3. ASSUME NEW t \in Times, IngestQuote(t)
      PROVE  PriceInv'
  BY <1>3 DEF IngestQuote, Timestamp, PriceInv, QuoteWasOnMarket, FilledAtRecentPrice, books
<1>4. ASSUME NEW t \in Times, NEW price \in SetPrices, SetPrice(price, t)
      PROVE  PriceInv'
  BY <1>4 DEF SetPrice, PriceInv, QuoteWasOnMarket, FilledAtRecentPrice
<1>5. ASSUME NEW k \in Slots, ExecuteOrder(k)
      PROVE  PriceInv'
  BY <1>5, ExecuteOrderPrices
<1>6. ASSUME NEW k \in Slots, NEW order \in SignedOrders, PostOrder(k, order)
      PROVE  PriceInv'
  BY <1>1, <1>6, PricesKept DEF PostOrder, market, books
<1>7. ASSUME NEW n \in Nonces, ExpireIntent(n)
      PROVE  PriceInv'
  BY <1>1, <1>7, PricesKept DEF ExpireIntent, market, books
<1>8. ASSUME NEW s \in Settlements,
             \/ SettleUser(s) \/ BeginSettlement(s) \/ IndexSettlement(s)
             \/ FinishSettlement(s) \/ AbandonSettlement(s)
      PROVE  PriceInv'
  <2>1. UNCHANGED <<provider, quote, now, trades>>
    BY <1>8 DEF SettleUser, BeginSettlement, IndexSettlement, FinishSettlement,
                AbandonSettlement, market, books
  <2> QED
    BY <1>1, <2>1, PricesKept
<1>9. CASE UNCHANGED vars
  BY <1>1, <1>9, PricesKept DEF vars, market, books
<1> QED
  BY <1>2, <1>3, <1>4, <1>5, <1>6, <1>7, <1>8, <1>9 DEF Next

\* With a provider that says when its prices held, every order is filled at a
\* price the market had at most MaxPriceAge before, whatever the order its
\* answers arrive in.
THEOREM PriceTheorem == Spec => []FilledAtRecentPrice
<1>1. Init => PriceInv
  BY DEF Init, PriceInv, QuoteWasOnMarket, FilledAtRecentPrice
<1>2. PriceInv => FilledAtRecentPrice
  BY DEF PriceInv
<1> QED
  BY <1>1, <1>2, Typed, StepPrices, PTL DEF Spec

-----------------------------------------------------------------------------
(* Signatures behind what was settled. *)

Linked(n) == \E t \in Applied : n \in settlement[t].intents

ConsumedAreLinked == \A n \in Nonces : intent[n].status = "CONSUMED" => Linked(n)

\* A deadline that has passed stays so.
ExpiredAreOverdue ==
  \A n \in Nonces : intent[n].status = "EXPIRED" => Overdue(intent[n].order)

\* What a settlement accounts for, from the moment it is built.
SettlementsLinkTrades ==
  \A s \in Settlements : settlement[s] # None =>
    \A i \in settlement[s].tradeIds :
      /\ i \in DOMAIN trades
      /\ \/ trades[i].order.nonce \in settlement[s].intents
         \/ Linked(trades[i].order.nonce)
         \/ intent[trades[i].order.nonce].status = "EXPIRED"

LinkInv == ConsumedAreLinked /\ ExpiredAreOverdue /\ SettlementsLinkTrades

\* What is applied stays applied, with its intents.
LEMMA LinkedStays ==
  ASSUME TypeInv, NEW n, Linked(n), [Next]_vars
  PROVE  Linked(n)'
<1>1. PICK t \in Applied : n \in settlement[t].intents
  BY DEF Linked
<1>2. t \in Settlements /\ settlement[t] # None /\ settlement[t].phase \in {"applied", "done"}
  BY <1>1 DEF Applied
<1>3. settlement \in [Settlements -> {None} \union SettlementRecords]
  BY DEF TypeInv, RecordsTyped
<1>4. CASE UNCHANGED settlement
  BY <1>1, <1>4 DEF Linked, Applied
<1>5. ASSUME NEW s \in Settlements,
             \/ SettleUser(s) \/ BeginSettlement(s) \/ IndexSettlement(s)
             \/ FinishSettlement(s) \/ AbandonSettlement(s)
      PROVE  Linked(n)'
  <2>1. /\ settlement'[t] # None /\ settlement'[t].phase \in {"applied", "done"}
        /\ settlement'[t].intents = settlement[t].intents
    <3>1. settlement[t] \in SettlementRecords
      BY <1>2, <1>3
    <3>2. CASE t # s
      BY <1>2, <1>3, <1>5, <3>2
      DEF SettleUser, BeginSettlement, IndexSettlement, FinishSettlement, AbandonSettlement
    <3>3. CASE t = s
      <4>1. FinishSettlement(s)
        BY <1>2, <1>5, <3>3 DEF SettleUser, BeginSettlement, IndexSettlement, AbandonSettlement
      <4>2. settlement' = [settlement EXCEPT ![s].phase = "done"]
        BY <4>1 DEF FinishSettlement
      <4>3. settlement'[t] = [settlement[t] EXCEPT !.phase = "done"]
        BY <1>3, <3>3, <4>2
      <4>4. settlement'[t] \in SettlementRecords
        BY <3>1, <4>3 DEF SettlementRecords
      <4> QED
        BY <3>1, <4>3, <4>4, TradingAssumption DEF SettlementRecords
    <3> QED
      BY <3>2, <3>3
  <2> QED
    BY <1>1, <1>2, <2>1 DEF Linked, Applied
<1> QED
  BY <1>4, <1>5, Steps DEF Outside, ExecuteOrder

\* What a settlement accounts for is linked to it, already accounted for, or
\* passed over because it has expired.
LEMMA NewSettlementLinks ==
  ASSUME TypeInv, FillsAreRecorded, ConsumedAreLinked, NEW s \in Settlements, SettleUser(s),
         NEW i \in SettlementTradeIds
  PROVE  /\ i \in DOMAIN trades
         /\ \/ trades[i].order.nonce \in Verified
            \/ Linked(trades[i].order.nonce)
            \/ intent[trades[i].order.nonce].status = "EXPIRED"
<1> DEFINE n == trades[i].order.nonce
<1>1. i \in DOMAIN trades
  BY DEF SettlementTradeIds
<1>2. n \in Nonces
  BY <1>1, FillsAreOfSignedOrders
<1>3. intent[n].status \in {"VERIFIED", "CONSUMED", "EXPIRED"}
  BY <1>1, <1>2 DEF TypeInv, TypeOK, Statuses, FillsAreRecorded
<1> QED
  BY <1>1, <1>2, <1>3 DEF Verified, ConsumedAreLinked

LEMMA StepConsumedLinked ==
  ASSUME TypeInv, ConsumedAreLinked, [Next]_vars
  PROVE  ConsumedAreLinked'
<1> SUFFICES ASSUME NEW n \in Nonces, intent'[n].status = "CONSUMED"
             PROVE  Linked(n)'
  BY DEF ConsumedAreLinked
<1>1. CASE intent[n].status = "CONSUMED"
  BY <1>1, LinkedStays DEF ConsumedAreLinked
<1>2. CASE intent[n].status # "CONSUMED"
  <2>1. /\ intent \in [Nonces -> IntentRecords]
        /\ settlement \in [Settlements -> {None} \union SettlementRecords]
    BY DEF TypeInv, RecordsTyped
  <2>2. intent' # intent
    BY <1>2
  <2>3. ~ Outside
    BY <1>2, <2>2, ExpireIntentKeepsOrders DEF Outside
  <2>4. ASSUME NEW k \in Slots, ExecuteOrder(k)
        PROVE  FALSE
    BY <1>2, <2>1, <2>4 DEF ExecuteOrder
  <2>5. PICK s \in Settlements :
          \/ SettleUser(s) \/ BeginSettlement(s) \/ IndexSettlement(s)
          \/ FinishSettlement(s) \/ AbandonSettlement(s)
    BY <2>3, <2>4, Steps
  <2>6. FinishSettlement(s)
    BY <2>2, <2>5 DEF SettleUser, BeginSettlement, IndexSettlement, AbandonSettlement
  <2>7. n \in settlement[s].intents
    BY <1>2, <2>6 DEF FinishSettlement, ConsumeSignedIntents
  <2>8. settlement[s] \in SettlementRecords
    BY <2>1, <2>6 DEF FinishSettlement
  <2>9. settlement'[s] = [settlement[s] EXCEPT !.phase = "done"]
    BY <2>1, <2>6 DEF FinishSettlement
  <2>10. settlement'[s] \in SettlementRecords
    BY <2>8, <2>9 DEF SettlementRecords
  <2>11. s \in Applied' /\ n \in settlement'[s].intents
    BY <2>7, <2>8, <2>9, <2>10, TradingAssumption DEF Applied, SettlementRecords
  <2> QED
    BY <2>11 DEF Linked
<1> QED
  BY <1>1, <1>2

LEMMA StepExpiredOverdue ==
  ASSUME TypeInv, TypeInv', ExpiredAreOverdue, [Next]_vars
  PROVE  ExpiredAreOverdue'
<1> SUFFICES ASSUME NEW n \in Nonces, intent'[n].status = "EXPIRED"
             PROVE  Overdue(intent[n].order)'
  BY DEF ExpiredAreOverdue
<1>1. intent \in [Nonces -> IntentRecords]
  BY DEF TypeInv, RecordsTyped
<1>2. now \in Nat /\ now' \in Nat /\ now' >= now
  <2>1. now \in Nat
    BY TimesAreNumbers DEF TypeInv, TypeOK
  <2>2. now' = now + 1 \/ UNCHANGED now
    BY DEF Next, Tick, IngestQuote, SetPrice, PostOrder, ExecuteOrder, ExpireIntent,
       SettleUser, BeginSettlement, IndexSettlement, FinishSettlement, AbandonSettlement,
       vars, market
  <2> QED
    BY <2>1, <2>2
<1>3. Overdue(intent[n].order) /\ intent'[n].order = intent[n].order
  <2>1. CASE Outside
    BY <2>1, ExpireIntentKeepsOrders DEF Outside, ExpiredAreOverdue
  <2>2. ASSUME NEW k \in Slots, ExecuteOrder(k)
        PROVE  intent'[n] = intent[n]
    BY <1>1, <2>2 DEF ExecuteOrder
  <2>3. ASSUME NEW s \in Settlements,
               \/ SettleUser(s) \/ BeginSettlement(s) \/ IndexSettlement(s)
               \/ FinishSettlement(s) \/ AbandonSettlement(s)
        PROVE  intent'[n] = intent[n]
    BY <1>1, <2>3
    DEF SettleUser, BeginSettlement, IndexSettlement, FinishSettlement, AbandonSettlement,
        ConsumeSignedIntents, IntentRecords
  <2> QED
    BY <2>1, <2>2, <2>3, Steps DEF ExpiredAreOverdue
<1>4. intent[n].order \in SignedOrders
  BY <1>1, <1>3 DEF TypeInv, TypeOK, IntentRecords
<1> QED
  BY <1>2, <1>3, <1>4, TradingAssumption DEF Overdue

\* An expired intent stays so, or is linked by a settlement that has had it
\* since before it expired.
LEMMA ExpiredStaysOrLinked ==
  ASSUME TypeInv, ConsumedAreLinked', [Next]_vars,
         NEW n \in Nonces, intent[n].status = "EXPIRED"
  PROVE  intent'[n].status = "EXPIRED" \/ Linked(n)'
<1>1. intent \in [Nonces -> IntentRecords]
  BY DEF TypeInv, RecordsTyped
<1>2. CASE Outside
  BY <1>2, ExpireIntentKeepsOrders DEF Outside
<1>3. ASSUME NEW k \in Slots, ExecuteOrder(k)
      PROVE  intent'[n] = intent[n]
  BY <1>1, <1>3 DEF ExecuteOrder, NonceUsable
<1>4. ASSUME NEW s \in Settlements,
             \/ SettleUser(s) \/ BeginSettlement(s) \/ IndexSettlement(s)
             \/ FinishSettlement(s) \/ AbandonSettlement(s)
      PROVE  intent'[n].status \in {"EXPIRED", "CONSUMED"}
  BY <1>1, <1>4
  DEF SettleUser, BeginSettlement, IndexSettlement, FinishSettlement, AbandonSettlement,
      ConsumeSignedIntents, IntentRecords
<1> QED
  BY <1>2, <1>3, <1>4, Steps DEF ConsumedAreLinked

LEMMA StepSettlementsLink ==
  ASSUME TypeInv, TypeInv', FillsAreRecorded, LinkInv, ConsumedAreLinked', [Next]_vars
  PROVE  SettlementsLinkTrades'
<1>1. settlement \in [Settlements -> {None} \union SettlementRecords]
  BY DEF TypeInv, RecordsTyped
<1>2. \A i \in DOMAIN trades : i \in DOMAIN trades' /\ trades'[i] = trades[i]
  <2>1. trades \in Seq(TradeRecords) /\ trades' \in Seq(TradeRecords)
    BY DEF TypeInv, RecordsTyped
  <2>2. CASE UNCHANGED trades
    BY <2>2
  <2>3. ASSUME NEW k \in Slots, ExecuteOrder(k)
        PROVE  UNCHANGED trades \/ \E trade \in TradeRecords : trades' = Append(trades, trade)
    <3>1. slot[k] \in SignedOrders
      BY <2>3 DEF ExecuteOrder, TypeInv, TypeOK
    <3> QED
      BY <2>3, <3>1, PlaceOrderTyped DEF ExecuteOrder, books
  <2>4. ASSUME NEW trade \in TradeRecords, trades' = Append(trades, trade)
        PROVE  \A i \in DOMAIN trades : i \in DOMAIN trades' /\ trades'[i] = trades[i]
    BY <2>1, <2>4
  <2>5. UNCHANGED trades \/ \E k \in Slots : ExecuteOrder(k)
    BY Steps, SettlementStepKeepsOrders DEF Outside, books
  <2> QED
    BY <2>2, <2>3, <2>4, <2>5
<1> SUFFICES ASSUME NEW s \in Settlements, settlement'[s] # None, NEW i \in settlement'[s].tradeIds
             PROVE  /\ i \in DOMAIN trades'
                    /\ \/ trades'[i].order.nonce \in settlement'[s].intents
                       \/ \E t \in Applied' : trades'[i].order.nonce \in settlement'[t].intents
                       \/ intent'[trades'[i].order.nonce].status = "EXPIRED"
  BY DEF SettlementsLinkTrades, Linked
<1>3. CASE /\ settlement[s] # None
           /\ settlement'[s].tradeIds = settlement[s].tradeIds
           /\ settlement'[s].intents = settlement[s].intents
  <2>1. i \in DOMAIN trades /\ trades[i].order.nonce \in Nonces
    BY <1>3, FillsAreOfSignedOrders DEF LinkInv, SettlementsLinkTrades
  <2>2. PICK n \in Nonces : n = trades[i].order.nonce
    BY <2>1
  <2>3. i \in DOMAIN trades' /\ trades'[i].order.nonce = n
    BY <1>2, <2>1, <2>2
  <2>4. n \in settlement[s].intents \/ Linked(n) \/ intent[n].status = "EXPIRED"
    BY <1>3, <2>2 DEF LinkInv, SettlementsLinkTrades
  <2>5. n \in settlement[s].intents \/ Linked(n)' \/ intent'[n].status = "EXPIRED"
    BY <2>4, LinkedStays, ExpiredStaysOrLinked DEF LinkInv
  <2> QED
    BY <1>3, <2>3, <2>5 DEF Linked
<1>4. CASE /\ SettleUser(s)
           /\ settlement'[s].tradeIds = SettlementTradeIds
           /\ settlement'[s].intents = Verified
  <2>1. i \in DOMAIN trades /\ trades[i].order.nonce \in Nonces
    BY <1>4, FillsAreOfSignedOrders DEF SettlementTradeIds
  <2>2. PICK n \in Nonces : n = trades[i].order.nonce
    BY <2>1
  <2>3. i \in DOMAIN trades' /\ trades'[i].order.nonce = n
    BY <1>2, <2>1, <2>2
  <2>4. n \in Verified \/ Linked(n) \/ intent[n].status = "EXPIRED"
    BY <1>4, <2>2, NewSettlementLinks DEF LinkInv
  <2>5. n \in Verified \/ Linked(n)' \/ intent'[n].status = "EXPIRED"
    BY <2>4, LinkedStays, ExpiredStaysOrLinked DEF LinkInv
  <2> QED
    BY <1>4, <2>3, <2>5 DEF Linked
<1>5. CASE UNCHANGED settlement
  BY <1>3, <1>5
<1>6. ASSUME NEW r \in Settlements, r # s,
             \/ SettleUser(r) \/ BeginSettlement(r) \/ IndexSettlement(r)
             \/ FinishSettlement(r) \/ AbandonSettlement(r)
      PROVE  settlement'[s] = settlement[s]
  BY <1>1, <1>6 DEF SettleUser, BeginSettlement, IndexSettlement, FinishSettlement,
                    AbandonSettlement
<1>7. CASE SettleUser(s)
  BY <1>1, <1>4, <1>7 DEF SettleUser
<1>8. CASE \/ BeginSettlement(s) \/ IndexSettlement(s)
           \/ FinishSettlement(s) \/ AbandonSettlement(s)
  <2>1. settlement[s] \in SettlementRecords
    BY <1>1, <1>8 DEF BeginSettlement, IndexSettlement, FinishSettlement, AbandonSettlement
  <2>2. \/ settlement'[s] = settlement[s]
        \/ \E phase \in {"begun", "applied", "done"} :
             settlement'[s] = [settlement[s] EXCEPT !.phase = phase]
    BY <1>1, <1>8 DEF BeginSettlement, IndexSettlement, FinishSettlement, AbandonSettlement
  <2> QED
    BY <1>3, <1>8, <2>1, <2>2
    DEF BeginSettlement, IndexSettlement, FinishSettlement, AbandonSettlement, SettlementRecords
<1> QED
  BY <1>3, <1>5, <1>6, <1>7, <1>8, Steps DEF Outside, ExecuteOrder

\* However settlements, orders and deadlines interleave, the signature behind
\* every trade a finished settlement accounts for is linked to it or to another
\* settlement that was applied, or was marked expired after its deadline.
THEOREM LinkTheorem == Spec => []SettledTradesAreLinked
<1>1. Init => LinkInv
  BY DEF Init, LinkInv, ConsumedAreLinked, ExpiredAreOverdue, SettlementsLinkTrades
<1>2. TypeInv /\ TypeInv' /\ SignedInv /\ LinkInv /\ [Next]_vars => LinkInv'
  BY StepConsumedLinked, StepExpiredOverdue, StepSettlementsLink DEF LinkInv, SignedInv
<1>3. TypeInv /\ SignedInv /\ LinkInv => SettledTradesAreLinked
  <2> SUFFICES ASSUME TypeInv, SignedInv, LinkInv,
                      NEW s \in Settlements, settlement[s] # None, settlement[s].phase = "done",
                      NEW i \in settlement[s].tradeIds
               PROVE  LET n == trades[i].order.nonce IN
                        \/ \E t \in Applied : n \in settlement[t].intents
                        \/ intent[n].status = "EXPIRED" /\ Overdue(trades[i].order)
    BY DEF SettledTradesAreLinked
  <2> DEFINE n == trades[i].order.nonce
  <2>1. i \in DOMAIN trades /\ n \in Nonces
    BY FillsAreOfSignedOrders DEF LinkInv, SettlementsLinkTrades
  <2>2. CASE intent[n].status = "EXPIRED"
    BY <2>1, <2>2 DEF LinkInv, ExpiredAreOverdue, SignedInv, FillsAreRecorded
  <2>3. CASE n \in settlement[s].intents \/ Linked(n)
    BY <2>3 DEF Linked, Applied
  <2> QED
    BY <2>2, <2>3 DEF LinkInv, SettlementsLinkTrades
<1> QED
  BY <1>1, <1>2, <1>3, Typed, Signed, PTL DEF Spec

-----------------------------------------------------------------------------
(* Sums over fills. *)

LEMMA OneMoreTerm ==
  ASSUME NEW n \in Nat, NEW f \in Terms(n), NEW g \in Terms(n + 1),
         \A k \in 1..n : g[k] = f[k]
  PROVE  /\ SumTo(f, n) \in Int /\ g[n + 1] \in Int
         /\ SumTo(g, n + 1) = SumTo(f, n) + g[n + 1]
<1>1. n \in 0..n /\ n \in 0..(n + 1) /\ n + 1 \in 0..(n + 1) /\ n + 1 \in 1..(n + 1)
      /\ n + 1 \in Nat /\ n =< n + 1 /\ n + 1 > 0 /\ (n + 1) - 1 = n
  OBVIOUS
<1>2. SumTo(f, n) = SumTo(g, n)
  BY <1>1, SumToAgree
<1>3. SumTo(g, n + 1) = SumTo(g, n) + g[n + 1]
  <2>1. SumTo(g, n + 1) = SumTo(g, (n + 1) - 1) + g[n + 1]
    BY <1>1, SumToEquations
  <2> QED
    BY <1>1, <2>1
<1>4. SumTo(f, n) \in Int
  BY <1>1, SumToEquations
<1>5. g[n + 1] \in Int
  BY <1>1, TermType
<1> QED
  BY <1>2, <1>3, <1>4, <1>5

\* One more fill adds its share to each of the sums.
LEMMA OneMoreFill ==
  ASSUME NEW fills \in Seq(TradeRecords), NEW fill \in TradeRecords
  PROVE  /\ Realized(fills) \in Int
         /\ Realized(Append(fills, fill)) = Realized(fills) + fill.realizedPnlDelta
         /\ NetPnl(fills) \in Int
         /\ NetPnl(Append(fills, fill)) = NetPnl(fills) + (fill.realizedPnlDelta - fill.fee)
         /\ Received(fills) \in Int
         /\ Received(Append(fills, fill)) =
              Received(fills) + (IF fill.order.side = "SELL" THEN fill.notional ELSE 0)
         /\ Paid(fills) \in Int
         /\ Paid(Append(fills, fill)) =
              Paid(fills) + (IF fill.order.side = "BUY" THEN fill.notional ELSE 0)
         /\ Bought(fills) \in Int
         /\ Bought(Append(fills, fill)) =
              Bought(fills) + (IF fill.order.side = "BUY" THEN fill.quantity ELSE 0)
<1>1. PICK n \in Nat : n = Len(fills)
  OBVIOUS
<1> DEFINE more == Append(fills, fill)
<1>2. /\ more \in Seq(TradeRecords) /\ Len(more) = n + 1
      /\ DOMAIN fills = 1..n /\ DOMAIN more = 1..(n + 1)
      /\ \A k \in 1..n : more[k] = fills[k] /\ fills[k] \in TradeRecords
      /\ more[n + 1] = fill
      /\ \A k \in 1..(n + 1) : more[k] \in TradeRecords
      /\ n + 1 \in 1..(n + 1) /\ \A k \in 1..n : k \in 1..(n + 1)
  BY <1>1
<1>3. \A t \in TradeRecords :
        /\ t.realizedPnlDelta \in Int /\ t.fee \in Nat /\ t.notional \in Nat /\ t.quantity \in Nat
        /\ t.realizedPnlDelta - t.fee \in Int
  BY DEF TradeRecords
<1> HIDE DEF more
<1>4. /\ Realized(fills) \in Int
      /\ Realized(more) = Realized(fills) + fill.realizedPnlDelta
  <2> DEFINE f == [k \in DOMAIN fills |-> fills[k].realizedPnlDelta]
             g == [k \in DOMAIN more |-> more[k].realizedPnlDelta]
  <2>1. /\ f \in Terms(n) /\ g \in Terms(n + 1) /\ \A k \in 1..n : g[k] = f[k]
        /\ g[n + 1] = fill.realizedPnlDelta
    BY <1>2, <1>3 DEF Terms
  <2>2. Realized(fills) = SumTo(f, n) /\ Realized(more) = SumTo(g, n + 1)
    BY <1>1, <1>2 DEF Realized
  <2> HIDE DEF f, g
  <2> QED
    BY <2>1, <2>2, OneMoreTerm
<1>5. /\ NetPnl(fills) \in Int
      /\ NetPnl(more) = NetPnl(fills) + (fill.realizedPnlDelta - fill.fee)
  <2> DEFINE f == [k \in DOMAIN fills |-> fills[k].realizedPnlDelta - fills[k].fee]
             g == [k \in DOMAIN more |-> more[k].realizedPnlDelta - more[k].fee]
  <2>1. /\ f \in Terms(n) /\ g \in Terms(n + 1) /\ \A k \in 1..n : g[k] = f[k]
        /\ g[n + 1] = fill.realizedPnlDelta - fill.fee
    BY <1>2, <1>3 DEF Terms
  <2>2. NetPnl(fills) = SumTo(f, n) /\ NetPnl(more) = SumTo(g, n + 1)
    BY <1>1, <1>2 DEF NetPnl
  <2> HIDE DEF f, g
  <2> QED
    BY <2>1, <2>2, OneMoreTerm
<1>6. /\ Received(fills) \in Int
      /\ Received(more) =
           Received(fills) + (IF fill.order.side = "SELL" THEN fill.notional ELSE 0)
  <2> DEFINE f == [k \in DOMAIN fills |->
                     IF fills[k].order.side = "SELL" THEN fills[k].notional ELSE 0]
             g == [k \in DOMAIN more |->
                     IF more[k].order.side = "SELL" THEN more[k].notional ELSE 0]
  <2>1. /\ f \in Terms(n) /\ g \in Terms(n + 1) /\ \A k \in 1..n : g[k] = f[k]
        /\ g[n + 1] = IF fill.order.side = "SELL" THEN fill.notional ELSE 0
    BY <1>2, <1>3 DEF Terms
  <2>2. Received(fills) = SumTo(f, n) /\ Received(more) = SumTo(g, n + 1)
    BY <1>1, <1>2 DEF Received
  <2> HIDE DEF f, g
  <2> QED
    BY <2>1, <2>2, OneMoreTerm
<1>7. /\ Paid(fills) \in Int
      /\ Paid(more) = Paid(fills) + (IF fill.order.side = "BUY" THEN fill.notional ELSE 0)
  <2> DEFINE f == [k \in DOMAIN fills |->
                     IF fills[k].order.side = "BUY" THEN fills[k].notional ELSE 0]
             g == [k \in DOMAIN more |->
                     IF more[k].order.side = "BUY" THEN more[k].notional ELSE 0]
  <2>1. /\ f \in Terms(n) /\ g \in Terms(n + 1) /\ \A k \in 1..n : g[k] = f[k]
        /\ g[n + 1] = IF fill.order.side = "BUY" THEN fill.notional ELSE 0
    BY <1>2, <1>3 DEF Terms
  <2>2. Paid(fills) = SumTo(f, n) /\ Paid(more) = SumTo(g, n + 1)
    BY <1>1, <1>2 DEF Paid
  <2> HIDE DEF f, g
  <2> QED
    BY <2>1, <2>2, OneMoreTerm
<1>8. /\ Bought(fills) \in Int
      /\ Bought(more) = Bought(fills) + (IF fill.order.side = "BUY" THEN fill.quantity ELSE 0)
  <2> DEFINE f == [k \in DOMAIN fills |->
                     IF fills[k].order.side = "BUY" THEN fills[k].quantity ELSE 0]
             g == [k \in DOMAIN more |->
                     IF more[k].order.side = "BUY" THEN more[k].quantity ELSE 0]
  <2>1. /\ f \in Terms(n) /\ g \in Terms(n + 1) /\ \A k \in 1..n : g[k] = f[k]
        /\ g[n + 1] = IF fill.order.side = "BUY" THEN fill.quantity ELSE 0
    BY <1>2, <1>3 DEF Terms
  <2>2. Bought(fills) = SumTo(f, n) /\ Bought(more) = SumTo(g, n + 1)
    BY <1>1, <1>2 DEF Bought
  <2> HIDE DEF f, g
  <2> QED
    BY <2>1, <2>2, OneMoreTerm
<1> QED
  BY <1>4, <1>5, <1>6, <1>7, <1>8 DEF more

LEMMA NoFills ==
  /\ Realized(<<>>) = 0 /\ NetPnl(<<>>) = 0 /\ Received(<<>>) = 0
  /\ Paid(<<>>) = 0 /\ Bought(<<>>) = 0
<1>1. ASSUME NEW f, f \in Terms(0)
      PROVE  SumTo(f, Len(<<>>)) = 0
  <2>1. 0 \in Nat /\ 0 \in 0..0 /\ Len(<<>>) = 0
    OBVIOUS
  <2> QED
    BY <1>1, <2>1, SumToEquations
<1>2. DOMAIN <<>> = 1..0 /\ 1..0 = {}
  OBVIOUS
<1>3. [k \in DOMAIN <<>> |-> <<>>[k].realizedPnlDelta] \in Terms(0)
  BY <1>2 DEF Terms
<1>4. [k \in DOMAIN <<>> |-> <<>>[k].realizedPnlDelta - <<>>[k].fee] \in Terms(0)
  BY <1>2 DEF Terms
<1>5. [k \in DOMAIN <<>> |-> IF <<>>[k].order.side = "SELL" THEN <<>>[k].notional ELSE 0]
        \in Terms(0)
  BY <1>2 DEF Terms
<1>6. [k \in DOMAIN <<>> |-> IF <<>>[k].order.side = "BUY" THEN <<>>[k].notional ELSE 0]
        \in Terms(0)
  BY <1>2 DEF Terms
<1>7. [k \in DOMAIN <<>> |-> IF <<>>[k].order.side = "BUY" THEN <<>>[k].quantity ELSE 0]
        \in Terms(0)
  BY <1>2 DEF Terms
<1> QED
  BY <1>1, <1>3, <1>4, <1>5, <1>6, <1>7 DEF Realized, NetPnl, Received, Paid, Bought

\* What a filled order does to the books.
LEMMA PlaceOrderFills ==
  ASSUME TypeInv, NEW k \in Slots, ExecuteOrder(k)
  PROVE  \/ UNCHANGED books
         \/ LET order == slot[k]
                trade == TradeOf(order) IN
            /\ order \in SignedOrders /\ quote # None
            /\ CanFill(order.side, trade.quantity)
            /\ trade \in TradeRecords /\ trades' = Append(trades, trade)
            /\ position' = PositionAfter(order.side, trade.quantity, trade.price)
            /\ pending' = pending + (trade.realizedPnlDelta - trade.fee)
<1> DEFINE order == slot[k]
           trade == TradeOf(order)
<1>1. order \in SignedOrders
  BY DEF ExecuteOrder, TypeInv, TypeOK
<1>2. UNCHANGED books \/ PlaceOrder(order)
  BY DEF ExecuteOrder, books
<1>3. CASE PlaceOrder(order) /\ ~ UNCHANGED books
  <2>1. quote # None /\ trade \in TradeRecords /\ trades' = Append(trades, trade)
    BY <1>1, <1>3, PlaceOrderTyped
  <2>2. /\ CanFill(order.side, trade.quantity)
        /\ position' = PositionAfter(order.side, trade.quantity, trade.price)
        /\ pending' = pending + (trade.realizedPnlDelta - trade.fee)
    BY <1>3 DEF PlaceOrder
  <2> QED
    BY <1>1, <2>1, <2>2
<1> QED
  BY <1>2, <1>3

-----------------------------------------------------------------------------
(* The books explain the trades. *)

Moved(amount) == FromMicroUsdc(ToMicroUsdc(amount))

Shares == [s \in Settlements |-> IF s \in Applied THEN Moved(settlement[s].amount) ELSE 0]

LEMMA SettledType ==
  ASSUME TypeInv
  PROVE  /\ Shares \in [Settlements -> Int] /\ Settled = SumOver(Settlements, Shares)
         /\ Settled \in Int
         /\ IsFiniteSet(Applied) /\ Cardinality(Applied) \in Nat
<1>1. \A s \in Applied : settlement[s].amount \in Int
  BY DEF TypeInv, RecordsTyped, SettlementRecords, Applied
<1>2. Shares \in [Settlements -> Int]
  BY <1>1, ConversionLeavesDust DEF Shares, Moved
<1>3. Settled = SumOver(Settlements, Shares)
  BY DEF Settled, Shares, Moved
<1>4. IsFiniteSet(Settlements)
  BY TradingAssumption
<1>5. SumOver(Settlements, Shares) \in Int
  BY <1>2, <1>4, SumType
<1>6. Applied \subseteq Settlements
  BY DEF Applied
<1>7. IsFiniteSet(Applied)
  BY <1>4, <1>6, FS_Subset
<1> QED
  BY <1>2, <1>3, <1>5, <1>7, FS_CardinalityType

\* What leaves the applied settlements and their amounts alone leaves the sum
\* of what was settled alone.
LEMMA SettledKept ==
  ASSUME Applied' = Applied,
         \A s \in Applied : settlement'[s].amount = settlement[s].amount
  PROVE  Settled' = Settled
<1>1. \A s \in Settlements :
        (IF s \in Applied THEN FromMicroUsdc(ToMicroUsdc(settlement[s].amount)) ELSE 0)
          = (IF s \in Applied' THEN FromMicroUsdc(ToMicroUsdc(settlement'[s].amount)) ELSE 0)
  OBVIOUS
<1> QED
  BY <1>1 DEF Settled

\* An applied settlement adds what it moved.
LEMMA SettledGrows ==
  ASSUME TypeInv, TypeInv', NEW s \in Settlements, s \notin Applied,
         Applied' = Applied \union {s},
         \A t \in Applied' : settlement'[t].amount = settlement[t].amount
  PROVE  /\ Settled' = Settled + Moved(settlement[s].amount)
         /\ Cardinality(Applied') = Cardinality(Applied) + 1
<1>1. /\ Shares \in [Settlements -> Int] /\ Settled = SumOver(Settlements, Shares)
      /\ IsFiniteSet(Applied)
  BY SettledType
<1>2. Shares' \in [Settlements -> Int] /\ Settled' = SumOver(Settlements, Shares')
  <2>1. \A t \in Applied' : settlement'[t].amount \in Int
    BY DEF TypeInv, RecordsTyped, SettlementRecords, Applied
  <2>2. Shares' \in [Settlements -> Int]
    BY <2>1, ConversionLeavesDust DEF Shares, Moved
  <2> QED
    BY <2>2 DEF Settled, Shares, Moved
<1>3. \A t \in Settlements \ {s} : Shares'[t] = Shares[t]
  BY DEF Shares
<1>4. Shares[s] = 0 /\ Shares'[s] = Moved(settlement[s].amount)
  BY DEF Shares
<1>5. PICK f \in [Settlements -> Int] : f = Shares
  BY <1>1
<1>6. PICK g \in [Settlements -> Int] : g = Shares'
  BY <1>2
<1>7. SumOver(Settlements, g) = SumOver(Settlements, f) + g[s] - f[s]
  <2>1. \A t \in Settlements \ {s} : g[t] = f[t]
    BY <1>3, <1>5, <1>6
  <2>2. IsFiniteSet(Settlements)
    BY TradingAssumption
  <2> QED
    BY <2>1, <2>2, SumDifference
<1>8. SumOver(Settlements, f) \in Int /\ f[s] = 0 /\ g[s] \in Int
  BY <1>4, <1>5, SumType, TradingAssumption
<1>9. Settled' = Settled + Moved(settlement[s].amount)
  BY <1>1, <1>2, <1>4, <1>5, <1>6, <1>7, <1>8
<1>10. Cardinality(Applied') = Cardinality(Applied) + 1
  BY <1>1, FS_AddElement
<1> QED
  BY <1>9, <1>10

\* The books are off by E; a settlement that drops dust takes at most one unit
\* less the last decimal off them.
LEMMA DustBound ==
  ASSUME NEW left \in Int
  PROVE  /\ DropDust(left) \in Int
         /\ Magnitude(left - DropDust(left)) <= MicroUnit - 1
BY MoneyAssumption DEF DropDust, Magnitude

\* The books' gap grows by what was dropped.
LEMMA GapAfter ==
  ASSUME NEW n \in Int, NEW before \in Int, NEW after \in Int, NEW settled \in Int,
         NEW m \in Int, NEW gap \in Int, NEW lost \in Int,
         gap = n - before - settled, lost = before - m - after
  PROVE  n - after - (settled + m) = gap + lost
OBVIOUS

LEMMA ApplyExplained ==
  ASSUME TypeInv, TypeInv', BooksExplainTrades, NEW s \in Settlements,
         settlement[s] # None, settlement[s].phase = "begun", ApplySettlement(s),
         UNCHANGED trades, Applied' = Applied \union {s},
         \A t \in Applied' : settlement'[t].amount = settlement[t].amount
  PROVE  BooksExplainTrades'
<1> DEFINE moved == Moved(settlement[s].amount)
           left == pending - moved
           dust == left - DropDust(left)
<1>1. s \notin Applied
  BY DEF Applied
<1>2. /\ Settled' = Settled + moved
      /\ Cardinality(Applied') = Cardinality(Applied) + 1
  BY <1>1, SettledGrows
<1>3. Settled \in Int /\ Cardinality(Applied) \in Nat
  BY SettledType
<1>4. pending \in Int /\ settlement[s].amount \in Int /\ trades \in Seq(TradeRecords)
  BY DEF TypeInv, TypeOK, RecordsTyped, SettlementRecords
<1>5. moved \in Int
  BY <1>4, ConversionLeavesDust DEF Moved
<1>6. pending' = DropDust(left)
  BY DEF ApplySettlement, Moved
<1>7. left \in Int /\ DropDust(left) \in Int /\ Magnitude(dust) <= MicroUnit - 1
  <2>1. left \in Int
    BY <1>4, <1>5
  <2> HIDE DEF left
  <2> QED
    BY <2>1, DustBound
<1>8. NetPnl(trades) \in Int
  <2>1. trades = <<>> \/ TradeRecords # {}
    BY <1>4
  <2>2. CASE trades = <<>>
    BY <2>2, NoFills
  <2>3. CASE TradeRecords # {}
    BY <1>4, <2>3, OneMoreFill
  <2> QED
    BY <2>1, <2>2, <2>3
<1>9. PICK e \in Int : e = NetPnl(trades) - pending - Settled
  BY <1>3, <1>4, <1>8
<1>10. /\ Magnitude(e) <= (MicroUnit - 1) * Cardinality(Applied)
  BY <1>9 DEF BooksExplainTrades
<1>11. NetPnl(trades)' - pending' - Settled' = e + dust
  <2> HIDE DEF moved
  <2>1. dust = pending - moved - pending'
    BY <1>6
  <2>2. NetPnl(trades)' = NetPnl(trades) /\ pending' \in Int
    BY <1>6, <1>7
  <2>3. dust \in Int
    BY <1>7
  <2> HIDE DEF dust, left
  <2>4. PICK n \in Int : n = NetPnl(trades)
    BY <1>8
  <2>5. PICK settled \in Int : settled = Settled
    BY <1>3
  <2>6. PICK before \in Int : before = pending
    BY <1>4
  <2>7. PICK after \in Int : after = pending'
    BY <2>2
  <2>8. PICK m \in Int : m = moved
    BY <1>5
  <2>9. PICK lost \in Int : lost = dust
    BY <2>3
  <2>10. e = n - before - settled /\ lost = before - m - after
    BY <1>9, <2>1, <2>4, <2>5, <2>6, <2>7, <2>8, <2>9
  <2>11. n - after - (settled + m) = e + lost
    BY <2>10, GapAfter
  <2> QED
    BY <1>2, <2>2, <2>4, <2>5, <2>7, <2>8, <2>9, <2>11
<1>12. (MicroUnit - 1) * Cardinality(Applied')
         = (MicroUnit - 1) * Cardinality(Applied) + (MicroUnit - 1)
  <2>1. PICK c \in Nat : c = Cardinality(Applied)
    BY <1>3
  <2>2. PICK m \in Int : m = MicroUnit - 1
    BY MoneyAssumption
  <2>3. m * (c + 1) = m * c + m
    BY SMT
  <2> QED
    BY <1>2, <2>1, <2>2, <2>3
<1>13. ASSUME NEW x \in Int, NEW y \in Int, NEW b \in Int, NEW d \in Int,
              Magnitude(x) <= b, Magnitude(y) <= d
       PROVE  Magnitude(x + y) <= b + d
  BY <1>13 DEF Magnitude
<1>14. (MicroUnit - 1) * Cardinality(Applied) \in Int /\ MicroUnit - 1 \in Int /\ dust \in Int
  BY <1>3, <1>7, MoneyAssumption, MultiplyIntegers
<1>15. Magnitude(e + dust) <= (MicroUnit - 1) * Cardinality(Applied) + (MicroUnit - 1)
  <2> HIDE DEF dust
  <2> QED
    BY <1>7, <1>10, <1>13, <1>14
<1> QED
  BY <1>11, <1>12, <1>15 DEF BooksExplainTrades

\* A step that applies no settlement and settles nothing leaves the explanation
\* as good as it was.
LEMMA ExplanationKept ==
  ASSUME BooksExplainTrades, Applied' = Applied,
         \A s \in Applied : settlement'[s].amount = settlement[s].amount,
         NetPnl(trades)' - pending' = NetPnl(trades) - pending
  PROVE  BooksExplainTrades'
<1>1. Settled' = Settled
  BY SettledKept
<1>2. NetPnl(trades)' - pending' - Settled' = NetPnl(trades) - pending - Settled
  BY <1>1
<1>3. Cardinality(Applied') = Cardinality(Applied)
  OBVIOUS
<1> QED
  BY <1>2, <1>3 DEF BooksExplainTrades

\* A settlement's step either applies it or applies nothing.
LEMMA SettlementStepApplies ==
  ASSUME TypeInv, NEW s \in Settlements,
         \/ SettleUser(s) \/ BeginSettlement(s) \/ IndexSettlement(s)
         \/ FinishSettlement(s) \/ AbandonSettlement(s)
  PROVE  /\ UNCHANGED trades
         /\ \A t \in Applied : settlement'[t].amount = settlement[t].amount
         /\ \/ Applied' = Applied /\ UNCHANGED pending
            \/ /\ settlement[s] # None /\ settlement[s].phase = "begun" /\ ApplySettlement(s)
               /\ Applied' = Applied \union {s}
               /\ settlement'[s].amount = settlement[s].amount
<1>1. settlement \in [Settlements -> {None} \union SettlementRecords]
  BY DEF TypeInv, RecordsTyped
<1>2. \A r \in SettlementRecords : r # None
  BY TradingAssumption
<1>3. UNCHANGED trades
  BY DEF SettleUser, BeginSettlement, IndexSettlement, FinishSettlement, AbandonSettlement, books
<1>4. \A t \in Settlements \ {s} : settlement'[t] = settlement[t]
  BY <1>1 DEF SettleUser, BeginSettlement, IndexSettlement, FinishSettlement, AbandonSettlement
<1>5. \A t \in Settlements \ {s} : t \in Applied' <=> t \in Applied
  BY <1>4 DEF Applied
<1>6. Applied \subseteq Settlements /\ Applied' \subseteq Settlements
  BY DEF Applied
<1>7. CASE SettleUser(s) \/ BeginSettlement(s) \/ AbandonSettlement(s)
  <2>1. UNCHANGED pending
    BY <1>7 DEF SettleUser, BeginSettlement, AbandonSettlement, books
  <2>2. s \notin Applied
    BY <1>7 DEF SettleUser, BeginSettlement, AbandonSettlement, Applied
  <2>3. s \notin Applied'
    <3>1. CASE SettleUser(s)
      <4>1. settlement'[s].phase = "built"
        BY <1>1, <3>1 DEF SettleUser
      <4> QED
        BY <4>1 DEF Applied
    <3>2. CASE BeginSettlement(s)
      <4>1. settlement[s] \in SettlementRecords
        BY <1>1, <3>2 DEF BeginSettlement
      <4>2. settlement'[s] = None \/ settlement'[s].phase = "begun"
        BY <1>1, <3>2, <4>1 DEF BeginSettlement, SettlementRecords
      <4> QED
        BY <4>2 DEF Applied
    <3>3. CASE AbandonSettlement(s)
      <4>1. settlement'[s] = None
        BY <1>1, <3>3 DEF AbandonSettlement
      <4> QED
        BY <4>1 DEF Applied
    <3> QED
      BY <1>7, <3>1, <3>2, <3>3
  <2>4. Applied' = Applied
    BY <1>5, <1>6, <2>2, <2>3
  <2> QED
    BY <1>3, <1>4, <1>6, <2>1, <2>2, <2>4
<1>8. CASE IndexSettlement(s) \/ FinishSettlement(s)
  <2>1. /\ settlement[s] \in SettlementRecords /\ settlement[s] # None
        /\ settlement[s].phase \in {"begun", "applied"}
    BY <1>1, <1>8 DEF IndexSettlement, FinishSettlement
  <2>2. \E phase \in {"applied", "done"} :
          settlement'[s] = [settlement[s] EXCEPT !.phase = phase]
    BY <1>1, <1>8 DEF IndexSettlement, FinishSettlement
  <2>3. /\ settlement'[s] \in SettlementRecords
        /\ settlement'[s].phase \in {"applied", "done"}
        /\ settlement'[s].amount = settlement[s].amount
    BY <2>1, <2>2 DEF SettlementRecords
  <2>4. s \in Applied'
    BY <1>2, <2>3 DEF Applied
  <2>5. \A t \in Applied : settlement'[t].amount = settlement[t].amount
    BY <1>4, <1>6, <2>3
  <2>6. CASE settlement[s].phase = "begun"
    <3>1. ApplySettlement(s)
      BY <1>8, <2>6 DEF IndexSettlement, FinishSettlement
    <3>2. Applied' = Applied \union {s}
      BY <1>5, <1>6, <2>4
    <3> QED
      BY <1>3, <2>1, <2>3, <2>5, <2>6, <3>1, <3>2
  <2>7. CASE settlement[s].phase = "applied"
    <3>1. UNCHANGED pending
      BY <1>8, <2>7 DEF IndexSettlement, FinishSettlement
    <3>2. s \in Applied
      BY <2>1, <2>7 DEF Applied
    <3>3. Applied' = Applied
      BY <1>5, <1>6, <2>4, <3>2
    <3> QED
      BY <1>3, <2>5, <3>1, <3>3
  <2> QED
    BY <2>1, <2>6, <2>7
<1> QED
  BY <1>7, <1>8

LEMMA ExecuteOrderExplained ==
  ASSUME TypeInv, BooksExplainTrades, NEW k \in Slots, ExecuteOrder(k)
  PROVE  BooksExplainTrades'
<1>1. Applied' = Applied /\ \A s \in Applied : settlement'[s].amount = settlement[s].amount
  BY DEF ExecuteOrder, Applied
<1>2. CASE UNCHANGED books
  <2>1. NetPnl(trades)' - pending' = NetPnl(trades) - pending
    BY <1>2 DEF books
  <2> QED
    BY <1>1, <2>1, ExplanationKept
<1>3. ASSUME NEW trade \in TradeRecords, trades' = Append(trades, trade),
             pending' = pending + (trade.realizedPnlDelta - trade.fee)
      PROVE  BooksExplainTrades'
  <2>1. trades \in Seq(TradeRecords) /\ pending \in Int
    BY DEF TypeInv, TypeOK, RecordsTyped
  <2>2. /\ NetPnl(trades) \in Int
        /\ NetPnl(trades)' = NetPnl(trades) + (trade.realizedPnlDelta - trade.fee)
    BY <1>3, <2>1, OneMoreFill
  <2>3. trade.realizedPnlDelta - trade.fee \in Int
    BY DEF TradeRecords
  <2>4. NetPnl(trades)' - pending' = NetPnl(trades) - pending
    BY <1>3, <2>1, <2>2, <2>3
  <2> QED
    BY <1>1, <2>4, ExplanationKept
<1> QED
  BY <1>2, <1>3, PlaceOrderFills

LEMMA StepExplained ==
  TypeInv /\ TypeInv' /\ BooksExplainTrades /\ [Next]_vars => BooksExplainTrades'
<1> SUFFICES ASSUME TypeInv, TypeInv', BooksExplainTrades, [Next]_vars
             PROVE  BooksExplainTrades'
  OBVIOUS
<1>1. CASE Outside
  <2>1. /\ Applied' = Applied
        /\ \A s \in Applied : settlement'[s].amount = settlement[s].amount
        /\ NetPnl(trades)' - pending' = NetPnl(trades) - pending
    BY <1>1 DEF Outside, books, Applied
  <2> QED
    BY <2>1, ExplanationKept
<1>2. ASSUME NEW k \in Slots, ExecuteOrder(k)
      PROVE  BooksExplainTrades'
  BY <1>2, ExecuteOrderExplained
<1>3. ASSUME NEW s \in Settlements,
             \/ SettleUser(s) \/ BeginSettlement(s) \/ IndexSettlement(s)
             \/ FinishSettlement(s) \/ AbandonSettlement(s)
      PROVE  BooksExplainTrades'
  <2>1. /\ UNCHANGED trades
        /\ \A t \in Applied : settlement'[t].amount = settlement[t].amount
        /\ \/ Applied' = Applied /\ UNCHANGED pending
           \/ /\ settlement[s] # None /\ settlement[s].phase = "begun" /\ ApplySettlement(s)
              /\ Applied' = Applied \union {s}
              /\ settlement'[s].amount = settlement[s].amount
    BY <1>3, SettlementStepApplies
  <2>2. CASE Applied' = Applied /\ UNCHANGED pending
    <3>1. NetPnl(trades)' - pending' = NetPnl(trades) - pending
      BY <2>1, <2>2
    <3> QED
      BY <2>1, <2>2, <3>1, ExplanationKept
  <2>3. CASE /\ settlement[s] # None /\ settlement[s].phase = "begun" /\ ApplySettlement(s)
             /\ Applied' = Applied \union {s}
             /\ settlement'[s].amount = settlement[s].amount
    <3>1. \A t \in Applied' : settlement'[t].amount = settlement[t].amount
      BY <2>1, <2>3
    <3> QED
      BY <2>1, <2>3, <3>1, ApplyExplained
  <2> QED
    BY <2>1, <2>2, <2>3
<1> QED
  BY <1>1, <1>2, <1>3, Steps

\* However orders and settlements interleave, and even if two requests settle
\* the same pending amount, the P&L of all fills after fees is what was settled
\* plus what is pending, up to the dust dropped once per settlement.
THEOREM ExplainTheorem == Spec => []BooksExplainTrades
<1>1. Init => BooksExplainTrades
  <2> SUFFICES ASSUME Init
               PROVE  BooksExplainTrades
    OBVIOUS
  <2>1. Applied = {}
    BY DEF Init, Applied
  <2>2. Cardinality(Applied) = 0
    BY <2>1, FS_EmptySet
  <2>3. Settled = 0
    <3>1. \A s \in Settlements :
            (IF s \in Applied THEN FromMicroUsdc(ToMicroUsdc(settlement[s].amount)) ELSE 0) = 0
      BY <2>1
    <3>2. Settled = SumOver(Settlements, [s \in Settlements |-> 0])
      BY <3>1 DEF Settled
    <3> QED
      BY <3>2, SumOfZeros, TradingAssumption
  <2>4. NetPnl(trades) = 0 /\ pending = 0
    BY NoFills DEF Init
  <2>5. (MicroUnit - 1) * Cardinality(Applied) = 0
    <3>1. MicroUnit - 1 \in Int
      BY MoneyAssumption
    <3> QED
      BY <2>2, <3>1
  <2> QED
    BY <2>3, <2>4, <2>5 DEF BooksExplainTrades, Magnitude
<1> QED
  BY <1>1, Typed, StepExplained, PTL DEF Spec

-----------------------------------------------------------------------------
(* The cash of a closed position. *)

\* What the fills have made on paper: the P&L realized and what the position
\* cost, against the cash that came in and went out.
Gap == Scale * (Realized(trades) - Received(trades) + Paid(trades))
         - position.quantity * position.avgEntryPrice

\* The gap grows by the rounding of each fill at most, and no position is
\* larger than what was bought.
CostInv ==
  /\ 2 * Magnitude(Gap) <= Len(trades) * (5 * Scale + Bought(trades))
  /\ position.quantity <= Bought(trades)

\* A purchase: two costs are cut, the notional and the average price rounded.
LEMMA BuyError ==
  ASSUME TypeInv, NEW q \in Nat, NEW price \in Nat, position.quantity + q > 0
  PROVE  LET after == PositionAfter("BUY", q, price)
             notional == CalculateNotional(q, price) IN
         /\ after.quantity = position.quantity + q
         /\ after.quantity * after.avgEntryPrice \in Int
         /\ 2 * Magnitude(Scale * notional
                          - (after.quantity * after.avgEntryPrice
                               - position.quantity * position.avgEntryPrice))
              <= 5 * Scale + after.quantity
<1> DEFINE held == position.quantity
           average == position.avgEntryPrice
           next == WeightedAveragePrice(held, average, q, price)
           notional == CalculateNotional(q, price)
           after == PositionAfter("BUY", q, price)
<1>1. held \in Nat /\ average \in Nat /\ Scale \in Nat
  BY MoneyAssumption DEF TypeInv, TypeOK
<1>2. after.quantity = held + q /\ after.avgEntryPrice = next
  BY DEF PositionAfter
<1>3. 2 * Magnitude((held + q) * next - (held * average + q * price)) =< (held + q) + 4 * Scale
  <2> HIDE DEF held, average
  <2> QED
    BY <1>1, AveragePriceError DEF held, average
<1>4. 2 * Magnitude(Scale * notional - q * price) =< Scale
  BY NotionalError
<1>5. next \in Nat /\ notional \in Nat
  BY <1>1, AveragePriceType, NotionalType
<1>6. /\ (held + q) * next \in Int /\ held * average \in Int
      /\ q * price \in Int /\ Scale * notional \in Int /\ held + q \in Nat
  <2> HIDE DEF held, average, next, notional
  <2>1. held + q \in Nat
    BY <1>1
  <2> QED
    BY <1>1, <1>5, <2>1, MultiplyIntegers
<1>7. ASSUME NEW v \in Int, NEW h \in Int, NEW p \in Int, NEW c \in Int, NEW t \in Nat,
             2 * Magnitude(v - (h + p)) =< t + 4 * Scale, 2 * Magnitude(c - p) =< Scale
      PROVE  2 * Magnitude(c - (v - h)) <= 5 * Scale + t
  BY <1>1, <1>7 DEF Magnitude
<1>8. 2 * Magnitude(Scale * notional - ((held + q) * next - held * average))
        <= 5 * Scale + (held + q)
  <2> HIDE DEF held, average, next, notional
  <2> QED
    BY <1>3, <1>4, <1>6, <1>7
<1> QED
  BY <1>2, <1>6, <1>8

\* A sale: the P&L and the notional are rounded, the average price stays.
LEMMA SellError ==
  ASSUME TypeInv, NEW q \in Nat, NEW price \in Nat, q <= position.quantity
  PROVE  LET after == PositionAfter("SELL", q, price)
             notional == CalculateNotional(q, price) IN
         /\ after.quantity = position.quantity - q
         /\ after.quantity * after.avgEntryPrice \in Int
         /\ 2 * Magnitude(Scale * (RealizedPnlDelta("SELL", q, price) - notional)
                          - (after.quantity * after.avgEntryPrice
                               - position.quantity * position.avgEntryPrice))
              <= 2 * Scale
<1> DEFINE held == position.quantity
           average == position.avgEntryPrice
           notional == CalculateNotional(q, price)
           pnl == CalculatePnl(q, average, price)
           after == PositionAfter("SELL", q, price)
<1>1. held \in Nat /\ average \in Nat /\ Scale \in Nat /\ held - q \in Nat
  BY MoneyAssumption DEF TypeInv, TypeOK
<1>2. after.quantity = held - q /\ after.avgEntryPrice = IF held = q THEN 0 ELSE average
  BY DEF PositionAfter
<1>3. RealizedPnlDelta("SELL", q, price) = pnl
  BY DEF RealizedPnlDelta
<1>4. 2 * Magnitude(Scale * pnl - (q * price - q * average)) =< Scale
  <2> HIDE DEF average
  <2> QED
    BY <1>1, PnlError DEF average
<1>5. 2 * Magnitude(Scale * notional - q * price) =< Scale
  BY NotionalError
<1>6. notional \in Nat /\ pnl \in Int
  BY <1>1, NotionalType, PnlType
<1>7. after.quantity * after.avgEntryPrice = held * average - q * average
  <2>1. (held - q) * average = held * average - q * average
    <3> HIDE DEF held, average
    <3> QED
      BY <1>1
  <2>2. CASE held = q
    <3>1. after.quantity = 0 /\ after.avgEntryPrice = 0
      BY <1>1, <1>2, <2>2
    <3>2. after.quantity * after.avgEntryPrice = 0
      BY <3>1
    <3>3. held * average - q * average = 0
      <4>1. held * average \in Int
        BY <1>1, MultiplyIntegers
      <4> HIDE DEF held, average
      <4> QED
        BY <2>2, <4>1
    <3> QED
      BY <3>2, <3>3
  <2>3. CASE held # q
    BY <1>2, <2>1, <2>3
  <2> QED
    BY <2>2, <2>3
<1>8. /\ q * average \in Int /\ held * average \in Int /\ q * price \in Int
      /\ Scale * pnl \in Int /\ Scale * notional \in Int
      /\ Scale * (pnl - notional) = Scale * pnl - Scale * notional
  <2> HIDE DEF held, average, notional, pnl
  <2> QED
    BY <1>1, <1>6, MultiplyIntegers
<1>9. ASSUME NEW x \in Int, NEW p \in Int, NEW a \in Int, NEW n \in Int, NEW h \in Int,
             2 * Magnitude(x - (p - a)) =< Scale, 2 * Magnitude(n - p) =< Scale
      PROVE  2 * Magnitude((x - n) - ((h - a) - h)) <= 2 * Scale
  BY <1>1, <1>9 DEF Magnitude
<1>10. 2 * Magnitude(Scale * (pnl - notional) - ((held * average - q * average) - held * average))
         <= 2 * Scale
  <2> HIDE DEF held, average, notional, pnl
  <2> QED
    BY <1>4, <1>5, <1>8, <1>9
<1>11. held * average - q * average \in Int
  <2> HIDE DEF held, average
  <2> QED
    BY <1>8
<1> QED
  BY <1>2, <1>3, <1>7, <1>10, <1>11

LEMMA SumsTyped ==
  ASSUME TypeInv
  PROVE  /\ trades \in Seq(TradeRecords) /\ Len(trades) \in Nat
         /\ Realized(trades) \in Int /\ Received(trades) \in Int
         /\ Paid(trades) \in Int /\ Bought(trades) \in Int
<1>1. trades \in Seq(TradeRecords)
  BY DEF TypeInv, RecordsTyped
<1>2. CASE trades = <<>>
  BY <1>1, <1>2, NoFills
<1>3. CASE TradeRecords # {}
  BY <1>1, <1>3, OneMoreFill
<1> QED
  BY <1>1, <1>2, <1>3

\* One more fill, whose rounding costs no more than is allowed for it.
LEMMA GapGrows ==
  ASSUME NEW gap \in Int, NEW rise \in Int, NEW n \in Nat, NEW before \in Nat, NEW after \in Nat,
         before <= after,
         2 * Magnitude(gap) <= n * (5 * Scale + before),
         2 * Magnitude(rise) <= 5 * Scale + after
  PROVE  2 * Magnitude(gap + rise) <= (n + 1) * (5 * Scale + after)
<1> DEFINE b == 5 * Scale + before
           a == 5 * Scale + after
<1>1. a \in Nat /\ b \in Nat /\ b <= a
  BY MoneyAssumption
<1>2. 2 * Magnitude(gap) <= n * b /\ 2 * Magnitude(rise) <= a
  OBVIOUS
<1> HIDE DEF a, b
<1>3. n * b \in Nat /\ n * a \in Nat
  BY <1>1, MultiplyIntegers
<1>4. n * b <= n * a
  <2>1. PICK d \in Nat : a = b + d
    <3>1. a - b \in Nat /\ a = b + (a - b)
      BY <1>1
    <3> QED
      BY <3>1
  <2>2. n * (b + d) = n * b + n * d
    BY <1>1
  <2>3. n * d \in Nat
    BY MultiplyIntegers
  <2> QED
    BY <1>1, <1>3, <2>1, <2>2, <2>3
<1>5. (n + 1) * a = n * a + a
  BY <1>1
<1>6. ASSUME NEW x \in Nat, NEW y \in Nat, x <= y, 2 * Magnitude(gap) <= x
      PROVE  2 * Magnitude(gap + rise) <= y + a
  BY <1>1, <1>2, <1>6 DEF Magnitude
<1>7. 2 * Magnitude(gap + rise) <= n * a + a
  BY <1>2, <1>3, <1>4, <1>6
<1> QED
  BY <1>5, <1>7 DEF a

LEMMA FillCost ==
  ASSUME TypeInv, CostInv, NEW order \in SignedOrders, quote # None,
         LET trade == TradeOf(order) IN
           /\ CanFill(order.side, trade.quantity)
           /\ trade \in TradeRecords /\ trades' = Append(trades, trade)
           /\ position' = PositionAfter(order.side, trade.quantity, trade.price)
  PROVE  CostInv'
<1> DEFINE trade == TradeOf(order)
           q == trade.quantity
           price == trade.price
           before == position.quantity * position.avgEntryPrice
           after == position'.quantity * position'.avgEntryPrice
           cash == Realized(trades) - Received(trades) + Paid(trades)
           change == IF order.side = "BUY" THEN trade.notional
                                           ELSE trade.realizedPnlDelta - trade.notional
           more == IF order.side = "BUY" THEN q ELSE 0
<1>1. /\ order.side \in {"BUY", "SELL"} /\ Scale \in Nat
      /\ position.quantity \in Nat /\ position.avgEntryPrice \in Nat
  BY TradingAssumption, MoneyAssumption DEF TypeInv, TypeOK
<1>2. /\ trade \in TradeRecords /\ trade.order = order
      /\ trade.notional = CalculateNotional(q, price)
      /\ trade.realizedPnlDelta = RealizedPnlDelta(order.side, q, price)
  BY DEF TradeOf
<1>3. /\ q \in Nat /\ price \in Nat /\ trade.notional \in Nat /\ trade.realizedPnlDelta \in Int
  BY <1>2 DEF TradeRecords
<1>4. /\ trades \in Seq(TradeRecords) /\ Len(trades) \in Nat
      /\ Realized(trades) \in Int /\ Received(trades) \in Int
      /\ Paid(trades) \in Int /\ Bought(trades) \in Int
  BY SumsTyped
<1>5. order.side = "BUY" => trade.realizedPnlDelta = 0
  BY <1>2 DEF RealizedPnlDelta
<1>6. /\ trades' = Append(trades, trade)
      /\ position' = PositionAfter(order.side, q, price)
      /\ CanFill(order.side, q)
  OBVIOUS
<1> HIDE DEF trade
<1>7. /\ Realized(trades)' = Realized(trades) + trade.realizedPnlDelta
      /\ Received(trades)' =
           Received(trades) + (IF order.side = "SELL" THEN trade.notional ELSE 0)
      /\ Paid(trades)' = Paid(trades) + (IF order.side = "BUY" THEN trade.notional ELSE 0)
      /\ Bought(trades)' = Bought(trades) + more
  BY <1>2, <1>4, <1>6, OneMoreFill
<1>8. Len(trades') = Len(trades) + 1
  BY <1>4, <1>6
<1>9. /\ cash \in Int /\ change \in Int /\ more \in Nat
      /\ Realized(trades)' - Received(trades)' + Paid(trades)' = cash + change
  <2>1. CASE order.side = "BUY"
    <3>1. /\ change = trade.notional /\ more = q
          /\ Realized(trades)' = Realized(trades) + 0
          /\ Received(trades)' = Received(trades) + 0
          /\ Paid(trades)' = Paid(trades) + trade.notional
      BY <1>5, <1>7, <2>1
    <3>2. cash \in Int
      BY <1>4
    <3> HIDE DEF q, change, more
    <3> QED
      BY <1>3, <1>4, <3>1, <3>2
  <2>2. CASE order.side = "SELL"
    <3>1. /\ change = trade.realizedPnlDelta - trade.notional /\ more = 0
          /\ Realized(trades)' = Realized(trades) + trade.realizedPnlDelta
          /\ Received(trades)' = Received(trades) + trade.notional
          /\ Paid(trades)' = Paid(trades) + 0
      BY <1>7, <2>2
    <3>2. cash \in Int /\ change \in Int /\ more \in Nat
      BY <1>3, <1>4, <2>2
    <3>3. ASSUME NEW r \in Int, NEW v \in Int, NEW p \in Int, NEW d \in Int, NEW n \in Int
          PROVE  (r + d) - (v + n) + (p + 0) = (r - v + p) + (d - n)
      OBVIOUS
    <3>4. Realized(trades)' - Received(trades)' + Paid(trades)'
            = cash + (trade.realizedPnlDelta - trade.notional)
      BY <1>3, <1>4, <3>1, <3>3
    <3> HIDE DEF cash, change, more
    <3> QED
      BY <3>1, <3>2, <3>4
  <2> QED
    BY <1>1, <2>1, <2>2
<1>10. /\ after \in Int
       /\ 2 * Magnitude(Scale * change - (after - before)) <= 5 * Scale + (Bought(trades) + more)
       /\ position'.quantity <= Bought(trades) + more
  <2>1. position.quantity <= Bought(trades)
    BY DEF CostInv
  <2>2. CASE order.side = "BUY"
    <3>1. position.quantity + q > 0
      BY <1>6, <2>2 DEF CanFill
    <3>2. /\ position'.quantity = position.quantity + q
          /\ after \in Int
          /\ 2 * Magnitude(Scale * trade.notional - (after - before))
               <= 5 * Scale + position'.quantity
      BY <1>2, <1>3, <1>6, <2>2, <3>1, BuyError
    <3>3. position'.quantity <= Bought(trades) + more
      <4>1. more = q
        BY <2>2
      <4> HIDE DEF more, q
      <4>2. position.quantity + q <= Bought(trades) + q
        BY <1>1, <1>3, <1>4, <2>1
      <4> QED
        BY <3>2, <4>1, <4>2
    <3>4. before \in Int /\ Scale * trade.notional \in Int
      BY <1>1, <1>3, MultiplyIntegers
    <3>5. change = trade.notional
      BY <2>2
    <3> DEFINE error == 2 * Magnitude(Scale * trade.notional - (after - before))
    <3>6. error \in Int
      <4> HIDE DEF after, before
      <4> QED
        BY <3>2, <3>4 DEF Magnitude
    <3>7. error <= 5 * Scale + (Bought(trades) + more)
      <4>1. error <= 5 * Scale + position'.quantity /\ position'.quantity \in Nat
        BY <1>1, <1>3, <3>2
      <4> HIDE DEF error, more
      <4> QED
        BY <1>1, <1>4, <1>9, <3>3, <3>6, <4>1
    <3> QED
      BY <3>2, <3>3, <3>5, <3>7
  <2>3. CASE order.side = "SELL"
    <3>1. q <= position.quantity
      BY <1>6, <2>3 DEF CanFill
    <3>2. /\ position'.quantity = position.quantity - q
          /\ after \in Int
          /\ 2 * Magnitude(Scale * (trade.realizedPnlDelta - trade.notional) - (after - before))
               <= 2 * Scale
      BY <1>2, <1>3, <1>6, <2>3, <3>1, SellError
    <3>3. change = trade.realizedPnlDelta - trade.notional /\ more = 0
      BY <2>3
    <3>4. position'.quantity <= Bought(trades) + more
      <4> HIDE DEF more, q
      <4> QED
        BY <1>1, <1>3, <1>4, <2>1, <3>2, <3>3
    <3>5. before \in Int /\ Scale * change \in Int
      BY <1>1, <1>9, MultiplyIntegers
    <3> DEFINE error == 2 * Magnitude(Scale * change - (after - before))
    <3>6. error \in Int /\ error <= 2 * Scale
      <4>1. error <= 2 * Scale
        BY <3>2, <3>3
      <4> HIDE DEF after, before, change
      <4> QED
        BY <3>2, <3>5, <4>1 DEF Magnitude
    <3>7. error <= 5 * Scale + (Bought(trades) + more)
      <4> HIDE DEF error
      <4> QED
        BY <1>1, <1>4, <2>1, <3>3, <3>6
    <3> QED
      BY <3>2, <3>4, <3>7
  <2> QED
    BY <1>1, <2>2, <2>3
<1>11. /\ before \in Int /\ Scale * cash \in Int /\ Scale * change \in Int
       /\ Scale * (cash + change) = Scale * cash + Scale * change
  <2> HIDE DEF cash, change
  <2> QED
    BY <1>1, <1>9, MultiplyIntegers
<1>12. Gap = Scale * cash - before
  BY DEF Gap
<1>13. Gap' = Scale * (cash + change) - after
  BY <1>9 DEF Gap
<1>14. Gap' = Gap + (Scale * change - (after - before))
  <2> HIDE DEF cash, change, after, before
  <2> QED
    BY <1>10, <1>11, <1>12, <1>13
<1>15. PICK gap \in Int : gap = Gap
  <2> HIDE DEF cash, before
  <2> QED
    BY <1>11, <1>12
<1>16. PICK rise \in Int : rise = Scale * change - (after - before)
  <2> HIDE DEF change, after, before
  <2> QED
    BY <1>10, <1>11
<1>17. PICK n \in Nat : n = Len(trades)
  BY <1>4
<1>18. PICK b \in Nat : b = Bought(trades)
  BY <1>1, <1>4 DEF CostInv
<1> HIDE DEF change, after, before, cash, more
<1>19. PICK c \in Nat : c = Bought(trades) + more
  BY <1>9, <1>18
<1>20. 2 * Magnitude(gap) <= n * (5 * Scale + b)
  BY <1>15, <1>17, <1>18 DEF CostInv
<1>21. 2 * Magnitude(rise) <= 5 * Scale + c /\ b <= c
  BY <1>9, <1>10, <1>16, <1>18, <1>19
<1>22. 2 * Magnitude(gap + rise) <= (n + 1) * (5 * Scale + c)
  BY <1>20, <1>21, GapGrows
<1>23. Gap' = gap + rise
  BY <1>14, <1>15, <1>16
<1>24. Bought(trades)' = c /\ Len(trades') = n + 1 /\ position'.quantity <= c
  BY <1>7, <1>8, <1>10, <1>17, <1>19
<1> QED
  BY <1>22, <1>23, <1>24 DEF CostInv

LEMMA StepCost == TypeInv /\ CostInv /\ [Next]_vars => CostInv'
<1> SUFFICES ASSUME TypeInv, CostInv, [Next]_vars
             PROVE  CostInv'
  OBVIOUS
<1>1. CASE UNCHANGED <<position, trades>>
  <2>1. Gap' = Gap
    BY <1>1 DEF Gap
  <2> QED
    BY <1>1, <2>1 DEF CostInv
<1>2. ASSUME NEW k \in Slots, ExecuteOrder(k)
      PROVE  CostInv'
  <2>1. CASE UNCHANGED books
    BY <1>1, <2>1 DEF books
  <2>2. CASE ~ UNCHANGED books
    BY <1>2, <2>2, PlaceOrderFills, FillCost
  <2> QED
    BY <2>1, <2>2
<1>3. ASSUME NEW s \in Settlements,
             \/ SettleUser(s) \/ BeginSettlement(s) \/ IndexSettlement(s)
             \/ FinishSettlement(s) \/ AbandonSettlement(s)
      PROVE  CostInv'
  BY <1>1, <1>3 DEF SettleUser, BeginSettlement, IndexSettlement, FinishSettlement,
                    AbandonSettlement, books
<1>4. CASE Outside
  BY <1>1, <1>4 DEF Outside, books
<1> QED
  BY <1>2, <1>3, <1>4, Steps

\* Whatever is bought and sold, at whatever prices and in whatever parts: when
\* the position is closed, the P&L its fills have realized is the cash they
\* made, up to the rounding of each of them.
THEOREM CashTheorem == Spec => []ClosedPositionMadeItsCash
<1>1. Init => CostInv
  <2> SUFFICES ASSUME Init
               PROVE  CostInv
    OBVIOUS
  <2>1. /\ Realized(trades) = 0 /\ Received(trades) = 0 /\ Paid(trades) = 0
        /\ Bought(trades) = 0 /\ Len(trades) = 0
    BY NoFills DEF Init
  <2>2. position.quantity = 0 /\ position.avgEntryPrice = 0
    BY DEF Init, NoPosition
  <2>3. Gap = 0
    BY <2>1, <2>2, MoneyAssumption DEF Gap
  <2>4. Len(trades) * (5 * Scale + Bought(trades)) = 0
    <3>1. 5 * Scale + 0 \in Int
      BY MoneyAssumption
    <3> QED
      BY <2>1, <3>1
  <2> QED
    BY <2>1, <2>2, <2>3, <2>4 DEF CostInv, Magnitude
<1>2. TypeInv /\ CostInv => ClosedPositionMadeItsCash
  <2> SUFFICES ASSUME TypeInv, CostInv, position.quantity = 0
               PROVE  2 * Scale * Magnitude(Realized(trades) - (Received(trades) - Paid(trades)))
                        <= Len(trades) * (5 * Scale + Bought(trades))
    BY DEF ClosedPositionMadeItsCash
  <2> DEFINE cash == Realized(trades) - (Received(trades) - Paid(trades))
  <2>1. /\ cash \in Int /\ Realized(trades) - Received(trades) + Paid(trades) = cash
    BY SumsTyped
  <2>2. Gap = Scale * cash
    <3>1. position.quantity * position.avgEntryPrice = 0
      BY DEF TypeInv, TypeOK
    <3>2. Scale * cash \in Int
      <4> HIDE DEF cash
      <4> QED
        BY <2>1, MoneyAssumption, MultiplyIntegers
    <3>3. Gap = Scale * cash - 0
      BY <2>1, <3>1 DEF Gap
    <3> HIDE DEF cash
    <3> QED
      BY <3>2, <3>3
  <2>3. ASSUME NEW x \in Int
        PROVE  Magnitude(Scale * x) = Scale * Magnitude(x)
    <3>1. CASE x >= 0
      <4>1. x \in Nat /\ Scale * x \in Nat
        BY <3>1, MoneyAssumption, MultiplyIntegers
      <4> QED
        BY <4>1 DEF Magnitude
    <3>2. CASE x < 0
      <4>1. -x \in Nat /\ Scale \in Nat /\ Scale # 0
        BY <3>2, MoneyAssumption
      <4>2. Scale * (-x) = -(Scale * x) /\ Scale * x \in Int
        BY <4>1
      <4>3. Scale * (-x) \in Nat
        BY <4>1, MultiplyIntegers
      <4>4. Magnitude(x) = -x
        BY <3>2 DEF Magnitude
      <4>5. Magnitude(Scale * x) = -(Scale * x)
        BY <4>2, <4>3 DEF Magnitude
      <4> QED
        BY <4>2, <4>4, <4>5
    <3> QED
      BY <3>1, <3>2
  <2>4. 2 * Magnitude(Gap) <= Len(trades) * (5 * Scale + Bought(trades))
    BY DEF CostInv
  <2>5. Magnitude(cash) \in Int /\ Scale \in Int
    <3> HIDE DEF cash
    <3> QED
      BY <2>1, MoneyAssumption DEF Magnitude
  <2>6. 2 * Magnitude(Gap) = 2 * Scale * Magnitude(cash)
    <3>1. Magnitude(Gap) = Scale * Magnitude(cash)
      <4> HIDE DEF cash
      <4> QED
        BY <2>1, <2>2, <2>3
    <3>2. ASSUME NEW m \in Int
          PROVE  2 * (Scale * m) = 2 * Scale * m
      BY <2>5
    <3> QED
      BY <2>5, <3>1, <3>2
  <2> QED
    BY <2>4, <2>6
<1> QED
  BY <1>1, <1>2, Typed, StepCost, PTL DEF Spec
=============================================================================
