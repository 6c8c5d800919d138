--------------------------- MODULE MCTradingEngine ---------------------------
(***************************************************************************)
(* An instance of TradingEngine for TLC.  With three nonces a position is  *)
(* opened, enlarged at another price and closed; two signatures share a    *)
(* nonce, two a client order id; with Fine = 4 the quantities 4, 10, 16    *)
(* and 1 are rounded to 1, 3, 4 and nothing.  One order is overdue from    *)
(* time 2 on.                                                              *)
(***************************************************************************)
EXTENDS TradingEngine, TLC

CONSTANTS k1, k2, n1, n2, n3, c1, c2, c3, s1, s2, none

MCSlots == {k1, k2}
MCNonces == {n1, n2, n3}
MCClientOrderIds == {c1, c2, c3}
Order(n, c, side, quantity, deadline) ==
  [nonce |-> n, client |-> c, side |-> side, quantity |-> quantity, deadline |-> deadline]
MCSignedOrders ==
  {Order(n1, c1, "BUY", 4, 1), Order(n2, c2, "BUY", 10, 2),
   Order(n2, c1, "BUY", 1, 2), Order(n3, c3, "SELL", 16, 2)}
MCSettlements == {s1, s2}
MCFeed == <<41, 403>>
MCProviders == {"mock", "pyth"}
MCSetPrices == {83}
MCCollaterals == {200}
Symmetric == Permutations(MCSlots) \union Permutations(MCSettlements)
=============================================================================
