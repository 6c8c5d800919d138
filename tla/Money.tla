-------------------------------- MODULE Money --------------------------------
(***************************************************************************)
(* Decimal arithmetic (money.ts).  An amount, a price and a quantity are   *)
(* JavaScript numbers with eight decimals; every helper turns its          *)
(* arguments into integers of the last decimal, computes with integers and *)
(* turns the result back.  Here they are these integers: Scale of them are *)
(* one unit, MicroUnit of them are the smallest amount of the token.       *)
(*                                                                         *)
(* A number is exact up to 2^53 units of the last decimal; amounts are     *)
(* taken to stay below, which the code does not check.                     *)
(***************************************************************************)
EXTENDS Rounding

CONSTANTS
  Scale,      \* MONEY_SCALE
  MicroUnit,  \* MONEY_SCALE / USDC_SCALE
  Fine        \* steps of an input number per last decimal

ASSUME MoneyAssumption ==
  /\ Scale \in Nat \ {0} /\ MicroUnit \in Nat \ {0} /\ Fine \in Nat \ {0}
  /\ Scale % MicroUnit = 0

\* The quotient of two bigints.
Truncated(n, d) == IF n < 0 THEN -((-n) \div d) ELSE n \div d

\* roundMoney of an input number: its digits are cut after the last decimal
\* and the next digit decides.
RoundMoney(raw) == DivRound(raw, Fine)

ToMicroUsdc(amount) == DivRound(amount, MicroUnit)

FromMicroUsdc(micro) == micro * MicroUnit

\* Mutation: what is left below the token's smallest unit stays.
KeepDust(amount) == amount

\* The ledger drops what the vault cannot settle.
DropDust(amount) == IF Magnitude(amount) < MicroUnit THEN 0 ELSE amount

DecimalMul(left, right) == DivRound(left * right, Scale)

DecimalDiv(left, right) == DivRound(left * Scale, right)

CalculateNotional(quantity, price) == DecimalMul(quantity, price)

CalculateFee(notional, feeBps) == DivRound(notional * feeBps, 10000)

CalculatePnl(quantity, entryPrice, exitPrice) == DecimalMul(quantity, exitPrice - entryPrice)

\* Mutation: the two prices are averaged without their quantities.
PlainAveragePrice(existingQuantity, existingAvgPrice, fillQuantity, fillPrice) ==
  IF existingQuantity = 0 THEN fillPrice ELSE DivRound(existingAvgPrice + fillPrice, 2)

\* The two costs are cut, their quotient is rounded.
WeightedAveragePrice(existingQuantity, existingAvgPrice, fillQuantity, fillPrice) ==
  LET cost == Truncated(existingQuantity * existingAvgPrice, Scale)
                + Truncated(fillQuantity * fillPrice, Scale)
  IN DecimalDiv(cost, existingQuantity + fillQuantity)

MarginUsed(quantity, markPrice, maxLeverage) ==
  DecimalDiv(CalculateNotional(Magnitude(quantity), markPrice), maxLeverage * Scale)
==============================================================================
