------------------------------ MODULE Rounding ------------------------------
(***************************************************************************)
(* divRound of money.ts: the one way the gateway rounds.                   *)
(***************************************************************************)
EXTENDS Integers

Magnitude(n) == IF n < 0 THEN -n ELSE n

RoundedQuotient(n, d) == (n + (d \div 2)) \div d

\* To the nearest integer, halves away from zero.
DivRound(n, d) ==
  IF (n < 0) # (d < 0) THEN -RoundedQuotient(Magnitude(n), Magnitude(d))
                       ELSE RoundedQuotient(Magnitude(n), Magnitude(d))
=============================================================================
