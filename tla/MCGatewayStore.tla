--------------------------- MODULE MCGatewayStore ---------------------------
(***************************************************************************)
(* An instance of GatewayStore for TLC: one user, as the rows of two users *)
(* never meet; two client orders, so that one opens and one closes a       *)
(* position; one settlement with its handler and its two logs.             *)
(***************************************************************************)
EXTENDS GatewayStore

CONSTANTS alice, s1, n1, c1, c2, d1, none

MCUsers == {alice}
MCSettlements == {s1}
MCIntents == {n1}
MCOrders == {c1, c2}
MCDeposits == {d1}
MCDeltas == {-1, 1}
=============================================================================
