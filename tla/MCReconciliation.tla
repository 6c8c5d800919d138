--------------------------- MODULE MCReconciliation ---------------------------
(***************************************************************************)
(* An instance of Reconciliation for TLC, with that of BlockchainIndexer.  *)
(***************************************************************************)
EXTENDS Reconciliation

CONSTANTS alice, op, vault, s1, none

MCUsers == {alice}
MCOperators == {op}
MCSettlementIds == {s1}
MCAmounts == {1}
MCDeltas == {-1, 1}
KillAndStartFails == {"Kill", "StartFails"}
===============================================================================
