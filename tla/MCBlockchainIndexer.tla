------------------------ MODULE MCBlockchainIndexer -------------------------
(***************************************************************************)
(* Instances of BlockchainIndexer for TLC: one user of the vault suffices, *)
(* as a log touches the books of its own user only; blocks of several logs *)
(* and a restart or kill at every point are what matters.                  *)
(***************************************************************************)
EXTENDS BlockchainIndexer, TLC

CONSTANTS alice, op, vault, s1, none

MCUsers == {alice}
MCOperators == {op}
MCSettlementIds == {s1}
MCAmounts == {1}
MCDeltas == {-1, 1}

NoFaults == {}
=============================================================================
