------------------------- MODULE MCCollateralVault --------------------------
(***************************************************************************)
(* The instance of CollateralVault checked by TLC: two users whose calls   *)
(* interleave, two operators to hand over between, two settlement ids so   *)
(* that a gain and a loss can follow each other or an id be replayed, and  *)
(* a supply that lets one user be funded while the other holds a claim.    *)
(***************************************************************************)
EXTENDS CollateralVault, TLC

CONSTANTS alice, bob, op1, op2, vault, s1, s2, none

MCUsers == {alice, bob}
MCOperators == {op1, op2}
MCSettlementIds == {s1, s2}
MCAmounts == 0..2
MCDeltas == -2..2

Symmetry == Permutations(MCUsers) \union Permutations(MCOperators) \union Permutations(MCSettlementIds)
=============================================================================
