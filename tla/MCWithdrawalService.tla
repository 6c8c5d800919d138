------------------------ MODULE MCWithdrawalService -------------------------
(***************************************************************************)
(* Instances of WithdrawalService for TLC: a signature and the calls that  *)
(* use it, or two approvals, beside the user's own transactions.           *)
(***************************************************************************)
EXTENDS WithdrawalService, TLC

CONSTANTS alice, op, vaultAt, s1, n1, c1, c2, c3, none

MCUsers == {alice}
MCOperators == {op}
MCSettlementIds == {s1}
MCAmounts == {1, 2}
MCDeltas == {1}
\* Cut and rounded to 1, 4 and 5 of the last decimal, which the vault takes for
\* none, one (rounded down) and two (rounded up) of its units of 3.
MCPostedAmounts == {1, 7, 9}
MCCalls == {c1, c2, c3}
MCNonces == {n1}

Symmetry == Permutations(MCCalls)

AllFaults == FaultKinds
=============================================================================
