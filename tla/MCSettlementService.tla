------------------------ MODULE MCSettlementService -------------------------
(***************************************************************************)
(* Instances of SettlementService for TLC.  Requests of one user compete   *)
(* for the user's in-flight mark and intents; users are coupled only by    *)
(* the vault's insurance and the operator's nonce order.                   *)
(***************************************************************************)
EXTENDS SettlementService, TLC

CONSTANTS alice, r1, r2, r3, i1, trading, none

MCUsers == {alice}
MCRequests == {r1, r2}
MCThreeRequests == {r1, r2, r3}
MCIntents == {i1}
MCApps == {trading}
MCIntentUser == [i \in MCIntents |-> alice]
MCIntentApp == [i \in MCIntents |-> trading]
MCAmounts == {1}
\* With two last decimals to a unit of the token half a unit is rounded to a
\* whole one and 2 is exact, so that a log may have the amount of another
\* request; with three of them -1 is rounded to nothing.
MCDeltas == {-1, 2}
MCThirds == {-1, 3}

MCNone == {}
MCNoMap == [i \in MCNone |-> alice]

Symmetry == Permutations(Requests)

NoFaults == {}
AllFaults == FaultKinds
=============================================================================
