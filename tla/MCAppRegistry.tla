--------------------------- MODULE MCAppRegistry ----------------------------
(***************************************************************************)
(* An instance of AppRegistry for TLC: an app bound to one type, one that  *)
(* may submit any, and the gateway's own id; a registry with a repeated    *)
(* and an incomplete entry that rotates one secret and drops one app.      *)
(***************************************************************************)
EXTENDS AppRegistry, TLC

CONSTANTS alice, bob, i1, s1, s2, k1, k2, admin, other, none

Arena == "arena"
MCUsers == {alice, bob}
MCAppIds == {"trading-example", Arena, SystemAppId}
MCSecrets == {k1, k2}
MCTokens == {admin, other}

Entry(appId, appSecret) == [appId |-> appId, appSecret |-> appSecret]
MCConfigurations ==
  {<<Entry("trading-example", k1), Entry(Arena, k2)>>,
   <<Entry(Arena, k2), Entry("trading-example", none), Entry(Arena, k1)>>}

MCSettlementTypes == {"TRADING_PNL", "EXTERNAL_APP_REWARD"}
MCCallerAudits == {[authorization |-> "app", linkedIntentCount |-> 0,
                    trustedOperatorSettlement |-> FALSE]}
MCIntents == {i1}
MCSettlements == {s1, s2}

Symmetry == Permutations(MCUsers) \union Permutations(MCSettlements)
=============================================================================
