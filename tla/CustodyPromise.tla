--------------------------- MODULE CustodyPromise ---------------------------
(***************************************************************************)
(* What the vault promises to the people whose money it holds, without     *)
(* its books: each user has a claim, the house has a pool, and money moves *)
(* between a wallet, a claim and the pool in four ways only.               *)
(*   - a claim grows by the owner's own deposit;                           *)
(*   - it is paid out to the owner's wallet within an earlier             *)
(*     authorisation, which the payout uses up;                            *)
(*   - a settlement moves an amount between a claim and the pool, at most  *)
(*     once per settlement identifier, and never overdraws either side;    *)
(*   - the pool grows by gifts, and never leaves except by a settlement.   *)
(* CollateralVault implements it with requests, approvals, counters and    *)
(* token transfers.                                                        *)
(***************************************************************************)
EXTENDS Integers

CONSTANTS Users, SettlementIds, Amounts, Deltas

VARIABLES wallet, claim, authorised, pool, applied

vars == <<wallet, claim, authorised, pool, applied>>

Init ==
  /\ wallet = [u \in Users |-> 0]
  /\ claim = [u \in Users |-> 0]
  /\ authorised = [u \in Users |-> 0]
  /\ pool = 0
  /\ applied = {}

Moved(holding, u, amount) == [holding EXCEPT ![u] = @ + amount]

\* Tokens reach a wallet from elsewhere, or leave it for elsewhere.
WalletChanges(u, amount) ==
  /\ wallet[u] + amount >= 0
  /\ wallet' = Moved(wallet, u, amount)
  /\ UNCHANGED <<claim, authorised, pool, applied>>

Deposit(u, amount) ==
  /\ wallet[u] >= amount
  /\ wallet' = Moved(wallet, u, -amount)
  /\ claim' = Moved(claim, u, amount)
  /\ UNCHANGED <<authorised, pool, applied>>

FillPool(u, amount) ==
  /\ wallet[u] >= amount
  /\ wallet' = Moved(wallet, u, -amount)
  /\ pool' = pool + amount
  /\ UNCHANGED <<claim, authorised, applied>>

\* An authorisation never exceeds the part of the claim not yet authorised.
Authorise(u, amount) ==
  /\ authorised[u] + amount <= claim[u]
  /\ authorised' = Moved(authorised, u, amount)
  /\ UNCHANGED <<wallet, claim, pool, applied>>

PayOut(u, amount) ==
  /\ amount <= authorised[u] /\ amount <= claim[u]
  /\ wallet' = Moved(wallet, u, amount)
  /\ claim' = Moved(claim, u, -amount)
  /\ authorised' = Moved(authorised, u, -amount)
  /\ UNCHANGED <<pool, applied>>

Settleable(u, delta, id) == id \notin applied /\ delta <= pool /\ -delta <= claim[u]

Settle(u, delta, id) ==
  /\ Settleable(u, delta, id)
  /\ applied' = applied \union {id}
  /\ claim' = Moved(claim, u, delta)
  /\ pool' = pool - delta
  /\ UNCHANGED <<wallet, authorised>>

Next ==
  \E u \in Users :
    \/ \E amount \in Amounts :
         \/ WalletChanges(u, amount) \/ WalletChanges(u, -amount)
         \/ Deposit(u, amount) \/ FillPool(u, amount)
         \/ Authorise(u, amount) \/ PayOut(u, amount)
    \/ \E delta \in Deltas, id \in SettlementIds : Settle(u, delta, id)

Spec == Init /\ [][Next]_vars
=============================================================================
