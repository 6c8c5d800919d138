---------------------------- MODULE Reconciliation ----------------------------
(***************************************************************************)
(* The operator's comparison of ledger and vault                           *)
(* (reconciliationService.ts), composed with the indexer: a report copies  *)
(* the ledger's amounts, then awaits two reads of the vault, each answered *)
(* from the latest block at its own time, while the chain and the indexer  *)
(* go on.  Positions and pending P&L, which add warnings of their own, are *)
(* left out: nobody trades here.                                           *)
(***************************************************************************)
EXTENDS BlockchainIndexer

CONSTANTS Unread

ASSUME ReconciliationAssumption == Unread \notin Int

VARIABLES
  report   \* per user the latest report: what it has copied and read so far

allVars == <<vars, report>>

NoReport == [offChain |-> Unread, balance |-> Unread, pending |-> Unread, known |-> 0]

ReconciliationInit == Init /\ report = [u \in Users |-> NoReport]

SealedLogs == {k \in DOMAIN logs : logs[k].block <= head}

\* What a call of the vault answers: the books after the latest block.
OnChain(u) ==
  IF SealedLogs = {} THEN EmptyBooks[u] ELSE truth[LogsUpTo(head)][u]

\* Mutation: a balance read for the previous report is used again.
CopyOnly(u) ==
  report' = [report EXCEPT ![u] =
    [offChain |-> ledger[u], balance |-> @.balance, pending |-> Unread, known |-> Len(applied)]]

\* reconcileUser up to its first await: the snapshot of the ledger.
CopyLedger(u) ==
  report' = [report EXCEPT ![u] =
    [offChain |-> ledger[u], balance |-> Unread, pending |-> Unread, known |-> Len(applied)]]

StartReport(u) ==
  /\ phase # "down"
  /\ CopyLedger(u)
  /\ UNCHANGED vars

\* readOnChainState: two calls, answered in either order.
ReadBalance(u) ==
  /\ report[u] # NoReport /\ report[u].balance = Unread
  /\ report' = [report EXCEPT ![u].balance = OnChain(u).collateral]
  /\ UNCHANGED vars

ReadPendingWithdrawals(u) ==
  /\ report[u] # NoReport /\ report[u].pending = Unread
  /\ report' = [report EXCEPT ![u].pending = OnChain(u).pending]
  /\ UNCHANGED vars

Answered(r) == r.balance # Unread /\ r.pending # Unread

\* A call of the vault fails: the report only warns that the vault's state is
\* unavailable, and compares nothing.
ReadFails(u) ==
  /\ report[u] # NoReport /\ ~Answered(report[u])
  /\ report' = [report EXCEPT ![u] = NoReport]
  /\ UNCHANGED vars

ReconciliationNext ==
  \/ Transact /\ UNCHANGED report
  \/ SealBlock /\ UNCHANGED report
  \/ Start /\ UNCHANGED report
  \/ StartFails /\ UNCHANGED report
  \/ Watch /\ UNCHANGED report
  \/ Poll /\ UNCHANGED report
  \/ HandleLog /\ UNCHANGED report
  \/ Stop /\ UNCHANGED report
  \/ Kill /\ UNCHANGED report
  \/ \E u \in Users :
       StartReport(u) \/ ReadBalance(u) \/ ReadPendingWithdrawals(u) \/ ReadFails(u)

ReconciliationSpec == ReconciliationInit /\ [][ReconciliationNext]_allVars

\* The status of a report that got both answers.
Status(r) ==
  CASE r.balance # r.offChain.collateral \/ r.pending # r.offChain.pending -> "MISMATCH"
    [] r.balance = r.offChain.collateral /\ r.pending = r.offChain.pending ->
         IF r.offChain.pending > 0 THEN "WARNING" ELSE "OK"

\* A MISMATCH is always news: some log the indexer handles, in a block sealed by
\* the time of the answers, had not taken effect when the report was begun.
\* Restarts, two reads at two blocks and an indexer working in between raise no
\* other alarm.
MismatchIsNews ==
  \A u \in Users :
    Answered(report[u]) /\ Status(report[u]) = "MISMATCH" =>
      \E k \in SealedLogs :
        /\ logs[k].event.name \in Handled
        /\ k \notin Range(SubSeq(applied, 1, report[u].known))
===============================================================================
