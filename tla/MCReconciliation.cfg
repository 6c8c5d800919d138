CONSTANTS
  alice = alice
  op = op
  vault = vault
  s1 = s1
  none = none
  Users <- MCUsers
  Operators <- MCOperators
  VaultAddress <- vault
  SettlementIds <- MCSettlementIds
  Amounts <- MCAmounts
  Deltas <- MCDeltas
  MaxSupply = 2
  NoId <- none
  Unread <- none
  Faults <- KillAndStartFails
  MaxLogs = 3
  MaxBlocks = 2
  MaxRestarts = 2
SPECIFICATION ReconciliationSpec
INVARIANTS
  NeverAppliedTwice
  AppliedInChainOrder
  MismatchIsNews
