CONSTANTS
  alice = alice
  op = op
  vault = vault
  s1 = s1
  none = none
  Users <- MCUsers
  Operators <- MCOperators
  VaultAddress <- vault
  SettlementIds <- MCSettlementIds
  Amounts <- MCAmounts
  Deltas <- MCDeltas
  MaxSupply = 2
  NoId <- none
  Faults <- NoFaults
  MaxLogs = 4
  MaxBlocks = 3
  MaxRestarts = 1
SPECIFICATION FairSpec
INVARIANTS
  LedgerIsPastVault
  CaughtUpIsComplete
PROPERTIES
  EveryLogTakesEffect
