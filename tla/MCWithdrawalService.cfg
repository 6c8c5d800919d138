CONSTANTS
  alice = alice
  op = op
  vaultAt = vaultAt
  s1 = s1
  n1 = n1
  c1 = c1
  c2 = c2
  c3 = c3
  none = none
  Users <- MCUsers
  Operators <- MCOperators
  VaultAddress <- vaultAt
  SettlementIds <- MCSettlementIds
  Amounts <- MCAmounts
  Deltas <- MCDeltas
  MaxSupply = 2
  NoId <- none
  Scale = 3
  MicroUnit = 3
  Fine = 2
  PostedAmounts <- MCPostedAmounts
  Calls <- MCCalls
  Nonces <- MCNonces
  Faults <- AllFaults
  MaxLogs = 3
  None <- none
SPECIFICATION Spec
SYMMETRY Symmetry
INVARIANTS
  LedgerFollowsClaims
  CaughtUpLedgerIsCautious
  NonceBacksOneIntent
  FiledAsSigned
PROPERTIES
  ConsumedIntentIsFinal
