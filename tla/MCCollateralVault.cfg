CONSTANTS
  alice = alice
  bob = bob
  op1 = op1
  op2 = op2
  vault = vault
  s1 = s1
  s2 = s2
  none = none
  Users <- MCUsers
  Operators <- MCOperators
  VaultAddress <- vault
  SettlementIds <- MCSettlementIds
  Amounts <- MCAmounts
  Deltas <- MCDeltas
  MaxSupply = 4
  NoId <- none
SPECIFICATION Spec
SYMMETRY Symmetry
INVARIANTS
  LiabilitiesMatchBalances
  BackingIsExact
  ApprovedFundsArePayable
PROPERTIES
  CoverageLostOnlyByLoss
  LogsExplainTransaction
  ImplementsCustody
