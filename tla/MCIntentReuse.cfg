CONSTANTS
  alice = alice
  r1 = r1
  r2 = r2
  i1 = i1
  r3 = r3
  trading = trading
  none = none
  Users <- MCUsers
  Requests <- MCRequests
  Intents <- MCIntents
  OrderIntents <- MCIntents
  Apps <- MCApps
  TradingApp <- trading
  IntentUser <- MCIntentUser
  IntentApp <- MCIntentApp
  Amounts <- MCAmounts
  Deltas <- MCDeltas
  Faults <- NoFaults
  Scale = 2
  MicroUnit = 2
  Fine = 1
  MaxSupply = 2
  MaxPnl = 1
  MaxLogs = 2
  None <- none
SPECIFICATION Spec
SYMMETRY Symmetry
INVARIANTS
  IntentBacksOneSettlement
