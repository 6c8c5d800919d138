CONSTANTS
  alice = alice
  r1 = r1
  r2 = r2
  i1 = i1
  r3 = r3
  trading = trading
  none = none
  Users <- MCUsers
  Requests <- MCRequests
  Intents <- MCNone
  OrderIntents <- MCNone
  Apps <- MCApps
  TradingApp <- trading
  IntentUser <- MCNoMap
  IntentApp <- MCNoMap
  Amounts <- MCAmounts
  Deltas <- MCThirds
  Faults <- AllFaults
  Scale = 3
  MicroUnit = 3
  Fine = 1
  MaxSupply = 1
  MaxPnl = 0
  MaxLogs = 1
  None <- none
SPECIFICATION FairSpec
PROPERTIES
  InFlightReleased
  AppliedIsConfirmed
