CONSTANTS
  alice = alice
  s1 = s1
  n1 = n1
  c1 = c1
  c2 = c2
  d1 = d1
  none = none
  Users <- MCUsers
  Settlements <- MCSettlements
  Intents <- MCIntents
  Orders <- MCOrders
  Deposits <- MCDeposits
  Deltas <- MCDeltas
  MaxQuantity = 1
  MaxCollateral = 1
  MaxPnl = 1
  MaxKills = 2
  None <- none
SPECIFICATION Spec
CHECK_DEADLOCK FALSE
INVARIANTS
  CacheMatchesStore
  BackendsAgree
  NoStatementRefused
  BooksBalance
  ConsumedIsLinked
