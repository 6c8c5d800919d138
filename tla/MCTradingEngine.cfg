CONSTANTS
  k1 = k1
  k2 = k2
  n1 = n1
  n2 = n2
  n3 = n3
  c1 = c1
  c2 = c2
  c3 = c3
  s1 = s1
  s2 = s2
  none = none
  Slots <- MCSlots
  Nonces <- MCNonces
  ClientOrderIds <- MCClientOrderIds
  SignedOrders <- MCSignedOrders
  Settlements <- MCSettlements
  Feed <- MCFeed
  Providers <- MCProviders
  SetPrices <- MCSetPrices
  Collaterals <- MCCollaterals
  Scale = 4
  MicroUnit = 2
  Fine = 4
  TakerFeeBps = 500
  MaxLeverage = 2
  MinCollateral = 10
  MaxPositionNotional = 400
  MaxPriceAge = 0
  None <- none
SYMMETRY Symmetric
SPECIFICATION Spec
CHECK_DEADLOCK FALSE
INVARIANTS
  BooksExplainTrades
  ClosedPositionMadeItsCash
  FilledAsSigned
  FilledAtRecentPrice
  SettledTradesAreLinked
PROPERTIES
  SettlingClears
