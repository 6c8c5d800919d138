CONSTANTS
  alice = alice
  bob = bob
  i1 = i1
  s1 = s1
  s2 = s2
  k1 = k1
  k2 = k2
  admin = admin
  other = other
  none = none
  Users <- MCUsers
  AppIds <- MCAppIds
  Secrets <- MCSecrets
  Tokens <- MCTokens
  AdminToken <- admin
  Configurations <- MCConfigurations
  SettlementTypes <- MCSettlementTypes
  CallerAudits <- MCCallerAudits
  Intents <- MCIntents
  Settlements <- MCSettlements
  MaxRestarts = 1
  None <- none
SPECIFICATION Spec
SYMMETRY Symmetry
INVARIANTS
  AppSettlementsAreSigned
  ReportIsTrue
  ReportShowsConsumption
