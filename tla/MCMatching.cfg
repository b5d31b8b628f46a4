CONSTANTS
  Alice = Alice
  Bob = Bob
  Wallet = Wallet
  Traders <- Persons
  Contracts = {}
  OrderRequests <- CrossingRequests
  FillSizes = {}
  ShareScale = 1000
  MinimumC2CUnits = 20
  PlatformC2CFeeBps = 200
  CreatorC2CFeeBps = 150
  InitialPayment = 600
  InitialShares = 102
  Pausable = {}
  MaxOrders = 3
  MaxTime = 0
SPECIFICATION Spec
SYMMETRY Alike
INVARIANTS
  MatchMakesProgress
PROPERTIES
  MatchesInPriority
CHECK_DEADLOCK FALSE
