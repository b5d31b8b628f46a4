CONSTANTS
  Alice = Alice
  Bob = Bob
  Wallet = Wallet
  Traders <- PersonAndWallet
  Contracts = {Wallet}
  OrderRequests <- TradingRequests
  FillSizes = {20}
  ShareScale = 1000
  MinimumC2CUnits = 20
  PlatformC2CFeeBps = 200
  CreatorC2CFeeBps = 150
  InitialPayment = 600
  InitialShares = 102
  Pausable = {"ListingFill"}
  MaxOrders = 2
  MaxTime = 1
SPECIFICATION FairSpec
INVARIANTS
  CustodyMatches
  BooksMatch
  OpenOrdersFillable
PROPERTIES
  CrossedOrdersMeet
  EndedOrdersReleased
CHECK_DEADLOCK FALSE
