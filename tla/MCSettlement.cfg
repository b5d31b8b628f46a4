CONSTANTS
  u1 = u1
  u2 = u2
  m1 = m1
  m2 = m2
  tp = tp
  tc = tc
  Markets = {m1}
  Users = {u1, u2}
  Marketplace = mp
  Outcomes = {0, 1}
  Beneficiaries = {tp}
  NoAddress = none
  MinDuration = 3
  MaxDuration = 4
  ResolutionWindow = 1
  MaxPause = 2
  MinCreatorBond = 2
  MaxCreatorBond = 9
  MinConfiguredUnits = 2
  MaxConfiguredUnits = 50
  HardMaxFullMarketCap = 500
  HardMaxCloneMarketCap = 30
  HardMaxPerUserPrimaryCap = 100
  HardMaxCreationFee = 5
  InitialTreasury = tp
  TreasuryOptions = {}
  ShareOptions = {}
  FeeOptions = {}
  CapOptionsPerMarket = {}
  MarketRequests <- OneRequest
  TermsRequests <- SharedTreasuryTerms
  InitialCap = 150
  CapOptions = {}
  PauseOptions = {}
  PauseDurations = {}
  MaxEpoch = 1
  BuySizes = {60}
  TransferSizes = {0}
  GovernanceCalls = {}
  MaxTime = 4
SYMMETRY Symmetry
SPECIFICATION Spec
INVARIANTS
  TypeOK
  VaultSolvent
  SupplyIsSumOfBalances
  EntitlementsMatch
  DrawDownFair
  ExitAlwaysOpen
PROPERTIES
  WinnerPaidProRata
CHECK_DEADLOCK FALSE
