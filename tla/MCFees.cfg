CONSTANTS
  u1 = u1
  u2 = u2
  m1 = m1
  m2 = m2
  tp = tp
  tc = tc
  Markets = {m1}
  Users = {u1}
  Marketplace = mp
  Outcomes = {0, 1}
  Beneficiaries = {tp, tc}
  NoAddress = none
  MinDuration = 1
  MaxDuration = 2
  ResolutionWindow = 1
  MaxPause = 1
  MinCreatorBond = 2
  MaxCreatorBond = 9
  MinConfiguredUnits = 2
  MaxConfiguredUnits = 50
  HardMaxFullMarketCap = 500
  HardMaxCloneMarketCap = 60
  HardMaxPerUserPrimaryCap = 60
  HardMaxCreationFee = 5
  InitialTreasury = tp
  TreasuryOptions = {tc}
  ShareOptions = {800, 9000}
  FeeOptions = {3}
  CapOptionsPerMarket = {60}
  MarketRequests <- PlatformRequests
  TermsRequests <- SeveralTerms
  InitialCap = 150
  CapOptions = {}
  PauseOptions = {}
  PauseDurations = {}
  MaxEpoch = 1
  BuySizes = {60}
  TransferSizes = {}
  GovernanceCalls = {"CONFIG","DEPRECATE"}
  MaxTime = 1
SPECIFICATION Spec
INVARIANTS
  FeeVaultSolvent
  FeesWithinHardLimits
PROPERTIES
  TermsFrozenByFirstBuy
CHECK_DEADLOCK FALSE
