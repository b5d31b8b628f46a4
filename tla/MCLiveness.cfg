CONSTANTS
  u1 = u1
  u2 = u2
  m1 = m1
  m2 = m2
  tp = tp
  tc = tc
  Markets = {m1}
  Users = {u1, u2}
  Marketplace = mp
  Outcomes = {0, 1}
  Beneficiaries = {tp, tc}
  NoAddress = none
  MinDuration = 1
  MaxDuration = 2
  ResolutionWindow = 1
  MaxPause = 2
  MinCreatorBond = 2
  MaxCreatorBond = 9
  MinConfiguredUnits = 2
  MaxConfiguredUnits = 50
  HardMaxFullMarketCap = 500
  HardMaxCloneMarketCap = 30
  HardMaxPerUserPrimaryCap = 100
  HardMaxCreationFee = 5
  InitialTreasury = tp
  TreasuryOptions = {}
  ShareOptions = {}
  FeeOptions = {}
  CapOptionsPerMarket = {}
  MarketRequests <- SmallRequests
  TermsRequests <- ShortTerms
  InitialCap = 150
  CapOptions = {}
  PauseOptions <- FullPause
  PauseDurations = {2}
  MaxEpoch = 2
  BuySizes = {60}
  TransferSizes = {0}
  GovernanceCalls = {"RESET_EPOCH"}
  MaxTime = 2
SPECIFICATION FairSpec
PROPERTIES
  OpenMarketTerminates
  TerminalMarketPaysOut
CHECK_DEADLOCK FALSE
