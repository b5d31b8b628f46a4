CONSTANTS
  u1 = u1
  u2 = u2
  m1 = m1
  m2 = m2
  tp = tp
  tc = tc
  Markets = {m1, m2}
  Users = {u1}
  Marketplace = mp
  Outcomes = {0, 1}
  Beneficiaries = {tp, tc}
  NoAddress = none
  MinDuration = 1
  MaxDuration = 2
  ResolutionWindow = 1
  MaxPause = 1
  MinCreatorBond = 2
  MaxCreatorBond = 9
  MinConfiguredUnits = 2
  MaxConfiguredUnits = 50
  HardMaxFullMarketCap = 500
  HardMaxCloneMarketCap = 30
  HardMaxPerUserPrimaryCap = 100
  HardMaxCreationFee = 5
  InitialTreasury = tp
  TreasuryOptions = {}
  ShareOptions = {}
  FeeOptions = {}
  CapOptionsPerMarket = {}
  MarketRequests <- SmallRequests
  TermsRequests <- ShortTerms
  InitialCap = 100
  CapOptions = {150}
  PauseOptions = {}
  PauseDurations = {}
  MaxEpoch = 1
  BuySizes = {60}
  TransferSizes = {}
  GovernanceCalls = {"RAISE_CAP", "RETIRE"}
  MaxTime = 2
SYMMETRY MarketSymmetry
SPECIFICATION Spec
INVARIANTS
  EscrowSolvent
  GuardConservative
  OpenExposureWithinCap
PROPERTIES
  TerminalIsFinal
CHECK_DEADLOCK FALSE
