\* One LP (1), a user (2) who also bids, and a kicker (3): one kick over burns and
\* mints in flight, with every answer of the LP.
SPECIFICATION WarmSpec
CONSTANTS
  NumVaults = 1 NumUsers = 2 Minters = {2} Recipients = {2} Burners = {2} Kickers = {3}
  Bidders = {2} Backstoppers = {} Senders = {} Whitelists = {} MintAmounts = {1}
  EthValues = {1} BurnAmounts = {1} RepayAmounts = {} TransferAmounts = {}
  DepositAmounts = {1} WithdrawAmounts = {} Thresholds = {} MaxMints = {}
  GriefingDeposits = {} MintFees = {} BurnRewards = {} MinBurns = {} Timeouts = {}
  MaxRequests = 3 MaxBlock = 3 MaxCollateral = 8 MaxVaultCount = 2
  MinVaultCollateralBps = 1 MaxMarginBps = 5 MinTimeout = 1 MaxTimeout = 2
  CollateralScale = 1 WsxmrDecimals = 1 MintLockRatio = 3 RatioPrecision = 2
  BpsDenominator = 10 DefaultMintTimeout = 1 DefaultBurnTimeout = 1
  MintReadyExtension = 1 LpClaimWindow = 1 BurnCommitTimeout = 1 BurnFinalizeGrace = 1
  MinBurnAmount = 1 MaxBurnRequestsPerVault = 2 BurnLockMultiplierBps = 13
  MinThreshold = 1 KickBondMin = 1 KickBondBps = 1 KickGrace = 1 KickCooldown = 0
  AuctionOpenDelay = 1 AuctionDuration = 1 HaircutStartBps = 10 HaircutFloorBps = 1
  ChipBps = 1 KickSaneBps = 5 WarmShares = 6 WarmDebt = 2 WarmRate = 5
INVARIANTS BurnListExact OfferBacked HubExact
PROPERTIES AuctionTermsKept MintLifecycleKept BurnLifecycleKept
CHECK_DEADLOCK FALSE
