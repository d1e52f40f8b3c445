\* One LP (1), a user (2) and a kicker (3): burns in flight clear the debt of a
\* kicked vault.
SPECIFICATION WarmSpec
CONSTANTS
  NumVaults = 1 NumUsers = 2 Minters = {} Recipients = {} Burners = {2} Kickers = {3}
  Bidders = {} Backstoppers = {} Senders = {} Whitelists = {} MintAmounts = {}
  EthValues = {} BurnAmounts = {1} RepayAmounts = {} TransferAmounts = {}
  DepositAmounts = {} WithdrawAmounts = {} Thresholds = {} MaxMints = {}
  GriefingDeposits = {} MintFees = {} BurnRewards = {} MinBurns = {} Timeouts = {}
  MaxRequests = 3 MaxBlock = 4 MaxCollateral = 8 MaxVaultCount = 2
  MinVaultCollateralBps = 1 MaxMarginBps = 2 MinTimeout = 1 MaxTimeout = 2
  CollateralScale = 1 WsxmrDecimals = 1 MintLockRatio = 3 RatioPrecision = 2
  BpsDenominator = 10 DefaultMintTimeout = 1 DefaultBurnTimeout = 1
  MintReadyExtension = 1 LpClaimWindow = 1 BurnCommitTimeout = 1 BurnFinalizeGrace = 1
  MinBurnAmount = 1 MaxBurnRequestsPerVault = 2 BurnLockMultiplierBps = 13
  MinThreshold = 1 KickBondMin = 1 KickBondBps = 1 KickGrace = 1 KickCooldown = 0
  AuctionOpenDelay = 1 AuctionDuration = 1 HaircutStartBps = 10 HaircutFloorBps = 1
  ChipBps = 1 KickSaneBps = 8 WarmShares = 6 WarmDebt = 2 WarmRate = 0
INVARIANTS FrozenOwes
CHECK_DEADLOCK FALSE
