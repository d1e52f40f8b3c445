\* One LP (1) and one user (2) who holds what was minted: two requests, burns and
\* mints, in every order of their steps and exits, while the LP changes its quotes
\* and moves collateral.  The collateral has fewer decimals than the ledger.
SPECIFICATION WarmSpec
CONSTANTS
  NumVaults = 1 NumUsers = 1 Minters = {2} Recipients = {2} Burners = {2} Kickers = {}
  Bidders = {} Backstoppers = {} Senders = {} Whitelists = {} MintAmounts = {2}
  EthValues = {1} BurnAmounts = {1, 2} RepayAmounts = {} TransferAmounts = {}
  DepositAmounts = {} WithdrawAmounts = {2} Thresholds = {1, 2} MaxMints = {}
  GriefingDeposits = {} MintFees = {} BurnRewards = {} MinBurns = {} Timeouts = {}
  MaxRequests = 3 MaxBlock = 2 MaxCollateral = 5 MaxVaultCount = 2
  MinVaultCollateralBps = 1 MaxMarginBps = 5 MinTimeout = 1 MaxTimeout = 2
  CollateralScale = 2 WsxmrDecimals = 1 MintLockRatio = 3 RatioPrecision = 2
  BpsDenominator = 10 DefaultMintTimeout = 1 DefaultBurnTimeout = 1
  MintReadyExtension = 1 LpClaimWindow = 1 BurnCommitTimeout = 1 BurnFinalizeGrace = 1
  MinBurnAmount = 1 MaxBurnRequestsPerVault = 2 BurnLockMultiplierBps = 13
  MinThreshold = 1 KickBondMin = 1 KickBondBps = 1 KickGrace = 1 KickCooldown = 0
  AuctionOpenDelay = 1 AuctionDuration = 1 HaircutStartBps = 10 HaircutFloorBps = 1
  ChipBps = 1 KickSaneBps = 8 WarmShares = 10 WarmDebt = 3 WarmRate = 5
INVARIANTS LockedWithinShares BurnHasExit PendingBurnAccounting SupplyBacked HubSolvent
PROPERTIES CoverageKept
CHECK_DEADLOCK FALSE
