\* One LP (1) and one user (2): two mint requests, in every order of their exits,
\* while the LP moves collateral and changes its threshold, timeouts and whitelist.
SPECIFICATION WarmSpec
CONSTANTS
  NumVaults = 1 NumUsers = 1 Minters = {2} Recipients = {2} Burners = {} Kickers = {}
  Bidders = {} Backstoppers = {} Senders = {} Whitelists = {{2}} MintAmounts = {1}
  EthValues = {1} BurnAmounts = {} RepayAmounts = {} TransferAmounts = {}
  DepositAmounts = {3} WithdrawAmounts = {2} Thresholds = {2} MaxMints = {}
  GriefingDeposits = {} MintFees = {} BurnRewards = {} MinBurns = {} Timeouts = {2}
  MaxRequests = 2 MaxBlock = 3 MaxCollateral = 5 MaxVaultCount = 2
  MinVaultCollateralBps = 1 MaxMarginBps = 2 MinTimeout = 1 MaxTimeout = 2
  CollateralScale = 1 WsxmrDecimals = 1 MintLockRatio = 3 RatioPrecision = 2
  BpsDenominator = 10 DefaultMintTimeout = 1 DefaultBurnTimeout = 1
  MintReadyExtension = 1 LpClaimWindow = 1 BurnCommitTimeout = 1 BurnFinalizeGrace = 1
  MinBurnAmount = 1 MaxBurnRequestsPerVault = 2 BurnLockMultiplierBps = 13
  MinThreshold = 1 KickBondMin = 1 KickBondBps = 1 KickGrace = 1 KickCooldown = 0
  AuctionOpenDelay = 1 AuctionDuration = 1 HaircutStartBps = 10 HaircutFloorBps = 1
  ChipBps = 1 KickSaneBps = 8 WarmShares = 5 WarmDebt = 0 WarmRate = 0
INVARIANTS RequestsAccounted EthExact RevealedMintCompletes
PROPERTIES KeyedMintExit
CHECK_DEADLOCK FALSE
