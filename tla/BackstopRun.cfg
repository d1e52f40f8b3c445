\* Three LPs (1, 2, 3) for two places, and a user (4) who also kicks: the first vault is
\* kicked, frozen, kicked again, repaid or taken over by the second, which may empty its
\* own and be evicted by the third.
SPECIFICATION WarmSpec
CONSTANTS
  NumVaults = 3 NumUsers = 1 Minters = {4} Recipients = {4} Burners = {4} Kickers = {4}
  Bidders = {} Backstoppers = {2} Senders = {4} Whitelists = {} MintAmounts = {1}
  EthValues = {1} BurnAmounts = {1} RepayAmounts = {2} TransferAmounts = {2}
  DepositAmounts = {} WithdrawAmounts = {4} Thresholds = {} MaxMints = {0}
  GriefingDeposits = {1} MintFees = {5} BurnRewards = {5} MinBurns = {0} Timeouts = {}
  MaxRequests = 2 MaxBlock = 4 MaxCollateral = 14 MaxVaultCount = 2
  MinVaultCollateralBps = 5 MaxMarginBps = 5 MinTimeout = 1 MaxTimeout = 2
  CollateralScale = 1 WsxmrDecimals = 1 MintLockRatio = 3 RatioPrecision = 2
  BpsDenominator = 10 DefaultMintTimeout = 1 DefaultBurnTimeout = 1
  MintReadyExtension = 1 LpClaimWindow = 1 BurnCommitTimeout = 1 BurnFinalizeGrace = 1
  MinBurnAmount = 1 MaxBurnRequestsPerVault = 2 BurnLockMultiplierBps = 13
  MinThreshold = 1 KickBondMin = 1 KickBondBps = 1 KickGrace = 1 KickCooldown = 0
  AuctionOpenDelay = 1 AuctionDuration = 1 HaircutStartBps = 10 HaircutFloorBps = 1
  ChipBps = 1 KickSaneBps = 5 WarmShares = 6 WarmDebt = 2 WarmRate = 5
INVARIANTS TypeOK DebtLedger RetiredIsSettled
CHECK_DEADLOCK FALSE
