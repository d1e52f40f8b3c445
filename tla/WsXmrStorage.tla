---------------------------- MODULE WsXmrStorage ----------------------------
(***************************************************************************)
(* The storage every facet of the wsXmrHub diamond works on, its constants *)
(* and its internal helpers (core/wsXmrStorage.sol), with the balances of  *)
(* the wsXMR token (ERC-20) and of the hub itself.                         *)
(*                                                                         *)
(* Addresses and request ids are numbers, so that the ledgers of the hub   *)
(* can be summed: vaults are the addresses of their LPs, 1..NumVaults, and *)
(* the other accounts follow them.  globalDebtIndex is 1e18 for ever (the  *)
(* constructor sets it, nothing else assigns it), so a normalized debt is  *)
(* the debt itself.  Ratios keep their names and their roles; instances    *)
(* give them small values of the same shape.                               *)
(***************************************************************************)
EXTENDS Naturals, FiniteSets, Sums

CONSTANTS
  NumVaults, NumUsers,      \* LP addresses, other addresses
  \* Who plays which part, and with what amounts.
  Minters, Recipients, Burners, Kickers, Bidders, Backstoppers, Senders,
  Whitelists,               \* sets of minters an LP whitelists at once
  MintAmounts,              \* wsXMR of a mint request (xmrAmount / 1e4)
  EthValues,                \* msg.value of initiateMint
  BurnAmounts, RepayAmounts, TransferAmounts,
  DepositAmounts,           \* raw collateral
  WithdrawAmounts,          \* normalized collateral
  Thresholds, MaxMints, GriefingDeposits, MintFees, BurnRewards, MinBurns, Timeouts,
  \* Bounds of the instance.
  MaxRequests, MaxBlock, MaxCollateral,
  \* The constants of the deployment.
  MaxVaultCount, MinVaultCollateralBps, MaxMarginBps, MinTimeout, MaxTimeout,
  CollateralScale,          \* 10^(18 - decimals of the collateral token)
  WsxmrDecimals, MintLockRatio, RatioPrecision, BpsDenominator,
  DefaultMintTimeout, DefaultBurnTimeout, MintReadyExtension, LpClaimWindow,
  BurnCommitTimeout, BurnFinalizeGrace, MinBurnAmount, MaxBurnRequestsPerVault,
  BurnLockMultiplierBps, MinThreshold, KickBondMin, KickBondBps,
  KickGrace, KickCooldown, AuctionOpenDelay, AuctionDuration,
  HaircutStartBps, HaircutFloorBps, ChipBps, KickSaneBps

Vault == 1..NumVaults
Account == 1..(NumVaults + NumUsers)
ZeroAddress == 0
ReqId == 1..MaxRequests

ASSUME SizesAssumption ==
  /\ NumVaults \in Nat /\ NumUsers \in Nat /\ MaxRequests \in Nat
  /\ MaxBlock \in Nat /\ MaxCollateral \in Nat /\ MaxVaultCount \in Nat

ASSUME PartsAssumption ==
  /\ Minters \subseteq Account /\ Recipients \subseteq Account /\ Burners \subseteq Account
  /\ Kickers \subseteq Account /\ Bidders \subseteq Account /\ Senders \subseteq Account
  /\ Backstoppers \subseteq Vault /\ Whitelists \subseteq SUBSET Account

ASSUME AmountsAssumption ==
  /\ MintAmounts \subseteq Nat \ {0} /\ EthValues \subseteq Nat
  /\ BurnAmounts \subseteq Nat \ {0} /\ RepayAmounts \subseteq Nat \ {0}
  /\ TransferAmounts \subseteq Nat \ {0}
  /\ DepositAmounts \subseteq Nat \ {0} /\ WithdrawAmounts \subseteq Nat \ {0}
  /\ Thresholds \subseteq Nat /\ MaxMints \subseteq Nat /\ GriefingDeposits \subseteq Nat
  /\ MintFees \subseteq Nat /\ BurnRewards \subseteq Nat
  /\ MinBurns \subseteq Nat /\ Timeouts \subseteq Nat

ASSUME RatesAssumption ==
  /\ CollateralScale \in Nat \ {0} /\ WsxmrDecimals \in Nat \ {0}
  /\ RatioPrecision \in Nat \ {0} /\ BpsDenominator \in Nat \ {0}
  /\ MintLockRatio \in Nat /\ MinVaultCollateralBps \in Nat
  /\ MaxMarginBps \in 0..BpsDenominator
  /\ BurnLockMultiplierBps \in Nat /\ MinThreshold \in Nat
  /\ MinBurnAmount \in Nat /\ MaxBurnRequestsPerVault \in Nat
  /\ KickBondMin \in Nat /\ KickBondBps \in Nat
  /\ HaircutStartBps \in 0..BpsDenominator /\ HaircutFloorBps \in 0..HaircutStartBps
  /\ ChipBps \in 0..BpsDenominator /\ KickSaneBps \in Nat

ASSUME TimesAssumption ==
  /\ MinTimeout \in Nat /\ MaxTimeout \in Nat
  /\ DefaultMintTimeout \in Nat /\ DefaultBurnTimeout \in Nat
  /\ MintReadyExtension \in Nat /\ LpClaimWindow \in Nat
  /\ BurnCommitTimeout \in Nat /\ BurnFinalizeGrace \in Nat
  /\ KickGrace \in Nat /\ KickCooldown \in Nat
  /\ AuctionOpenDelay \in Nat /\ AuctionDuration \in Nat \ {0}

\* Every party that is waited for has at least a block to answer in (wsXmrStorage.sol
\* gives it 600 to 7200, and an LP cannot quote less than the minimum).
ASSUME WaitsAssumption ==
  /\ MinTimeout > 0 /\ DefaultMintTimeout > 0 /\ DefaultBurnTimeout > 0
  /\ MintReadyExtension > 0 /\ LpClaimWindow > 0
  /\ BurnCommitTimeout > 0 /\ BurnFinalizeGrace > 0

\* A mint is bonded above par (MINT_LOCK_RATIO is 110, RATIO_PRECISION 100), and a
\* threshold is at least one unit of collateral per unit of wsXMR (the deployments
\* set 1e15 for WSXMR_DECIMALS 1e8): no bond is rounded down to nothing.
ASSUME BondAssumption ==
  MintLockRatio >= RatioPrecision /\ MinThreshold >= WsxmrDecimals

VARIABLES
  block,                    \* block.number
  vaults,                   \* _vaults
  whitelistedMinters,
  mintRequests, burnRequests,
  vaultBurnRequests,        \* the burns an auction will settle, per vault
  abandonedBurns,
  vaultKicks, vaultLastKickResolved, vaultFrozen, vaultReauctionUsed,
  globalTotalDebt, globalPendingBurnDebt, totalPendingMints, requestNonce,
  pendingReturns,
  wsxmr,                    \* balances of the wsXMR token
  hubCollateral, hubEth,    \* what the hub holds: raw collateral, griefing deposits
  backstopped               \* history: the vaults a backstop has emptied

timeVars == <<block>>
configVars == <<whitelistedMinters>>
mintVars == <<mintRequests, totalPendingMints>>
burnVars == <<burnRequests, vaultBurnRequests, abandonedBurns, globalPendingBurnDebt>>
kickVars == <<vaultKicks, vaultLastKickResolved, vaultFrozen, vaultReauctionUsed>>
hubVars == <<hubCollateral, hubEth>>
vars == <<block, vaults, whitelistedMinters, mintRequests, totalPendingMints,
          burnRequests, vaultBurnRequests, abandonedBurns, globalPendingBurnDebt,
          vaultKicks, vaultLastKickResolved, vaultFrozen, vaultReauctionUsed,
          globalTotalDebt, requestNonce, pendingReturns, wsxmr,
          hubCollateral, hubEth, backstopped>>

-----------------------------------------------------------------------------
(* The records of the storage. *)

MintStatus == {"INVALID", "PENDING", "KEY_PROVIDED", "READY", "SECRET_REVEALED",
               "COMPLETED", "CANCELLED", "EXPIRED_READY", "KEY_CANCELLED"}
BurnStatus == {"INVALID", "REQUESTED", "PROPOSED", "COMMITTED",
               "COMPLETED", "SLASHED", "CANCELLED"}
ActiveBurn == {"REQUESTED", "PROPOSED", "COMMITTED"}

VaultRecord ==
  [registered : BOOLEAN, active : BOOLEAN,
   collateralShares : Nat, lockedCollateral : Nat, debt : Nat, pendingDebt : Nat,
   threshold : Nat, maxMint : Nat, griefingDeposit : Nat, mintFee : Nat, burnReward : Nat,
   minBurn : Nat, mintTimeout : Nat, burnTimeout : Nat,
   liquidationNonce : Nat, mintNonce : Nat, pendingMintCount : Nat]

\* userSecret, lpSecret: the secret is public, in storage or in an event.
MintRecord ==
  [status : MintStatus, initiator : Account \cup {ZeroAddress},
   recipient : Account \cup {ZeroAddress}, lpVault : Vault \cup {ZeroAddress},
   wsxmrAmount : Nat, feeAmount : Nat, timeout : Nat, griefingDeposit : Nat,
   vaultMintNonce : Nat, lockedCollateral : Nat, userSecret : BOOLEAN, lpSecret : BOOLEAN]

BurnRecord ==
  [status : BurnStatus, user : Account \cup {ZeroAddress}, lpVault : Vault \cup {ZeroAddress},
   wsxmrAmount : Nat, lockedCollateral : Nat, rewardCollateral : Nat, deadline : Nat,
   vaultLiquidationNonce : Nat, thresholdAtRequest : Nat,
   userSecret : BOOLEAN, lpSecret : BOOLEAN]

KickRecord ==
  [active : BOOLEAN, kicker : Account \cup {ZeroAddress}, bond : Nat, kickBlock : Nat,
   auctionEnd : Nat, offeredCollateral : Nat, auctionOpened : BOOLEAN]

EmptyVault ==
  [registered |-> FALSE, active |-> FALSE,
   collateralShares |-> 0, lockedCollateral |-> 0, debt |-> 0, pendingDebt |-> 0,
   threshold |-> 0, maxMint |-> 0, griefingDeposit |-> 0, mintFee |-> 0, burnReward |-> 0,
   minBurn |-> 0, mintTimeout |-> 0, burnTimeout |-> 0,
   liquidationNonce |-> 0, mintNonce |-> 0, pendingMintCount |-> 0]

EmptyMint ==
  [status |-> "INVALID", initiator |-> ZeroAddress, recipient |-> ZeroAddress,
   lpVault |-> ZeroAddress, wsxmrAmount |-> 0, feeAmount |-> 0, timeout |-> 0,
   griefingDeposit |-> 0, vaultMintNonce |-> 0, lockedCollateral |-> 0,
   userSecret |-> FALSE, lpSecret |-> FALSE]

EmptyBurn ==
  [status |-> "INVALID", user |-> ZeroAddress, lpVault |-> ZeroAddress,
   wsxmrAmount |-> 0, lockedCollateral |-> 0, rewardCollateral |-> 0, deadline |-> 0,
   vaultLiquidationNonce |-> 0, thresholdAtRequest |-> 0,
   userSecret |-> FALSE, lpSecret |-> FALSE]

NoKick ==
  [active |-> FALSE, kicker |-> ZeroAddress, bond |-> 0, kickBlock |-> 0,
   auctionEnd |-> 0, offeredCollateral |-> 0, auctionOpened |-> FALSE]

NoReturns == [collateral |-> 0, eth |-> 0]

\* The chain is older than the cooldown when the hub is deployed.
Init ==
  /\ block = KickCooldown
  /\ vaults = [v \in Vault |-> EmptyVault]
  /\ whitelistedMinters = [v \in Vault |-> {}]
  /\ mintRequests = [r \in ReqId |-> EmptyMint]
  /\ burnRequests = [r \in ReqId |-> EmptyBurn]
  /\ vaultBurnRequests = [v \in Vault |-> {}]
  /\ abandonedBurns = {}
  /\ vaultKicks = [v \in Vault |-> NoKick]
  /\ vaultLastKickResolved = [v \in Vault |-> 0]
  /\ vaultFrozen = {}
  /\ vaultReauctionUsed = {}
  /\ globalTotalDebt = 0
  /\ globalPendingBurnDebt = 0
  /\ totalPendingMints = 0
  /\ requestNonce = 0
  /\ pendingReturns = [a \in Account |-> NoReturns]
  /\ wsxmr = [a \in Account |-> 0]
  /\ hubCollateral = 0
  /\ hubEth = 0
  /\ backstopped = {}

TypeOK ==
  /\ block \in Nat
  /\ vaults \in [Vault -> VaultRecord]
  /\ whitelistedMinters \in [Vault -> SUBSET Account]
  /\ mintRequests \in [ReqId -> MintRecord]
  /\ burnRequests \in [ReqId -> BurnRecord]
  /\ vaultBurnRequests \in [Vault -> SUBSET ReqId]
  /\ abandonedBurns \subseteq ReqId
  /\ vaultKicks \in [Vault -> KickRecord]
  /\ vaultLastKickResolved \in [Vault -> Nat]
  /\ vaultFrozen \subseteq Vault
  /\ vaultReauctionUsed \subseteq Vault
  /\ globalTotalDebt \in Nat
  /\ globalPendingBurnDebt \in Nat
  /\ totalPendingMints \in Nat
  /\ requestNonce \in 0..MaxRequests
  /\ pendingReturns \in [Account -> [collateral : Nat, eth : Nat]]
  /\ wsxmr \in [Account -> Nat]
  /\ hubCollateral \in Nat
  /\ hubEth \in Nat
  /\ backstopped \subseteq Vault

-----------------------------------------------------------------------------
(* Helpers. *)

Monus(a, b) == IF a >= b THEN a - b ELSE 0
Smaller(a, b) == IF a < b THEN a ELSE b

\* Raw token units to normalized units, and back (rounded down).
NormFromRaw(raw) == raw * CollateralScale
RawFromNorm(norm) == norm \div CollateralScale
\* Mutant: what is locked counts as free.
FreeCollateralLocked(v) == v.collateralShares

FreeCollateral(v) == Monus(v.collateralShares, v.lockedCollateral)
ParCollateral(amount, threshold) == (amount * threshold) \div WsxmrDecimals
RequiredCollateral(debt, threshold) == (debt * threshold) \div WsxmrDecimals
ParLockFor(amount, threshold) ==
  (ParCollateral(amount, threshold) * MintLockRatio) \div RatioPrecision

\* A kicked or frozen vault takes no new business.
Blocked(v) == vaultKicks[v].active \/ v \in vaultFrozen

KickPhase(k) ==
  CASE block < k.kickBlock + KickGrace -> "GRACE"
    [] block >= k.kickBlock + KickGrace
       /\ block < k.kickBlock + KickGrace + AuctionOpenDelay -> "OPEN_DELAY"
    [] block >= k.kickBlock + KickGrace + AuctionOpenDelay
       /\ block < k.auctionEnd -> "ACTIVE"
    [] OTHER -> "ENDED"

\* Credits to pendingReturns: raw collateral, ETH.
PayCollateral(a, raw) == [pendingReturns EXCEPT ![a].collateral = @ + raw]
\* Mutant: a credit replaces the one before it.
PayEthOver(a, amount) == [pendingReturns EXCEPT ![a].eth = amount]

PayEth(a, amount) == [pendingReturns EXCEPT ![a].eth = @ + amount]

\* The kick on v is over: what every resolution of it does.
ClearKick(v) ==
  /\ vaultKicks' = [vaultKicks EXCEPT ![v] = NoKick]
  /\ vaultLastKickResolved' = [vaultLastKickResolved EXCEPT ![v] = block]

\* Blocks are mined; MaxBlock bounds the instance.
Tick ==
  /\ block < MaxBlock
  /\ block' = block + 1
  /\ UNCHANGED <<vaults, configVars, mintVars, burnVars, kickVars, globalTotalDebt,
                 requestNonce, pendingReturns, wsxmr, hubVars, backstopped>>
=============================================================================
