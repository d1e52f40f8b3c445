-------------------------------- MODULE MCHub -------------------------------
(***************************************************************************)
(* The hub for TLC.  A run starts from a state the hub reaches by creating *)
(* as many vaults as there are places, quoting a griefing deposit and      *)
(* depositing collateral in each, and, when there is debt, by completing   *)
(* one mint on the first vault.                                            *)
(***************************************************************************)
EXTENDS HubProperties

CONSTANTS
  WarmShares,     \* what each vault holds, normalized
  WarmDebt,       \* wsXMR minted against the first vault, 0 for none
  WarmRate        \* the mint fee and the burn reward each vault quotes

FirstUser == NumVaults + 1
WarmVaults == 1..Smaller(NumVaults, MaxVaultCount)

WarmVault(v) ==
  [NewVault EXCEPT !.collateralShares = WarmShares, !.griefingDeposit = 1,
                   !.mintFee = WarmRate, !.burnReward = WarmRate,
                   !.debt = IF v = 1 THEN WarmDebt ELSE 0]

WarmMint ==
  [EmptyMint EXCEPT !.status = "COMPLETED", !.initiator = FirstUser, !.recipient = FirstUser,
                    !.lpVault = 1, !.wsxmrAmount = WarmDebt, !.timeout = KickCooldown,
                    !.lockedCollateral = ParLockFor(WarmDebt, MinThreshold), !.userSecret = TRUE]

WarmInit ==
  /\ block = KickCooldown
  /\ vaults = [v \in Vault |-> IF v \in WarmVaults THEN WarmVault(v) ELSE EmptyVault]
  /\ whitelistedMinters = [v \in Vault |-> {}]
  /\ mintRequests = [r \in ReqId |-> IF r = 1 /\ WarmDebt > 0 THEN WarmMint ELSE EmptyMint]
  /\ burnRequests = [r \in ReqId |-> EmptyBurn]
  /\ vaultBurnRequests = [v \in Vault |-> {}]
  /\ abandonedBurns = {}
  /\ vaultKicks = [v \in Vault |-> NoKick]
  /\ vaultLastKickResolved = [v \in Vault |-> 0]
  /\ vaultFrozen = {}
  /\ vaultReauctionUsed = {}
  /\ globalTotalDebt = WarmDebt
  /\ globalPendingBurnDebt = 0
  /\ totalPendingMints = 0
  /\ requestNonce = IF WarmDebt > 0 THEN 1 ELSE 0
  /\ pendingReturns = [a \in Account |-> NoReturns]
  /\ wsxmr = [a \in Account |-> IF a = FirstUser THEN WarmDebt ELSE 0]
  /\ hubCollateral = Cardinality(WarmVaults) * RawFromNorm(WarmShares)
  /\ hubEth = 0
  /\ backstopped = {}

WarmSpec == WarmInit /\ [][Next]_vars
=============================================================================
