----------------------------- MODULE VaultFacet -----------------------------
(***************************************************************************)
(* The vault operations of an LP (facets/VaultFacet.sol): creation and     *)
(* retirement of a vault, its collateral, its quotes, repayment of its     *)
(* debt, and the withdrawal of pending returns by anyone.                  *)
(***************************************************************************)
EXTENDS WsXmrStorage

ActiveVaults == {v \in Vault : vaults[v].active}
\* Mutant: the lock of a keyed mint does not protect a vault from eviction.
IsVaultEvictableLocked(v) ==
  /\ vaults[v].active /\ vaults[v].debt = 0 /\ vaults[v].pendingMintCount = 0
  /\ \E w \in ActiveVaults : vaults[v].collateralShares < vaults[w].collateralShares

\* A dormant vault: nothing owed, nothing locked, and less collateral than
\* MinVaultCollateralBps of the largest vault (none, if no vault has any).
IsVaultEvictable(v) ==
  LET V == vaults[v] IN
  /\ V.active /\ V.debt = 0 /\ V.lockedCollateral = 0 /\ V.pendingMintCount = 0
  /\ \/ \A w \in ActiveVaults : vaults[w].collateralShares = 0
     \/ \E w \in ActiveVaults :
          V.collateralShares
            < (vaults[w].collateralShares * MinVaultCollateralBps) \div BpsDenominator

NewVault ==
  [EmptyVault EXCEPT !.registered = TRUE, !.active = TRUE, !.threshold = MinThreshold,
                     !.mintTimeout = DefaultMintTimeout, !.burnTimeout = DefaultBurnTimeout]

\* createVault below the cap.
CreateVault(v) ==
  /\ ~vaults[v].registered
  /\ Cardinality(ActiveVaults) < MaxVaultCount
  /\ vaults' = [vaults EXCEPT ![v] = NewVault]
  /\ UNCHANGED <<timeVars, configVars, mintVars, burnVars, kickVars, globalTotalDebt,
                 requestNonce, pendingReturns, wsxmr, hubVars, backstopped>>

\* createVault at the cap: a dormant vault w is paid out and replaced.  The
\* code takes the first one of vaultList; which one that is depends on the
\* order of the list, and the model allows any.
CreateVaultEvicting(v, w) ==
  LET rawOut == RawFromNorm(vaults[w].collateralShares) IN
  /\ ~vaults[v].registered
  /\ Cardinality(ActiveVaults) >= MaxVaultCount
  /\ IsVaultEvictable(w)
  /\ hubCollateral >= rawOut
  /\ hubCollateral' = hubCollateral - rawOut
  /\ vaults' = [vaults EXCEPT ![v] = NewVault,
                              ![w].collateralShares = 0, ![w].active = FALSE]
  /\ UNCHANGED <<timeVars, configVars, mintVars, burnVars, kickVars, globalTotalDebt,
                 requestNonce, pendingReturns, wsxmr, hubEth, backstopped>>

DeactivateVault(v) ==
  LET V == vaults[v] IN
  /\ V.active /\ ~vaultKicks[v].active
  /\ V.debt = 0 /\ V.collateralShares = 0 /\ V.lockedCollateral = 0
  /\ vaults' = [vaults EXCEPT ![v].active = FALSE]
  /\ UNCHANGED <<timeVars, configVars, mintVars, burnVars, kickVars, globalTotalDebt,
                 requestNonce, pendingReturns, wsxmr, hubVars, backstopped>>

\* A deposit in the grace period of a kick proves the LP alive and cancels it.
\* MaxCollateral bounds what the instance lets into the hub.
DepositCollateral(v, amount) ==
  LET k == vaultKicks[v]
      rescue == k.active /\ KickPhase(k) = "GRACE"
      bond == IF rescue THEN k.bond ELSE 0
  IN
  /\ vaults[v].active
  /\ hubCollateral + amount <= MaxCollateral
  /\ IF rescue THEN ClearKick(v) ELSE UNCHANGED <<vaultKicks, vaultLastKickResolved>>
  /\ vaults' = [vaults EXCEPT ![v].collateralShares = @ + bond + NormFromRaw(amount)]
  /\ hubCollateral' = hubCollateral + amount
  /\ UNCHANGED <<timeVars, configVars, mintVars, burnVars, vaultFrozen, vaultReauctionUsed,
                 globalTotalDebt, requestNonce, pendingReturns, wsxmr, hubEth, backstopped>>
\* Mutant: locked collateral covers debt too.
CoverageOkLocked(V, obligations) ==
  V.collateralShares >= RequiredCollateral(obligations, V.threshold)

\* What is left must cover the obligations at the vault's own threshold.
CoverageOk(V, obligations) ==
  FreeCollateral(V) >= RequiredCollateral(obligations, V.threshold)

WithdrawCollateral(v, shares) ==
  LET V == vaults[v]
      rawOut == RawFromNorm(shares)
      normOut == NormFromRaw(rawOut)
      obligations == V.debt + V.pendingDebt
      left == [V EXCEPT !.collateralShares = @ - normOut]
  IN
  /\ V.active /\ ~Blocked(v)
  /\ V.pendingMintCount = 0
  /\ rawOut > 0
  /\ V.collateralShares >= V.lockedCollateral
  /\ V.collateralShares - V.lockedCollateral >= normOut
  /\ obligations > 0 => CoverageOk(left, obligations)
  /\ hubCollateral >= rawOut
  /\ vaults' = [vaults EXCEPT ![v] = left]
  /\ hubCollateral' = hubCollateral - rawOut
  /\ UNCHANGED <<timeVars, configVars, mintVars, burnVars, kickVars, globalTotalDebt,
                 requestNonce, pendingReturns, wsxmr, hubEth, backstopped>>

\* In the grace period any repayment cancels the kick, later only one of the
\* whole debt; a frozen vault without debt is unfrozen.
RepayDebt(v, amount) ==
  LET V == vaults[v]
      k == vaultKicks[v]
      repaid == Smaller(amount, V.debt)
      bond == IF k.active THEN k.bond ELSE 0
  IN
  /\ V.active /\ V.debt > 0
  /\ k.active => KickPhase(k) = "GRACE" \/ amount = V.debt
  /\ wsxmr[v] >= repaid
  /\ IF k.active THEN ClearKick(v) ELSE UNCHANGED <<vaultKicks, vaultLastKickResolved>>
  /\ vaults' = [vaults EXCEPT ![v].collateralShares = @ + bond, ![v].debt = @ - repaid]
  /\ wsxmr' = [wsxmr EXCEPT ![v] = @ - repaid]
  /\ globalTotalDebt' = Monus(globalTotalDebt, repaid)
  /\ vaultFrozen' = IF V.debt = repaid THEN vaultFrozen \ {v} ELSE vaultFrozen
  /\ UNCHANGED <<timeVars, configVars, mintVars, burnVars, vaultReauctionUsed,
                 requestNonce, pendingReturns, hubVars, backstopped>>

-----------------------------------------------------------------------------
(* The quotes and parameters of a vault. *)

ConfigUnchanged ==
  UNCHANGED <<timeVars, configVars, mintVars, burnVars, kickVars, globalTotalDebt,
              requestNonce, pendingReturns, wsxmr, hubVars, backstopped>>

SetThreshold(v, threshold) ==
  /\ vaults[v].active /\ ~Blocked(v)
  /\ threshold >= MinThreshold
  /\ vaults' = [vaults EXCEPT ![v].threshold = threshold]
  /\ ConfigUnchanged

SetMaxMintWsxmr(v, maxMint) ==
  /\ vaults[v].active /\ ~Blocked(v)
  /\ vaults' = [vaults EXCEPT ![v].maxMint = maxMint]
  /\ ConfigUnchanged

SetMintGriefingDeposit(v, deposit) ==
  /\ vaults[v].active
  /\ vaults' = [vaults EXCEPT ![v].griefingDeposit = deposit]
  /\ ConfigUnchanged

SetVaultMarketMetrics(v, mintFee, burnReward) ==
  /\ vaults[v].active
  /\ mintFee <= MaxMarginBps /\ burnReward <= MaxMarginBps
  /\ vaults' = [vaults EXCEPT ![v].mintFee = mintFee, ![v].burnReward = burnReward]
  /\ ConfigUnchanged

SetMinBurnAmount(v, minBurn) ==
  /\ vaults[v].active
  /\ vaults' = [vaults EXCEPT ![v].minBurn = minBurn]
  /\ ConfigUnchanged

SetMintTimeoutBlocks(v, blocks) ==
  /\ vaults[v].active
  /\ MinTimeout <= blocks /\ blocks <= MaxTimeout
  /\ vaults' = [vaults EXCEPT ![v].mintTimeout = blocks]
  /\ ConfigUnchanged

SetBurnTimeoutBlocks(v, blocks) ==
  /\ vaults[v].active
  /\ MinTimeout <= blocks /\ blocks <= MaxTimeout
  /\ vaults' = [vaults EXCEPT ![v].burnTimeout = blocks]
  /\ ConfigUnchanged

\* setMinterWhitelist, and batchSetMinterWhitelist for several minters.
SetMinterWhitelist(v, minters, whitelisted) ==
  /\ vaults[v].active
  /\ whitelistedMinters' =
       [whitelistedMinters EXCEPT ![v] = IF whitelisted THEN @ \cup minters ELSE @ \ minters]
  /\ UNCHANGED <<timeVars, vaults, mintVars, burnVars, kickVars, globalTotalDebt,
                 requestNonce, pendingReturns, wsxmr, hubVars, backstopped>>

-----------------------------------------------------------------------------
(* Pending returns are pulled, by their owner, one token at a time. *)

WithdrawCollateralReturns(a) ==
  LET amount == pendingReturns[a].collateral IN
  /\ amount > 0
  /\ hubCollateral >= amount
  /\ pendingReturns' = [pendingReturns EXCEPT ![a].collateral = 0]
  /\ hubCollateral' = hubCollateral - amount
  /\ UNCHANGED <<timeVars, vaults, configVars, mintVars, burnVars, kickVars, globalTotalDebt,
                 requestNonce, wsxmr, hubEth, backstopped>>

WithdrawEthReturns(a) ==
  LET amount == pendingReturns[a].eth IN
  /\ amount > 0
  /\ hubEth >= amount
  /\ pendingReturns' = [pendingReturns EXCEPT ![a].eth = 0]
  /\ hubEth' = hubEth - amount
  /\ UNCHANGED <<timeVars, vaults, configVars, mintVars, burnVars, kickVars, globalTotalDebt,
                 requestNonce, wsxmr, hubCollateral, backstopped>>

VaultNext ==
  \/ \E v \in Vault :
       \/ CreateVault(v)
       \/ \E w \in Vault : CreateVaultEvicting(v, w)
       \/ DeactivateVault(v)
       \/ \E amount \in DepositAmounts : DepositCollateral(v, amount)
       \/ \E shares \in WithdrawAmounts : WithdrawCollateral(v, shares)
       \/ \E amount \in RepayAmounts : RepayDebt(v, amount)
       \/ \E threshold \in Thresholds : SetThreshold(v, threshold)
       \/ \E maxMint \in MaxMints : SetMaxMintWsxmr(v, maxMint)
       \/ \E deposit \in GriefingDeposits : SetMintGriefingDeposit(v, deposit)
       \/ \E mintFee \in MintFees, burnReward \in BurnRewards :
            SetVaultMarketMetrics(v, mintFee, burnReward)
       \/ \E minBurn \in MinBurns : SetMinBurnAmount(v, minBurn)
       \/ \E blocks \in Timeouts : SetMintTimeoutBlocks(v, blocks)
       \/ \E blocks \in Timeouts : SetBurnTimeoutBlocks(v, blocks)
       \/ \E minters \in Whitelists, whitelisted \in BOOLEAN :
            SetMinterWhitelist(v, minters, whitelisted)
  \/ \E a \in Account : WithdrawCollateralReturns(a) \/ WithdrawEthReturns(a)
=============================================================================
