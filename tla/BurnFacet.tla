------------------------------ MODULE BurnFacet -----------------------------
(***************************************************************************)
(* The burn swap (facets/BurnFacet.sol): a holder burns wsXMR against the  *)
(* debt of a vault, the LP locks XMR on Monero and proposes a hash, the    *)
(* user confirms the lock, the LP reveals its secret and the burn settles. *)
(* The vault's debt is reduced when a burn settles, not when it starts.    *)
(* The secret an action verifies (Ed25519, external) is the right one.     *)
(***************************************************************************)
EXTENDS WsXmrStorage

BurnUnchanged == UNCHANGED <<timeVars, configVars, mintVars, kickVars, requestNonce,
                             hubVars, backstopped>>

TotalLock(b) == b.lockedCollateral + b.rewardCollateral

\* What a slash pays: par at the rate of the request, at most what was locked.
SlashPayout(b) ==
  Smaller(ParCollateral(b.wsxmrAmount, b.thresholdAtRequest), b.lockedCollateral)
\* Mutant: raw units are taken out of a normalized ledger.
PayableUnscaled(norm) == RawFromNorm(norm)

\* A normalized amount as the hub pays it out: whole raw units.
Payable(norm) == NormFromRaw(RawFromNorm(norm))

\* calculateBurnCollateral: the burn's share of the free collateral, times
\* 1.3, and the reward, a part of par.
BurnLock(V, amount) ==
  IF V.debt = 0 THEN 0
  ELSE (FreeCollateral(V) * amount * BurnLockMultiplierBps) \div (V.debt * BpsDenominator)
BurnReward(V, amount) ==
  (ParCollateral(amount, V.threshold) * V.burnReward) \div BpsDenominator

ActiveBurns(v) == {r \in vaultBurnRequests[v] : burnRequests[r].status \in ActiveBurn}

RequestBurn(u, v, amount) ==
  LET V == vaults[v]
      lock == BurnLock(V, amount)
      reward == BurnReward(V, amount)
      id == requestNonce + 1
  IN
  /\ requestNonce < MaxRequests
  /\ V.active /\ ~Blocked(v)
  /\ amount >= MinBurnAmount /\ amount >= V.minBurn
  /\ V.threshold >= MinThreshold
  /\ amount <= V.debt
  /\ Cardinality(ActiveBurns(v)) < MaxBurnRequestsPerVault
  /\ FreeCollateral(V) >= lock + reward
  /\ V.pendingDebt > 0 =>
       FreeCollateral(V) - (lock + reward) >= RequiredCollateral(V.pendingDebt, V.threshold)
  /\ wsxmr[u] >= amount
  /\ wsxmr' = [wsxmr EXCEPT ![u] = @ - amount]
  /\ vaults' = [vaults EXCEPT ![v].lockedCollateral = @ + (lock + reward)]
  /\ globalPendingBurnDebt' = globalPendingBurnDebt + amount
  /\ requestNonce' = id
  /\ burnRequests' = [burnRequests EXCEPT ![id] =
       [EmptyBurn EXCEPT !.status = "REQUESTED", !.user = u, !.lpVault = v,
                         !.wsxmrAmount = amount, !.lockedCollateral = lock,
                         !.rewardCollateral = reward, !.deadline = block + V.burnTimeout,
                         !.vaultLiquidationNonce = V.liquidationNonce,
                         !.thresholdAtRequest = V.threshold]]
  /\ vaultBurnRequests' = [vaultBurnRequests EXCEPT ![v] = @ \cup {id}]
  /\ UNCHANGED <<timeVars, configVars, mintVars, abandonedBurns, kickVars, globalTotalDebt,
                 pendingReturns, hubVars, backstopped>>

\* The LP has locked the XMR; neither a kick nor a freeze stops it.
ProposeHash(r) ==
  LET b == burnRequests[r] IN
  /\ b.status = "REQUESTED" /\ block < b.deadline
  /\ burnRequests' = [burnRequests EXCEPT ![r].status = "PROPOSED",
                                          ![r].deadline = block + BurnCommitTimeout]
  /\ BurnUnchanged
  /\ UNCHANGED <<vaults, vaultBurnRequests, abandonedBurns, globalPendingBurnDebt,
                 globalTotalDebt, pendingReturns, wsxmr>>

ConfirmMoneroLock(r) ==
  LET b == burnRequests[r] IN
  /\ b.status = "PROPOSED" /\ block < b.deadline
  /\ burnRequests' = [burnRequests EXCEPT ![r].status = "COMMITTED",
                                          ![r].deadline = block + BurnCommitTimeout]
  /\ BurnUnchanged
  /\ UNCHANGED <<vaults, vaultBurnRequests, abandonedBurns, globalPendingBurnDebt,
                 globalTotalDebt, pendingReturns, wsxmr>>

RevealBurnSecret(r) ==
  LET b == burnRequests[r] IN
  /\ b.status = "COMMITTED" /\ ~b.lpSecret
  /\ block < b.deadline + BurnFinalizeGrace
  /\ burnRequests' = [burnRequests EXCEPT ![r].lpSecret = TRUE]
  /\ BurnUnchanged
  /\ UNCHANGED <<vaults, vaultBurnRequests, abandonedBurns, globalPendingBurnDebt,
                 globalTotalDebt, pendingReturns, wsxmr>>

-----------------------------------------------------------------------------
(* The ways a burn ends. *)
\* Mutant: the pending burn debt is not reduced.
CloseBurnStillPending(r) ==
  /\ vaultBurnRequests' = [vaultBurnRequests EXCEPT ![burnRequests[r].lpVault] = @ \ {r}]
  /\ UNCHANGED globalPendingBurnDebt

\* The bookkeeping every exit shares: the burn leaves the vault's list.
CloseBurn(r) ==
  LET b == burnRequests[r] IN
  /\ vaultBurnRequests' = [vaultBurnRequests EXCEPT ![b.lpVault] = @ \ {r}]
  /\ globalPendingBurnDebt' = Monus(globalPendingBurnDebt, b.wsxmrAmount)

\* The exits that reduce the vault's debt: the lock is released, paid is taken
\* out of the vault and credited to the user.
SettleAgainstDebt(r, paid) ==
  LET b == burnRequests[r]
      V == vaults[b.lpVault]
      cleared == Smaller(b.wsxmrAmount, V.debt)
  IN
  /\ V.lockedCollateral >= TotalLock(b)
  /\ V.collateralShares >= Payable(paid)
  /\ globalTotalDebt >= cleared
  /\ vaults' = [vaults EXCEPT ![b.lpVault].lockedCollateral = @ - TotalLock(b),
                              ![b.lpVault].collateralShares = @ - Payable(paid),
                              ![b.lpVault].debt = @ - cleared]
  /\ globalTotalDebt' = globalTotalDebt - cleared
  /\ pendingReturns' = PayCollateral(b.user, RawFromNorm(paid))
  /\ CloseBurn(r)
  /\ UNCHANGED <<abandonedBurns, wsxmr>>
\* Mutant: the LP's time to finalize ends with the deadline, the user's claim
\* still waits for the grace period.
SettleBurnNoGrace(r) ==
  LET b == burnRequests[r] IN
  /\ b.status = "COMMITTED"
  /\ b.lpSecret \/ block < b.deadline
  /\ SettleAgainstDebt(r, b.rewardCollateral)
  /\ burnRequests' = [burnRequests EXCEPT ![r].status = "COMPLETED", ![r].lpSecret = TRUE]
  /\ BurnUnchanged

\* settleBurn, by anyone, once the LP's secret is stored; finalizeBurn, which
\* reveals it in the same transaction.  The user gets the reward.
SettleBurn(r) ==
  LET b == burnRequests[r] IN
  /\ b.status = "COMMITTED"
  /\ b.lpSecret \/ block < b.deadline + BurnFinalizeGrace
  /\ SettleAgainstDebt(r, b.rewardCollateral)
  /\ burnRequests' = [burnRequests EXCEPT ![r].status = "COMPLETED", ![r].lpSecret = TRUE]
  /\ BurnUnchanged

\* Mutant: the user's claim does not wait for the LP's grace.
ClaimSlashedNoGrace(r) ==
  LET b == burnRequests[r] IN
  /\ b.status = "COMMITTED" /\ ~b.lpSecret /\ block >= b.deadline
  /\ SettleAgainstDebt(r, Smaller(SlashPayout(b), vaults[b.lpVault].collateralShares))
  /\ burnRequests' = [burnRequests EXCEPT ![r].status = "SLASHED", ![r].userSecret = TRUE]
  /\ BurnUnchanged

\* The LP went silent after the commitment; the user reveals its key half and
\* takes par.
ClaimSlashedCollateral(r) ==
  LET b == burnRequests[r] IN
  /\ b.status = "COMMITTED" /\ ~b.lpSecret
  /\ block >= b.deadline + BurnFinalizeGrace
  /\ SettleAgainstDebt(r, Smaller(SlashPayout(b), vaults[b.lpVault].collateralShares))
  /\ burnRequests' = [burnRequests EXCEPT ![r].status = "SLASHED", ![r].userSecret = TRUE]
  /\ BurnUnchanged

\* The LP never proposed; the user takes par ...
ForceSettleBurn(r) ==
  LET b == burnRequests[r] IN
  /\ b.status = "REQUESTED" /\ block >= b.deadline
  /\ SettleAgainstDebt(r, SlashPayout(b))
  /\ burnRequests' = [burnRequests EXCEPT ![r].status = "SLASHED"]
  /\ BurnUnchanged

\* The exits that leave the debt: the lock is released unless the vault was
\* auctioned meanwhile, and minted wsXMR goes to the user.
CancelBurn(r, minted) ==
  LET b == burnRequests[r]
      held == b.vaultLiquidationNonce = vaults[b.lpVault].liquidationNonce
  IN
  /\ held => vaults[b.lpVault].lockedCollateral >= TotalLock(b)
  /\ vaults' = IF held
               THEN [vaults EXCEPT ![b.lpVault].lockedCollateral = @ - TotalLock(b)]
               ELSE vaults
  /\ wsxmr' = [wsxmr EXCEPT ![b.user] = @ + minted]
  /\ CloseBurn(r)
  /\ UNCHANGED <<globalTotalDebt, pendingReturns>>

\* ... or its wsXMR back.
AbortBurn(r) ==
  LET b == burnRequests[r] IN
  /\ b.status = "REQUESTED" /\ block >= b.deadline
  /\ CancelBurn(r, b.wsxmrAmount)
  /\ burnRequests' = [burnRequests EXCEPT ![r].status = "CANCELLED"]
  /\ BurnUnchanged
  /\ UNCHANGED abandonedBurns

\* The user never confirmed: its wsXMR comes back, for its key half.
ResolveDeclinedProposal(r) ==
  LET b == burnRequests[r] IN
  /\ b.status = "PROPOSED" /\ block >= b.deadline
  /\ CancelBurn(r, b.wsxmrAmount)
  /\ burnRequests' = [burnRequests EXCEPT ![r].status = "CANCELLED", ![r].userSecret = TRUE]
  /\ BurnUnchanged
  /\ UNCHANGED abandonedBurns

\* The same call after the LP has abandoned the proposal: only the wsXMR is left.
ResolveAbandonedProposal(r) ==
  LET b == burnRequests[r] IN
  /\ r \in abandonedBurns
  /\ b.status = "CANCELLED" /\ block >= b.deadline
  /\ wsxmr' = [wsxmr EXCEPT ![b.user] = @ + b.wsxmrAmount]
  /\ abandonedBurns' = abandonedBurns \ {r}
  /\ burnRequests' = [burnRequests EXCEPT ![r].userSecret = TRUE]
  /\ BurnUnchanged
  /\ UNCHANGED <<vaults, vaultBurnRequests, globalPendingBurnDebt, globalTotalDebt,
                 pendingReturns>>
\* Mutant: the abandoned burn is refunded at once, and again for the key half.
AbandonProposedBurnRefunded(r) ==
  LET b == burnRequests[r] IN
  /\ b.status = "PROPOSED" /\ block >= b.deadline
  /\ CancelBurn(r, b.wsxmrAmount)
  /\ abandonedBurns' = abandonedBurns \cup {r}
  /\ burnRequests' = [burnRequests EXCEPT ![r].status = "CANCELLED"]
  /\ BurnUnchanged

\* The LP frees its collateral; the wsXMR waits for the user's key half.
AbandonProposedBurn(r) ==
  LET b == burnRequests[r] IN
  /\ b.status = "PROPOSED" /\ block >= b.deadline
  /\ CancelBurn(r, 0)
  /\ abandonedBurns' = abandonedBurns \cup {r}
  /\ burnRequests' = [burnRequests EXCEPT ![r].status = "CANCELLED"]
  /\ BurnUnchanged

BurnNext ==
  \/ \E u \in Burners, v \in Vault, amount \in BurnAmounts : RequestBurn(u, v, amount)
  \/ \E r \in ReqId :
       \/ ProposeHash(r)
       \/ ConfirmMoneroLock(r)
       \/ RevealBurnSecret(r)
       \/ SettleBurn(r)
       \/ ClaimSlashedCollateral(r)
       \/ ForceSettleBurn(r)
       \/ AbortBurn(r)
       \/ ResolveDeclinedProposal(r)
       \/ ResolveAbandonedProposal(r)
       \/ AbandonProposedBurn(r)
=============================================================================
