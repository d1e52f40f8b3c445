------------------------------ MODULE MintFacet -----------------------------
(***************************************************************************)
(* The mint swap (facets/MintFacet.sol): a user asks an LP for wsXMR, the  *)
(* LP keys the request and bonds it, the user pays on Monero, the LP       *)
(* attests the payment, the user reveals its secret and wsXMR is minted.   *)
(* Every wait has a timeout, and every timeout an exit that either makes   *)
(* the LP publish its secret or pays the user from the LP's bond.          *)
(* The secret an action verifies (Ed25519, external) is the right one.     *)
(***************************************************************************)
EXTENDS WsXmrStorage

MintUnchanged == UNCHANGED <<timeVars, configVars, burnVars, kickVars, backstopped, hubVars>>
\* Mutant: an exit forgets the reservation.
ReleaseDebtForgotten(V, m) == V

\* The vault after the reservation of m's debt is released.
ReleaseDebt(V, m) == [V EXCEPT !.pendingDebt = Monus(@, m.wsxmrAmount)]
\* Mutant: the reservation is released again with the lock.
ReleaseLockAndDebt(V, m) ==
  [ReleaseDebt(V, m) EXCEPT !.lockedCollateral = Monus(@, m.lockedCollateral)]

\* ... after m's lock is released, if the vault still holds as much.
ReleaseLock(V, m) ==
  [V EXCEPT !.lockedCollateral = IF @ >= m.lockedCollateral THEN @ - m.lockedCollateral ELSE @]

NonceMatches(m) == m.vaultMintNonce = vaults[m.lpVault].mintNonce

\* The vault must keep, beside the key bond, free collateral for all its debt
\* and all that is pending, at its own threshold.  Nothing is reserved yet.
InitiateMint(u, recipient, v, amount, value) ==
  LET V == vaults[v]
      bond == ParLockFor(amount, V.threshold)
      id == requestNonce + 1
  IN
  /\ requestNonce < MaxRequests
  /\ V.active /\ ~Blocked(v)
  /\ u \in whitelistedMinters[v] \/ (V.griefingDeposit > 0 /\ value >= V.griefingDeposit)
  /\ V.maxMint = 0 \/ amount <= V.maxMint
  /\ FreeCollateral(V) >= bond
  /\ FreeCollateral(V) - bond >= RequiredCollateral(V.debt + V.pendingDebt + amount, V.threshold)
  /\ requestNonce' = id
  /\ mintRequests' = [mintRequests EXCEPT ![id] =
       [EmptyMint EXCEPT !.status = "PENDING", !.initiator = u, !.recipient = recipient,
                         !.lpVault = v, !.wsxmrAmount = amount,
                         !.feeAmount = (amount * V.mintFee) \div BpsDenominator,
                         !.timeout = block + V.mintTimeout, !.griefingDeposit = value,
                         !.vaultMintNonce = V.mintNonce]]
  /\ hubEth' = hubEth + value
  /\ UNCHANGED <<timeVars, vaults, configVars, totalPendingMints, burnVars, kickVars,
                 globalTotalDebt, pendingReturns, wsxmr, hubCollateral, backstopped>>

\* The LP engages: debt capacity is reserved and the key bond locked.
ProvideLPKey(r) ==
  LET m == mintRequests[r]
      V == vaults[m.lpVault]
      bond == ParLockFor(m.wsxmrAmount, V.threshold)
      pending == V.pendingDebt + m.wsxmrAmount
  IN
  /\ m.status = "PENDING" /\ block < m.timeout
  /\ ~Blocked(m.lpVault) /\ NonceMatches(m)
  /\ FreeCollateral(V) >= bond
  /\ FreeCollateral(V) - bond >= RequiredCollateral(V.debt + pending, V.threshold)
  /\ vaults' = [vaults EXCEPT ![m.lpVault].pendingDebt = pending,
                              ![m.lpVault].lockedCollateral = @ + bond]
  /\ mintRequests' = [mintRequests EXCEPT ![r].status = "KEY_PROVIDED",
                                          ![r].lockedCollateral = bond]
  /\ MintUnchanged
  /\ UNCHANGED <<totalPendingMints, globalTotalDebt, requestNonce, pendingReturns, wsxmr>>

\* The LP attests the deposit: the bond is re-priced at the current threshold.
SetMintReady(r) ==
  LET m == mintRequests[r]
      V == vaults[m.lpVault]
      lock == ParLockFor(m.wsxmrAmount, V.threshold)
      free == FreeCollateral(V) + m.lockedCollateral
  IN
  /\ m.status = "KEY_PROVIDED" /\ block < m.timeout
  /\ ~Blocked(m.lpVault) /\ NonceMatches(m)
  /\ free >= lock
  /\ free - lock >= RequiredCollateral(V.debt + V.pendingDebt, V.threshold)
  /\ V.lockedCollateral + lock >= m.lockedCollateral
  /\ vaults' = [vaults EXCEPT ![m.lpVault].lockedCollateral = (@ + lock) - m.lockedCollateral,
                              ![m.lpVault].pendingMintCount = @ + 1]
  /\ mintRequests' = [mintRequests EXCEPT ![r].status = "READY", ![r].lockedCollateral = lock,
                                          ![r].timeout = block + MintReadyExtension]
  /\ totalPendingMints' = totalPendingMints + 1
  /\ MintUnchanged
  /\ UNCHANGED <<globalTotalDebt, requestNonce, pendingReturns, wsxmr>>

\* The user's secret goes on chain; anyone holding it may send it, and neither
\* the timeout nor the state of the vault matters.
RevealSecret(r) ==
  /\ mintRequests[r].status = "READY"
  /\ mintRequests' = [mintRequests EXCEPT ![r].status = "SECRET_REVEALED",
                                          ![r].userSecret = TRUE]
  /\ MintUnchanged
  /\ UNCHANGED <<vaults, totalPendingMints, globalTotalDebt, requestNonce, pendingReturns, wsxmr>>

-----------------------------------------------------------------------------
(* _finalizeMint, reached from finalizeMint and from cancelMint. *)

\* The vault went to auction after the request was keyed: no wsXMR is minted,
\* the user gets the lock if the vault still holds it.
FinalizeAfterAuction(r) ==
  LET m == mintRequests[r]
      V == vaults[m.lpVault]
      slash == /\ m.lockedCollateral > 0
               /\ V.lockedCollateral >= m.lockedCollateral
               /\ V.collateralShares >= m.lockedCollateral
      lost == IF slash THEN m.lockedCollateral ELSE 0
  IN
  /\ ~NonceMatches(m)
  /\ V.pendingMintCount > 0 /\ totalPendingMints > 0
  /\ vaults' = [vaults EXCEPT ![m.lpVault] =
       [ReleaseDebt(V, m) EXCEPT !.pendingMintCount = @ - 1,
                                 !.lockedCollateral = @ - lost, !.collateralShares = @ - lost]]
  /\ mintRequests' = [mintRequests EXCEPT ![r].status = "CANCELLED"]
  /\ totalPendingMints' = totalPendingMints - 1
  /\ pendingReturns' = [pendingReturns EXCEPT ![m.initiator].collateral = @ + RawFromNorm(lost),
                                              ![m.initiator].eth = @ + m.griefingDeposit]
  /\ UNCHANGED <<globalTotalDebt, requestNonce, wsxmr>>

\* The swap completes: pending debt becomes debt, wsXMR is minted, less the fee.
FinalizeMinting(r) ==
  LET m == mintRequests[r]
      v == m.lpVault
      V == vaults[v]
      paid == [wsxmr EXCEPT ![m.recipient] = @ + (m.wsxmrAmount - m.feeAmount)]
  IN
  /\ NonceMatches(m)
  /\ V.lockedCollateral >= m.lockedCollateral
  /\ V.pendingDebt >= m.wsxmrAmount
  /\ V.pendingMintCount > 0 /\ totalPendingMints > 0
  /\ vaults' = [vaults EXCEPT ![v].lockedCollateral = @ - m.lockedCollateral,
                              ![v].pendingDebt = @ - m.wsxmrAmount,
                              ![v].debt = @ + m.wsxmrAmount,
                              ![v].pendingMintCount = @ - 1]
  /\ globalTotalDebt' = globalTotalDebt + m.wsxmrAmount
  /\ wsxmr' = [paid EXCEPT ![v] = @ + m.feeAmount]
  /\ pendingReturns' = PayEth(m.initiator, m.griefingDeposit)
  /\ mintRequests' = [mintRequests EXCEPT ![r].status = "COMPLETED"]
  /\ totalPendingMints' = totalPendingMints - 1
  /\ UNCHANGED requestNonce

FinalizeMint(r) ==
  /\ mintRequests[r].status = "SECRET_REVEALED"
  /\ FinalizeAfterAuction(r) \/ FinalizeMinting(r)
  /\ MintUnchanged

-----------------------------------------------------------------------------
(* cancelMint: anyone, after the timeout, one branch per status. *)

CancelPendingMint(r) ==
  LET m == mintRequests[r] IN
  /\ m.status = "PENDING"
  /\ mintRequests' = [mintRequests EXCEPT ![r].status = "CANCELLED"]
  /\ pendingReturns' = PayEth(m.initiator, m.griefingDeposit)
  /\ UNCHANGED <<vaults, totalPendingMints, globalTotalDebt, requestNonce, wsxmr>>

\* The deposit is parked as a bounty for the LP's secret, and a READY request
\* that times out keeps its lock; both wait LpClaimWindow for the LP.
ExpireMint(r, from, to) ==
  LET m == mintRequests[r] IN
  /\ m.status = from
  /\ vaults' = [vaults EXCEPT ![m.lpVault] = ReleaseDebt(@, m)]
  /\ mintRequests' = [mintRequests EXCEPT ![r].status = to,
                                          ![r].timeout = block + LpClaimWindow]
  /\ UNCHANGED <<totalPendingMints, globalTotalDebt, requestNonce, pendingReturns, wsxmr>>

CancelMint(r) ==
  /\ block >= mintRequests[r].timeout
  /\ \/ CancelPendingMint(r)
     \/ ExpireMint(r, "KEY_PROVIDED", "KEY_CANCELLED")
     \/ ExpireMint(r, "READY", "EXPIRED_READY")
     \/ /\ mintRequests[r].status = "SECRET_REVEALED"
        /\ FinalizeAfterAuction(r) \/ FinalizeMinting(r)
  /\ MintUnchanged

-----------------------------------------------------------------------------
(* The LP publishes its secret, frees its bond and takes the deposit. *)

\* abandonKeyProvidedMint: from KEY_PROVIDED after the timeout, from
\* KEY_CANCELLED before the claim window closes.
AbandonKeyProvidedMint(r) ==
  LET m == mintRequests[r]
      V == vaults[m.lpVault]
      released == ReleaseLock(V, m)
      freed == m.lockedCollateral > 0 /\ V.lockedCollateral >= m.lockedCollateral
  IN
  /\ \/ /\ m.status = "KEY_PROVIDED" /\ block >= m.timeout
        /\ vaults' = [vaults EXCEPT ![m.lpVault] = ReleaseDebt(released, m)]
     \/ /\ m.status = "KEY_CANCELLED" /\ block < m.timeout
        /\ vaults' = [vaults EXCEPT ![m.lpVault] = released]
  /\ mintRequests' = [mintRequests EXCEPT ![r].status = "CANCELLED", ![r].lpSecret = TRUE,
                                          ![r].lockedCollateral = IF freed THEN 0 ELSE @]
  /\ pendingReturns' = PayEth(m.lpVault, m.griefingDeposit)
  /\ MintUnchanged
  /\ UNCHANGED <<totalPendingMints, globalTotalDebt, requestNonce, wsxmr>>

\* claimGriefingDeposit: from EXPIRED_READY, before the claim window closes.
ClaimGriefingDeposit(r) ==
  LET m == mintRequests[r]
      V == vaults[m.lpVault]
  IN
  /\ m.status = "EXPIRED_READY" /\ block < m.timeout
  /\ V.pendingMintCount > 0 /\ totalPendingMints > 0
  /\ vaults' = [vaults EXCEPT ![m.lpVault] =
                  [ReleaseLock(V, m) EXCEPT !.pendingMintCount = @ - 1]]
  /\ mintRequests' = [mintRequests EXCEPT ![r].status = "CANCELLED", ![r].lpSecret = TRUE]
  /\ totalPendingMints' = totalPendingMints - 1
  /\ pendingReturns' = PayEth(m.lpVault, m.griefingDeposit)
  /\ MintUnchanged
  /\ UNCHANGED <<globalTotalDebt, requestNonce, wsxmr>>

-----------------------------------------------------------------------------
(* The LP stayed silent: anyone sends the deposit, and the lock if the     *)
(* vault has not been auctioned since, back to the initiator.              *)
\* Mutants: the lock is slashed whatever became of the vault, or only when the
\* vault holds more than the lock.
SlashedAnyway(m) == m.lockedCollateral
SlashedStrictly(m) ==
  IF NonceMatches(m) /\ vaults[m.lpVault].collateralShares > m.lockedCollateral
  THEN m.lockedCollateral ELSE 0

\* What the user gets of the lock, normalized.
Slashed(m) ==
  IF NonceMatches(m) /\ vaults[m.lpVault].collateralShares >= m.lockedCollateral
  THEN m.lockedCollateral ELSE 0

\* Mutant: the LP's claim window is not waited for.
ReturnToInitiatorEarly(r) ==
  LET m == mintRequests[r] IN
  /\ mintRequests' = [mintRequests EXCEPT ![r].status = "CANCELLED"]
  /\ pendingReturns' = [pendingReturns EXCEPT
       ![m.initiator].collateral = @ + RawFromNorm(Slashed(m)),
       ![m.initiator].eth = @ + m.griefingDeposit]

ReturnToInitiator(r) ==
  LET m == mintRequests[r] IN
  /\ block >= m.timeout
  /\ mintRequests' = [mintRequests EXCEPT ![r].status = "CANCELLED"]
  /\ pendingReturns' = [pendingReturns EXCEPT
       ![m.initiator].collateral = @ + RawFromNorm(Slashed(m)),
       ![m.initiator].eth = @ + m.griefingDeposit]

ReclaimParkedDeposit(r) ==
  LET m == mintRequests[r]
      V == vaults[m.lpVault]
  IN
  /\ m.status = "KEY_CANCELLED"
  /\ ReturnToInitiator(r)
  /\ vaults' = [vaults EXCEPT ![m.lpVault] =
                  [ReleaseLock(V, m) EXCEPT !.collateralShares = @ - Slashed(m)]]
  /\ MintUnchanged
  /\ UNCHANGED <<totalPendingMints, globalTotalDebt, requestNonce, wsxmr>>

SweepUnclaimedExpiredMint(r) ==
  LET m == mintRequests[r]
      V == vaults[m.lpVault]
  IN
  /\ m.status = "EXPIRED_READY"
  /\ V.pendingMintCount > 0 /\ totalPendingMints > 0
  /\ ReturnToInitiator(r)
  /\ vaults' = [vaults EXCEPT ![m.lpVault] =
                  [ReleaseLock(V, m) EXCEPT !.collateralShares = @ - Slashed(m),
                                            !.pendingMintCount = @ - 1]]
  /\ totalPendingMints' = totalPendingMints - 1
  /\ MintUnchanged
  /\ UNCHANGED <<globalTotalDebt, requestNonce, wsxmr>>

MintNext ==
  \/ \E u \in Minters, recipient \in Recipients, v \in Vault,
        amount \in MintAmounts, value \in EthValues :
       InitiateMint(u, recipient, v, amount, value)
  \/ \E r \in ReqId :
       \/ ProvideLPKey(r)
       \/ SetMintReady(r)
       \/ RevealSecret(r)
       \/ FinalizeMint(r)
       \/ CancelMint(r)
       \/ AbandonKeyProvidedMint(r)
       \/ ClaimGriefingDeposit(r)
       \/ ReclaimParkedDeposit(r)
       \/ SweepUnclaimedExpiredMint(r)
=============================================================================
