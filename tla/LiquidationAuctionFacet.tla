----------------------- MODULE LiquidationAuctionFacet ----------------------
(***************************************************************************)
(* Liquidation without an oracle (facets/LiquidationAuctionFacet.sol): a   *)
(* bonded kick, a grace period in which the LP can answer, a Dutch auction *)
(* of the vault's free collateral for its whole debt, and, when nobody     *)
(* bids, a frozen vault that another LP may take over.                     *)
(***************************************************************************)
EXTENDS BurnFacet

KickUnchanged == UNCHANGED <<timeVars, configVars, mintVars, abandonedBurns, requestNonce, hubEth>>

-----------------------------------------------------------------------------
(* _settleInFlightBurns on vault v, for the set S of its listed burns, as  *)
(* functions of the state.  The loop subtracts with a floor of 0, so the   *)
(* order in which it takes the burns matters in one place: a revealed burn *)
(* is paid from what the burns before it left in the vault.  The model     *)
(* takes them in the order of their ids; the code in list order, which a   *)
(* removal changes.                                                        *)

Cancelled(S) == {r \in S : burnRequests[r].status \in {"REQUESTED", "PROPOSED"}}
Committed(S) == {r \in S : burnRequests[r].status = "COMMITTED"}

AmountOf(S) == SumOn(S, [r \in ReqId |-> burnRequests[r].wsxmrAmount], MaxRequests)

\* The locks the loop releases: those of a cancelled burn only when the vault
\* has not been auctioned since the request.
ReleasedLocks(v, S) ==
  SumOn(Committed(S) \cup {r \in Cancelled(S) :
          burnRequests[r].vaultLiquidationNonce = vaults[v].liquidationNonce},
        [r \in ReqId |-> TotalLock(burnRequests[r])], MaxRequests)

\* What a committed burn takes out of the vault: the reward when the LP has
\* revealed, par and the reward when it has not.
Outflow(b) ==
  IF b.lpSecret THEN b.rewardCollateral ELSE Payable(SlashPayout(b) + b.rewardCollateral)
Outflows(S) == SumOn(Committed(S), [r \in ReqId |-> Outflow(burnRequests[r])], MaxRequests)

\* What it pays, raw: a revealed burn is paid from what is left.
PaidRaw(v, S, r) ==
  LET b == burnRequests[r]
      left == Monus(vaults[v].collateralShares, Outflows({q \in S : q < r}))
  IN  IF b.lpSecret THEN RawFromNorm(Smaller(b.rewardCollateral, left))
      ELSE RawFromNorm(SlashPayout(b) + b.rewardCollateral)

SettledVault(v, S) ==
  [vaults[v] EXCEPT !.lockedCollateral = Monus(@, ReleasedLocks(v, S)),
                    !.collateralShares = Monus(@, Outflows(S)),
                    !.debt = Monus(@, AmountOf(Committed(S)))]

SettledReturns(v, S) ==
  [a \in Account |-> [pendingReturns[a] EXCEPT !.collateral = @ +
     SumOn({r \in Committed(S) : burnRequests[r].user = a},
           [r \in ReqId |-> PaidRaw(v, S, r)], MaxRequests)]]

SettledBalances(S) ==
  [a \in Account |-> wsxmr[a] + AmountOf({r \in Cancelled(S) : burnRequests[r].user = a})]

SettledDebt(v, S) == globalTotalDebt - (vaults[v].debt - SettledVault(v, S).debt)

\* The burns themselves, and the list they leave.
SettleBurns(v, S) ==
  /\ globalTotalDebt >= vaults[v].debt - SettledVault(v, S).debt
  /\ burnRequests' = [r \in ReqId |->
       IF r \in Cancelled(S) THEN [burnRequests[r] EXCEPT !.status = "CANCELLED"]
       ELSE IF r \in Committed(S)
            THEN [burnRequests[r] EXCEPT !.status = IF @ = "COMMITTED" /\ burnRequests[r].lpSecret
                                                   THEN "COMPLETED" ELSE "SLASHED"]
            ELSE burnRequests[r]]
  /\ globalPendingBurnDebt' = Monus(globalPendingBurnDebt, AmountOf(Cancelled(S) \cup Committed(S)))
  /\ vaultBurnRequests' = [vaultBurnRequests EXCEPT ![v] = @ \ S]
\* Mutant: only committed burns are settled.
ToSettleCommitted(v) ==
  IF vaultKicks[v].auctionOpened THEN {} ELSE Committed(vaultBurnRequests[v])

\* _ensureAuctionOpened: the burns it settles (none if it already ran), and
\* the vault it leaves.
ToSettle(v) == IF vaultKicks[v].auctionOpened THEN {} ELSE vaultBurnRequests[v]
\* Mutant: mints keyed before the auction may still complete in it.
OpenedVaultKeepsMints(v) ==
  LET V == SettledVault(v, ToSettle(v)) IN
  IF vaultKicks[v].auctionOpened THEN V ELSE [V EXCEPT !.liquidationNonce = @ + 1]

OpenedVault(v) ==
  LET V == SettledVault(v, ToSettle(v)) IN
  IF vaultKicks[v].auctionOpened THEN V
  ELSE [V EXCEPT !.liquidationNonce = @ + 1, !.mintNonce = @ + 1]
\* Mutant: the bonds of keyed mints are offered with the rest.
OfferedLocked(v) ==
  IF vaultKicks[v].auctionOpened THEN vaultKicks[v].offeredCollateral
  ELSE OpenedVault(v).collateralShares

Offered(v) ==
  IF vaultKicks[v].auctionOpened THEN vaultKicks[v].offeredCollateral
  ELSE FreeCollateral(OpenedVault(v))

-----------------------------------------------------------------------------
(* The kick. *)

\* _startKick: the kicker's bond moves into the hub, in whole raw units.
StartKick(v, kicker) ==
  LET share == (vaults[v].collateralShares * KickBondBps) \div BpsDenominator
      bondRaw == RawFromNorm(IF share < KickBondMin THEN KickBondMin ELSE share)
  IN
  /\ bondRaw > 0
  /\ hubCollateral + bondRaw <= MaxCollateral
  /\ hubCollateral' = hubCollateral + bondRaw
  /\ vaultKicks' = [vaultKicks EXCEPT ![v] =
       [NoKick EXCEPT !.active = TRUE, !.kicker = kicker, !.bond = NormFromRaw(bondRaw),
                      !.kickBlock = block,
                      !.auctionEnd = block + KickGrace + AuctionOpenDelay + AuctionDuration]]
  /\ UNCHANGED <<vaults, burnRequests, vaultBurnRequests, globalPendingBurnDebt,
                 vaultLastKickResolved, globalTotalDebt, pendingReturns, wsxmr, backstopped>>

Kick(kicker, v) ==
  /\ vaults[v].active /\ v \notin vaultFrozen /\ ~vaultKicks[v].active
  /\ block >= vaultLastKickResolved[v] + KickCooldown
  /\ vaults[v].debt > 0
  /\ StartKick(v, kicker)
  /\ KickUnchanged
  /\ UNCHANGED <<vaultFrozen, vaultReauctionUsed>>

\* Once per vault, a frozen vault may be kicked again.
Reauction(kicker, v) ==
  /\ vaults[v].active /\ v \in vaultFrozen /\ v \notin vaultReauctionUsed
  /\ ~vaultKicks[v].active
  /\ block >= vaultLastKickResolved[v] + KickCooldown
  /\ vaults[v].debt > 0
  /\ vaultReauctionUsed' = vaultReauctionUsed \cup {v}
  /\ vaultFrozen' = vaultFrozen \ {v}
  /\ StartKick(v, kicker)
  /\ KickUnchanged

OpenAuction(v) ==
  /\ vaultKicks[v].active
  /\ block >= vaultKicks[v].kickBlock + KickGrace
  /\ SettleBurns(v, ToSettle(v))
  /\ vaults' = [vaults EXCEPT ![v] = OpenedVault(v)]
  /\ vaultKicks' = [vaultKicks EXCEPT ![v].auctionOpened = TRUE,
                                      ![v].offeredCollateral = Offered(v)]
  /\ globalTotalDebt' = SettledDebt(v, ToSettle(v))
  /\ pendingReturns' = SettledReturns(v, ToSettle(v))
  /\ wsxmr' = SettledBalances(ToSettle(v))
  /\ KickUnchanged
  /\ UNCHANGED <<vaultLastKickResolved, vaultFrozen, vaultReauctionUsed, hubCollateral, backstopped>>

-----------------------------------------------------------------------------
(* The bid. *)

\* X(t): from HaircutStartBps down to HaircutFloorBps over AuctionDuration.
CurrentXBps(k) ==
  LET start == k.kickBlock + KickGrace + AuctionOpenDelay
      elapsed == Monus(block, start)
  IN  IF elapsed >= AuctionDuration THEN HaircutFloorBps
      ELSE HaircutStartBps
             - ((HaircutStartBps - HaircutFloorBps) * elapsed) \div AuctionDuration

\* The burns in flight cleared the debt: nothing to sell, the bond goes to the LP.
BidNothingOwed(v) ==
  /\ OpenedVault(v).debt = 0
  /\ vaults' = [vaults EXCEPT ![v] =
                  [OpenedVault(v) EXCEPT !.collateralShares = @ + vaultKicks[v].bond]]
  /\ globalTotalDebt' = SettledDebt(v, ToSettle(v))
  /\ pendingReturns' = SettledReturns(v, ToSettle(v))
  /\ wsxmr' = SettledBalances(ToSettle(v))
  /\ UNCHANGED hubCollateral

\* The bidder pays the whole debt in wsXMR for X% of the offer, the kicker
\* gets a chip of the surplus and, unless the kick proves wrongful, its bond.
BidWhole(bidder, v) ==
  LET k == vaultKicks[v]
      V == OpenedVault(v)
      bidderNorm == (Offered(v) * CurrentXBps(k)) \div BpsDenominator
      bidderRaw == RawFromNorm(bidderNorm)
      chipRaw == RawFromNorm(((Offered(v) - bidderNorm) * ChipBps) \div BpsDenominator)
      wrongful == CurrentXBps(k) <= KickSaneBps
      kickerRaw == IF wrongful THEN chipRaw ELSE RawFromNorm(k.bond) + chipRaw
      left == Monus(V.collateralShares, NormFromRaw(bidderRaw) + NormFromRaw(chipRaw))
      settled == SettledReturns(v, ToSettle(v))
      balances == SettledBalances(ToSettle(v))
  IN
  /\ V.debt > 0
  /\ balances[bidder] >= V.debt
  /\ hubCollateral >= bidderRaw
  /\ vaults' = [vaults EXCEPT ![v] =
       [V EXCEPT !.collateralShares = IF wrongful THEN left + k.bond ELSE left, !.debt = 0]]
  /\ globalTotalDebt' = Monus(SettledDebt(v, ToSettle(v)), V.debt)
  /\ pendingReturns' = [settled EXCEPT ![k.kicker].collateral = @ + kickerRaw]
  /\ wsxmr' = [balances EXCEPT ![bidder] = @ - V.debt]
  /\ hubCollateral' = hubCollateral - bidderRaw

Bid(bidder, v) ==
  /\ vaultKicks[v].active
  /\ KickPhase(vaultKicks[v]) = "ACTIVE"
  /\ SettleBurns(v, ToSettle(v))
  /\ BidNothingOwed(v) \/ BidWhole(bidder, v)
  /\ ClearKick(v)
  /\ KickUnchanged
  /\ UNCHANGED <<vaultFrozen, vaultReauctionUsed, backstopped>>

-----------------------------------------------------------------------------
(* No bid: the vault freezes, and may be taken over. *)
\* Mutant: the bond of an inconclusive kick is not returned.
ResolvedReturnsUnpaid(v) == SettledReturns(v, ToSettle(v))

\* Where _resolveKickToFrozen leaves pendingReturns: the bond goes back.
ResolvedReturns(v) ==
  [SettledReturns(v, ToSettle(v)) EXCEPT
     ![vaultKicks[v].kicker].collateral = @ + RawFromNorm(vaultKicks[v].bond)]

ResolveKick(v) ==
  /\ vaultKicks[v].active
  /\ KickPhase(vaultKicks[v]) = "ENDED"
  /\ SettleBurns(v, ToSettle(v))
  /\ vaults' = [vaults EXCEPT ![v] = OpenedVault(v)]
  /\ globalTotalDebt' = SettledDebt(v, ToSettle(v))
  /\ pendingReturns' = ResolvedReturns(v)
  /\ wsxmr' = SettledBalances(ToSettle(v))
  /\ vaultFrozen' = vaultFrozen \cup {v}
  /\ ClearKick(v)
  /\ KickUnchanged
  /\ UNCHANGED <<vaultReauctionUsed, hubCollateral, backstopped>>
\* Mutant: the emptied vault keeps its debt.
AbsorbKeepsDebt(old, new, oldV, newV) ==
  LET absorbed == [newV EXCEPT !.debt = @ + oldV.debt,
                               !.collateralShares = @ + oldV.collateralShares]
  IN
  /\ oldV.debt > 0
  /\ FreeCollateral(absorbed)
       >= RequiredCollateral(absorbed.debt + absorbed.pendingDebt, absorbed.threshold)
  /\ vaults' = [vaults EXCEPT
       ![new] = absorbed,
       ![old] = [oldV EXCEPT !.collateralShares = 0, !.lockedCollateral = 0,
                             !.liquidationNonce = @ + 1, !.mintNonce = @ + 1]]
  /\ backstopped' = backstopped \cup {old}

\* The vault old, whose burns S are settled first, goes to the vault new as it
\* stands: its debt and all its collateral.
Absorb(old, new, oldV, newV) ==
  LET absorbed == [newV EXCEPT !.debt = @ + oldV.debt,
                               !.collateralShares = @ + oldV.collateralShares]
  IN
  /\ oldV.debt > 0
  /\ FreeCollateral(absorbed)
       >= RequiredCollateral(absorbed.debt + absorbed.pendingDebt, absorbed.threshold)
  /\ vaults' = [vaults EXCEPT
       ![new] = absorbed,
       ![old] = [oldV EXCEPT !.debt = 0, !.collateralShares = 0, !.lockedCollateral = 0,
                             !.liquidationNonce = @ + 1, !.mintNonce = @ + 1]]
  /\ backstopped' = backstopped \cup {old}

\* backstopVault on a frozen vault.
BackstopFrozen(old, new) ==
  LET S == vaultBurnRequests[old] IN
  /\ ~vaultKicks[old].active /\ old \in vaultFrozen
  /\ SettleBurns(old, S)
  /\ Absorb(old, new, SettledVault(old, S), vaults[new])
  /\ globalTotalDebt' = SettledDebt(old, S)
  /\ pendingReturns' = SettledReturns(old, S)
  /\ wsxmr' = SettledBalances(S)
  /\ UNCHANGED <<vaultKicks, vaultLastKickResolved>>

\* backstopVault on a kick that has ended, which it resolves first.
BackstopEnded(old, new) ==
  LET S == vaultBurnRequests[old] IN
  /\ vaultKicks[old].active
  /\ KickPhase(vaultKicks[old]) = "ENDED"
  /\ SettleBurns(old, S)
  /\ Absorb(old, new,
            [SettledVault(old, S) EXCEPT
               !.liquidationNonce = OpenedVault(old).liquidationNonce,
               !.mintNonce = OpenedVault(old).mintNonce],
            vaults[new])
  /\ globalTotalDebt' = SettledDebt(old, S)
  /\ pendingReturns' =
       [SettledReturns(old, S) EXCEPT
          ![vaultKicks[old].kicker].collateral = @ + RawFromNorm(vaultKicks[old].bond)]
  /\ wsxmr' = SettledBalances(S)
  /\ ClearKick(old)

BackstopVault(old, new) ==
  /\ vaults[old].active /\ vaults[new].active
  /\ old # new /\ ~Blocked(new)
  /\ BackstopFrozen(old, new) \/ BackstopEnded(old, new)
  /\ vaultFrozen' = vaultFrozen \ {old}
  /\ KickUnchanged
  /\ UNCHANGED <<vaultReauctionUsed, hubCollateral>>

AuctionNext ==
  \/ \E kicker \in Kickers, v \in Vault : Kick(kicker, v) \/ Reauction(kicker, v)
  \/ \E v \in Vault : OpenAuction(v) \/ ResolveKick(v)
  \/ \E bidder \in Bidders, v \in Vault : Bid(bidder, v)
  \/ \E old \in Vault, new \in Backstoppers : BackstopVault(old, new)
=============================================================================
