---------------------------- MODULE HubProperties ---------------------------
(***************************************************************************)
(* What the hub promises, whatever the order in which LPs, users, kickers  *)
(* and bidders call it: its ledgers agree with the requests in flight, its *)
(* tokens cover what it owes, and no timeout leaves a party empty-handed.  *)
(*                                                                         *)
(* A backstop zeroes the lock of the vault it empties while the requests   *)
(* the lock stood for live on, so what follows from the lock ledger is     *)
(* claimed of the vaults no backstop has emptied.                          *)
(***************************************************************************)
EXTENDS WsXmrHub

Intact == Vault \ backstopped

-----------------------------------------------------------------------------
(* Ledgers over the requests. *)

MintLive == {"KEY_PROVIDED", "READY", "SECRET_REVEALED"}
MintBonded == MintLive \cup {"EXPIRED_READY", "KEY_CANCELLED"}
MintCounted == {"READY", "SECRET_REVEALED", "EXPIRED_READY"}

\* The mints of v whose status is in S, and the burns of v in flight.
MintsOf(v, S) == {r \in ReqId : mintRequests[r].lpVault = v /\ mintRequests[r].status \in S}
BurnsOf(v) == {r \in ReqId : burnRequests[r].lpVault = v /\ burnRequests[r].status \in ActiveBurn}
BurnsInFlight == {r \in ReqId : burnRequests[r].status \in ActiveBurn}

MintAmount == [r \in ReqId |-> mintRequests[r].wsxmrAmount]
MintBond == [r \in ReqId |-> mintRequests[r].lockedCollateral]
BurnAmount == [r \in ReqId |-> burnRequests[r].wsxmrAmount]
BurnCollateral == [r \in ReqId |-> TotalLock(burnRequests[r])]

MintLocks(v) == SumOn(MintsOf(v, MintBonded), MintBond, MaxRequests)
BurnLocks(v) == SumOn(BurnsOf(v), BurnCollateral, MaxRequests)

\* What the requests in flight hold of a vault is released exactly once, by whichever
\* exit.  The lock ledger is the bonds of the keyed mints, until each is paid out
\* or released, and the locks of the burns in flight; the pending debt is the mints
\* the LP has keyed and that can still complete, the floor of a release never reached;
\* the two counters that stop a vault from withdrawing count the attested mints whose
\* user may still be owed something.
RequestsAccounted ==
  /\ \A v \in Intact : vaults[v].lockedCollateral = MintLocks(v) + BurnLocks(v)
  /\ \A v \in Vault :
       /\ vaults[v].pendingDebt = SumOn(MintsOf(v, MintLive), MintAmount, MaxRequests)
       /\ vaults[v].pendingMintCount = Cardinality(MintsOf(v, MintCounted))
  /\ totalPendingMints = Cardinality({r \in ReqId : mintRequests[r].status \in MintCounted})

\* What is locked is there: locks are made of free collateral and nothing but
\* what is locked for it is paid to a request.
LockedWithinShares ==
  \A v \in Intact : vaults[v].lockedCollateral <= vaults[v].collateralShares

\* The global debt is the sum of the vaults' debts (the test suites assert it
\* after single operations), so the floor in repayDebt and bid is never reached
\* and no settlement underflows.
DebtLedger ==
  globalTotalDebt = Sum([v \in Vault |-> vaults[v].debt], NumVaults)

\* Every burn an auction must settle is in its vault's list, nothing else is, and
\* each was requested since the vault's last auction: the branches of the exits
\* for a vault auctioned meanwhile are never taken by a listed burn.
BurnListExact ==
  \A v \in Vault :
    /\ vaultBurnRequests[v] = BurnsOf(v)
    /\ \A r \in BurnsOf(v) :
         burnRequests[r].vaultLiquidationNonce = vaults[v].liquidationNonce

PendingBurnAccounting ==
  globalPendingBurnDebt = SumOn(BurnsInFlight, BurnAmount, MaxRequests)

\* wsXMR is backed: the tokens held, those burnt by a request that may still give
\* them back, and those an abandoned proposal owes never exceed the vaults' debt.
\* No order of cancellation, abandonment and auction restores a burn twice.
SupplyBacked ==
  Sum(wsxmr, NumVaults + NumUsers)
    + SumOn(BurnsInFlight \cup abandonedBurns, BurnAmount, MaxRequests) <= globalTotalDebt

-----------------------------------------------------------------------------
(* Solvency. *)

Owed ==
  Sum([v \in Vault |-> vaults[v].collateralShares + vaultKicks[v].bond], NumVaults)
    + NormFromRaw(Sum([a \in Account |-> pendingReturns[a].collateral], NumVaults + NumUsers))

Solvent == NormFromRaw(hubCollateral) >= Owed
Exact == CollateralScale = 1 => hubCollateral = Owed

\* The hub holds the collateral of every vault, every bond and every return, in
\* whatever way the raw amounts it pays out are rounded.  A backstop ends the promise:
\* a mint keyed before it still releases its lock, which is gone, out of the locks
\* of burns requested since; the vault withdraws what they need, and the
\* next auction pays them all the same.
HubSolvent == backstopped = {} => Solvent

\* With a collateral of 18 decimals nothing is rounded, and nothing is stranded
\* in the hub either.
HubExact == backstopped = {} => Exact

LiveDeposits == {r \in ReqId : mintRequests[r].status \in {"PENDING"} \cup MintBonded}

\* Each griefing deposit is held for its request until one exit pays it, once.
EthExact ==
  hubEth = Sum([a \in Account |-> pendingReturns[a].eth], NumVaults + NumUsers)
             + SumOn(LiveDeposits, [r \in ReqId |-> mintRequests[r].griefingDeposit], MaxRequests)

\* A vault that was deactivated or evicted left nobody behind: no debt, nothing
\* locked (so no burn in flight that holds collateral, by RequestsAccounted), nothing
\* pending and no keyed mint.  Only the guards of both exits, which look at the vault
\* and not at its requests, stand between a request in flight and an LP that is gone.
\* An eviction does not look at a kick either: the bond of one that was running may
\* come back to a vault whose LP cannot withdraw it, and to no other.
RetiredIsSettled ==
  \A v \in Intact : (vaults[v].registered /\ ~vaults[v].active) =>
    /\ vaults[v].debt = 0 /\ vaults[v].lockedCollateral = 0 /\ vaults[v].pendingDebt = 0
    /\ MintsOf(v, MintBonded) = {}
    /\ vaults[v].collateralShares = 0 \/ vaults[v].liquidationNonce > 0

\* An opened auction sells what the vault has: the offer stays free collateral, as
\* long as the vault is not evicted in the auction (which then has no debt to sell for).
OfferBacked ==
  \A v \in Intact : (vaultKicks[v].auctionOpened /\ vaults[v].active) =>
    vaultKicks[v].offeredCollateral + vaults[v].lockedCollateral <= vaults[v].collateralShares

-----------------------------------------------------------------------------
(* No exit is blocked by a guard the ledgers should satisfy. *)

\* Once the user's secret is public the mint must complete: none of the checked
\* subtractions of _finalizeMint can fail.
RevealedMintCompletes ==
  \A r \in ReqId :
    LET m == mintRequests[r] IN
    (m.status = "SECRET_REVEALED" /\ m.lpVault \in Intact) =>
      ENABLED FinalizeMint(r)

\* A burn in flight has a way out for its user, now or at its deadline: the LP's
\* secret settles it, silence is paid for.
BurnHasExit ==
  \A r \in ReqId :
    LET b == burnRequests[r] IN
    b.lpVault \in Intact =>
      /\ b.status = "REQUESTED" /\ block >= b.deadline =>
           ENABLED ForceSettleBurn(r) /\ ENABLED AbortBurn(r)
      /\ b.status = "PROPOSED" /\ block >= b.deadline => ENABLED ResolveDeclinedProposal(r)
      /\ b.status = "COMMITTED" =>
           ENABLED SettleBurn(r) \/ ENABLED ClaimSlashedCollateral(r)

-----------------------------------------------------------------------------
(* What a step may never do. *)

\* The raw collateral a step credits to an account.
Credited(a) == Monus(pendingReturns'[a].collateral, pendingReturns[a].collateral)

\* A keyed mint is cancelled only at a price: the LP's secret is published (the
\* user recovers its XMR), the bond is paid to the user, or an auction has
\* changed the vault's mint nonce meanwhile.  In a vault that a backstop has emptied the
\* bond may be paid out of what a later deposit locked, and fall short.
KeyedMintExit ==
  [][\A r \in ReqId :
       (/\ mintRequests[r].status \in MintBonded
        /\ mintRequests[r].lpVault \in Intact
        /\ mintRequests'[r].status = "CANCELLED") =>
         \/ mintRequests'[r].lpSecret
         \/ ~NonceMatches(mintRequests[r])
         \/ Credited(mintRequests[r].initiator)
              = RawFromNorm(mintRequests[r].lockedCollateral)]_vars

\* A bid is made on fixed terms: while an auction is open its debt does not grow,
\* its offer does not change, and the collateral behind the offer does not shrink,
\* although mints keyed before the auction go on ending in it.  Only the eviction of a
\* vault whose debt is gone takes that collateral away.
AuctionTermsKept ==
  [][\A v \in Vault :
       (vaultKicks[v].auctionOpened /\ vaultKicks'[v].auctionOpened) =>
         /\ vaults'[v].debt <= vaults[v].debt
         /\ vaultKicks'[v].offeredCollateral = vaultKicks[v].offeredCollateral
         /\ \/ FreeCollateral(vaults'[v]) >= FreeCollateral(vaults[v])
            \/ vaults[v].active /\ ~vaults'[v].active /\ vaults[v].debt = 0]_vars

\* A vault covers its obligations when what is not bonded to a mint is worth its
\* debt and its pending debt at its own threshold.
Covered(v) ==
  vaults[v].collateralShares - MintLocks(v)
    >= RequiredCollateral(vaults[v].debt + vaults[v].pendingDebt, vaults[v].threshold)

\* A burn is paid at the threshold of its request: it is in the price of the vault while
\* that is not above the vault's threshold, and the vault still owes what it burns.
PricedIn(v) ==
  \A r \in BurnsOf(v) : /\ burnRequests[r].thresholdAtRequest <= vaults[v].threshold
                        /\ burnRequests[r].wsxmrAmount <= vaults[v].debt

\* Outside an auction only the LP can leave a covered vault uncovered, and only by its
\* threshold: by raising it, or by having lowered it (or repaid the debt) under burns
\* requested at a higher one, which are slashed at theirs.  Minting, burning, slashing,
\* withdrawing and absorbing do not.
CoverageKept ==
  [][\A v \in Intact :
       (/\ Covered(v) /\ PricedIn(v)
        /\ vaults'[v].threshold <= vaults[v].threshold
        /\ vaults'[v].liquidationNonce = vaults[v].liquidationNonce
        /\ ~vaultKicks[v].auctionOpened) => Covered(v)']_vars

-----------------------------------------------------------------------------
(* What comments and documents say of the code, and the code does not do:  *)
(* each is refuted by a run of its own.                                    *)

\* "A debt-free frozen vault is trivially solvent -- unfreeze." (VaultFacet.sol,
\* repayDebt): no vault without debt stays frozen.  Every way out of a freeze
\* (repayDebt, reauction, backstopVault) needs a debt.
FrozenOwes == \A v \in vaultFrozen : vaults[v].debt > 0
=============================================================================
