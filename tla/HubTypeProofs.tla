---------------------------- MODULE HubTypeProofs ---------------------------
(***************************************************************************)
(* The hub keeps its types: no ledger underflows, whatever the constants.  *)
(* And, in the second part, the lists of burns an auction settles are      *)
(* exact.                                                                  *)
(***************************************************************************)
EXTENDS HubProperties, SumsProofs

\* The records, with what makes their arithmetic safe: a quoted fee or reward is at
\* most the whole, a request's fee is part of its amount and its reward part of par,
\* and a request that was made, like a kick that runs, names its parties.  And what
\* the waits need: an active vault gives every request a block at least, and a
\* request that was never made has no secret to show.
GoodVault ==
  {V \in VaultRecord :
     /\ V.mintFee <= BpsDenominator /\ V.burnReward <= BpsDenominator
     /\ V.active => V.mintTimeout > 0 /\ V.burnTimeout > 0}
GoodMint ==
  {m \in MintRecord :
     /\ m.feeAmount <= m.wsxmrAmount
     /\ m.status # "INVALID" =>
          m.lpVault \in Vault /\ m.initiator \in Account /\ m.recipient \in Account
     /\ m.status = "INVALID" => ~m.userSecret /\ ~m.lpSecret}
GoodBurn ==
  {b \in BurnRecord :
     /\ b.rewardCollateral <= ParCollateral(b.wsxmrAmount, b.thresholdAtRequest)
     /\ b.status # "INVALID" => b.lpVault \in Vault /\ b.user \in Account
     /\ b.status = "INVALID" => ~b.userSecret /\ ~b.lpSecret}
GoodKick == {k \in KickRecord : k.active => k.kicker \in Account}

Returns == [collateral : Nat, eth : Nat]

\* The inductive invariant: TypeOK does not say that a subtraction of a fee, or
\* a payment to a party, stays within the types; this does.
TypeInv ==
  /\ block \in Nat
  /\ vaults \in [Vault -> GoodVault]
  /\ whitelistedMinters \in [Vault -> SUBSET Account]
  /\ mintRequests \in [ReqId -> GoodMint]
  /\ burnRequests \in [ReqId -> GoodBurn]
  /\ vaultBurnRequests \in [Vault -> SUBSET ReqId]
  /\ abandonedBurns \subseteq ReqId
  /\ vaultKicks \in [Vault -> GoodKick]
  /\ vaultLastKickResolved \in [Vault -> Nat]
  /\ vaultFrozen \subseteq Vault
  /\ vaultReauctionUsed \subseteq Vault
  /\ globalTotalDebt \in Nat
  /\ globalPendingBurnDebt \in Nat
  /\ totalPendingMints \in Nat
  /\ requestNonce \in 0..MaxRequests
  /\ pendingReturns \in [Account -> Returns]
  /\ wsxmr \in [Account -> Nat]
  /\ hubCollateral \in Nat
  /\ hubEth \in Nat
  /\ backstopped \subseteq Vault

\* The inductive invariant is at least the type invariant.
LEMMA TypeInvImpliesTypeOK == TypeInv => TypeOK
<1> SUFFICES ASSUME TypeInv PROVE TypeOK
  OBVIOUS
<1>1. /\ vaults \in [Vault -> VaultRecord] /\ mintRequests \in [ReqId -> MintRecord]
      /\ burnRequests \in [ReqId -> BurnRecord] /\ vaultKicks \in [Vault -> KickRecord]
  <2> HIDE DEF VaultRecord, MintRecord, BurnRecord, KickRecord
  <2> QED BY DEF TypeInv, GoodVault, GoodMint, GoodBurn, GoodKick
<1>2. QED BY <1>1 DEF TypeInv, TypeOK, Returns

\* Division of naturals, which the leaves below need no more of.
LEMMA DivNat ==
  ASSUME NEW a \in Nat, NEW b \in Nat \ {0}
  PROVE  a \div b \in Nat
OBVIOUS

LEMMA MulNat ==
  ASSUME NEW a \in Nat, NEW b \in Nat
  PROVE  a * b \in Nat
OBVIOUS

\* A fraction of at most 1 takes at most the whole.
LEMMA FractionBound ==
  ASSUME NEW a \in Nat, NEW b \in Nat, NEW c \in Nat \ {0}, b <= c
  PROVE  (a * b) \div c <= a
<1>1. a * b <= a * c
  OBVIOUS
<1>2. PICK q \in Nat : q = (a * b) \div c
  BY MulNat, DivNat
<1>3. c * q <= a * b
  BY <1>2
<1>4. SUFFICES ASSUME q >= a + 1 PROVE FALSE
  BY <1>2
<1>5. c * q >= c * (a + 1)
  BY <1>4
<1>6. c * (a + 1) = a * c + c
  OBVIOUS
<1>7. QED
  BY <1>1, <1>3, <1>5, <1>6, MulNat

\* The prices are naturals.
LEMMA PricesNat ==
  ASSUME NEW a \in Nat, NEW t \in Nat
  PROVE  /\ ParCollateral(a, t) \in Nat
         /\ RequiredCollateral(a, t) \in Nat
         /\ ParLockFor(a, t) \in Nat
         /\ NormFromRaw(a) \in Nat
         /\ RawFromNorm(a) \in Nat
<1>1. a * t \in Nat
  BY MulNat
<1>2. ParCollateral(a, t) \in Nat /\ RequiredCollateral(a, t) \in Nat
  BY <1>1, DivNat, RatesAssumption DEF ParCollateral, RequiredCollateral
<1>3. ParCollateral(a, t) * MintLockRatio \in Nat
  BY <1>2, MulNat, RatesAssumption
<1>4. ParLockFor(a, t) \in Nat
  BY <1>3, DivNat, RatesAssumption DEF ParLockFor
<1>5. NormFromRaw(a) \in Nat /\ RawFromNorm(a) \in Nat
  BY MulNat, DivNat, RatesAssumption DEF NormFromRaw, RawFromNorm
<1>6. QED BY <1>2, <1>4, <1>5


\* An LP is an account.
LEMMA VaultIsAccount == ASSUME NEW v \in Vault PROVE v \in Account
BY SizesAssumption DEF Vault, Account

\* Subtraction with a floor.
LEMMA MonusNat ==
  ASSUME NEW a \in Nat, NEW b \in Nat
  PROVE  /\ Monus(a, b) \in Nat /\ Monus(a, b) <= a
         /\ Smaller(a, b) \in Nat /\ Smaller(a, b) <= a /\ Smaller(a, b) <= b
BY DEF Monus, Smaller

\* Every vault field the arithmetic touches is a natural.
LEMMA VaultFields ==
  ASSUME NEW V \in GoodVault
  PROVE  /\ V.collateralShares \in Nat /\ V.lockedCollateral \in Nat /\ V.debt \in Nat
         /\ V.pendingDebt \in Nat /\ V.threshold \in Nat /\ V.mintFee \in Nat
         /\ V.burnReward \in Nat /\ V.mintTimeout \in Nat /\ V.burnTimeout \in Nat
         /\ V.liquidationNonce \in Nat /\ V.mintNonce \in Nat /\ V.pendingMintCount \in Nat
         /\ V.mintFee <= BpsDenominator /\ V.burnReward <= BpsDenominator
         /\ FreeCollateral(V) \in Nat
<1>1. V.collateralShares \in Nat /\ V.lockedCollateral \in Nat
  BY DEF GoodVault, VaultRecord
<1>2. FreeCollateral(V) \in Nat
  BY <1>1, MonusNat DEF FreeCollateral
<1>3. QED BY <1>2 DEF GoodVault, VaultRecord

\* The fields of a request that was made.
LEMMA MintFields ==
  ASSUME NEW m \in GoodMint, m.status # "INVALID"
  PROVE  /\ m.lpVault \in Vault /\ m.initiator \in Account /\ m.recipient \in Account
         /\ m.wsxmrAmount \in Nat /\ m.feeAmount \in Nat /\ m.feeAmount <= m.wsxmrAmount
         /\ m.timeout \in Nat /\ m.griefingDeposit \in Nat /\ m.lockedCollateral \in Nat
BY DEF GoodMint, MintRecord

LEMMA BurnFields ==
  ASSUME NEW b \in GoodBurn
  PROVE  /\ b.status # "INVALID" => b.lpVault \in Vault /\ b.user \in Account
         /\ b.wsxmrAmount \in Nat /\ b.lockedCollateral \in Nat /\ b.rewardCollateral \in Nat
         /\ b.deadline \in Nat /\ b.thresholdAtRequest \in Nat
         /\ b.rewardCollateral <= ParCollateral(b.wsxmrAmount, b.thresholdAtRequest)
BY DEF GoodBurn, BurnRecord

LEMMA KickFields ==
  ASSUME NEW k \in GoodKick
  PROVE  /\ k.active => k.kicker \in Account
         /\ k.bond \in Nat /\ k.kickBlock \in Nat /\ k.offeredCollateral \in Nat
BY DEF GoodKick, KickRecord

-----------------------------------------------------------------------------
(* The vault operations. *)

LEMMA NewVaultGood == NewVault \in GoodVault
<1>1. EmptyVault \in GoodVault
  BY RatesAssumption DEF EmptyVault, GoodVault, VaultRecord
<1>2. MinThreshold \in Nat /\ DefaultMintTimeout \in Nat /\ DefaultBurnTimeout \in Nat
  BY RatesAssumption, TimesAssumption
<1>3. QED BY <1>1, <1>2, WaitsAssumption DEF NewVault, GoodVault, VaultRecord

\* A vault is replaced as a whole.
LEMMA PutVault ==
  ASSUME vaults \in [Vault -> GoodVault], NEW v \in Vault, NEW W \in GoodVault,
         vaults' = [vaults EXCEPT ![v] = W]
  PROVE  vaults' \in [Vault -> GoodVault]
OBVIOUS

LEMMA PutTwoVaults ==
  ASSUME vaults \in [Vault -> GoodVault], NEW v \in Vault, NEW w \in Vault,
         NEW V \in GoodVault, NEW W \in GoodVault,
         vaults' = [vaults EXCEPT ![v] = V, ![w] = W]
  PROVE  vaults' \in [Vault -> GoodVault]
OBVIOUS

LEMMA CreateVaultTyped ==
  ASSUME TypeInv, NEW v \in Vault, CreateVault(v)
  PROVE  TypeInv'
<1>1. vaults' \in [Vault -> GoodVault]
  BY NewVaultGood, PutVault DEF TypeInv, CreateVault
<1>2. QED
  BY <1>1 DEF TypeInv, CreateVault, timeVars, configVars, mintVars, burnVars, kickVars, hubVars

LEMMA CreateVaultEvictingTyped ==
  ASSUME TypeInv, NEW v \in Vault, NEW w \in Vault, CreateVaultEvicting(v, w)
  PROVE  TypeInv'
<1>1. PICK N \in GoodVault : N = NewVault
  BY NewVaultGood
<1>2. PICK old \in GoodVault : old = [vaults EXCEPT ![v] = N][w]
  BY DEF TypeInv
<1>3. [old EXCEPT !.collateralShares = 0, !.active = FALSE] \in GoodVault
  BY DEF GoodVault, VaultRecord
<1>4. vaults' = [vaults EXCEPT ![v] = N,
                   ![w] = [old EXCEPT !.collateralShares = 0, !.active = FALSE]]
  BY <1>1, <1>2 DEF TypeInv, CreateVaultEvicting
<1>5. vaults' \in [Vault -> GoodVault]
  BY <1>3, <1>4, PutTwoVaults DEF TypeInv
<1>6. RawFromNorm(vaults[w].collateralShares) \in Nat
  BY VaultFields, PricesNat DEF TypeInv
<1>7. hubCollateral' \in Nat
  BY <1>6 DEF TypeInv, CreateVaultEvicting
<1>8. QED
  BY <1>5, <1>7
  DEF TypeInv, CreateVaultEvicting, timeVars, configVars, mintVars, burnVars, kickVars, hubVars

LEMMA DeactivateVaultTyped ==
  ASSUME TypeInv, NEW v \in Vault, DeactivateVault(v)
  PROVE  TypeInv'
<1>1. PICK V \in GoodVault : V = vaults[v]
  BY DEF TypeInv
<1>2. [V EXCEPT !.active = FALSE] \in GoodVault
  BY DEF GoodVault, VaultRecord
<1>3. vaults' = [vaults EXCEPT ![v] = [V EXCEPT !.active = FALSE]]
  BY <1>1 DEF TypeInv, DeactivateVault
<1>4. vaults' \in [Vault -> GoodVault]
  BY <1>2, <1>3, PutVault DEF TypeInv
<1>5. QED
  BY <1>4
  DEF TypeInv, DeactivateVault, timeVars, configVars, mintVars, burnVars, kickVars, hubVars

LEMMA NoKickGood == NoKick \in GoodKick
BY DEF NoKick, GoodKick, KickRecord

\* A kick that is cleared leaves typed records.
LEMMA ClearKickTyped ==
  ASSUME TypeInv, NEW v \in Vault,
         ClearKick(v) \/ UNCHANGED <<vaultKicks, vaultLastKickResolved>>
  PROVE  vaultKicks' \in [Vault -> GoodKick] /\ vaultLastKickResolved' \in [Vault -> Nat]
BY NoKickGood DEF TypeInv, ClearKick

LEMMA DepositCollateralTyped ==
  ASSUME TypeInv, NEW v \in Vault, NEW amount \in DepositAmounts, DepositCollateral(v, amount)
  PROVE  TypeInv'
<1>1. PICK V \in GoodVault : V = vaults[v]
  BY DEF TypeInv
<1>2. amount \in Nat /\ NormFromRaw(amount) \in Nat
  BY AmountsAssumption, PricesNat
<1>3. PICK bond \in Nat :
        bond = IF vaultKicks[v].active /\ KickPhase(vaultKicks[v]) = "GRACE"
               THEN vaultKicks[v].bond ELSE 0
  BY KickFields DEF TypeInv
<1>4. V.collateralShares + bond + NormFromRaw(amount) \in Nat
  BY <1>2, VaultFields
<1>5. [V EXCEPT !.collateralShares = V.collateralShares + bond + NormFromRaw(amount)] \in GoodVault
  BY <1>4 DEF GoodVault, VaultRecord
<1>6. vaults' = [vaults EXCEPT ![v] =
        [V EXCEPT !.collateralShares = V.collateralShares + bond + NormFromRaw(amount)]]
  BY <1>1, <1>3 DEF TypeInv, DepositCollateral
<1>7. vaults' \in [Vault -> GoodVault]
  BY <1>5, <1>6, PutVault DEF TypeInv
<1>8. vaultKicks' \in [Vault -> GoodKick] /\ vaultLastKickResolved' \in [Vault -> Nat]
  BY ClearKickTyped DEF DepositCollateral
<1>9. hubCollateral' \in Nat
  BY <1>2 DEF TypeInv, DepositCollateral
<1>10. QED
  BY <1>7, <1>8, <1>9
  DEF TypeInv, DepositCollateral, timeVars, configVars, mintVars, burnVars, hubVars

LEMMA WithdrawCollateralTyped ==
  ASSUME TypeInv, NEW v \in Vault, NEW shares \in WithdrawAmounts, WithdrawCollateral(v, shares)
  PROVE  TypeInv'
<1>1. PICK V \in GoodVault : V = vaults[v]
  BY DEF TypeInv
<1>2. PICK raw \in Nat : raw = RawFromNorm(shares)
  BY AmountsAssumption, PricesNat
<1>3. PICK norm \in Nat : norm = NormFromRaw(raw)
  BY PricesNat
<1>4. V.collateralShares - norm \in Nat
  BY <1>1, <1>2, <1>3, VaultFields DEF WithdrawCollateral
<1>5. [V EXCEPT !.collateralShares = V.collateralShares - norm] \in GoodVault
  BY <1>4 DEF GoodVault, VaultRecord
<1>6. vaults' = [vaults EXCEPT ![v] = [V EXCEPT !.collateralShares = V.collateralShares - norm]]
  BY <1>1, <1>2, <1>3 DEF TypeInv, WithdrawCollateral
<1>7. vaults' \in [Vault -> GoodVault]
  BY <1>5, <1>6, PutVault DEF TypeInv
<1>8. hubCollateral' \in Nat
  BY <1>2 DEF TypeInv, WithdrawCollateral
<1>9. QED
  BY <1>7, <1>8
  DEF TypeInv, WithdrawCollateral, timeVars, configVars, mintVars, burnVars, kickVars, hubVars

LEMMA RepayDebtTyped ==
  ASSUME TypeInv, NEW v \in Vault, NEW amount \in RepayAmounts, RepayDebt(v, amount)
  PROVE  TypeInv'
<1>1. PICK V \in GoodVault : V = vaults[v]
  BY DEF TypeInv
<1>2. PICK repaid \in Nat : repaid = Smaller(amount, V.debt) /\ repaid <= V.debt
  BY AmountsAssumption, VaultFields, MonusNat
<1>3. PICK bond \in Nat : bond = IF vaultKicks[v].active THEN vaultKicks[v].bond ELSE 0
  BY KickFields DEF TypeInv
<1>4. V.collateralShares + bond \in Nat /\ V.debt - repaid \in Nat
  BY <1>2, VaultFields
<1>5. [V EXCEPT !.collateralShares = V.collateralShares + bond, !.debt = V.debt - repaid]
        \in GoodVault
  BY <1>4 DEF GoodVault, VaultRecord
<1>6. vaults' = [vaults EXCEPT ![v] =
        [V EXCEPT !.collateralShares = V.collateralShares + bond, !.debt = V.debt - repaid]]
  BY <1>1, <1>2, <1>3 DEF TypeInv, RepayDebt
<1>7. vaults' \in [Vault -> GoodVault]
  BY <1>5, <1>6, PutVault DEF TypeInv
<1>8. vaultKicks' \in [Vault -> GoodKick] /\ vaultLastKickResolved' \in [Vault -> Nat]
  BY ClearKickTyped DEF RepayDebt
<1>9. v \in Account
  BY VaultIsAccount
<1>10. wsxmr' \in [Account -> Nat]
  BY <1>1, <1>2, <1>9 DEF TypeInv, RepayDebt
<1>11. globalTotalDebt' \in Nat
  BY <1>1, <1>2, MonusNat DEF TypeInv, RepayDebt
<1>12. vaultFrozen' \subseteq Vault
  BY DEF TypeInv, RepayDebt
<1>13. QED
  BY <1>7, <1>8, <1>10, <1>11, <1>12
  DEF TypeInv, RepayDebt, timeVars, configVars, mintVars, burnVars, hubVars

\* A quote changes one field of one vault.
LEMMA QuotesTyped ==
  ASSUME TypeInv, NEW v \in Vault,
         \/ \E x \in Thresholds : SetThreshold(v, x)
         \/ \E x \in MaxMints : SetMaxMintWsxmr(v, x)
         \/ \E x \in GriefingDeposits : SetMintGriefingDeposit(v, x)
         \/ \E x \in MintFees, y \in BurnRewards : SetVaultMarketMetrics(v, x, y)
         \/ \E x \in MinBurns : SetMinBurnAmount(v, x)
         \/ \E x \in Timeouts : SetMintTimeoutBlocks(v, x)
         \/ \E x \in Timeouts : SetBurnTimeoutBlocks(v, x)
  PROVE  TypeInv'
<1>1. PICK V \in GoodVault : V = vaults[v]
  BY DEF TypeInv
<1>2. ASSUME NEW x \in Nat
      PROVE  /\ [V EXCEPT !.threshold = x] \in GoodVault
             /\ [V EXCEPT !.maxMint = x] \in GoodVault
             /\ [V EXCEPT !.griefingDeposit = x] \in GoodVault
             /\ [V EXCEPT !.minBurn = x] \in GoodVault
             /\ x > 0 => /\ [V EXCEPT !.mintTimeout = x] \in GoodVault
                         /\ [V EXCEPT !.burnTimeout = x] \in GoodVault
  BY DEF GoodVault, VaultRecord
<1>3. ASSUME NEW x \in Nat, NEW y \in Nat, x <= MaxMarginBps, y <= MaxMarginBps
      PROVE  [V EXCEPT !.mintFee = x, !.burnReward = y] \in GoodVault
  <2>1. x <= BpsDenominator /\ y <= BpsDenominator
    BY <1>3, RatesAssumption
  <2>2. QED BY <2>1 DEF GoodVault, VaultRecord
<1>4. \E W \in GoodVault : vaults' = [vaults EXCEPT ![v] = W]
  <2>1. CASE \E x \in Thresholds : SetThreshold(v, x)
    BY <1>1, <1>2, <2>1, AmountsAssumption DEF TypeInv, SetThreshold
  <2>2. CASE \E x \in MaxMints : SetMaxMintWsxmr(v, x)
    BY <1>1, <1>2, <2>2, AmountsAssumption DEF TypeInv, SetMaxMintWsxmr
  <2>3. CASE \E x \in GriefingDeposits : SetMintGriefingDeposit(v, x)
    BY <1>1, <1>2, <2>3, AmountsAssumption DEF TypeInv, SetMintGriefingDeposit
  <2>4. CASE \E x \in MintFees, y \in BurnRewards : SetVaultMarketMetrics(v, x, y)
    <3>1. PICK x \in MintFees, y \in BurnRewards : SetVaultMarketMetrics(v, x, y)
      BY <2>4
    <3>2. x \in Nat /\ y \in Nat /\ x <= MaxMarginBps /\ y <= MaxMarginBps
      BY <3>1, AmountsAssumption DEF SetVaultMarketMetrics
    <3>3. vaults' = [vaults EXCEPT ![v] = [V EXCEPT !.mintFee = x, !.burnReward = y]]
      BY <1>1, <3>1 DEF TypeInv, SetVaultMarketMetrics
    <3>4. QED BY <1>3, <3>2, <3>3
  <2>5. CASE \E x \in MinBurns : SetMinBurnAmount(v, x)
    BY <1>1, <1>2, <2>5, AmountsAssumption DEF TypeInv, SetMinBurnAmount
  <2>6. CASE \E x \in Timeouts : SetMintTimeoutBlocks(v, x)
    <3>1. PICK x \in Timeouts : SetMintTimeoutBlocks(v, x)
      BY <2>6
    <3>2. x \in Nat /\ x > 0
      BY <3>1, AmountsAssumption, TimesAssumption, WaitsAssumption DEF SetMintTimeoutBlocks
    <3>3. vaults' = [vaults EXCEPT ![v] = [V EXCEPT !.mintTimeout = x]]
      BY <1>1, <3>1 DEF TypeInv, SetMintTimeoutBlocks
    <3>4. QED BY <1>2, <3>2, <3>3
  <2>7. CASE \E x \in Timeouts : SetBurnTimeoutBlocks(v, x)
    <3>1. PICK x \in Timeouts : SetBurnTimeoutBlocks(v, x)
      BY <2>7
    <3>2. x \in Nat /\ x > 0
      BY <3>1, AmountsAssumption, TimesAssumption, WaitsAssumption DEF SetBurnTimeoutBlocks
    <3>3. vaults' = [vaults EXCEPT ![v] = [V EXCEPT !.burnTimeout = x]]
      BY <1>1, <3>1 DEF TypeInv, SetBurnTimeoutBlocks
    <3>4. QED BY <1>2, <3>2, <3>3
  <2>8. QED BY <2>1, <2>2, <2>3, <2>4, <2>5, <2>6, <2>7
<1>5. vaults' \in [Vault -> GoodVault]
  BY <1>4 DEF TypeInv
<1>6. ConfigUnchanged
  BY DEF SetThreshold, SetMaxMintWsxmr, SetMintGriefingDeposit, SetVaultMarketMetrics,
         SetMinBurnAmount, SetMintTimeoutBlocks, SetBurnTimeoutBlocks
<1>7. QED
  BY <1>5, <1>6
  DEF TypeInv, ConfigUnchanged, timeVars, configVars, mintVars, burnVars, kickVars, hubVars

LEMMA SetMinterWhitelistTyped ==
  ASSUME TypeInv, NEW v \in Vault, NEW minters \in Whitelists, NEW on \in BOOLEAN,
         SetMinterWhitelist(v, minters, on)
  PROVE  TypeInv'
<1>1. minters \subseteq Account
  BY PartsAssumption
<1>2. whitelistedMinters' \in [Vault -> SUBSET Account]
  BY <1>1 DEF TypeInv, SetMinterWhitelist
<1>3. QED
  BY <1>2 DEF TypeInv, SetMinterWhitelist, timeVars, mintVars, burnVars, kickVars, hubVars

\* What is paid out of pending returns was there.
LEMMA WithdrawReturnsTyped ==
  ASSUME TypeInv, NEW a \in Account, WithdrawCollateralReturns(a) \/ WithdrawEthReturns(a)
  PROVE  TypeInv'
<1>1. PICK p \in Returns : p = pendingReturns[a]
  BY DEF TypeInv
<1>2. /\ p.collateral \in Nat /\ p.eth \in Nat
      /\ [p EXCEPT !.collateral = 0] \in Returns /\ [p EXCEPT !.eth = 0] \in Returns
  BY DEF Returns
<1>3. CASE WithdrawCollateralReturns(a)
  <2>1. pendingReturns' = [pendingReturns EXCEPT ![a] = [p EXCEPT !.collateral = 0]]
    BY <1>1, <1>3 DEF TypeInv, WithdrawCollateralReturns
  <2>2. pendingReturns' \in [Account -> Returns]
    BY <1>2, <2>1 DEF TypeInv
  <2>3. hubCollateral' \in Nat
    BY <1>1, <1>2, <1>3 DEF TypeInv, WithdrawCollateralReturns
  <2>4. QED
    BY <1>3, <2>2, <2>3
    DEF TypeInv, WithdrawCollateralReturns, timeVars, configVars, mintVars, burnVars, kickVars
<1>4. CASE WithdrawEthReturns(a)
  <2>1. pendingReturns' = [pendingReturns EXCEPT ![a] = [p EXCEPT !.eth = 0]]
    BY <1>1, <1>4 DEF TypeInv, WithdrawEthReturns
  <2>2. pendingReturns' \in [Account -> Returns]
    BY <1>2, <2>1 DEF TypeInv
  <2>3. hubEth' \in Nat
    BY <1>1, <1>2, <1>4 DEF TypeInv, WithdrawEthReturns
  <2>4. QED
    BY <1>4, <2>2, <2>3
    DEF TypeInv, WithdrawEthReturns, timeVars, configVars, mintVars, burnVars, kickVars
<1>5. QED BY <1>3, <1>4

LEMMA VaultNextTyped ==
  ASSUME TypeInv, VaultNext
  PROVE  TypeInv'
<1>1. CASE \E v \in Vault : CreateVault(v)
  BY <1>1, CreateVaultTyped
<1>2. CASE \E v, w \in Vault : CreateVaultEvicting(v, w)
  BY <1>2, CreateVaultEvictingTyped
<1>3. CASE \E v \in Vault : DeactivateVault(v)
  BY <1>3, DeactivateVaultTyped
<1>4. CASE \E v \in Vault, amount \in DepositAmounts : DepositCollateral(v, amount)
  BY <1>4, DepositCollateralTyped
<1>5. CASE \E v \in Vault, shares \in WithdrawAmounts : WithdrawCollateral(v, shares)
  BY <1>5, WithdrawCollateralTyped
<1>6. CASE \E v \in Vault, amount \in RepayAmounts : RepayDebt(v, amount)
  BY <1>6, RepayDebtTyped
<1>7. CASE \E v \in Vault :
         \/ \E x \in Thresholds : SetThreshold(v, x)
         \/ \E x \in MaxMints : SetMaxMintWsxmr(v, x)
         \/ \E x \in GriefingDeposits : SetMintGriefingDeposit(v, x)
         \/ \E x \in MintFees, y \in BurnRewards : SetVaultMarketMetrics(v, x, y)
         \/ \E x \in MinBurns : SetMinBurnAmount(v, x)
         \/ \E x \in Timeouts : SetMintTimeoutBlocks(v, x)
         \/ \E x \in Timeouts : SetBurnTimeoutBlocks(v, x)
  BY <1>7, QuotesTyped
<1>8. CASE \E v \in Vault, minters \in Whitelists, on \in BOOLEAN :
             SetMinterWhitelist(v, minters, on)
  BY <1>8, SetMinterWhitelistTyped
<1>9. CASE \E a \in Account : WithdrawCollateralReturns(a) \/ WithdrawEthReturns(a)
  BY <1>9, WithdrawReturnsTyped
<1>10. QED
  BY <1>1, <1>2, <1>3, <1>4, <1>5, <1>6, <1>7, <1>8, <1>9 DEF VaultNext

-----------------------------------------------------------------------------
(* The mint swap. *)

\* The request an action works on, its vault and the vault it leaves.
LEMMA ReleaseGood ==
  ASSUME NEW V \in GoodVault, NEW m \in GoodMint, m.status # "INVALID"
  PROVE  /\ ReleaseDebt(V, m) \in GoodVault
         /\ ReleaseLock(V, m) \in GoodVault
         /\ ReleaseDebt(V, m).lockedCollateral = V.lockedCollateral
         /\ ReleaseDebt(V, m).collateralShares = V.collateralShares
         /\ ReleaseDebt(V, m).pendingMintCount = V.pendingMintCount
         /\ ReleaseLock(V, m).collateralShares = V.collateralShares
         /\ ReleaseLock(V, m).pendingMintCount = V.pendingMintCount
<1>1. Monus(V.pendingDebt, m.wsxmrAmount) \in Nat
  BY MonusNat, VaultFields, MintFields
<1>2. ReleaseDebt(V, m) = [V EXCEPT !.pendingDebt = Monus(V.pendingDebt, m.wsxmrAmount)]
  BY DEF ReleaseDebt, GoodVault, VaultRecord
<1>3. PICK lock \in Nat :
        lock = IF V.lockedCollateral >= m.lockedCollateral
               THEN V.lockedCollateral - m.lockedCollateral ELSE V.lockedCollateral
  BY VaultFields, MintFields
<1>4. ReleaseLock(V, m) = [V EXCEPT !.lockedCollateral = lock]
  BY <1>3 DEF ReleaseLock, GoodVault, VaultRecord
<1>5. ReleaseDebt(V, m) \in GoodVault
  BY <1>1, <1>2 DEF GoodVault, VaultRecord
<1>6. ReleaseLock(V, m) \in GoodVault
  BY <1>3, <1>4 DEF GoodVault, VaultRecord
<1>7. QED BY <1>2, <1>4, <1>5, <1>6 DEF GoodVault, VaultRecord

\* A request is replaced as a whole.
LEMMA PutMint ==
  ASSUME mintRequests \in [ReqId -> GoodMint], NEW r \in ReqId, NEW n \in GoodMint,
         mintRequests' = [mintRequests EXCEPT ![r] = n]
  PROVE  mintRequests' \in [ReqId -> GoodMint]
OBVIOUS

\* A payment to an account.
LEMMA PayTyped ==
  ASSUME pendingReturns \in [Account -> Returns], NEW a \in Account,
         NEW raw \in Nat, NEW eth \in Nat,
         \/ pendingReturns' = [pendingReturns EXCEPT ![a].collateral = @ + raw, ![a].eth = @ + eth]
         \/ pendingReturns' = PayEth(a, eth)
         \/ pendingReturns' = PayCollateral(a, raw)
  PROVE  pendingReturns' \in [Account -> Returns]
<1>1. PICK p \in Returns : p = pendingReturns[a]
  OBVIOUS
<1>2. p.collateral + raw \in Nat /\ p.eth + eth \in Nat
  BY DEF Returns
<1>3. /\ [p EXCEPT !.collateral = p.collateral + raw, !.eth = p.eth + eth] \in Returns
      /\ [p EXCEPT !.eth = p.eth + eth] \in Returns
      /\ [p EXCEPT !.collateral = p.collateral + raw] \in Returns
  BY <1>2 DEF Returns
<1>4. CASE pendingReturns' =
             [pendingReturns EXCEPT ![a].collateral = @ + raw, ![a].eth = @ + eth]
  <2>1. pendingReturns' = [pendingReturns EXCEPT ![a] =
          [p EXCEPT !.collateral = p.collateral + raw, !.eth = p.eth + eth]]
    BY <1>1, <1>4
  <2>2. QED BY <1>3, <2>1
<1>5. CASE pendingReturns' = PayEth(a, eth)
  <2>1. pendingReturns' = [pendingReturns EXCEPT ![a] = [p EXCEPT !.eth = p.eth + eth]]
    BY <1>1, <1>5 DEF PayEth
  <2>2. QED BY <1>3, <2>1
<1>6. CASE pendingReturns' = PayCollateral(a, raw)
  <2>1. pendingReturns' =
          [pendingReturns EXCEPT ![a] = [p EXCEPT !.collateral = p.collateral + raw]]
    BY <1>1, <1>6 DEF PayCollateral
  <2>2. QED BY <1>3, <2>1
<1>7. QED BY <1>4, <1>5, <1>6

LEMMA InitiateMintTyped ==
  ASSUME TypeInv, NEW u \in Minters, NEW recipient \in Recipients, NEW v \in Vault,
         NEW amount \in MintAmounts, NEW value \in EthValues,
         InitiateMint(u, recipient, v, amount, value)
  PROVE  TypeInv'
<1>1. PICK V \in GoodVault : V = vaults[v]
  BY DEF TypeInv
<1>2. /\ u \in Account /\ recipient \in Account
      /\ amount \in Nat /\ value \in Nat /\ block \in Nat
  BY PartsAssumption, AmountsAssumption DEF TypeInv
<1>3. PICK fee \in Nat : fee = (amount * V.mintFee) \div BpsDenominator /\ fee <= amount
  <2>1. (amount * V.mintFee) \div BpsDenominator <= amount
    BY <1>2, VaultFields, FractionBound, RatesAssumption
  <2>2. amount * V.mintFee \in Nat
    BY <1>2, VaultFields, MulNat
  <2>3. (amount * V.mintFee) \div BpsDenominator \in Nat
    BY <2>2, DivNat, RatesAssumption
  <2>4. QED BY <2>1, <2>3
<1>4. PICK timeout \in Nat : timeout = block + V.mintTimeout
  BY <1>2, VaultFields
<1>5. PICK nonce \in Nat : nonce = V.mintNonce
  BY VaultFields
<1>6. [EmptyMint EXCEPT !.status = "PENDING", !.initiator = u, !.recipient = recipient,
                        !.lpVault = v, !.wsxmrAmount = amount, !.feeAmount = fee,
                        !.timeout = timeout, !.griefingDeposit = value,
                        !.vaultMintNonce = nonce] \in GoodMint
  BY <1>2, <1>3, <1>4, <1>5 DEF EmptyMint, GoodMint, MintRecord, MintStatus
<1>7. requestNonce + 1 \in ReqId /\ requestNonce' \in 0..MaxRequests
  <2>1. requestNonce \in 0..MaxRequests /\ requestNonce < MaxRequests
    BY DEF TypeInv, InitiateMint
  <2>2. requestNonce' = requestNonce + 1
    BY DEF InitiateMint
  <2>3. QED BY <2>1, <2>2, SizesAssumption DEF ReqId
<1>8. mintRequests' \in [ReqId -> GoodMint]
  BY <1>1, <1>3, <1>4, <1>5, <1>6, <1>7, PutMint DEF TypeInv, InitiateMint
<1>9. hubEth' \in Nat
  BY <1>2 DEF TypeInv, InitiateMint
<1>10. QED
  BY <1>7, <1>8, <1>9 DEF TypeInv, InitiateMint, timeVars, configVars, burnVars, kickVars

LEMMA ProvideLPKeyTyped ==
  ASSUME TypeInv, NEW r \in ReqId, ProvideLPKey(r)
  PROVE  TypeInv'
<1>1. PICK m \in GoodMint : m = mintRequests[r]
  BY DEF TypeInv
<1>2. m.status # "INVALID" /\ m.lpVault \in Vault /\ m.wsxmrAmount \in Nat
  BY <1>1, MintFields DEF ProvideLPKey
<1>3. PICK V \in GoodVault : V = vaults[m.lpVault]
  BY <1>2 DEF TypeInv
<1>4. PICK bond \in Nat : bond = ParLockFor(m.wsxmrAmount, V.threshold)
  BY <1>2, PricesNat, VaultFields
<1>5. V.pendingDebt + m.wsxmrAmount \in Nat /\ V.lockedCollateral + bond \in Nat
  BY <1>2, VaultFields
<1>6. [V EXCEPT !.pendingDebt = V.pendingDebt + m.wsxmrAmount,
                !.lockedCollateral = V.lockedCollateral + bond] \in GoodVault
  BY <1>5 DEF GoodVault, VaultRecord
<1>7. vaults' = [vaults EXCEPT ![m.lpVault] =
        [V EXCEPT !.pendingDebt = V.pendingDebt + m.wsxmrAmount,
                  !.lockedCollateral = V.lockedCollateral + bond]]
  BY <1>1, <1>2, <1>3, <1>4 DEF TypeInv, ProvideLPKey
<1>8. vaults' \in [Vault -> GoodVault]
  BY <1>2, <1>6, <1>7, PutVault DEF TypeInv
<1>9. [m EXCEPT !.status = "KEY_PROVIDED", !.lockedCollateral = bond] \in GoodMint
  BY <1>2 DEF GoodMint, MintRecord, MintStatus
<1>10. mintRequests' =
         [mintRequests EXCEPT ![r] = [m EXCEPT !.status = "KEY_PROVIDED", !.lockedCollateral = bond]]
  BY <1>1, <1>3, <1>4 DEF TypeInv, ProvideLPKey
<1>11. mintRequests' \in [ReqId -> GoodMint]
  BY <1>9, <1>10, PutMint DEF TypeInv
<1>12. QED
  BY <1>8, <1>11
  DEF TypeInv, ProvideLPKey, MintUnchanged, timeVars, configVars, burnVars, kickVars, hubVars

LEMMA SetMintReadyTyped ==
  ASSUME TypeInv, NEW r \in ReqId, SetMintReady(r)
  PROVE  TypeInv'
<1>1. PICK m \in GoodMint : m = mintRequests[r]
  BY DEF TypeInv
<1>2. /\ m.status # "INVALID" /\ m.lpVault \in Vault /\ m.wsxmrAmount \in Nat
      /\ m.lockedCollateral \in Nat
  BY <1>1, MintFields DEF SetMintReady
<1>3. PICK V \in GoodVault : V = vaults[m.lpVault]
  BY <1>2 DEF TypeInv
<1>4. PICK lock \in Nat : lock = ParLockFor(m.wsxmrAmount, V.threshold)
  BY <1>2, PricesNat, VaultFields
<1>5. PICK locked \in Nat : locked = (V.lockedCollateral + lock) - m.lockedCollateral
  BY <1>1, <1>2, <1>3, <1>4, VaultFields, SMTT(30) DEF SetMintReady
<1>6. PICK count \in Nat : count = V.pendingMintCount + 1
  BY VaultFields
<1>7. [V EXCEPT !.lockedCollateral = locked, !.pendingMintCount = count] \in GoodVault
  BY DEF GoodVault, VaultRecord
<1>8. vaults' = [vaults EXCEPT ![m.lpVault] =
                   [V EXCEPT !.lockedCollateral = locked, !.pendingMintCount = count]]
  BY <1>1, <1>2, <1>3, <1>4, <1>5, <1>6 DEF TypeInv, SetMintReady
<1>9. vaults' \in [Vault -> GoodVault]
  BY <1>2, <1>7, <1>8, PutVault DEF TypeInv
<1>10. PICK timeout \in Nat : timeout = block + MintReadyExtension
  BY TimesAssumption DEF TypeInv
<1>11. [m EXCEPT !.status = "READY", !.lockedCollateral = lock, !.timeout = timeout] \in GoodMint
  BY <1>2 DEF GoodMint, MintRecord, MintStatus
<1>12. mintRequests' = [mintRequests EXCEPT ![r] =
         [m EXCEPT !.status = "READY", !.lockedCollateral = lock, !.timeout = timeout]]
  BY <1>1, <1>3, <1>4, <1>10 DEF TypeInv, SetMintReady
<1>13. mintRequests' \in [ReqId -> GoodMint]
  BY <1>11, <1>12, PutMint DEF TypeInv
<1>14. totalPendingMints' \in Nat
  BY DEF TypeInv, SetMintReady
<1>15. QED
  BY <1>9, <1>13, <1>14
  DEF TypeInv, SetMintReady, MintUnchanged, timeVars, configVars, burnVars, kickVars, hubVars

LEMMA RevealSecretTyped ==
  ASSUME TypeInv, NEW r \in ReqId, RevealSecret(r)
  PROVE  TypeInv'
<1>1. PICK m \in GoodMint : m = mintRequests[r]
  BY DEF TypeInv
<1>2. m.status # "INVALID"
  BY <1>1 DEF RevealSecret
<1>3. [m EXCEPT !.status = "SECRET_REVEALED", !.userSecret = TRUE] \in GoodMint
  BY <1>2 DEF GoodMint, MintRecord, MintStatus
<1>4. mintRequests' =
        [mintRequests EXCEPT ![r] = [m EXCEPT !.status = "SECRET_REVEALED", !.userSecret = TRUE]]
  BY <1>1 DEF TypeInv, RevealSecret
<1>5. mintRequests' \in [ReqId -> GoodMint]
  BY <1>3, <1>4, PutMint DEF TypeInv
<1>6. QED
  BY <1>5
  DEF TypeInv, RevealSecret, MintUnchanged, timeVars, configVars, burnVars, kickVars, hubVars

\* A request that was made may take any status, timeout and secret.
LEMMA MintMoves ==
  ASSUME TypeInv, NEW r \in ReqId, mintRequests[r].status # "INVALID",
         NEW s \in MintStatus \ {"INVALID"}, NEW t \in Nat,
         \/ mintRequests' = [mintRequests EXCEPT ![r].status = s]
         \/ mintRequests' = [mintRequests EXCEPT ![r].status = s, ![r].lpSecret = TRUE]
         \/ mintRequests' = [mintRequests EXCEPT ![r].status = s, ![r].timeout = t]
  PROVE  mintRequests' \in [ReqId -> GoodMint]
<1>1. PICK m \in GoodMint : m = mintRequests[r]
  BY DEF TypeInv
<1>2. /\ [m EXCEPT !.status = s] \in GoodMint
      /\ [m EXCEPT !.status = s, !.lpSecret = TRUE] \in GoodMint
      /\ [m EXCEPT !.status = s, !.timeout = t] \in GoodMint
  BY <1>1 DEF GoodMint, MintRecord
<1>3. \/ mintRequests' = [mintRequests EXCEPT ![r] = [m EXCEPT !.status = s]]
      \/ mintRequests' = [mintRequests EXCEPT ![r] = [m EXCEPT !.status = s, !.lpSecret = TRUE]]
      \/ mintRequests' = [mintRequests EXCEPT ![r] = [m EXCEPT !.status = s, !.timeout = t]]
  BY <1>1 DEF TypeInv
<1>4. QED BY <1>2, <1>3, PutMint DEF TypeInv

LEMMA FinalizeAfterAuctionTyped ==
  ASSUME TypeInv, NEW r \in ReqId, mintRequests[r].status = "SECRET_REVEALED",
         FinalizeAfterAuction(r), MintUnchanged
  PROVE  TypeInv'
<1>1. PICK m \in GoodMint : m = mintRequests[r]
  BY DEF TypeInv
<1>2. /\ m.status # "INVALID" /\ m.lpVault \in Vault /\ m.initiator \in Account
      /\ m.wsxmrAmount \in Nat /\ m.lockedCollateral \in Nat /\ m.griefingDeposit \in Nat
  BY <1>1, MintFields
<1>3. PICK V \in GoodVault : V = vaults[m.lpVault]
  BY <1>2 DEF TypeInv
<1>4. PICK lost \in Nat :
        /\ lost = IF /\ m.lockedCollateral > 0
                     /\ V.lockedCollateral >= m.lockedCollateral
                     /\ V.collateralShares >= m.lockedCollateral
                  THEN m.lockedCollateral ELSE 0
        /\ lost <= V.lockedCollateral /\ lost <= V.collateralShares
  BY <1>2, VaultFields
<1>5. PICK D \in GoodVault : /\ D = ReleaseDebt(V, m)
                             /\ D.lockedCollateral = V.lockedCollateral
                             /\ D.collateralShares = V.collateralShares
                             /\ D.pendingMintCount = V.pendingMintCount
  BY <1>2, ReleaseGood
<1>6. V.pendingMintCount > 0 /\ totalPendingMints > 0
  BY <1>1, <1>3 DEF FinalizeAfterAuction
<1>7. /\ D.pendingMintCount - 1 \in Nat /\ D.lockedCollateral - lost \in Nat
      /\ D.collateralShares - lost \in Nat
  BY <1>4, <1>5, <1>6, VaultFields
<1>8. [D EXCEPT !.pendingMintCount = D.pendingMintCount - 1,
                !.lockedCollateral = D.lockedCollateral - lost,
                !.collateralShares = D.collateralShares - lost] \in GoodVault
  BY <1>7 DEF GoodVault, VaultRecord
<1>9. vaults' = [vaults EXCEPT ![m.lpVault] =
        [D EXCEPT !.pendingMintCount = D.pendingMintCount - 1,
                  !.lockedCollateral = D.lockedCollateral - lost,
                  !.collateralShares = D.collateralShares - lost]]
  BY <1>1, <1>2, <1>3, <1>4, <1>5 DEF FinalizeAfterAuction, GoodVault, VaultRecord
<1>10. vaults' \in [Vault -> GoodVault]
  BY <1>2, <1>8, <1>9, PutVault DEF TypeInv
<1>11. mintRequests' \in [ReqId -> GoodMint]
  BY <1>1, <1>2, MintMoves DEF FinalizeAfterAuction, MintStatus
<1>12. RawFromNorm(lost) \in Nat
  BY PricesNat
<1>13. pendingReturns' \in [Account -> Returns]
  BY <1>1, <1>2, <1>3, <1>4, <1>12, PayTyped DEF TypeInv, FinalizeAfterAuction
<1>14. totalPendingMints' \in Nat
  BY <1>6 DEF TypeInv, FinalizeAfterAuction
<1>15. QED
  BY <1>10, <1>11, <1>13, <1>14
  DEF TypeInv, FinalizeAfterAuction, MintUnchanged, timeVars, configVars, burnVars, kickVars, hubVars

LEMMA FinalizeMintingTyped ==
  ASSUME TypeInv, NEW r \in ReqId, mintRequests[r].status = "SECRET_REVEALED",
         FinalizeMinting(r), MintUnchanged
  PROVE  TypeInv'
<1>1. PICK m \in GoodMint : m = mintRequests[r]
  BY DEF TypeInv
<1>2. /\ m.status # "INVALID" /\ m.lpVault \in Vault /\ m.initiator \in Account
      /\ m.recipient \in Account /\ m.wsxmrAmount \in Nat /\ m.feeAmount \in Nat
      /\ m.feeAmount <= m.wsxmrAmount
      /\ m.lockedCollateral \in Nat /\ m.griefingDeposit \in Nat
  BY <1>1, MintFields
<1>3. PICK V \in GoodVault : V = vaults[m.lpVault]
  BY <1>2 DEF TypeInv
<1>4. /\ V.lockedCollateral >= m.lockedCollateral /\ V.pendingDebt >= m.wsxmrAmount
      /\ V.pendingMintCount > 0 /\ totalPendingMints > 0
  BY <1>1, <1>3 DEF FinalizeMinting
<1>5. /\ V.lockedCollateral - m.lockedCollateral \in Nat
      /\ V.pendingDebt - m.wsxmrAmount \in Nat
      /\ V.debt + m.wsxmrAmount \in Nat /\ V.pendingMintCount - 1 \in Nat
  BY <1>2, <1>4, VaultFields
<1>6. [V EXCEPT !.lockedCollateral = V.lockedCollateral - m.lockedCollateral,
                !.pendingDebt = V.pendingDebt - m.wsxmrAmount,
                !.debt = V.debt + m.wsxmrAmount,
                !.pendingMintCount = V.pendingMintCount - 1] \in GoodVault
  BY <1>5 DEF GoodVault, VaultRecord
<1>7. vaults' = [vaults EXCEPT ![m.lpVault] =
        [V EXCEPT !.lockedCollateral = V.lockedCollateral - m.lockedCollateral,
                  !.pendingDebt = V.pendingDebt - m.wsxmrAmount,
                  !.debt = V.debt + m.wsxmrAmount,
                  !.pendingMintCount = V.pendingMintCount - 1]]
  BY <1>1, <1>2, <1>3 DEF TypeInv, FinalizeMinting
<1>8. vaults' \in [Vault -> GoodVault]
  BY <1>2, <1>6, <1>7, PutVault DEF TypeInv
<1>9. mintRequests' \in [ReqId -> GoodMint]
  BY <1>1, <1>2, MintMoves DEF FinalizeMinting, MintStatus
<1>10. pendingReturns' \in [Account -> Returns]
  BY <1>1, <1>2, PayTyped DEF TypeInv, FinalizeMinting
<1>11. wsxmr' \in [Account -> Nat]
  <2>1. m.lpVault \in Account
    BY <1>2, VaultIsAccount
  <2> DEFINE net == m.wsxmrAmount - m.feeAmount
             paid == [wsxmr EXCEPT ![m.recipient] = @ + net]
  <2>2. paid \in [Account -> Nat]
    <3>1. net \in Nat
      BY <1>2
    <3> HIDE DEF net
    <3>2. QED BY <1>2, <3>1 DEF TypeInv
  <2>3. wsxmr' = [paid EXCEPT ![m.lpVault] = @ + m.feeAmount]
    BY <1>1 DEF FinalizeMinting
  <2> HIDE DEF paid
  <2>4. QED BY <1>2, <2>1, <2>2, <2>3
<1>12. totalPendingMints' \in Nat /\ globalTotalDebt' \in Nat
  BY <1>1, <1>2, <1>4 DEF TypeInv, FinalizeMinting
<1>13. QED
  BY <1>8, <1>9, <1>10, <1>11, <1>12
  DEF TypeInv, FinalizeMinting, MintUnchanged, timeVars, configVars, burnVars, kickVars, hubVars

LEMMA CancelMintTyped ==
  ASSUME TypeInv, NEW r \in ReqId, CancelMint(r)
  PROVE  TypeInv'
<1>1. PICK m \in GoodMint : m = mintRequests[r]
  BY DEF TypeInv
<1>2. MintUnchanged
  BY DEF CancelMint
<1>3. CASE CancelPendingMint(r)
  <2>1. m.status # "INVALID" /\ m.initiator \in Account /\ m.griefingDeposit \in Nat
    BY <1>1, <1>3, MintFields DEF CancelPendingMint
  <2>2. mintRequests' \in [ReqId -> GoodMint]
    BY <1>1, <1>3, <2>1, MintMoves DEF CancelPendingMint, MintStatus
  <2>3. pendingReturns' \in [Account -> Returns]
    BY <1>1, <1>3, <2>1, PayTyped DEF TypeInv, CancelPendingMint
  <2>4. QED
    BY <1>2, <1>3, <2>2, <2>3
    DEF TypeInv, CancelPendingMint, MintUnchanged, timeVars, configVars, burnVars, kickVars, hubVars
<1>4. ASSUME NEW from \in MintStatus \ {"INVALID"}, NEW to \in MintStatus \ {"INVALID"},
             ExpireMint(r, from, to)
      PROVE  TypeInv'
  <2>1. m.status # "INVALID" /\ m.lpVault \in Vault
    BY <1>1, <1>4, MintFields DEF ExpireMint
  <2>2. PICK V \in GoodVault : V = vaults[m.lpVault]
    BY <2>1 DEF TypeInv
  <2>3. ReleaseDebt(V, m) \in GoodVault
    BY <2>1, ReleaseGood
  <2>4. vaults' = [vaults EXCEPT ![m.lpVault] = ReleaseDebt(V, m)]
    BY <1>1, <1>4, <2>1, <2>2 DEF TypeInv, ExpireMint
  <2>5. vaults' \in [Vault -> GoodVault]
    BY <2>1, <2>3, <2>4, PutVault DEF TypeInv
  <2>6. block + LpClaimWindow \in Nat
    BY TimesAssumption DEF TypeInv
  <2>7. mintRequests' \in [ReqId -> GoodMint]
    <3>1. mintRequests' = [mintRequests EXCEPT ![r].status = to,
                                               ![r].timeout = block + LpClaimWindow]
      BY <1>4 DEF ExpireMint
    <3>2. QED BY <1>1, <1>4, <2>1, <2>6, <3>1, MintMoves
  <2>8. QED
    BY <1>2, <1>4, <2>5, <2>7
    DEF TypeInv, ExpireMint, MintUnchanged, timeVars, configVars, burnVars, kickVars, hubVars
<1>5. CASE ExpireMint(r, "KEY_PROVIDED", "KEY_CANCELLED")
  BY <1>4, <1>5 DEF MintStatus
<1>6. CASE ExpireMint(r, "READY", "EXPIRED_READY")
  BY <1>4, <1>6 DEF MintStatus
<1>7. CASE /\ mintRequests[r].status = "SECRET_REVEALED"
           /\ FinalizeAfterAuction(r) \/ FinalizeMinting(r)
  BY <1>2, <1>7, FinalizeAfterAuctionTyped, FinalizeMintingTyped
<1>8. QED BY <1>3, <1>5, <1>6, <1>7 DEF CancelMint

LEMMA AbandonKeyProvidedMintTyped ==
  ASSUME TypeInv, NEW r \in ReqId, AbandonKeyProvidedMint(r)
  PROVE  TypeInv'
<1>1. PICK m \in GoodMint : m = mintRequests[r]
  BY DEF TypeInv
<1>2. /\ m.status # "INVALID" /\ m.lpVault \in Vault
      /\ m.griefingDeposit \in Nat /\ m.lockedCollateral \in Nat
  BY <1>1, MintFields DEF AbandonKeyProvidedMint
<1>3. PICK V \in GoodVault : V = vaults[m.lpVault]
  BY <1>2 DEF TypeInv
<1>4. PICK released \in GoodVault : released = ReleaseLock(V, m)
  BY <1>2, ReleaseGood
<1>5. ReleaseDebt(released, m) \in GoodVault
  BY <1>2, ReleaseGood
<1>6. \/ vaults' = [vaults EXCEPT ![m.lpVault] = ReleaseDebt(released, m)]
      \/ vaults' = [vaults EXCEPT ![m.lpVault] = released]
  BY <1>1, <1>3, <1>4 DEF AbandonKeyProvidedMint
<1>7. vaults' \in [Vault -> GoodVault]
  BY <1>2, <1>5, <1>6, PutVault DEF TypeInv
<1>8. PICK lock \in Nat :
        lock = IF m.lockedCollateral > 0 /\ V.lockedCollateral >= m.lockedCollateral
               THEN 0 ELSE m.lockedCollateral
  BY <1>2
<1>9. [m EXCEPT !.status = "CANCELLED", !.lpSecret = TRUE, !.lockedCollateral = lock] \in GoodMint
  BY <1>2 DEF GoodMint, MintRecord, MintStatus
<1>10. mintRequests' = [mintRequests EXCEPT ![r] =
         [m EXCEPT !.status = "CANCELLED", !.lpSecret = TRUE, !.lockedCollateral = lock]]
  BY <1>1, <1>3, <1>8 DEF TypeInv, AbandonKeyProvidedMint
<1>11. mintRequests' \in [ReqId -> GoodMint]
  BY <1>9, <1>10, PutMint DEF TypeInv
<1>12. m.lpVault \in Account
  BY <1>2, VaultIsAccount
<1>13. pendingReturns' \in [Account -> Returns]
  BY <1>1, <1>2, <1>12, PayTyped DEF TypeInv, AbandonKeyProvidedMint
<1>14. QED
  BY <1>7, <1>11, <1>13
  DEF TypeInv, AbandonKeyProvidedMint, MintUnchanged, timeVars, configVars, burnVars, kickVars,
      hubVars

LEMMA ClaimGriefingDepositTyped ==
  ASSUME TypeInv, NEW r \in ReqId, ClaimGriefingDeposit(r)
  PROVE  TypeInv'
<1>1. PICK m \in GoodMint : m = mintRequests[r]
  BY DEF TypeInv
<1>2. m.status # "INVALID" /\ m.lpVault \in Vault /\ m.griefingDeposit \in Nat
  BY <1>1, MintFields DEF ClaimGriefingDeposit
<1>3. PICK V \in GoodVault : V = vaults[m.lpVault]
  BY <1>2 DEF TypeInv
<1>4. PICK R \in GoodVault :
        R = ReleaseLock(V, m) /\ R.pendingMintCount = V.pendingMintCount
  BY <1>2, ReleaseGood
<1>5. V.pendingMintCount > 0 /\ totalPendingMints > 0
  BY <1>1, <1>3 DEF ClaimGriefingDeposit
<1>6. R.pendingMintCount - 1 \in Nat
  BY <1>4, <1>5, VaultFields
<1>7. [R EXCEPT !.pendingMintCount = R.pendingMintCount - 1] \in GoodVault
  BY <1>6 DEF GoodVault, VaultRecord
<1>8. vaults' = [vaults EXCEPT ![m.lpVault] =
                   [R EXCEPT !.pendingMintCount = R.pendingMintCount - 1]]
  BY <1>1, <1>2, <1>3, <1>4 DEF ClaimGriefingDeposit, GoodVault, VaultRecord
<1>9. vaults' \in [Vault -> GoodVault]
  BY <1>2, <1>7, <1>8, PutVault DEF TypeInv
<1>10. mintRequests' \in [ReqId -> GoodMint]
  BY <1>1, <1>2, MintMoves DEF ClaimGriefingDeposit, MintStatus
<1>11. m.lpVault \in Account
  BY <1>2, VaultIsAccount
<1>12. pendingReturns' \in [Account -> Returns]
  BY <1>1, <1>2, <1>11, PayTyped DEF TypeInv, ClaimGriefingDeposit
<1>13. totalPendingMints' \in Nat
  BY <1>5 DEF TypeInv, ClaimGriefingDeposit
<1>14. QED
  BY <1>9, <1>10, <1>12, <1>13
  DEF TypeInv, ClaimGriefingDeposit, MintUnchanged, timeVars, configVars, burnVars, kickVars,
      hubVars

\* What is slashed is in the vault.
LEMMA SlashedBound ==
  ASSUME NEW m \in GoodMint, m.status # "INVALID", NEW V \in GoodVault, V = vaults[m.lpVault]
  PROVE  Slashed(m) \in Nat /\ Slashed(m) <= V.collateralShares
BY MintFields, VaultFields DEF Slashed

LEMMA ReturnToInitiatorTyped ==
  ASSUME TypeInv, NEW r \in ReqId, mintRequests[r].status # "INVALID", ReturnToInitiator(r)
  PROVE  mintRequests' \in [ReqId -> GoodMint] /\ pendingReturns' \in [Account -> Returns]
<1>1. PICK m \in GoodMint : m = mintRequests[r]
  BY DEF TypeInv
<1>2. m.lpVault \in Vault /\ m.initiator \in Account /\ m.griefingDeposit \in Nat
  BY <1>1, MintFields
<1>3. mintRequests' \in [ReqId -> GoodMint]
  BY <1>1, <1>2, MintMoves DEF ReturnToInitiator, MintStatus
<1>4. PICK raw \in Nat : raw = RawFromNorm(Slashed(m))
  BY <1>1, <1>2, SlashedBound, PricesNat DEF TypeInv
<1>5. pendingReturns' \in [Account -> Returns]
  BY <1>1, <1>2, <1>4, PayTyped DEF TypeInv, ReturnToInitiator
<1>6. QED BY <1>3, <1>5

LEMMA ReclaimParkedDepositTyped ==
  ASSUME TypeInv, NEW r \in ReqId, ReclaimParkedDeposit(r)
  PROVE  TypeInv'
<1>1. PICK m \in GoodMint : m = mintRequests[r]
  BY DEF TypeInv
<1>2. m.status # "INVALID" /\ m.lpVault \in Vault
  BY <1>1, MintFields DEF ReclaimParkedDeposit
<1>3. PICK V \in GoodVault : V = vaults[m.lpVault]
  BY <1>2 DEF TypeInv
<1>4. PICK R \in GoodVault :
        R = ReleaseLock(V, m) /\ R.collateralShares = V.collateralShares
  BY <1>2, ReleaseGood
<1>5. R.collateralShares - Slashed(m) \in Nat
  BY <1>2, <1>3, <1>4, SlashedBound, VaultFields
<1>6. [R EXCEPT !.collateralShares = R.collateralShares - Slashed(m)] \in GoodVault
  BY <1>5 DEF GoodVault, VaultRecord
<1>7. vaults' = [vaults EXCEPT ![m.lpVault] =
                   [R EXCEPT !.collateralShares = R.collateralShares - Slashed(m)]]
  <2>1. vaults' = [vaults EXCEPT ![m.lpVault] =
                     [ReleaseLock(V, m) EXCEPT !.collateralShares = @ - Slashed(m)]]
    BY <1>1, <1>2, <1>3 DEF TypeInv, ReclaimParkedDeposit
  <2>2. QED BY <1>4, <2>1 DEF GoodVault, VaultRecord
<1>8. vaults' \in [Vault -> GoodVault]
  BY <1>2, <1>6, <1>7, PutVault DEF TypeInv
<1>9. mintRequests' \in [ReqId -> GoodMint] /\ pendingReturns' \in [Account -> Returns]
  BY <1>1, <1>2, ReturnToInitiatorTyped DEF ReclaimParkedDeposit
<1>10. QED
  BY <1>8, <1>9
  DEF TypeInv, ReclaimParkedDeposit, MintUnchanged, timeVars, configVars, burnVars, kickVars,
      hubVars

LEMMA SweepUnclaimedExpiredMintTyped ==
  ASSUME TypeInv, NEW r \in ReqId, SweepUnclaimedExpiredMint(r)
  PROVE  TypeInv'
<1>1. PICK m \in GoodMint : m = mintRequests[r]
  BY DEF TypeInv
<1>2. m.status # "INVALID" /\ m.lpVault \in Vault
  BY <1>1, MintFields DEF SweepUnclaimedExpiredMint
<1>3. PICK V \in GoodVault : V = vaults[m.lpVault]
  BY <1>2 DEF TypeInv
<1>4. PICK R \in GoodVault : /\ R = ReleaseLock(V, m)
                             /\ R.collateralShares = V.collateralShares
                             /\ R.pendingMintCount = V.pendingMintCount
  BY <1>2, ReleaseGood
<1>5. V.pendingMintCount > 0 /\ totalPendingMints > 0
  BY <1>1, <1>3 DEF SweepUnclaimedExpiredMint
<1>6. R.collateralShares - Slashed(m) \in Nat /\ R.pendingMintCount - 1 \in Nat
  BY <1>2, <1>3, <1>4, <1>5, SlashedBound, VaultFields
<1>7. [R EXCEPT !.collateralShares = R.collateralShares - Slashed(m),
                !.pendingMintCount = R.pendingMintCount - 1] \in GoodVault
  BY <1>6 DEF GoodVault, VaultRecord
<1>8. vaults' = [vaults EXCEPT ![m.lpVault] =
        [R EXCEPT !.collateralShares = R.collateralShares - Slashed(m),
                  !.pendingMintCount = R.pendingMintCount - 1]]
  <2>1. vaults' = [vaults EXCEPT ![m.lpVault] =
                     [ReleaseLock(V, m) EXCEPT !.collateralShares = @ - Slashed(m),
                                               !.pendingMintCount = @ - 1]]
    BY <1>1, <1>2, <1>3 DEF TypeInv, SweepUnclaimedExpiredMint
  <2>2. QED BY <1>4, <2>1 DEF GoodVault, VaultRecord
<1>9. vaults' \in [Vault -> GoodVault]
  BY <1>2, <1>7, <1>8, PutVault DEF TypeInv
<1>10. mintRequests' \in [ReqId -> GoodMint] /\ pendingReturns' \in [Account -> Returns]
  BY <1>1, <1>2, ReturnToInitiatorTyped DEF SweepUnclaimedExpiredMint
<1>11. totalPendingMints' \in Nat
  BY <1>5 DEF TypeInv, SweepUnclaimedExpiredMint
<1>12. QED
  BY <1>9, <1>10, <1>11
  DEF TypeInv, SweepUnclaimedExpiredMint, MintUnchanged, timeVars, configVars, burnVars, kickVars,
      hubVars

LEMMA MintNextTyped ==
  ASSUME TypeInv, MintNext
  PROVE  TypeInv'
<1>1. CASE \E u \in Minters, recipient \in Recipients, v \in Vault,
              amount \in MintAmounts, value \in EthValues :
             InitiateMint(u, recipient, v, amount, value)
  BY <1>1, InitiateMintTyped
<1>2. CASE \E r \in ReqId : ProvideLPKey(r) \/ SetMintReady(r) \/ RevealSecret(r)
  BY <1>2, ProvideLPKeyTyped, SetMintReadyTyped, RevealSecretTyped
<1>3. CASE \E r \in ReqId : FinalizeMint(r)
  BY <1>3, FinalizeAfterAuctionTyped, FinalizeMintingTyped DEF FinalizeMint
<1>4. CASE \E r \in ReqId : CancelMint(r)
  BY <1>4, CancelMintTyped
<1>5. CASE \E r \in ReqId : AbandonKeyProvidedMint(r) \/ ClaimGriefingDeposit(r)
  BY <1>5, AbandonKeyProvidedMintTyped, ClaimGriefingDepositTyped
<1>6. CASE \E r \in ReqId : ReclaimParkedDeposit(r) \/ SweepUnclaimedExpiredMint(r)
  BY <1>6, ReclaimParkedDepositTyped, SweepUnclaimedExpiredMintTyped
<1>7. QED BY <1>1, <1>2, <1>3, <1>4, <1>5, <1>6 DEF MintNext

-----------------------------------------------------------------------------
(* The burn swap. *)

\* The amounts of a burn are naturals.
LEMMA BurnAmountsNat ==
  ASSUME NEW b \in GoodBurn
  PROVE  TotalLock(b) \in Nat /\ SlashPayout(b) \in Nat
<1>1. ParCollateral(b.wsxmrAmount, b.thresholdAtRequest) \in Nat
  BY BurnFields, PricesNat
<1>2. SlashPayout(b) \in Nat
  BY <1>1, BurnFields, MonusNat DEF SlashPayout
<1>3. TotalLock(b) \in Nat
  BY BurnFields DEF TotalLock
<1>4. QED BY <1>2, <1>3

LEMMA PayableNat ==
  ASSUME NEW a \in Nat
  PROVE  Payable(a) \in Nat
BY PricesNat DEF Payable

LEMMA BurnPrices ==
  ASSUME NEW V \in GoodVault, NEW amount \in Nat
  PROVE  /\ BurnLock(V, amount) \in Nat /\ BurnReward(V, amount) \in Nat
         /\ BurnReward(V, amount) <= ParCollateral(amount, V.threshold)
<1>1. /\ FreeCollateral(V) \in Nat /\ V.debt \in Nat /\ V.threshold \in Nat
      /\ V.burnReward \in Nat /\ V.burnReward <= BpsDenominator
  BY VaultFields
<1>2. FreeCollateral(V) * amount \in Nat
  BY <1>1, MulNat
<1>3. FreeCollateral(V) * amount * BurnLockMultiplierBps \in Nat
  BY <1>2, MulNat, RatesAssumption
<1>4. V.debt # 0 => V.debt * BpsDenominator \in Nat \ {0}
  BY <1>1, RatesAssumption
<1>5. BurnLock(V, amount) \in Nat
  BY <1>3, <1>4, DivNat DEF BurnLock
<1>6. ParCollateral(amount, V.threshold) \in Nat
  BY <1>1, PricesNat
<1>7. ParCollateral(amount, V.threshold) * V.burnReward \in Nat
  BY <1>1, <1>6, MulNat
<1>8. BurnReward(V, amount) \in Nat
  BY <1>7, DivNat, RatesAssumption DEF BurnReward
<1>9. BurnReward(V, amount) <= ParCollateral(amount, V.threshold)
  BY <1>1, <1>6, FractionBound, RatesAssumption DEF BurnReward
<1>10. QED BY <1>5, <1>8, <1>9

LEMMA PutBurn ==
  ASSUME burnRequests \in [ReqId -> GoodBurn], NEW r \in ReqId, NEW n \in GoodBurn,
         burnRequests' = [burnRequests EXCEPT ![r] = n]
  PROVE  burnRequests' \in [ReqId -> GoodBurn]
OBVIOUS

\* A burn that was made may take any status, deadline and secret.
LEMMA BurnMoves ==
  ASSUME TypeInv, NEW r \in ReqId, burnRequests[r].status # "INVALID",
         NEW s \in BurnStatus \ {"INVALID"}, NEW t \in Nat,
         \/ burnRequests' = [burnRequests EXCEPT ![r].status = s]
         \/ burnRequests' = [burnRequests EXCEPT ![r].status = s, ![r].deadline = t]
         \/ burnRequests' = [burnRequests EXCEPT ![r].status = s, ![r].lpSecret = TRUE]
         \/ burnRequests' = [burnRequests EXCEPT ![r].status = s, ![r].userSecret = TRUE]
         \/ burnRequests' = [burnRequests EXCEPT ![r].lpSecret = TRUE]
         \/ burnRequests' = [burnRequests EXCEPT ![r].userSecret = TRUE]
  PROVE  burnRequests' \in [ReqId -> GoodBurn]
<1>1. PICK b \in GoodBurn : b = burnRequests[r]
  BY DEF TypeInv
<1>2. /\ [b EXCEPT !.status = s] \in GoodBurn
      /\ [b EXCEPT !.status = s, !.deadline = t] \in GoodBurn
      /\ [b EXCEPT !.status = s, !.lpSecret = TRUE] \in GoodBurn
      /\ [b EXCEPT !.status = s, !.userSecret = TRUE] \in GoodBurn
      /\ [b EXCEPT !.lpSecret = TRUE] \in GoodBurn
      /\ [b EXCEPT !.userSecret = TRUE] \in GoodBurn
  BY <1>1 DEF GoodBurn, BurnRecord
<1>3. \E n \in GoodBurn : burnRequests' = [burnRequests EXCEPT ![r] = n]
  BY <1>1, <1>2 DEF TypeInv
<1>4. QED BY <1>3, PutBurn DEF TypeInv

LEMMA RequestBurnTyped ==
  ASSUME TypeInv, NEW u \in Burners, NEW v \in Vault, NEW amount \in BurnAmounts,
         RequestBurn(u, v, amount)
  PROVE  TypeInv'
<1>1. PICK V \in GoodVault : V = vaults[v]
  BY DEF TypeInv
<1>2. u \in Account /\ amount \in Nat /\ block \in Nat
  BY PartsAssumption, AmountsAssumption DEF TypeInv
<1>3. PICK lock \in Nat, reward \in Nat :
        /\ lock = BurnLock(V, amount) /\ reward = BurnReward(V, amount)
        /\ reward <= ParCollateral(amount, V.threshold)
  BY <1>2, BurnPrices
<1>4. PICK deadline \in Nat, nonce \in Nat, threshold \in Nat :
        /\ deadline = block + V.burnTimeout
        /\ nonce = V.liquidationNonce /\ threshold = V.threshold
  BY <1>2, VaultFields
<1>5. [EmptyBurn EXCEPT !.status = "REQUESTED", !.user = u, !.lpVault = v,
                        !.wsxmrAmount = amount, !.lockedCollateral = lock,
                        !.rewardCollateral = reward, !.deadline = deadline,
                        !.vaultLiquidationNonce = nonce,
                        !.thresholdAtRequest = threshold] \in GoodBurn
  <2>1. PICK b : b = [EmptyBurn EXCEPT !.status = "REQUESTED", !.user = u, !.lpVault = v,
                        !.wsxmrAmount = amount, !.lockedCollateral = lock,
                        !.rewardCollateral = reward, !.deadline = deadline,
                        !.vaultLiquidationNonce = nonce,
                        !.thresholdAtRequest = threshold]
    OBVIOUS
  <2>2. /\ b \in BurnRecord /\ b.lpVault = v /\ b.user = u /\ b.wsxmrAmount = amount
        /\ b.rewardCollateral = reward /\ b.thresholdAtRequest = threshold
        /\ b.status = "REQUESTED"
    BY <1>2, <2>1 DEF EmptyBurn, BurnRecord, BurnStatus
  <2>3. b \in GoodBurn
    BY <1>2, <1>3, <1>4, <2>2 DEF GoodBurn
  <2>4. QED BY <2>1, <2>3
<1>6. requestNonce + 1 \in ReqId /\ requestNonce' \in 0..MaxRequests
  <2>1. requestNonce \in 0..MaxRequests /\ requestNonce < MaxRequests
    BY DEF TypeInv, RequestBurn
  <2>2. requestNonce' = requestNonce + 1
    BY DEF RequestBurn
  <2>3. QED BY <2>1, <2>2, SizesAssumption DEF ReqId
<1>7. burnRequests' \in [ReqId -> GoodBurn]
  BY <1>1, <1>3, <1>4, <1>5, <1>6, PutBurn DEF TypeInv, RequestBurn
<1>8. PICK locked \in Nat : locked = V.lockedCollateral + (lock + reward)
  BY VaultFields
<1>9. [V EXCEPT !.lockedCollateral = locked] \in GoodVault
  BY DEF GoodVault, VaultRecord
<1>10. vaults' = [vaults EXCEPT ![v] = [V EXCEPT !.lockedCollateral = locked]]
  BY <1>1, <1>3, <1>8 DEF TypeInv, RequestBurn
<1>11. vaults' \in [Vault -> GoodVault]
  BY <1>9, <1>10, PutVault DEF TypeInv
<1>12. wsxmr' \in [Account -> Nat]
  BY <1>2 DEF TypeInv, RequestBurn
<1>13. vaultBurnRequests' \in [Vault -> SUBSET ReqId]
  BY <1>6 DEF TypeInv, RequestBurn
<1>14. globalPendingBurnDebt' \in Nat
  BY <1>2 DEF TypeInv, RequestBurn
<1>15. QED
  BY <1>6, <1>7, <1>11, <1>12, <1>13, <1>14
  DEF TypeInv, RequestBurn, timeVars, configVars, mintVars, kickVars, hubVars

\* The steps that only move a burn forward.
LEMMA BurnStepsTyped ==
  ASSUME TypeInv, NEW r \in ReqId,
         ProposeHash(r) \/ ConfirmMoneroLock(r) \/ RevealBurnSecret(r)
  PROVE  TypeInv'
<1>1. burnRequests[r].status # "INVALID"
  BY DEF ProposeHash, ConfirmMoneroLock, RevealBurnSecret
<1>2. block + BurnCommitTimeout \in Nat
  BY TimesAssumption DEF TypeInv
<1>3. PICK s \in BurnStatus \ {"INVALID"} :
        \/ /\ s \in {"PROPOSED", "COMMITTED"}
           /\ burnRequests' = [burnRequests EXCEPT ![r].status = s,
                                                  ![r].deadline = block + BurnCommitTimeout]
        \/ burnRequests' = [burnRequests EXCEPT ![r].lpSecret = TRUE]
  BY DEF ProposeHash, ConfirmMoneroLock, RevealBurnSecret, BurnStatus
<1>4. burnRequests' \in [ReqId -> GoodBurn]
  BY <1>1, <1>2, <1>3, BurnMoves
<1>5. QED
  BY <1>4
  DEF TypeInv, ProposeHash, ConfirmMoneroLock, RevealBurnSecret, BurnUnchanged,
      timeVars, configVars, mintVars, kickVars, hubVars

LEMMA CloseBurnTyped ==
  ASSUME TypeInv, NEW r \in ReqId, burnRequests[r].status # "INVALID", CloseBurn(r)
  PROVE  vaultBurnRequests' \in [Vault -> SUBSET ReqId] /\ globalPendingBurnDebt' \in Nat
<1>1. PICK b \in GoodBurn : b = burnRequests[r]
  BY DEF TypeInv
<1>2. b.lpVault \in Vault /\ b.wsxmrAmount \in Nat
  BY <1>1, BurnFields
<1>3. QED BY <1>1, <1>2, MonusNat DEF TypeInv, CloseBurn

LEMMA SettleAgainstDebtTyped ==
  ASSUME TypeInv, NEW r \in ReqId, burnRequests[r].status # "INVALID",
         NEW paid \in Nat, SettleAgainstDebt(r, paid), BurnUnchanged,
         burnRequests' \in [ReqId -> GoodBurn]
  PROVE  TypeInv'
<1>1. PICK b \in GoodBurn : b = burnRequests[r]
  BY DEF TypeInv
<1>2. b.lpVault \in Vault /\ b.user \in Account /\ b.wsxmrAmount \in Nat
  BY <1>1, BurnFields
<1>3. PICK V \in GoodVault : V = vaults[b.lpVault]
  BY <1>2 DEF TypeInv
<1>4. PICK lock \in Nat : lock = TotalLock(b)
  BY <1>1, BurnAmountsNat
<1>5. PICK out \in Nat : out = Payable(paid)
  BY PayableNat
<1>6. PICK cleared \in Nat : cleared = Smaller(b.wsxmrAmount, V.debt) /\ cleared <= V.debt
  BY <1>2, VaultFields, MonusNat
<1>7. /\ V.lockedCollateral >= lock /\ V.collateralShares >= out
      /\ globalTotalDebt >= cleared
  BY <1>1, <1>3, <1>4, <1>5, <1>6 DEF SettleAgainstDebt
<1>8. /\ V.lockedCollateral - lock \in Nat /\ V.collateralShares - out \in Nat
      /\ V.debt - cleared \in Nat
  BY <1>6, <1>7, VaultFields
<1>9. [V EXCEPT !.lockedCollateral = V.lockedCollateral - lock,
                !.collateralShares = V.collateralShares - out,
                !.debt = V.debt - cleared] \in GoodVault
  BY <1>8 DEF GoodVault, VaultRecord
<1>10. vaults' = [vaults EXCEPT ![b.lpVault] =
         [V EXCEPT !.lockedCollateral = V.lockedCollateral - lock,
                   !.collateralShares = V.collateralShares - out,
                   !.debt = V.debt - cleared]]
  BY <1>1, <1>2, <1>3, <1>4, <1>5, <1>6 DEF TypeInv, SettleAgainstDebt
<1>11. vaults' \in [Vault -> GoodVault]
  BY <1>2, <1>9, <1>10, PutVault DEF TypeInv
<1>12. globalTotalDebt' \in Nat
  BY <1>1, <1>3, <1>6, <1>7 DEF TypeInv, SettleAgainstDebt
<1>13. RawFromNorm(paid) \in Nat
  BY PricesNat
<1>14. pendingReturns' \in [Account -> Returns]
  BY <1>1, <1>2, <1>13, PayTyped DEF TypeInv, SettleAgainstDebt
<1>15. vaultBurnRequests' \in [Vault -> SUBSET ReqId] /\ globalPendingBurnDebt' \in Nat
  BY CloseBurnTyped DEF SettleAgainstDebt
<1>16. QED
  BY <1>11, <1>12, <1>14, <1>15
  DEF TypeInv, SettleAgainstDebt, BurnUnchanged, timeVars, configVars, mintVars, kickVars, hubVars

\* The exits that pay the user out of the vault.
LEMMA BurnSettlesTyped ==
  ASSUME TypeInv, NEW r \in ReqId,
         SettleBurn(r) \/ ClaimSlashedCollateral(r) \/ ForceSettleBurn(r)
  PROVE  TypeInv'
<1>1. PICK b \in GoodBurn : b = burnRequests[r]
  BY DEF TypeInv
<1>2. b.status # "INVALID"
  BY <1>1 DEF SettleBurn, ClaimSlashedCollateral, ForceSettleBurn
<1>3. burnRequests' \in [ReqId -> GoodBurn]
  BY <1>1, <1>2, BurnMoves DEF SettleBurn, ClaimSlashedCollateral, ForceSettleBurn, BurnStatus
<1>4. b.rewardCollateral \in Nat /\ SlashPayout(b) \in Nat /\ b.lpVault \in Vault
  BY <1>2, BurnFields, BurnAmountsNat
<1>5. Smaller(SlashPayout(b), vaults[b.lpVault].collateralShares) \in Nat
  BY <1>4, VaultFields, MonusNat DEF TypeInv
<1>6. \E paid \in Nat : SettleAgainstDebt(r, paid)
  BY <1>1, <1>4, <1>5 DEF SettleBurn, ClaimSlashedCollateral, ForceSettleBurn
<1>7. BurnUnchanged
  BY DEF SettleBurn, ClaimSlashedCollateral, ForceSettleBurn
<1>8. QED BY <1>1, <1>2, <1>3, <1>6, <1>7, SettleAgainstDebtTyped

LEMMA CancelBurnTyped ==
  ASSUME TypeInv, NEW r \in ReqId, burnRequests[r].status # "INVALID",
         NEW minted \in Nat, CancelBurn(r, minted), BurnUnchanged,
         abandonedBurns' \subseteq ReqId, burnRequests' \in [ReqId -> GoodBurn]
  PROVE  TypeInv'
<1>1. PICK b \in GoodBurn : b = burnRequests[r]
  BY DEF TypeInv
<1>2. b.lpVault \in Vault /\ b.user \in Account
  BY <1>1, BurnFields
<1>3. PICK V \in GoodVault : V = vaults[b.lpVault]
  BY <1>2 DEF TypeInv
<1>4. PICK lock \in Nat : lock = TotalLock(b)
  BY <1>1, BurnAmountsNat
<1>5. vaults' \in [Vault -> GoodVault]
  <2>1. CASE b.vaultLiquidationNonce # V.liquidationNonce
    BY <1>1, <1>3, <2>1 DEF TypeInv, CancelBurn
  <2>2. CASE b.vaultLiquidationNonce = V.liquidationNonce
    <3>1. V.lockedCollateral >= lock
      BY <1>1, <1>3, <1>4, <2>2 DEF CancelBurn
    <3>2. V.lockedCollateral - lock \in Nat
      BY <3>1, VaultFields
    <3>3. [V EXCEPT !.lockedCollateral = V.lockedCollateral - lock] \in GoodVault
      BY <3>2 DEF GoodVault, VaultRecord
    <3>4. vaults' = [vaults EXCEPT ![b.lpVault] =
                       [V EXCEPT !.lockedCollateral = V.lockedCollateral - lock]]
      BY <1>1, <1>2, <1>3, <1>4, <2>2 DEF TypeInv, CancelBurn
    <3>5. QED BY <1>2, <3>3, <3>4, PutVault DEF TypeInv
  <2>3. QED BY <2>1, <2>2
<1>6. wsxmr' \in [Account -> Nat]
  BY <1>1, <1>2 DEF TypeInv, CancelBurn
<1>7. vaultBurnRequests' \in [Vault -> SUBSET ReqId] /\ globalPendingBurnDebt' \in Nat
  BY CloseBurnTyped DEF CancelBurn
<1>8. QED
  BY <1>5, <1>6, <1>7
  DEF TypeInv, CancelBurn, BurnUnchanged, timeVars, configVars, mintVars, kickVars, hubVars

\* The exits that leave the debt.
LEMMA BurnCancelsTyped ==
  ASSUME TypeInv, NEW r \in ReqId,
         AbortBurn(r) \/ ResolveDeclinedProposal(r) \/ AbandonProposedBurn(r)
  PROVE  TypeInv'
<1>1. PICK b \in GoodBurn : b = burnRequests[r]
  BY DEF TypeInv
<1>2. b.status # "INVALID" /\ b.wsxmrAmount \in Nat
  BY <1>1, BurnFields DEF AbortBurn, ResolveDeclinedProposal, AbandonProposedBurn
<1>3. burnRequests' \in [ReqId -> GoodBurn]
  BY <1>1, <1>2, BurnMoves DEF AbortBurn, ResolveDeclinedProposal, AbandonProposedBurn, BurnStatus
<1>4. CancelBurn(r, b.wsxmrAmount) \/ CancelBurn(r, 0)
  BY <1>1 DEF AbortBurn, ResolveDeclinedProposal, AbandonProposedBurn
<1>5. BurnUnchanged
  BY DEF AbortBurn, ResolveDeclinedProposal, AbandonProposedBurn
<1>6. abandonedBurns' \subseteq ReqId
  BY DEF TypeInv, AbortBurn, ResolveDeclinedProposal, AbandonProposedBurn
<1>7. QED BY <1>1, <1>2, <1>3, <1>4, <1>5, <1>6, CancelBurnTyped

LEMMA ResolveAbandonedProposalTyped ==
  ASSUME TypeInv, NEW r \in ReqId, ResolveAbandonedProposal(r)
  PROVE  TypeInv'
<1>1. PICK b \in GoodBurn : b = burnRequests[r]
  BY DEF TypeInv
<1>2. b.status # "INVALID" /\ b.user \in Account /\ b.wsxmrAmount \in Nat
  BY <1>1, BurnFields DEF ResolveAbandonedProposal
<1>3. burnRequests' \in [ReqId -> GoodBurn]
  BY <1>1, <1>2, BurnMoves DEF ResolveAbandonedProposal, BurnStatus
<1>4. wsxmr' \in [Account -> Nat]
  BY <1>1, <1>2 DEF TypeInv, ResolveAbandonedProposal
<1>5. QED
  BY <1>3, <1>4
  DEF TypeInv, ResolveAbandonedProposal, BurnUnchanged, timeVars, configVars, mintVars, kickVars,
      hubVars

LEMMA BurnNextTyped ==
  ASSUME TypeInv, BurnNext
  PROVE  TypeInv'
<1>1. CASE \E u \in Burners, v \in Vault, amount \in BurnAmounts : RequestBurn(u, v, amount)
  BY <1>1, RequestBurnTyped
<1>2. CASE \E r \in ReqId : ProposeHash(r) \/ ConfirmMoneroLock(r) \/ RevealBurnSecret(r)
  BY <1>2, BurnStepsTyped
<1>3. CASE \E r \in ReqId : SettleBurn(r) \/ ClaimSlashedCollateral(r) \/ ForceSettleBurn(r)
  BY <1>3, BurnSettlesTyped
<1>4. CASE \E r \in ReqId : AbortBurn(r) \/ ResolveDeclinedProposal(r) \/ AbandonProposedBurn(r)
  BY <1>4, BurnCancelsTyped
<1>5. CASE \E r \in ReqId : ResolveAbandonedProposal(r)
  BY <1>5, ResolveAbandonedProposalTyped
<1>6. QED BY <1>1, <1>2, <1>3, <1>4, <1>5 DEF BurnNext

-----------------------------------------------------------------------------
(* The auction. *)

LEMMA SumOnNat ==
  ASSUME NEW S, NEW f, NatOn(f, MaxRequests)
  PROVE  SumOn(S, f, MaxRequests) \in Nat
<1> DEFINE g == [i \in 1..MaxRequests |-> IF i \in S THEN f[i] ELSE 0]
<1>1. NatOn(g, MaxRequests)
  BY DEF NatOn
<1> HIDE DEF g
<1>2. Sum(g, MaxRequests) \in Nat
  BY <1>1, SumNat, SizesAssumption
<1>3. QED BY <1>2 DEF SumOn, g

\* What settling a set of burns adds up to.
LEMMA SettlementSums ==
  ASSUME TypeInv, NEW v \in Vault, NEW S
  PROVE  /\ AmountOf(S) \in Nat /\ ReleasedLocks(v, S) \in Nat /\ Outflows(S) \in Nat
         /\ \A r \in ReqId : PaidRaw(v, S, r) \in Nat
<1>1. \A r \in ReqId : burnRequests[r] \in GoodBurn
  BY DEF TypeInv
<1>2. AmountOf(S) \in Nat
  <2> DEFINE f == [r \in ReqId |-> burnRequests[r].wsxmrAmount]
  <2>1. NatOn(f, MaxRequests)
    BY <1>1, BurnFields DEF NatOn, ReqId
  <2> HIDE DEF f
  <2>2. QED BY <2>1, SumOnNat DEF AmountOf, f
<1>3. ReleasedLocks(v, S) \in Nat
  <2> DEFINE f == [r \in ReqId |-> TotalLock(burnRequests[r])]
  <2>1. NatOn(f, MaxRequests)
    BY <1>1, BurnAmountsNat DEF NatOn, ReqId
  <2> HIDE DEF f
  <2>2. QED BY <2>1, SumOnNat DEF ReleasedLocks, f
<1>4. \A T : Outflows(T) \in Nat
  <2> TAKE T
  <2> DEFINE f == [r \in ReqId |-> Outflow(burnRequests[r])]
  <2>1. ASSUME NEW r \in ReqId PROVE Outflow(burnRequests[r]) \in Nat
    <3>1. PICK b \in GoodBurn : b = burnRequests[r]
      BY <1>1
    <3>2. b.rewardCollateral \in Nat /\ SlashPayout(b) + b.rewardCollateral \in Nat
      BY BurnFields, BurnAmountsNat
    <3>3. QED BY <3>1, <3>2, PayableNat DEF Outflow
  <2>2. NatOn(f, MaxRequests)
    BY <2>1 DEF NatOn, ReqId
  <2> HIDE DEF f
  <2>3. QED BY <2>2, SumOnNat DEF Outflows, f
<1>5. ASSUME NEW r \in ReqId PROVE PaidRaw(v, S, r) \in Nat
  <2>1. PICK b \in GoodBurn : b = burnRequests[r]
    BY <1>1
  <2>2. b.rewardCollateral \in Nat /\ SlashPayout(b) + b.rewardCollateral \in Nat
    BY BurnFields, BurnAmountsNat
  <2>3. PICK left \in Nat :
          left = Monus(vaults[v].collateralShares, Outflows({q \in S : q < r}))
    BY <1>4, VaultFields, MonusNat DEF TypeInv
  <2>4. RawFromNorm(Smaller(b.rewardCollateral, left)) \in Nat
    BY <2>2, MonusNat, PricesNat
  <2>5. RawFromNorm(SlashPayout(b) + b.rewardCollateral) \in Nat
    BY <2>2, PricesNat
  <2>6. QED BY <2>1, <2>3, <2>4, <2>5 DEF PaidRaw
<1>6. QED BY <1>2, <1>3, <1>4, <1>5

LEMMA SettledVaultGood ==
  ASSUME TypeInv, NEW v \in Vault, NEW S
  PROVE  SettledVault(v, S) \in GoodVault
<1>1. PICK V \in GoodVault : V = vaults[v]
  BY DEF TypeInv
<1>2. PICK l \in Nat, c \in Nat, d \in Nat :
        /\ l = Monus(V.lockedCollateral, ReleasedLocks(v, S))
        /\ c = Monus(V.collateralShares, Outflows(S))
        /\ d = Monus(V.debt, AmountOf(Committed(S)))
  BY SettlementSums, VaultFields, MonusNat
<1>3. SettledVault(v, S) =
        [V EXCEPT !.lockedCollateral = l, !.collateralShares = c, !.debt = d]
  BY <1>1, <1>2 DEF SettledVault
<1>4. QED BY <1>3 DEF GoodVault, VaultRecord

\* A credit of collateral to every account.
LEMMA SettledReturnsTyped ==
  ASSUME TypeInv, NEW v \in Vault, NEW S
  PROVE  SettledReturns(v, S) \in [Account -> Returns]
<1>1. ASSUME NEW a \in Account
      PROVE  [pendingReturns[a] EXCEPT !.collateral = @ +
                SumOn({r \in Committed(S) : burnRequests[r].user = a},
                      [r \in ReqId |-> PaidRaw(v, S, r)], MaxRequests)] \in Returns
  <2> DEFINE f == [r \in ReqId |-> PaidRaw(v, S, r)]
             s == SumOn({r \in Committed(S) : burnRequests[r].user = a}, f, MaxRequests)
  <2>1. NatOn(f, MaxRequests)
    BY SettlementSums DEF NatOn, ReqId
  <2> HIDE DEF f
  <2>2. s \in Nat
    BY <2>1, SumOnNat
  <2> HIDE DEF s
  <2>3. PICK p \in Returns : p = pendingReturns[a]
    BY DEF TypeInv
  <2>4. p.collateral + s \in Nat
    BY <2>2, <2>3 DEF Returns
  <2>5. [p EXCEPT !.collateral = p.collateral + s] \in Returns
    BY <2>4 DEF Returns
  <2>6. QED BY <2>3, <2>5 DEF s, f
<1>2. QED BY <1>1 DEF SettledReturns

LEMMA SettledBalancesTyped ==
  ASSUME TypeInv, NEW S
  PROVE  SettledBalances(S) \in [Account -> Nat]
<1>1. ASSUME NEW T PROVE AmountOf(T) \in Nat
  <2> DEFINE f == [r \in ReqId |-> burnRequests[r].wsxmrAmount]
  <2>1. NatOn(f, MaxRequests)
    BY BurnFields DEF TypeInv, NatOn, ReqId
  <2> HIDE DEF f
  <2>2. QED BY <2>1, SumOnNat DEF AmountOf, f
<1>2. ASSUME NEW a \in Account
      PROVE  wsxmr[a] + AmountOf({r \in Cancelled(S) : burnRequests[r].user = a}) \in Nat
  BY <1>1 DEF TypeInv
<1>3. QED BY <1>2 DEF SettledBalances

\* The guard of SettleBurns is that the debt it clears is in the global debt.
LEMMA SettledDebtNat ==
  ASSUME TypeInv, NEW v \in Vault, NEW S, SettleBurns(v, S)
  PROVE  SettledDebt(v, S) \in Nat
<1>1. PICK V \in GoodVault, W \in GoodVault : V = vaults[v] /\ W = SettledVault(v, S)
  BY SettledVaultGood DEF TypeInv
<1>2. V.debt \in Nat /\ W.debt \in Nat /\ globalTotalDebt \in Nat
  BY VaultFields DEF TypeInv
<1>3. globalTotalDebt >= V.debt - W.debt
  BY <1>1 DEF SettleBurns
<1>4. globalTotalDebt - (V.debt - W.debt) \in Nat
  BY <1>2, <1>3
<1>5. QED BY <1>1, <1>4 DEF SettledDebt

LEMMA SettleBurnsTyped ==
  ASSUME TypeInv, NEW v \in Vault, NEW S, SettleBurns(v, S)
  PROVE  /\ burnRequests' \in [ReqId -> GoodBurn]
         /\ globalPendingBurnDebt' \in Nat
         /\ vaultBurnRequests' \in [Vault -> SUBSET ReqId]
<1>1. ASSUME NEW r \in ReqId
      PROVE  burnRequests'[r] \in GoodBurn
  <2>1. PICK b \in GoodBurn : b = burnRequests[r]
    BY DEF TypeInv
  <2>2. CASE r \in Cancelled(S)
    <3>1. b.status # "INVALID"
      BY <2>1, <2>2 DEF Cancelled
    <3>2. [b EXCEPT !.status = "CANCELLED"] \in GoodBurn
      BY <3>1 DEF GoodBurn, BurnRecord, BurnStatus
    <3>3. QED BY <2>1, <2>2, <3>2 DEF SettleBurns
  <2>3. CASE r \notin Cancelled(S) /\ r \in Committed(S)
    <3>1. b.status # "INVALID"
      BY <2>1, <2>3 DEF Committed
    <3>2. /\ [b EXCEPT !.status = "COMPLETED"] \in GoodBurn
          /\ [b EXCEPT !.status = "SLASHED"] \in GoodBurn
      BY <3>1 DEF GoodBurn, BurnRecord, BurnStatus
    <3>3. QED BY <2>1, <2>3, <3>2 DEF SettleBurns
  <2>4. CASE r \notin Cancelled(S) /\ r \notin Committed(S)
    BY <2>1, <2>4 DEF SettleBurns
  <2>5. QED BY <2>2, <2>3, <2>4
<1>2. burnRequests' \in [ReqId -> GoodBurn]
  BY <1>1 DEF SettleBurns
<1>3. AmountOf(Cancelled(S) \cup Committed(S)) \in Nat
  BY SettlementSums
<1>4. globalPendingBurnDebt' \in Nat
  BY <1>3, MonusNat DEF TypeInv, SettleBurns
<1>5. vaultBurnRequests' \in [Vault -> SUBSET ReqId]
  BY DEF TypeInv, SettleBurns
<1>6. QED BY <1>2, <1>4, <1>5

LEMMA OpenedVaultGood ==
  ASSUME TypeInv, NEW v \in Vault
  PROVE  OpenedVault(v) \in GoodVault /\ Offered(v) \in Nat
<1>1. PICK V \in GoodVault : V = SettledVault(v, ToSettle(v))
  BY SettledVaultGood
<1>2. V.liquidationNonce + 1 \in Nat /\ V.mintNonce + 1 \in Nat
  BY VaultFields
<1>3. [V EXCEPT !.liquidationNonce = V.liquidationNonce + 1, !.mintNonce = V.mintNonce + 1]
        \in GoodVault
  BY <1>2 DEF GoodVault, VaultRecord
<1>4. OpenedVault(v) \in GoodVault
  BY <1>1, <1>3 DEF OpenedVault
<1>5. FreeCollateral(OpenedVault(v)) \in Nat /\ vaultKicks[v].offeredCollateral \in Nat
  BY <1>4, VaultFields, KickFields DEF TypeInv
<1>6. QED BY <1>4, <1>5 DEF Offered

\* The settlement every auction step starts with, typed.
LEMMA AuctionSettlementTyped ==
  ASSUME TypeInv, NEW v \in Vault, NEW S, SettleBurns(v, S)
  PROVE  /\ burnRequests' \in [ReqId -> GoodBurn]
         /\ globalPendingBurnDebt' \in Nat
         /\ vaultBurnRequests' \in [Vault -> SUBSET ReqId]
         /\ SettledDebt(v, S) \in Nat
         /\ SettledReturns(v, S) \in [Account -> Returns]
         /\ SettledBalances(S) \in [Account -> Nat]
BY SettleBurnsTyped, SettledDebtNat, SettledReturnsTyped, SettledBalancesTyped

\* A bond of whole raw units is moved into the hub.
LEMMA StartKickTyped ==
  ASSUME TypeInv, NEW v \in Vault, NEW kicker \in Account, StartKick(v, kicker)
  PROVE  vaultKicks' \in [Vault -> GoodKick] /\ hubCollateral' \in Nat
<1>1. PICK V \in GoodVault : V = vaults[v]
  BY DEF TypeInv
<1>2. V.collateralShares * KickBondBps \in Nat
  BY VaultFields, MulNat, RatesAssumption
<1>3. PICK share \in Nat : share = (V.collateralShares * KickBondBps) \div BpsDenominator
  BY <1>2, DivNat, RatesAssumption
<1>4. PICK raw \in Nat : raw = RawFromNorm(IF share < KickBondMin THEN KickBondMin ELSE share)
  BY PricesNat, RatesAssumption
<1>5. PICK bond \in Nat : bond = NormFromRaw(raw)
  BY PricesNat
<1>6. PICK now \in Nat, end \in Nat :
        now = block /\ end = block + KickGrace + AuctionOpenDelay + AuctionDuration
  BY TimesAssumption DEF TypeInv
<1>7. [NoKick EXCEPT !.active = TRUE, !.kicker = kicker, !.bond = bond,
                     !.kickBlock = now, !.auctionEnd = end] \in GoodKick
  BY DEF NoKick, GoodKick, KickRecord
<1>8. vaultKicks' = [vaultKicks EXCEPT ![v] =
        [NoKick EXCEPT !.active = TRUE, !.kicker = kicker, !.bond = bond,
                       !.kickBlock = now, !.auctionEnd = end]]
  BY <1>1, <1>3, <1>4, <1>5, <1>6 DEF StartKick
<1>9. vaultKicks' \in [Vault -> GoodKick]
  BY <1>7, <1>8 DEF TypeInv
<1>10. hubCollateral' \in Nat
  BY <1>1, <1>3, <1>4 DEF TypeInv, StartKick
<1>11. QED BY <1>9, <1>10

LEMMA KickTyped ==
  ASSUME TypeInv, NEW v \in Vault, NEW kicker \in Kickers, Kick(kicker, v) \/ Reauction(kicker, v)
  PROVE  TypeInv'
<1>1. kicker \in Account
  BY PartsAssumption
<1>2. StartKick(v, kicker) /\ KickUnchanged
  BY DEF Kick, Reauction
<1>3. vaultKicks' \in [Vault -> GoodKick] /\ hubCollateral' \in Nat
  BY <1>1, <1>2, StartKickTyped
<1>4. vaultFrozen' \subseteq Vault /\ vaultReauctionUsed' \subseteq Vault
  BY DEF TypeInv, Kick, Reauction
<1>5. QED
  BY <1>2, <1>3, <1>4
  DEF TypeInv, StartKick, KickUnchanged, timeVars, configVars, mintVars

LEMMA OpenAuctionTyped ==
  ASSUME TypeInv, NEW v \in Vault, OpenAuction(v)
  PROVE  TypeInv'
<1>1. SettleBurns(v, ToSettle(v)) /\ KickUnchanged
  BY DEF OpenAuction
<1>2. PICK V \in GoodVault, offer \in Nat : V = OpenedVault(v) /\ offer = Offered(v)
  BY OpenedVaultGood
<1>3. vaults' \in [Vault -> GoodVault]
  BY <1>2 DEF TypeInv, OpenAuction
<1>4. PICK k \in GoodKick : k = vaultKicks[v]
  BY DEF TypeInv
<1>5. [k EXCEPT !.auctionOpened = TRUE, !.offeredCollateral = offer] \in GoodKick
  BY DEF GoodKick, KickRecord
<1>6. vaultKicks' =
        [vaultKicks EXCEPT ![v] = [k EXCEPT !.auctionOpened = TRUE, !.offeredCollateral = offer]]
  BY <1>2, <1>4 DEF TypeInv, OpenAuction
<1>7. vaultKicks' \in [Vault -> GoodKick]
  BY <1>5, <1>6 DEF TypeInv
<1>8. /\ globalTotalDebt' \in Nat /\ pendingReturns' \in [Account -> Returns]
      /\ wsxmr' \in [Account -> Nat]
  BY <1>1, AuctionSettlementTyped DEF OpenAuction
<1>9. /\ burnRequests' \in [ReqId -> GoodBurn] /\ globalPendingBurnDebt' \in Nat
      /\ vaultBurnRequests' \in [Vault -> SUBSET ReqId]
  BY <1>1, SettleBurnsTyped
<1>10. QED
  BY <1>1, <1>3, <1>7, <1>8, <1>9
  DEF TypeInv, OpenAuction, KickUnchanged, timeVars, configVars, mintVars

\* X(t) is a part of the whole.
LEMMA CurrentXBpsBound ==
  ASSUME TypeInv, NEW k \in GoodKick
  PROVE  CurrentXBps(k) \in Nat /\ CurrentXBps(k) <= BpsDenominator
<1>1. PICK elapsed \in Nat :
        elapsed = Monus(block, k.kickBlock + KickGrace + AuctionOpenDelay)
  <2>1. block \in Nat /\ k.kickBlock + KickGrace + AuctionOpenDelay \in Nat
    BY KickFields, TimesAssumption DEF TypeInv
  <2>2. QED BY <2>1, MonusNat
<1>2. CASE elapsed >= AuctionDuration
  BY <1>1, <1>2, RatesAssumption DEF CurrentXBps
<1>3. CASE elapsed < AuctionDuration
  <2> DEFINE fall == HaircutStartBps - HaircutFloorBps
  <2>1. /\ HaircutStartBps \in Nat /\ HaircutStartBps <= BpsDenominator
        /\ BpsDenominator \in Nat
        /\ fall \in Nat /\ fall <= HaircutStartBps
    BY RatesAssumption
  <2>2. CurrentXBps(k) = HaircutStartBps - (fall * elapsed) \div AuctionDuration
    BY <1>1, <1>3, TimesAssumption DEF CurrentXBps
  <2> HIDE DEF fall
  <2>3. fall * elapsed \in Nat
    BY <2>1, MulNat
  <2>4. PICK q \in Nat : q = (fall * elapsed) \div AuctionDuration
    BY <2>3, DivNat, TimesAssumption
  <2>5. (fall * elapsed) \div AuctionDuration <= fall
    BY <1>3, <2>1, FractionBound, TimesAssumption
  <2>6. QED BY <2>1, <2>2, <2>4, <2>5
<1>4. QED BY <1>1, <1>2, <1>3, TimesAssumption

LEMMA BidWholeTyped ==
  ASSUME TypeInv, NEW v \in Vault, NEW bidder \in Account, vaultKicks[v].active,
         SettleBurns(v, ToSettle(v)), BidWhole(bidder, v)
  PROVE  /\ vaults' \in [Vault -> GoodVault] /\ globalTotalDebt' \in Nat
         /\ pendingReturns' \in [Account -> Returns] /\ wsxmr' \in [Account -> Nat]
         /\ hubCollateral' \in Nat
<1>1. PICK k \in GoodKick : k = vaultKicks[v]
  BY DEF TypeInv
<1>2. k.kicker \in Account /\ k.bond \in Nat
  BY <1>1, KickFields
<1>3. PICK V \in GoodVault, offer \in Nat : V = OpenedVault(v) /\ offer = Offered(v)
  BY OpenedVaultGood
<1>4. PICK x \in Nat : x = CurrentXBps(k) /\ x <= BpsDenominator
  BY CurrentXBpsBound
<1>5. PICK bidderNorm \in Nat :
        bidderNorm = (offer * x) \div BpsDenominator /\ bidderNorm <= offer
  <2>1. offer * x \in Nat
    BY MulNat
  <2>2. (offer * x) \div BpsDenominator \in Nat
    BY <2>1, DivNat, RatesAssumption
  <2>3. (offer * x) \div BpsDenominator <= offer
    BY <1>4, FractionBound, RatesAssumption
  <2>4. QED BY <2>2, <2>3
<1>6. PICK bidderRaw \in Nat : bidderRaw = RawFromNorm(bidderNorm)
  BY PricesNat
<1>7. PICK chipRaw \in Nat :
        chipRaw = RawFromNorm(((offer - bidderNorm) * ChipBps) \div BpsDenominator)
  <2>1. offer - bidderNorm \in Nat /\ ChipBps \in Nat
    BY <1>5, RatesAssumption
  <2>2. (offer - bidderNorm) * ChipBps \in Nat
    BY <2>1, MulNat
  <2>3. ((offer - bidderNorm) * ChipBps) \div BpsDenominator \in Nat
    BY <2>2, DivNat, RatesAssumption
  <2>4. QED BY <2>3, PricesNat
<1>8. PICK kickerRaw \in Nat :
        kickerRaw = IF x <= KickSaneBps THEN chipRaw ELSE RawFromNorm(k.bond) + chipRaw
  <2>1. RawFromNorm(k.bond) \in Nat
    BY <1>2, PricesNat
  <2>2. QED BY <2>1
<1>9. PICK left \in Nat :
        left = Monus(V.collateralShares, NormFromRaw(bidderRaw) + NormFromRaw(chipRaw))
  <2>1. NormFromRaw(bidderRaw) \in Nat /\ NormFromRaw(chipRaw) \in Nat
    BY PricesNat
  <2>2. NormFromRaw(bidderRaw) + NormFromRaw(chipRaw) \in Nat /\ V.collateralShares \in Nat
    BY <2>1, VaultFields
  <2>3. QED BY <2>2, MonusNat
<1>10. PICK shares \in Nat : shares = IF x <= KickSaneBps THEN left + k.bond ELSE left
  BY <1>2
<1>11. [V EXCEPT !.collateralShares = shares, !.debt = 0] \in GoodVault
  BY DEF GoodVault, VaultRecord
<1>12. vaults' = [vaults EXCEPT ![v] = [V EXCEPT !.collateralShares = shares, !.debt = 0]]
  BY <1>1, <1>3, <1>4, <1>5, <1>6, <1>7, <1>9, <1>10 DEF BidWhole
<1>13. vaults' \in [Vault -> GoodVault]
  BY <1>11, <1>12, PutVault DEF TypeInv
<1>14. PICK settled \in [Account -> Returns], balances \in [Account -> Nat] :
         /\ settled = SettledReturns(v, ToSettle(v))
         /\ balances = SettledBalances(ToSettle(v))
  BY AuctionSettlementTyped
<1>15. pendingReturns' = [settled EXCEPT ![k.kicker].collateral = @ + kickerRaw]
  BY <1>1, <1>3, <1>4, <1>5, <1>7, <1>8, <1>14 DEF BidWhole
<1>16. pendingReturns' \in [Account -> Returns]
  <2>1. PICK p \in Returns : p = settled[k.kicker]
    BY <1>2
  <2>2. p.collateral + kickerRaw \in Nat
    BY DEF Returns
  <2>3. [p EXCEPT !.collateral = p.collateral + kickerRaw] \in Returns
    BY <2>2 DEF Returns
  <2>4. pendingReturns' = [settled EXCEPT ![k.kicker] =
                             [p EXCEPT !.collateral = p.collateral + kickerRaw]]
    BY <1>2, <1>15, <2>1
  <2>5. QED BY <2>3, <2>4
<1>17. wsxmr' \in [Account -> Nat]
  <2>1. balances[bidder] >= V.debt /\ wsxmr' = [balances EXCEPT ![bidder] = @ - V.debt]
    BY <1>3, <1>14 DEF BidWhole
  <2>2. balances[bidder] - V.debt \in Nat
    BY <2>1, VaultFields
  <2>3. QED BY <2>1, <2>2
<1>18. globalTotalDebt' \in Nat
  <2>1. SettledDebt(v, ToSettle(v)) \in Nat
    BY SettledDebtNat
  <2>2. globalTotalDebt' = Monus(SettledDebt(v, ToSettle(v)), V.debt)
    BY <1>3 DEF BidWhole
  <2>3. QED BY <2>1, <2>2, MonusNat, VaultFields
<1>19. hubCollateral' \in Nat
  <2>1. hubCollateral >= bidderRaw /\ hubCollateral' = hubCollateral - bidderRaw
    BY <1>1, <1>3, <1>4, <1>5, <1>6 DEF BidWhole
  <2>2. QED BY <2>1 DEF TypeInv
<1>20. QED BY <1>13, <1>16, <1>17, <1>18, <1>19

LEMMA BidTyped ==
  ASSUME TypeInv, NEW v \in Vault, NEW bidder \in Bidders, Bid(bidder, v)
  PROVE  TypeInv'
<1>1. SettleBurns(v, ToSettle(v)) /\ KickUnchanged /\ vaultKicks[v].active
  BY DEF Bid
<1>2. bidder \in Account
  BY PartsAssumption
<1>3. /\ vaults' \in [Vault -> GoodVault] /\ globalTotalDebt' \in Nat
      /\ pendingReturns' \in [Account -> Returns] /\ wsxmr' \in [Account -> Nat]
      /\ hubCollateral' \in Nat
  <2>1. CASE BidNothingOwed(v)
    <3>1. PICK V \in GoodVault, k \in GoodKick : V = OpenedVault(v) /\ k = vaultKicks[v]
      BY OpenedVaultGood DEF TypeInv
    <3>2. V.collateralShares + k.bond \in Nat
      BY VaultFields, KickFields
    <3>3. [V EXCEPT !.collateralShares = V.collateralShares + k.bond] \in GoodVault
      BY <3>2 DEF GoodVault, VaultRecord
    <3>4. vaults' = [vaults EXCEPT ![v] =
                       [V EXCEPT !.collateralShares = V.collateralShares + k.bond]]
      BY <2>1, <3>1 DEF BidNothingOwed
    <3>5. vaults' \in [Vault -> GoodVault]
      BY <3>3, <3>4, PutVault DEF TypeInv
    <3>6. QED
      BY <1>1, <2>1, <3>5, AuctionSettlementTyped DEF TypeInv, BidNothingOwed
  <2>2. CASE BidWhole(bidder, v)
    BY <1>1, <1>2, <2>2, BidWholeTyped
  <2>3. QED BY <2>1, <2>2 DEF Bid
<1>4. /\ burnRequests' \in [ReqId -> GoodBurn] /\ globalPendingBurnDebt' \in Nat
      /\ vaultBurnRequests' \in [Vault -> SUBSET ReqId]
  BY <1>1, SettleBurnsTyped
<1>5. vaultKicks' \in [Vault -> GoodKick] /\ vaultLastKickResolved' \in [Vault -> Nat]
  BY ClearKickTyped DEF Bid
<1>6. QED
  BY <1>1, <1>3, <1>4, <1>5 DEF TypeInv, Bid, KickUnchanged, timeVars, configVars, mintVars

\* The bond of a kick goes back to its kicker, after the settlement of S.
LEMMA BondReturnTyped ==
  ASSUME TypeInv, NEW v \in Vault, NEW S, vaultKicks[v].active,
         pendingReturns' = [SettledReturns(v, S) EXCEPT
           ![vaultKicks[v].kicker].collateral = @ + RawFromNorm(vaultKicks[v].bond)]
  PROVE  pendingReturns' \in [Account -> Returns]
<1>1. PICK k \in GoodKick : k = vaultKicks[v]
  BY DEF TypeInv
<1>2. PICK raw \in Nat : raw = RawFromNorm(k.bond)
  BY KickFields, PricesNat
<1>3. PICK settled \in [Account -> Returns] : settled = SettledReturns(v, S)
  BY SettledReturnsTyped
<1>4. k.kicker \in Account
  BY <1>1, KickFields
<1>5. PICK p \in Returns : p = settled[k.kicker]
  BY <1>4
<1>6. p.collateral + raw \in Nat
  BY DEF Returns
<1>7. [p EXCEPT !.collateral = p.collateral + raw] \in Returns
  BY <1>6 DEF Returns
<1>8. pendingReturns' =
        [settled EXCEPT ![k.kicker] = [p EXCEPT !.collateral = p.collateral + raw]]
  BY <1>1, <1>2, <1>3, <1>4, <1>5
<1>9. QED BY <1>7, <1>8

LEMMA ResolveKickTyped ==
  ASSUME TypeInv, NEW v \in Vault, ResolveKick(v)
  PROVE  TypeInv'
<1>1. SettleBurns(v, ToSettle(v)) /\ KickUnchanged /\ vaultKicks[v].active
  BY DEF ResolveKick
<1>2. vaults' \in [Vault -> GoodVault]
  BY OpenedVaultGood, PutVault DEF TypeInv, ResolveKick
<1>3. globalTotalDebt' \in Nat /\ wsxmr' \in [Account -> Nat]
  BY <1>1, AuctionSettlementTyped DEF ResolveKick
<1>4. pendingReturns' \in [Account -> Returns]
  BY <1>1, BondReturnTyped DEF ResolveKick, ResolvedReturns
<1>5. /\ burnRequests' \in [ReqId -> GoodBurn] /\ globalPendingBurnDebt' \in Nat
      /\ vaultBurnRequests' \in [Vault -> SUBSET ReqId]
  BY <1>1, SettleBurnsTyped
<1>6. vaultKicks' \in [Vault -> GoodKick] /\ vaultLastKickResolved' \in [Vault -> Nat]
  BY ClearKickTyped DEF ResolveKick
<1>7. vaultFrozen' \subseteq Vault
  BY DEF TypeInv, ResolveKick
<1>8. QED
  BY <1>1, <1>2, <1>3, <1>4, <1>5, <1>6, <1>7
  DEF TypeInv, ResolveKick, KickUnchanged, timeVars, configVars, mintVars

LEMMA AbsorbTyped ==
  ASSUME TypeInv, NEW old \in Vault, NEW new \in Vault,
         NEW oldV \in GoodVault, NEW newV \in GoodVault, Absorb(old, new, oldV, newV)
  PROVE  vaults' \in [Vault -> GoodVault] /\ backstopped' \subseteq Vault
<1>1. /\ newV.debt + oldV.debt \in Nat
      /\ newV.collateralShares + oldV.collateralShares \in Nat
      /\ oldV.liquidationNonce + 1 \in Nat /\ oldV.mintNonce + 1 \in Nat
  BY VaultFields
<1>2. PICK N \in GoodVault :
        N = [newV EXCEPT !.debt = newV.debt + oldV.debt,
                         !.collateralShares = newV.collateralShares + oldV.collateralShares]
  BY <1>1 DEF GoodVault, VaultRecord
<1>3. PICK E \in GoodVault :
        E = [oldV EXCEPT !.debt = 0, !.collateralShares = 0, !.lockedCollateral = 0,
                         !.liquidationNonce = oldV.liquidationNonce + 1,
                         !.mintNonce = oldV.mintNonce + 1]
  BY <1>1 DEF GoodVault, VaultRecord
<1>4. vaults' = [vaults EXCEPT ![new] = N, ![old] = E]
  BY <1>2, <1>3 DEF Absorb
<1>5. vaults' \in [Vault -> GoodVault]
  BY <1>4, PutTwoVaults DEF TypeInv
<1>6. backstopped' \subseteq Vault
  BY DEF TypeInv, Absorb
<1>7. QED BY <1>5, <1>6

LEMMA BackstopVaultTyped ==
  ASSUME TypeInv, NEW old \in Vault, NEW new \in Backstoppers, BackstopVault(old, new)
  PROVE  TypeInv'
<1> DEFINE S == vaultBurnRequests[old]
<1>1. new \in Vault /\ KickUnchanged
  BY PartsAssumption DEF BackstopVault
<1>2. PICK O \in GoodVault, V \in GoodVault, N \in GoodVault :
        O = OpenedVault(old) /\ V = SettledVault(old, S) /\ N = vaults[new]
  BY <1>1, OpenedVaultGood, SettledVaultGood DEF TypeInv
<1>3. [V EXCEPT !.liquidationNonce = O.liquidationNonce, !.mintNonce = O.mintNonce] \in GoodVault
  BY VaultFields DEF GoodVault, VaultRecord
<1>4. SettleBurns(old, S)
  BY DEF BackstopVault, BackstopFrozen, BackstopEnded
<1>5. vaults' \in [Vault -> GoodVault] /\ backstopped' \subseteq Vault
  <2>1. \E W \in GoodVault : Absorb(old, new, W, N)
    BY <1>2, <1>3 DEF BackstopVault, BackstopFrozen, BackstopEnded
  <2>2. QED BY <1>1, <2>1, AbsorbTyped
<1>6. globalTotalDebt' \in Nat /\ wsxmr' \in [Account -> Nat]
  BY <1>4, AuctionSettlementTyped DEF BackstopVault, BackstopFrozen, BackstopEnded
<1>7. pendingReturns' \in [Account -> Returns]
  <2>1. CASE BackstopFrozen(old, new)
    BY <2>1, SettledReturnsTyped DEF BackstopFrozen
  <2>2. CASE BackstopEnded(old, new)
    BY <2>2, BondReturnTyped DEF BackstopEnded
  <2>3. QED BY <2>1, <2>2 DEF BackstopVault
<1>8. /\ burnRequests' \in [ReqId -> GoodBurn] /\ globalPendingBurnDebt' \in Nat
      /\ vaultBurnRequests' \in [Vault -> SUBSET ReqId]
  BY <1>4, SettleBurnsTyped
<1>9. vaultKicks' \in [Vault -> GoodKick] /\ vaultLastKickResolved' \in [Vault -> Nat]
  BY ClearKickTyped DEF BackstopVault, BackstopFrozen, BackstopEnded
<1>10. vaultFrozen' \subseteq Vault
  BY DEF TypeInv, BackstopVault
<1>11. QED
  BY <1>1, <1>5, <1>6, <1>7, <1>8, <1>9, <1>10
  DEF TypeInv, BackstopVault, KickUnchanged, timeVars, configVars, mintVars

LEMMA AuctionNextTyped ==
  ASSUME TypeInv, AuctionNext
  PROVE  TypeInv'
<1>1. CASE \E kicker \in Kickers, v \in Vault : Kick(kicker, v) \/ Reauction(kicker, v)
  BY <1>1, KickTyped
<1>2. CASE \E v \in Vault : OpenAuction(v) \/ ResolveKick(v)
  BY <1>2, OpenAuctionTyped, ResolveKickTyped
<1>3. CASE \E bidder \in Bidders, v \in Vault : Bid(bidder, v)
  BY <1>3, BidTyped
<1>4. CASE \E old \in Vault, new \in Backstoppers : BackstopVault(old, new)
  BY <1>4, BackstopVaultTyped
<1>5. QED BY <1>1, <1>2, <1>3, <1>4 DEF AuctionNext

-----------------------------------------------------------------------------
(* The hub. *)

LEMMA TransferTyped ==
  ASSUME TypeInv, NEW from \in Senders, NEW to \in Account, NEW amount \in TransferAmounts,
         Transfer(from, to, amount)
  PROVE  TypeInv'
<1>1. from \in Account /\ amount \in Nat
  BY PartsAssumption, AmountsAssumption
<1>2. wsxmr' \in [Account -> Nat]
  BY <1>1 DEF TypeInv, Transfer
<1>3. QED
  BY <1>2
  DEF TypeInv, Transfer, timeVars, configVars, mintVars, burnVars, kickVars, hubVars

LEMMA TickTyped ==
  ASSUME TypeInv, Tick
  PROVE  TypeInv'
BY DEF TypeInv, Tick, configVars, mintVars, burnVars, kickVars, hubVars

LEMMA InitTyped ==
  ASSUME Init
  PROVE  TypeInv
<1>1. EmptyVault \in GoodVault
  BY RatesAssumption DEF EmptyVault, GoodVault, VaultRecord
<1>2. EmptyMint \in GoodMint
  BY DEF EmptyMint, GoodMint, MintRecord, MintStatus
<1>3. EmptyBurn \in GoodBurn
  <2>1. ParCollateral(0, 0) \in Nat
    BY PricesNat
  <2>2. EmptyBurn \in BurnRecord
    BY DEF EmptyBurn, BurnRecord, BurnStatus
  <2>3. QED BY <2>1, <2>2 DEF EmptyBurn, GoodBurn
<1>4. NoReturns \in Returns
  BY DEF NoReturns, Returns
<1>5. KickCooldown \in Nat /\ 0 \in 0..MaxRequests
  BY TimesAssumption, SizesAssumption
<1>6. QED BY <1>1, <1>2, <1>3, <1>4, <1>5, NoKickGood DEF Init, TypeInv

LEMMA NextTyped ==
  ASSUME TypeInv, [Next]_vars
  PROVE  TypeInv'
<1>1. CASE VaultNext BY <1>1, VaultNextTyped
<1>2. CASE MintNext BY <1>2, MintNextTyped
<1>3. CASE BurnNext BY <1>3, BurnNextTyped
<1>4. CASE AuctionNext BY <1>4, AuctionNextTyped
<1>5. CASE TokenNext BY <1>5, TransferTyped DEF TokenNext
<1>6. CASE Tick BY <1>6, TickTyped
<1>7. CASE UNCHANGED vars BY <1>7 DEF vars, TypeInv
<1>8. QED BY <1>1, <1>2, <1>3, <1>4, <1>5, <1>6, <1>7 DEF Next

\* The inductive invariant holds of every reachable state.
THEOREM HubTypeInvariant == Spec => []TypeInv
<1>1. Init => TypeInv
  BY InitTyped
<1>2. TypeInv /\ [Next]_vars => TypeInv'
  BY NextTyped
<1>3. QED BY <1>1, <1>2, PTL DEF Spec

\* Every ledger of the hub stays a natural number and every record keeps its type:
\* each subtraction of the code is covered by a guard, by a floor or by what the
\* step before it established, in every order of calls.
THEOREM TypeCorrect == Spec => []TypeOK
<1>1. TypeInv => TypeOK
  BY TypeInvImpliesTypeOK
<1>2. QED BY <1>1, HubTypeInvariant, PTL

-----------------------------------------------------------------------------
(***************************************************************************)
(* The list of burns an auction settles is exact: it holds the burns of    *)
(* the vault that are in flight, all requested since its last auction.     *)
(* Two facts make that inductive: a new request gets an id that no request *)
(* has had, and only a registered vault takes burns.                       *)
(***************************************************************************)

\* The ids above the nonce are unused.
RequestsFresh == \A r \in ReqId : r > requestNonce => burnRequests[r].status = "INVALID"

\* A vault that takes burns, or has taken them, is registered.
ListedRegistered ==
  \A v \in Vault :
    /\ vaults[v].active => vaults[v].registered
    /\ vaultBurnRequests[v] # {} => vaults[v].registered

\* BurnListExact, one request at a time.
ListedInFlight ==
  \A v \in Vault, r \in ReqId :
    /\ r \in vaultBurnRequests[v]
         <=> burnRequests[r].lpVault = v /\ burnRequests[r].status \in ActiveBurn
    /\ r \in vaultBurnRequests[v] =>
         burnRequests[r].vaultLiquidationNonce = vaults[v].liquidationNonce

BurnListInv == TypeInv /\ RequestsFresh /\ ListedRegistered /\ ListedInFlight

LEMMA BurnListInvImplies == BurnListInv => BurnListExact
<1> SUFFICES ASSUME BurnListInv, NEW v \in Vault
             PROVE  /\ vaultBurnRequests[v] = BurnsOf(v)
                    /\ \A r \in BurnsOf(v) :
                         burnRequests[r].vaultLiquidationNonce = vaults[v].liquidationNonce
  BY DEF BurnListExact
<1>1. vaultBurnRequests[v] \subseteq ReqId
  BY DEF BurnListInv, TypeInv
<1>2. vaultBurnRequests[v] = BurnsOf(v)
  BY <1>1 DEF BurnListInv, ListedInFlight, BurnsOf
<1>3. QED BY <1>1, <1>2 DEF BurnListInv, ListedInFlight

-----------------------------------------------------------------------------
(* Steps that leave the burns alone. *)

\* No vault is registered, activated or auctioned, unless it has no burns and
\* is registered now.
KeepsVaults ==
  \A v \in Vault :
    \/ /\ vaults'[v].liquidationNonce = vaults[v].liquidationNonce
       /\ vaults'[v].registered = vaults[v].registered
       /\ vaults'[v].active => vaults[v].active
    \/ vaultBurnRequests[v] = {} /\ vaults'[v].registered

LEMMA KeepsBurns ==
  ASSUME BurnListInv, TypeInv', KeepsVaults,
         UNCHANGED <<burnRequests, vaultBurnRequests>>, requestNonce' >= requestNonce
  PROVE  BurnListInv'
<1>1. RequestsFresh'
  BY DEF BurnListInv, TypeInv, RequestsFresh, ReqId
<1>2. ListedRegistered'
  BY DEF BurnListInv, ListedRegistered, KeepsVaults
<1>3. ListedInFlight'
  BY DEF BurnListInv, ListedInFlight, KeepsVaults
<1>4. QED BY <1>1, <1>2, <1>3 DEF BurnListInv

\* One vault changes, in what no burn depends on.
LEMMA OneVaultKept ==
  ASSUME vaults \in [Vault -> VaultRecord], NEW v, NEW W,
         vaults' = [vaults EXCEPT ![v] = W],
         v \in Vault => /\ W.liquidationNonce = vaults[v].liquidationNonce
                        /\ W.registered = vaults[v].registered
                        /\ W.active => vaults[v].active
  PROVE  KeepsVaults
BY DEF KeepsVaults

LEMMA CreateVaultKeepsVaults ==
  ASSUME BurnListInv, NEW v \in Vault,
         CreateVault(v) \/ \E w \in Vault : CreateVaultEvicting(v, w)
  PROVE  KeepsVaults
<1>1. vaults \in [Vault -> VaultRecord]
  BY DEF BurnListInv, TypeInv, GoodVault
<1>2. NewVault.registered
  BY DEF NewVault, EmptyVault
<1>3. ~vaults[v].registered
  BY DEF CreateVault, CreateVaultEvicting
<1>4. vaultBurnRequests[v] = {}
  BY <1>3 DEF BurnListInv, ListedRegistered
<1>5. CASE CreateVault(v)
  BY <1>1, <1>2, <1>4, <1>5 DEF CreateVault, KeepsVaults
<1>6. CASE \E w \in Vault : CreateVaultEvicting(v, w)
  <2>1. PICK w \in Vault : CreateVaultEvicting(v, w)
    BY <1>6
  <2>2. w # v
    BY <1>3, <2>1 DEF CreateVaultEvicting, IsVaultEvictable, BurnListInv, ListedRegistered
  <2>3. PICK W \in VaultRecord : W = vaults[w]
    BY <1>1
  <2>4. vaults' = [vaults EXCEPT ![v] = NewVault,
                                 ![w] = [W EXCEPT !.collateralShares = 0, !.active = FALSE]]
    BY <1>1, <2>1, <2>2, <2>3 DEF CreateVaultEvicting
  <2>5. PICK E : E = [W EXCEPT !.collateralShares = 0, !.active = FALSE]
    OBVIOUS
  <2>6. /\ E.liquidationNonce = W.liquidationNonce /\ E.registered = W.registered
        /\ E.active => W.active
    BY <2>5 DEF VaultRecord
  <2>7. QED BY <1>1, <1>2, <1>4, <2>2, <2>3, <2>4, <2>5, <2>6 DEF KeepsVaults
<1>7. QED BY <1>5, <1>6

LEMMA VaultNextKeepsVaults ==
  ASSUME BurnListInv, VaultNext
  PROVE  KeepsVaults
<1>1. vaults \in [Vault -> VaultRecord]
  BY DEF BurnListInv, TypeInv, GoodVault
<1>2. CASE \E v \in Vault : CreateVault(v) \/ \E w \in Vault : CreateVaultEvicting(v, w)
  BY <1>2, CreateVaultKeepsVaults
<1>3. CASE \E v \in Vault : DeactivateVault(v)
  BY <1>1, <1>3 DEF DeactivateVault, KeepsVaults, VaultRecord
<1>4. CASE \E v \in Vault, amount \in DepositAmounts : DepositCollateral(v, amount)
  BY <1>1, <1>4 DEF DepositCollateral, KeepsVaults, VaultRecord
<1>5. CASE \E v \in Vault, shares \in WithdrawAmounts : WithdrawCollateral(v, shares)
  <2>1. PICK v \in Vault, shares \in WithdrawAmounts : WithdrawCollateral(v, shares)
    BY <1>5
  <2>2. PICK V \in VaultRecord : V = vaults[v]
    BY <1>1
  <2>3. PICK W : W = [V EXCEPT !.collateralShares = @ - NormFromRaw(RawFromNorm(shares))]
    OBVIOUS
  <2>4. vaults' = [vaults EXCEPT ![v] = W]
    BY <2>1, <2>2, <2>3 DEF WithdrawCollateral
  <2>5. /\ W.liquidationNonce = V.liquidationNonce /\ W.registered = V.registered
        /\ W.active = V.active
    BY <2>3 DEF VaultRecord
  <2>6. QED BY <1>1, <2>2, <2>4, <2>5, OneVaultKept
<1>6. CASE \E v \in Vault, amount \in RepayAmounts : RepayDebt(v, amount)
  BY <1>1, <1>6 DEF RepayDebt, KeepsVaults, VaultRecord
<1>7. CASE \E v \in Vault :
         \/ \E x \in Thresholds : SetThreshold(v, x)
         \/ \E x \in MaxMints : SetMaxMintWsxmr(v, x)
         \/ \E x \in GriefingDeposits : SetMintGriefingDeposit(v, x)
  BY <1>1, <1>7 DEF SetThreshold, SetMaxMintWsxmr, SetMintGriefingDeposit,
                    KeepsVaults, VaultRecord
<1>8. CASE \E v \in Vault :
         \/ \E x \in MinBurns : SetMinBurnAmount(v, x)
         \/ \E x \in Timeouts : SetMintTimeoutBlocks(v, x)
         \/ \E x \in Timeouts : SetBurnTimeoutBlocks(v, x)
  BY <1>1, <1>8 DEF SetMinBurnAmount, SetMintTimeoutBlocks, SetBurnTimeoutBlocks,
                    KeepsVaults, VaultRecord
<1>9. CASE \E v \in Vault, x \in MintFees, y \in BurnRewards : SetVaultMarketMetrics(v, x, y)
  BY <1>1, <1>9 DEF SetVaultMarketMetrics, KeepsVaults, VaultRecord
<1>10. CASE \/ \E v \in Vault, minters \in Whitelists, on \in BOOLEAN :
                 SetMinterWhitelist(v, minters, on)
            \/ \E a \in Account : WithdrawCollateralReturns(a) \/ WithdrawEthReturns(a)
  BY <1>10 DEF SetMinterWhitelist, WithdrawCollateralReturns, WithdrawEthReturns, KeepsVaults
<1>11. QED
  BY <1>2, <1>3, <1>4, <1>5, <1>6, <1>7, <1>8, <1>9, <1>10 DEF VaultNext

LEMMA ReleaseKeeps ==
  ASSUME NEW V \in VaultRecord, NEW m
  PROVE  /\ ReleaseDebt(V, m).liquidationNonce = V.liquidationNonce
         /\ ReleaseDebt(V, m).registered = V.registered
         /\ ReleaseDebt(V, m).active = V.active
         /\ ReleaseLock(V, m).liquidationNonce = V.liquidationNonce
         /\ ReleaseLock(V, m).registered = V.registered
         /\ ReleaseLock(V, m).active = V.active
BY DEF ReleaseDebt, ReleaseLock, VaultRecord

LEMMA MintNextKeepsVaults ==
  ASSUME BurnListInv, MintNext
  PROVE  KeepsVaults
<1>1. vaults \in [Vault -> VaultRecord]
  BY DEF BurnListInv, TypeInv, GoodVault
<1>2. CASE \E u \in Minters, recipient \in Recipients, v \in Vault,
              amount \in MintAmounts, value \in EthValues :
             InitiateMint(u, recipient, v, amount, value)
  BY <1>2 DEF InitiateMint, KeepsVaults
<1>3. CASE \E r \in ReqId : ProvideLPKey(r)
  BY <1>1, <1>3, SMTT(30) DEF ProvideLPKey, KeepsVaults, VaultRecord
<1>4. CASE \E r \in ReqId : SetMintReady(r)
  <2>1. PICK r \in ReqId : SetMintReady(r)
    BY <1>4
  <2>2. PICK m \in GoodMint : m = mintRequests[r]
    BY DEF BurnListInv, TypeInv
  <2>3. m.lpVault \in Vault
    BY <2>1, <2>2, MintFields DEF SetMintReady
  <2>4. PICK V \in VaultRecord : V = vaults[m.lpVault]
    BY <1>1, <2>3
  <2>5. PICK x : x = (V.lockedCollateral + ParLockFor(m.wsxmrAmount, V.threshold))
                       - m.lockedCollateral
    OBVIOUS
  <2>6. PICK W : W = [V EXCEPT !.lockedCollateral = x, !.pendingMintCount = @ + 1]
    OBVIOUS
  <2>7. vaults' = [vaults EXCEPT ![m.lpVault] = W]
    BY <1>1, <2>1, <2>2, <2>3, <2>4, <2>5, <2>6 DEF SetMintReady
  <2>8. /\ W.liquidationNonce = V.liquidationNonce /\ W.registered = V.registered
        /\ W.active = V.active
    BY <2>6 DEF VaultRecord
  <2>9. QED BY <1>1, <2>4, <2>7, <2>8, OneVaultKept
<1>5. CASE \E r \in ReqId : RevealSecret(r) \/ CancelPendingMint(r)
  BY <1>5 DEF RevealSecret, CancelPendingMint, KeepsVaults
<1>6. CASE \E r \in ReqId : FinalizeMinting(r)
  <2>1. PICK r \in ReqId : FinalizeMinting(r)
    BY <1>6
  <2>2. PICK m, v : m = mintRequests[r] /\ v = m.lpVault
    OBVIOUS
  <2>3. vaults' = [vaults EXCEPT ![v].lockedCollateral = @ - m.lockedCollateral,
                                 ![v].pendingDebt = @ - m.wsxmrAmount,
                                 ![v].debt = @ + m.wsxmrAmount,
                                 ![v].pendingMintCount = @ - 1]
    BY <2>1, <2>2 DEF FinalizeMinting
  <2>4. QED BY <1>1, <2>3 DEF KeepsVaults, VaultRecord
<1>7. ASSUME NEW r \in ReqId, mintRequests[r].status # "INVALID",
             \/ FinalizeAfterAuction(r) \/ \E from, to : ExpireMint(r, from, to)
             \/ AbandonKeyProvidedMint(r) \/ ClaimGriefingDeposit(r)
             \/ ReclaimParkedDeposit(r) \/ SweepUnclaimedExpiredMint(r)
      PROVE  KeepsVaults
  <2>1. PICK m \in GoodMint : m = mintRequests[r]
    BY DEF BurnListInv, TypeInv
  <2>2. m.lpVault \in Vault
    BY <1>7, <2>1, MintFields
  <2>3. PICK V \in GoodVault : V = vaults[m.lpVault]
    BY <2>2 DEF BurnListInv, TypeInv
  <2>4. PICK D \in VaultRecord, L \in VaultRecord, B \in VaultRecord :
          D = ReleaseDebt(V, m) /\ L = ReleaseLock(V, m) /\ B = ReleaseDebt(L, m)
    BY <1>7, <2>1, ReleaseGood DEF GoodVault
  <2>5. /\ D.liquidationNonce = V.liquidationNonce /\ D.registered = V.registered
        /\ L.liquidationNonce = V.liquidationNonce /\ L.registered = V.registered
        /\ B.liquidationNonce = V.liquidationNonce /\ B.registered = V.registered
        /\ D.active = V.active /\ L.active = V.active /\ B.active = V.active
    BY <2>4, ReleaseKeeps DEF GoodVault
  <2>6. \E W : /\ vaults' = [vaults EXCEPT ![m.lpVault] = W]
               /\ W.liquidationNonce = V.liquidationNonce
               /\ W.registered = V.registered
               /\ W.active = V.active
    <3>1. CASE FinalizeAfterAuction(r)
      <4>1. PICK x, y, z : vaults' = [vaults EXCEPT ![m.lpVault] =
              [D EXCEPT !.pendingMintCount = x, !.lockedCollateral = y, !.collateralShares = z]]
        BY <2>1, <2>3, <2>4, <3>1 DEF FinalizeAfterAuction
      <4>2. PICK W :
              W = [D EXCEPT !.pendingMintCount = x, !.lockedCollateral = y, !.collateralShares = z]
        OBVIOUS
      <4>3. /\ W.liquidationNonce = D.liquidationNonce /\ W.registered = D.registered
            /\ W.active = D.active
        BY <4>2 DEF VaultRecord
      <4>4. QED BY <2>5, <4>1, <4>2, <4>3
    <3>2. CASE \E from, to : ExpireMint(r, from, to)
      BY <2>1, <2>2, <2>3, <2>4, <2>5, <3>2 DEF ExpireMint
    <3>3. CASE AbandonKeyProvidedMint(r)
      BY <2>1, <2>3, <2>4, <2>5, <3>3 DEF AbandonKeyProvidedMint
    <3>4. CASE ClaimGriefingDeposit(r)
      <4>1. PICK x : vaults' = [vaults EXCEPT ![m.lpVault] = [L EXCEPT !.pendingMintCount = x]]
        BY <2>1, <2>3, <2>4, <3>4 DEF ClaimGriefingDeposit
      <4>2. PICK W : W = [L EXCEPT !.pendingMintCount = x]
        OBVIOUS
      <4>3. /\ W.liquidationNonce = L.liquidationNonce /\ W.registered = L.registered
            /\ W.active = L.active
        BY <4>2 DEF VaultRecord
      <4>4. QED BY <2>5, <4>1, <4>2, <4>3
    <3>5. CASE ReclaimParkedDeposit(r)
      <4>1. PICK x : vaults' = [vaults EXCEPT ![m.lpVault] = [L EXCEPT !.collateralShares = x]]
        BY <2>1, <2>3, <2>4, <3>5 DEF ReclaimParkedDeposit
      <4>2. PICK W : W = [L EXCEPT !.collateralShares = x]
        OBVIOUS
      <4>3. /\ W.liquidationNonce = L.liquidationNonce /\ W.registered = L.registered
            /\ W.active = L.active
        BY <4>2 DEF VaultRecord
      <4>4. QED BY <2>5, <4>1, <4>2, <4>3
    <3>6. CASE SweepUnclaimedExpiredMint(r)
      <4>1. PICK x, y : vaults' = [vaults EXCEPT ![m.lpVault] =
              [L EXCEPT !.collateralShares = x, !.pendingMintCount = y]]
        BY <2>1, <2>3, <2>4, <3>6 DEF SweepUnclaimedExpiredMint
      <4>2. PICK W : W = [L EXCEPT !.collateralShares = x, !.pendingMintCount = y]
        OBVIOUS
      <4>3. /\ W.liquidationNonce = L.liquidationNonce /\ W.registered = L.registered
            /\ W.active = L.active
        BY <4>2 DEF VaultRecord
      <4>4. QED BY <2>5, <4>1, <4>2, <4>3
    <3>7. QED BY <1>7, <3>1, <3>2, <3>3, <3>4, <3>5, <3>6
  <2>7. QED BY <1>1, <2>2, <2>3, <2>6, OneVaultKept
<1>8. CASE \E r \in ReqId :
        \/ mintRequests[r].status = "SECRET_REVEALED" /\ FinalizeAfterAuction(r)
        \/ ExpireMint(r, "KEY_PROVIDED", "KEY_CANCELLED")
        \/ ExpireMint(r, "READY", "EXPIRED_READY")
        \/ AbandonKeyProvidedMint(r) \/ ClaimGriefingDeposit(r)
        \/ ReclaimParkedDeposit(r) \/ SweepUnclaimedExpiredMint(r)
  BY <1>7, <1>8, ZenonT(60) DEF ExpireMint, AbandonKeyProvidedMint, ClaimGriefingDeposit,
                    ReclaimParkedDeposit, SweepUnclaimedExpiredMint
<1>9. QED
  BY <1>2, <1>3, <1>4, <1>5, <1>6, <1>8 DEF MintNext, FinalizeMint, CancelMint

LEMMA VaultNextTouchesNoBurn ==
  ASSUME VaultNext
  PROVE  UNCHANGED <<burnRequests, vaultBurnRequests, requestNonce>>
<1>1. CASE \E v \in Vault : \/ CreateVault(v) \/ DeactivateVault(v)
                            \/ \E w \in Vault : CreateVaultEvicting(v, w)
  BY <1>1 DEF CreateVault, CreateVaultEvicting, DeactivateVault, burnVars
<1>2. CASE \E v \in Vault : \/ \E x \in DepositAmounts : DepositCollateral(v, x)
                            \/ \E x \in WithdrawAmounts : WithdrawCollateral(v, x)
                            \/ \E x \in RepayAmounts : RepayDebt(v, x)
  BY <1>2 DEF DepositCollateral, WithdrawCollateral, RepayDebt, burnVars
<1>3. CASE \E v \in Vault :
         \/ \E x \in Thresholds : SetThreshold(v, x)
         \/ \E x \in MaxMints : SetMaxMintWsxmr(v, x)
         \/ \E x \in GriefingDeposits : SetMintGriefingDeposit(v, x)
         \/ \E x \in MintFees, y \in BurnRewards : SetVaultMarketMetrics(v, x, y)
         \/ \E x \in MinBurns : SetMinBurnAmount(v, x)
         \/ \E x \in Timeouts : SetMintTimeoutBlocks(v, x)
         \/ \E x \in Timeouts : SetBurnTimeoutBlocks(v, x)
  <2>1. ConfigUnchanged
    BY <1>3 DEF SetThreshold, SetMaxMintWsxmr, SetMintGriefingDeposit, SetVaultMarketMetrics,
                SetMinBurnAmount, SetMintTimeoutBlocks, SetBurnTimeoutBlocks
  <2>2. QED BY <2>1 DEF ConfigUnchanged, burnVars
<1>4. CASE \/ \E v \in Vault, minters \in Whitelists, on \in BOOLEAN :
                SetMinterWhitelist(v, minters, on)
           \/ \E a \in Account : WithdrawCollateralReturns(a) \/ WithdrawEthReturns(a)
  BY <1>4 DEF SetMinterWhitelist, WithdrawCollateralReturns, WithdrawEthReturns, burnVars
<1>5. QED BY <1>1, <1>2, <1>3, <1>4 DEF VaultNext

LEMMA MintNextTouchesNoBurn ==
  ASSUME BurnListInv, MintNext
  PROVE  UNCHANGED <<burnRequests, vaultBurnRequests>> /\ requestNonce' >= requestNonce
<1>1. requestNonce \in Nat
  BY SizesAssumption DEF BurnListInv, TypeInv
<1>2. CASE \E u \in Minters, recipient \in Recipients, v \in Vault,
              amount \in MintAmounts, value \in EthValues :
             InitiateMint(u, recipient, v, amount, value)
  BY <1>1, <1>2 DEF InitiateMint, burnVars
<1>3. CASE \E r \in ReqId :
             \/ ProvideLPKey(r) \/ SetMintReady(r) \/ RevealSecret(r)
             \/ FinalizeMint(r) \/ CancelMint(r)
             \/ AbandonKeyProvidedMint(r) \/ ClaimGriefingDeposit(r)
             \/ ReclaimParkedDeposit(r) \/ SweepUnclaimedExpiredMint(r)
  <2>1. MintUnchanged
    BY <1>3 DEF ProvideLPKey, SetMintReady, RevealSecret, FinalizeMint, CancelMint,
                AbandonKeyProvidedMint, ClaimGriefingDeposit, ReclaimParkedDeposit,
                SweepUnclaimedExpiredMint
  <2>2. CASE \E r \in ReqId : FinalizeMint(r) \/ CancelMint(r)
    <3>1. UNCHANGED requestNonce
      BY <2>2, ZenonT(60) DEF FinalizeMint, CancelMint, FinalizeAfterAuction, FinalizeMinting,
                  CancelPendingMint, ExpireMint
    <3>2. QED BY <1>1, <2>1, <3>1 DEF MintUnchanged, burnVars
  <2>3. CASE \E r \in ReqId : ProvideLPKey(r) \/ SetMintReady(r) \/ RevealSecret(r)
    <3>1. UNCHANGED requestNonce
      BY <2>3 DEF ProvideLPKey, SetMintReady, RevealSecret
    <3>2. QED BY <1>1, <2>1, <3>1 DEF MintUnchanged, burnVars
  <2>4. CASE \E r \in ReqId : \/ AbandonKeyProvidedMint(r) \/ ClaimGriefingDeposit(r)
                              \/ ReclaimParkedDeposit(r) \/ SweepUnclaimedExpiredMint(r)
    <3>1. UNCHANGED requestNonce
      BY <2>4 DEF AbandonKeyProvidedMint, ClaimGriefingDeposit, ReclaimParkedDeposit,
                  SweepUnclaimedExpiredMint
    <3>2. QED BY <1>1, <2>1, <3>1 DEF MintUnchanged, burnVars
  <2>5. QED BY <1>3, <2>2, <2>3, <2>4
<1>4. QED BY <1>2, <1>3 DEF MintNext

-----------------------------------------------------------------------------
(* The steps of the burn swap. *)

LEMMA RequestBurnListed ==
  ASSUME BurnListInv, TypeInv', NEW u \in Burners, NEW v \in Vault, NEW amount \in BurnAmounts,
         RequestBurn(u, v, amount)
  PROVE  BurnListInv'
<1> DEFINE id == requestNonce + 1
<1>1. requestNonce \in Nat /\ id \in ReqId /\ id > requestNonce
  BY SizesAssumption, SMTT(30) DEF BurnListInv, TypeInv, RequestBurn, ReqId
<1>2. requestNonce' = id /\ vaults[v].active
  BY DEF RequestBurn
<1>3. burnRequests[id].status = "INVALID"
  BY <1>1 DEF BurnListInv, RequestsFresh
<1>4. \A w \in Vault : id \notin vaultBurnRequests[w]
  BY <1>1, <1>3 DEF BurnListInv, ListedInFlight, ActiveBurn
<1>5. PICK b : /\ burnRequests' = [burnRequests EXCEPT ![id] = b]
               /\ b.lpVault = v /\ b.status = "REQUESTED"
               /\ b.vaultLiquidationNonce = vaults[v].liquidationNonce
  <2>1. PICK lock, reward, time, amt, thr, lno :
          burnRequests' = [burnRequests EXCEPT ![id] =
            [EmptyBurn EXCEPT !.status = "REQUESTED", !.user = u, !.lpVault = v,
                              !.wsxmrAmount = amt, !.lockedCollateral = lock,
                              !.rewardCollateral = reward, !.deadline = time,
                              !.vaultLiquidationNonce = lno, !.thresholdAtRequest = thr]]
          /\ lno = vaults[v].liquidationNonce
    BY DEF RequestBurn
  <2>2. PICK b : b = [EmptyBurn EXCEPT !.status = "REQUESTED", !.user = u, !.lpVault = v,
                              !.wsxmrAmount = amt, !.lockedCollateral = lock,
                              !.rewardCollateral = reward, !.deadline = time,
                              !.vaultLiquidationNonce = lno, !.thresholdAtRequest = thr]
    OBVIOUS
  <2>3. b.lpVault = v /\ b.status = "REQUESTED" /\ b.vaultLiquidationNonce = lno
    BY <2>2 DEF EmptyBurn
  <2>4. QED BY <2>1, <2>2, <2>3
<1>6. vaultBurnRequests' = [vaultBurnRequests EXCEPT ![v] = @ \cup {id}]
  BY DEF RequestBurn
<1>7. \A w \in Vault : /\ vaults'[w].liquidationNonce = vaults[w].liquidationNonce
                       /\ vaults'[w].registered = vaults[w].registered
                       /\ vaults'[w].active = vaults[w].active
  <2>1. vaults \in [Vault -> VaultRecord]
    BY DEF BurnListInv, TypeInv, GoodVault
  <2>2. QED BY <2>1 DEF RequestBurn, VaultRecord
<1> HIDE DEF id
<1>8. RequestsFresh'
  <2>1. ASSUME NEW r \in ReqId, r > requestNonce' PROVE burnRequests'[r].status = "INVALID"
    <3>1. r # id /\ r > requestNonce
      BY <1>1, <1>2, <2>1 DEF ReqId, id
    <3>2. QED BY <1>5, <3>1 DEF BurnListInv, RequestsFresh, TypeInv
  <2>2. QED BY <2>1 DEF RequestsFresh
<1>9. ListedRegistered'
  BY <1>2, <1>6, <1>7 DEF BurnListInv, ListedRegistered, TypeInv
<1>10. ListedInFlight'
  <2>1. ASSUME NEW w \in Vault, NEW r \in ReqId
        PROVE  /\ r \in vaultBurnRequests'[w]
                    <=> burnRequests'[r].lpVault = w /\ burnRequests'[r].status \in ActiveBurn
               /\ r \in vaultBurnRequests'[w] =>
                    burnRequests'[r].vaultLiquidationNonce = vaults'[w].liquidationNonce
    <3>1. CASE r = id
      BY <1>1, <1>4, <1>5, <1>6, <1>7, <3>1 DEF BurnListInv, TypeInv, ActiveBurn
    <3>2. CASE r # id
      BY <1>5, <1>6, <1>7, <3>2 DEF BurnListInv, TypeInv, ListedInFlight
    <3>3. QED BY <3>1, <3>2
  <2>2. QED BY <2>1 DEF ListedInFlight
<1>11. QED BY <1>8, <1>9, <1>10 DEF BurnListInv

\* A burn that moves on or ends: it is listed exactly as long as it is in flight.
LEMMA BurnMovesListed ==
  ASSUME BurnListInv, TypeInv', NEW r \in ReqId, burnRequests[r].status # "INVALID",
         NEW b, burnRequests' = [burnRequests EXCEPT ![r] = b],
         b.lpVault = burnRequests[r].lpVault,
         b.vaultLiquidationNonce = burnRequests[r].vaultLiquidationNonce,
         b.status # "INVALID",
         \/ /\ b.status \in ActiveBurn <=> burnRequests[r].status \in ActiveBurn
            /\ UNCHANGED vaultBurnRequests
         \/ b.status \notin ActiveBurn /\ CloseBurn(r),
         KeepsVaults, \A v \in Vault : vaults'[v].liquidationNonce = vaults[v].liquidationNonce,
         UNCHANGED requestNonce
  PROVE  BurnListInv'
<1>1. \A q \in ReqId : q # r => burnRequests'[q] = burnRequests[q]
  BY DEF BurnListInv, TypeInv
<1>2. burnRequests'[r] = b
  BY DEF BurnListInv, TypeInv
<1>3. RequestsFresh'
  BY <1>1, <1>2 DEF BurnListInv, RequestsFresh
<1>4. \A v \in Vault : vaultBurnRequests'[v] \subseteq vaultBurnRequests[v]
  BY DEF BurnListInv, TypeInv, CloseBurn
<1>5. ListedRegistered'
  BY <1>4 DEF BurnListInv, ListedRegistered, KeepsVaults
<1>6. ASSUME NEW v \in Vault, NEW q \in ReqId
      PROVE  /\ q \in vaultBurnRequests'[v]
                  <=> burnRequests'[q].lpVault = v /\ burnRequests'[q].status \in ActiveBurn
             /\ q \in vaultBurnRequests'[v] =>
                  burnRequests'[q].vaultLiquidationNonce = vaults'[v].liquidationNonce
  <2>1. CASE /\ b.status \in ActiveBurn <=> burnRequests[r].status \in ActiveBurn
             /\ UNCHANGED vaultBurnRequests
    <3>1. CASE q = r
      BY <1>2, <2>1, <3>1 DEF BurnListInv, ListedInFlight
    <3>2. CASE q # r
      BY <1>1, <2>1, <3>2 DEF BurnListInv, ListedInFlight
    <3>3. QED BY <3>1, <3>2
  <2>2. CASE b.status \notin ActiveBurn /\ CloseBurn(r)
    <3>1. PICK w : /\ w = burnRequests[r].lpVault
                   /\ vaultBurnRequests' = [vaultBurnRequests EXCEPT ![w] = @ \ {r}]
      BY <2>2 DEF CloseBurn
    <3>2. vaultBurnRequests \in [Vault -> SUBSET ReqId]
      BY DEF BurnListInv, TypeInv
    <3>3. CASE q # r
      <4>1. q \in vaultBurnRequests'[v] <=> q \in vaultBurnRequests[v]
        BY <3>1, <3>2, <3>3
      <4>2. QED BY <1>1, <3>3, <4>1 DEF BurnListInv, ListedInFlight
    <3>4. CASE q = r
      <4>1. r \in vaultBurnRequests[v] => v = w
        BY <3>1 DEF BurnListInv, ListedInFlight
      <4>2. r \notin vaultBurnRequests'[v]
        BY <3>1, <3>2, <4>1
      <4>3. QED BY <1>2, <2>2, <3>4, <4>2
    <3>5. QED BY <3>3, <3>4
  <2>3. QED BY <2>1, <2>2
<1>7. ListedInFlight'
  BY <1>6 DEF ListedInFlight
<1>8. QED BY <1>3, <1>5, <1>7 DEF BurnListInv

\* No step of a burn registers, retires or auctions a vault.
LEMMA BurnStepsKeepVaults ==
  ASSUME BurnListInv, NEW r \in ReqId,
         \/ UNCHANGED vaults
         \/ \E paid : SettleAgainstDebt(r, paid)
         \/ \E minted : CancelBurn(r, minted)
  PROVE  /\ KeepsVaults
         /\ \A v \in Vault : vaults'[v].liquidationNonce = vaults[v].liquidationNonce
<1>1. vaults \in [Vault -> VaultRecord]
  BY DEF BurnListInv, TypeInv, GoodVault
<1>2. CASE UNCHANGED vaults
  BY <1>2 DEF KeepsVaults
<1>3. CASE \E paid : SettleAgainstDebt(r, paid)
  <2>1. PICK paid : SettleAgainstDebt(r, paid)
    BY <1>3
  <2>2. PICK v, x, y, z :
          vaults' = [vaults EXCEPT ![v].lockedCollateral = x, ![v].collateralShares = y, ![v].debt = z]
    BY <2>1 DEF SettleAgainstDebt
  <2>3. QED BY <1>1, <2>2 DEF KeepsVaults, VaultRecord
<1>4. CASE \E minted : CancelBurn(r, minted)
  BY <1>1, <1>4, SMTT(30) DEF CancelBurn, KeepsVaults, VaultRecord
<1>5. QED BY <1>2, <1>3, <1>4

\* The burn r and what replaces it: a field or two of the record.
LEMMA BurnRecordMoves ==
  ASSUME BurnListInv, NEW r \in ReqId, NEW s, NEW t,
         \/ burnRequests' = [burnRequests EXCEPT ![r].status = s]
         \/ burnRequests' = [burnRequests EXCEPT ![r].status = s, ![r].deadline = t]
         \/ burnRequests' = [burnRequests EXCEPT ![r].status = s, ![r].lpSecret = TRUE]
         \/ burnRequests' = [burnRequests EXCEPT ![r].status = s, ![r].userSecret = TRUE]
         \/ s = burnRequests[r].status /\ burnRequests' = [burnRequests EXCEPT ![r].lpSecret = TRUE]
         \/ s = burnRequests[r].status /\ burnRequests' = [burnRequests EXCEPT ![r].userSecret = TRUE]
  PROVE  \E b : /\ burnRequests' = [burnRequests EXCEPT ![r] = b]
                /\ b.status = s
                /\ b.lpVault = burnRequests[r].lpVault
                /\ b.vaultLiquidationNonce = burnRequests[r].vaultLiquidationNonce
<1>1. PICK B \in BurnRecord : B = burnRequests[r]
  BY DEF BurnListInv, TypeInv, GoodBurn
<1>2. PICK b : /\ burnRequests' = [burnRequests EXCEPT ![r] = b]
               /\ \/ b = [B EXCEPT !.status = s]
                  \/ b = [B EXCEPT !.status = s, !.deadline = t]
                  \/ b = [B EXCEPT !.status = s, !.lpSecret = TRUE]
                  \/ b = [B EXCEPT !.status = s, !.userSecret = TRUE]
                  \/ s = B.status /\ b = [B EXCEPT !.lpSecret = TRUE]
                  \/ s = B.status /\ b = [B EXCEPT !.userSecret = TRUE]
  BY <1>1 DEF BurnListInv, TypeInv
<1>3. b.status = s /\ b.lpVault = B.lpVault /\ b.vaultLiquidationNonce = B.vaultLiquidationNonce
  BY <1>2 DEF BurnRecord
<1>4. QED BY <1>1, <1>2, <1>3

LEMMA BurnForwardListed ==
  ASSUME BurnListInv, TypeInv', NEW r \in ReqId,
         \/ ProposeHash(r) \/ ConfirmMoneroLock(r) \/ RevealBurnSecret(r)
         \/ ResolveAbandonedProposal(r)
  PROVE  BurnListInv'
<1>1. \E s, t : /\ s # "INVALID" /\ burnRequests[r].status # "INVALID"
                /\ s \in ActiveBurn <=> burnRequests[r].status \in ActiveBurn
                /\ \/ burnRequests' = [burnRequests EXCEPT ![r].status = s, ![r].deadline = t]
                   \/ /\ s = burnRequests[r].status
                      /\ \/ burnRequests' = [burnRequests EXCEPT ![r].lpSecret = TRUE]
                         \/ burnRequests' = [burnRequests EXCEPT ![r].userSecret = TRUE]
  BY DEF ProposeHash, ConfirmMoneroLock, RevealBurnSecret, ResolveAbandonedProposal, ActiveBurn
<1>2. UNCHANGED <<vaults, vaultBurnRequests, requestNonce>>
  BY DEF ProposeHash, ConfirmMoneroLock, RevealBurnSecret, ResolveAbandonedProposal, BurnUnchanged
<1>3. PICK b : /\ burnRequests' = [burnRequests EXCEPT ![r] = b]
               /\ b.lpVault = burnRequests[r].lpVault
               /\ b.vaultLiquidationNonce = burnRequests[r].vaultLiquidationNonce
               /\ b.status # "INVALID" /\ burnRequests[r].status # "INVALID"
               /\ b.status \in ActiveBurn <=> burnRequests[r].status \in ActiveBurn
  BY <1>1, BurnRecordMoves
<1>4. QED BY <1>2, <1>3, BurnMovesListed, BurnStepsKeepVaults

LEMMA BurnEndsListed ==
  ASSUME BurnListInv, TypeInv', NEW r \in ReqId,
         \/ SettleBurn(r) \/ ClaimSlashedCollateral(r) \/ ForceSettleBurn(r)
         \/ AbortBurn(r) \/ ResolveDeclinedProposal(r) \/ AbandonProposedBurn(r)
  PROVE  BurnListInv'
<1>1. \E s : /\ s # "INVALID" /\ s \notin ActiveBurn /\ burnRequests[r].status # "INVALID"
             /\ \/ burnRequests' = [burnRequests EXCEPT ![r].status = s]
                \/ burnRequests' = [burnRequests EXCEPT ![r].status = s, ![r].lpSecret = TRUE]
                \/ burnRequests' = [burnRequests EXCEPT ![r].status = s, ![r].userSecret = TRUE]
  BY DEF SettleBurn, ClaimSlashedCollateral, ForceSettleBurn, AbortBurn, ResolveDeclinedProposal,
         AbandonProposedBurn, ActiveBurn
<1>2. UNCHANGED requestNonce
  BY DEF SettleBurn, ClaimSlashedCollateral, ForceSettleBurn, AbortBurn, ResolveDeclinedProposal,
         AbandonProposedBurn, BurnUnchanged
<1>3. \/ \E paid : SettleAgainstDebt(r, paid)
      \/ \E minted : CancelBurn(r, minted)
  BY DEF SettleBurn, ClaimSlashedCollateral, ForceSettleBurn, AbortBurn, ResolveDeclinedProposal,
         AbandonProposedBurn
<1>4. CloseBurn(r)
  BY <1>3 DEF SettleAgainstDebt, CancelBurn
<1>5. PICK b : /\ burnRequests' = [burnRequests EXCEPT ![r] = b]
               /\ b.lpVault = burnRequests[r].lpVault
               /\ b.vaultLiquidationNonce = burnRequests[r].vaultLiquidationNonce
               /\ b.status # "INVALID" /\ burnRequests[r].status # "INVALID"
               /\ b.status \notin ActiveBurn
  <2>1. PICK s : /\ s # "INVALID" /\ s \notin ActiveBurn /\ burnRequests[r].status # "INVALID"
                 /\ \/ burnRequests' = [burnRequests EXCEPT ![r].status = s]
                    \/ burnRequests' = [burnRequests EXCEPT ![r].status = s, ![r].lpSecret = TRUE]
                    \/ burnRequests' = [burnRequests EXCEPT ![r].status = s, ![r].userSecret = TRUE]
    BY <1>1
  <2>2. PICK b : /\ burnRequests' = [burnRequests EXCEPT ![r] = b]
                 /\ b.status = s
                 /\ b.lpVault = burnRequests[r].lpVault
                 /\ b.vaultLiquidationNonce = burnRequests[r].vaultLiquidationNonce
    <3>1. \A t : \E b : /\ burnRequests' = [burnRequests EXCEPT ![r] = b]
                        /\ b.status = s
                        /\ b.lpVault = burnRequests[r].lpVault
                        /\ b.vaultLiquidationNonce = burnRequests[r].vaultLiquidationNonce
      BY <2>1, BurnRecordMoves
    <3>2. QED BY <3>1
  <2>3. QED BY <2>1, <2>2
<1>6. /\ KeepsVaults
      /\ \A v \in Vault : vaults'[v].liquidationNonce = vaults[v].liquidationNonce
  BY <1>3, BurnStepsKeepVaults
<1>7. QED BY <1>2, <1>4, <1>5, <1>6, BurnMovesListed

-----------------------------------------------------------------------------
(* The steps of the auction. *)

\* Every listed burn is settled, nothing else.
LEMMA ListedIsSettled ==
  ASSUME BurnListInv, NEW v \in Vault, NEW S, S = {} \/ S = vaultBurnRequests[v],
         SettleBurns(v, S)
  PROVE  /\ \A r \in ReqId : r \in S => /\ burnRequests'[r].status \notin ActiveBurn
                                        /\ burnRequests'[r].status # "INVALID"
         /\ \A r \in ReqId : r \in S => burnRequests[r].status # "INVALID"
         /\ \A r \in ReqId : r \notin S => burnRequests'[r] = burnRequests[r]
         /\ \A r \in ReqId : burnRequests'[r].lpVault = burnRequests[r].lpVault
         /\ \A r \in ReqId :
              burnRequests'[r].vaultLiquidationNonce = burnRequests[r].vaultLiquidationNonce
<1>1. ASSUME NEW r \in ReqId
      PROVE  /\ r \in S => /\ burnRequests'[r].status \notin ActiveBurn
                           /\ burnRequests'[r].status # "INVALID"
                           /\ burnRequests[r].status # "INVALID"
             /\ r \notin S => burnRequests'[r] = burnRequests[r]
             /\ burnRequests'[r].lpVault = burnRequests[r].lpVault
             /\ burnRequests'[r].vaultLiquidationNonce = burnRequests[r].vaultLiquidationNonce
  <2>1. PICK b \in BurnRecord : b = burnRequests[r]
    BY DEF BurnListInv, TypeInv, GoodBurn
  <2>2. r \in S => b.status \in ActiveBurn
    BY <2>1 DEF BurnListInv, ListedInFlight
  <2>3. r \in Cancelled(S) \/ r \in Committed(S) <=> r \in S
    BY <2>1, <2>2 DEF Cancelled, Committed, ActiveBurn
  <2>4. CASE r \in Cancelled(S)
    <3>1. burnRequests'[r] = [b EXCEPT !.status = "CANCELLED"]
      BY <2>1, <2>4 DEF SettleBurns
    <3>2. QED BY <2>1, <2>2, <2>3, <2>4, <3>1 DEF BurnRecord, ActiveBurn
  <2>5. CASE r \notin Cancelled(S) /\ r \in Committed(S)
    <3>1. \/ burnRequests'[r] = [b EXCEPT !.status = "COMPLETED"]
          \/ burnRequests'[r] = [b EXCEPT !.status = "SLASHED"]
      BY <2>1, <2>5 DEF SettleBurns
    <3>2. QED BY <2>1, <2>2, <2>3, <2>5, <3>1 DEF BurnRecord, ActiveBurn
  <2>6. CASE r \notin Cancelled(S) /\ r \notin Committed(S)
    BY <2>1, <2>3, <2>6 DEF SettleBurns
  <2>7. QED BY <2>4, <2>5, <2>6
<1>2. QED BY <1>1

\* A settlement that empties the list, with a new nonce or without one, or that
\* settles nothing and keeps the nonce.
LEMMA SettlementListed ==
  ASSUME BurnListInv, TypeInv', NEW v \in Vault, NEW S,
         S = {} \/ S = vaultBurnRequests[v], SettleBurns(v, S),
         S = {} => vaults'[v].liquidationNonce = vaults[v].liquidationNonce
                     \/ vaultBurnRequests[v] = {},
         \A w \in Vault : /\ w # v => vaults'[w].liquidationNonce = vaults[w].liquidationNonce
                          /\ vaults'[w].registered = vaults[w].registered
                          /\ vaults'[w].active = vaults[w].active,
         UNCHANGED requestNonce
  PROVE  BurnListInv'
<1>1. RequestsFresh'
  BY ListedIsSettled DEF BurnListInv, RequestsFresh
<1>2. vaultBurnRequests' = [vaultBurnRequests EXCEPT ![v] = @ \ S]
  BY DEF SettleBurns
<1>3. vaultBurnRequests \in [Vault -> SUBSET ReqId]
  BY DEF BurnListInv, TypeInv
<1>4. ListedRegistered'
  BY <1>2, <1>3 DEF BurnListInv, ListedRegistered
<1>5. ASSUME NEW w \in Vault, NEW r \in ReqId
      PROVE  /\ r \in vaultBurnRequests'[w]
                  <=> burnRequests'[r].lpVault = w /\ burnRequests'[r].status \in ActiveBurn
             /\ r \in vaultBurnRequests'[w] =>
                  burnRequests'[r].vaultLiquidationNonce = vaults'[w].liquidationNonce
  <2>1. r \in vaultBurnRequests'[w] <=> r \in vaultBurnRequests[w] /\ (w = v => r \notin S)
    BY <1>2, <1>3
  <2>2. r \in S => burnRequests[r].lpVault = v
    BY DEF BurnListInv, ListedInFlight
  <2>3. r \in vaultBurnRequests'[w]
          <=> burnRequests'[r].lpVault = w /\ burnRequests'[r].status \in ActiveBurn
    <3>1. CASE r \in S
      BY <2>1, <2>2, <3>1, ListedIsSettled DEF BurnListInv, ListedInFlight
    <3>2. CASE r \notin S
      BY <2>1, <3>2, ListedIsSettled DEF BurnListInv, ListedInFlight
    <3>3. QED BY <3>1, <3>2
  <2>4. ASSUME r \in vaultBurnRequests'[w]
        PROVE  burnRequests'[r].vaultLiquidationNonce = vaults'[w].liquidationNonce
    <3>1. r \in vaultBurnRequests[w] /\ (w = v => r \notin S)
      BY <2>1, <2>4
    <3>2. vaults'[w].liquidationNonce = vaults[w].liquidationNonce
      BY <3>1
    <3>3. QED BY <3>1, <3>2, ListedIsSettled DEF BurnListInv, ListedInFlight
  <2>5. QED BY <2>3, <2>4
<1>6. ListedInFlight'
  BY <1>5 DEF ListedInFlight
<1>7. QED BY <1>1, <1>4, <1>6 DEF BurnListInv

LEMMA KickListed ==
  ASSUME BurnListInv, TypeInv',
         \E kicker \in Kickers, v \in Vault : Kick(kicker, v) \/ Reauction(kicker, v)
  PROVE  BurnListInv'
<1>1. PICK kicker \in Kickers, v \in Vault : StartKick(v, kicker) /\ KickUnchanged
  BY DEF Kick, Reauction
<1>2. UNCHANGED <<vaults, burnRequests, vaultBurnRequests, requestNonce>>
  BY <1>1 DEF StartKick, KickUnchanged
<1>3. KeepsVaults
  BY <1>2 DEF KeepsVaults
<1>4. requestNonce' >= requestNonce
  BY <1>2 DEF BurnListInv, TypeInv
<1>5. QED BY <1>2, <1>3, <1>4, KeepsBurns

\* What the opening of an auction makes of the vault, for the burn list.
LEMMA OpenedVaultKeeps ==
  ASSUME BurnListInv, NEW v \in Vault
  PROVE  /\ ToSettle(v) = {} \/ ToSettle(v) = vaultBurnRequests[v]
         /\ OpenedVault(v).registered = vaults[v].registered
         /\ OpenedVault(v).active = vaults[v].active
         /\ ToSettle(v) = {} =>
              \/ OpenedVault(v).liquidationNonce = vaults[v].liquidationNonce
              \/ vaultBurnRequests[v] = {}
<1>1. PICK V \in VaultRecord : V = vaults[v]
  BY DEF BurnListInv, TypeInv, GoodVault
<1>2. ToSettle(v) \subseteq ReqId
  BY DEF BurnListInv, TypeInv, ToSettle
<1>3. PICK S \in VaultRecord : S = SettledVault(v, ToSettle(v))
  BY <1>2, SettledVaultGood DEF BurnListInv, GoodVault
<1>4. /\ S.registered = V.registered /\ S.active = V.active
      /\ S.liquidationNonce = V.liquidationNonce
  BY <1>1, <1>3 DEF SettledVault, VaultRecord
<1>5. CASE vaultKicks[v].auctionOpened
  BY <1>1, <1>3, <1>4, <1>5 DEF OpenedVault, ToSettle
<1>6. CASE ~vaultKicks[v].auctionOpened
  <2>1. PICK W : W = [S EXCEPT !.liquidationNonce = @ + 1, !.mintNonce = @ + 1]
    OBVIOUS
  <2>2. W.registered = S.registered /\ W.active = S.active
    BY <2>1 DEF VaultRecord
  <2>3. OpenedVault(v) = W
    BY <1>3, <1>6, <2>1 DEF OpenedVault
  <2>4. QED BY <1>1, <1>4, <1>6, <2>2, <2>3 DEF ToSettle
<1>7. QED BY <1>5, <1>6

LEMMA OpenedListed ==
  ASSUME BurnListInv, TypeInv', NEW v \in Vault, NEW W,
         SettleBurns(v, ToSettle(v)), vaults' = [vaults EXCEPT ![v] = W],
         W.registered = OpenedVault(v).registered, W.active = OpenedVault(v).active,
         W.liquidationNonce = OpenedVault(v).liquidationNonce,
         UNCHANGED requestNonce
  PROVE  BurnListInv'
<1>1. vaults \in [Vault -> VaultRecord]
  BY DEF BurnListInv, TypeInv, GoodVault
<1>2. /\ vaults'[v] = W
      /\ \A w \in Vault : w # v => vaults'[w] = vaults[w]
  BY <1>1
<1>3. QED BY <1>2, OpenedVaultKeeps, SettlementListed

LEMMA OpenAuctionListed ==
  ASSUME BurnListInv, TypeInv', NEW v \in Vault, OpenAuction(v) \/ ResolveKick(v)
  PROVE  BurnListInv'
<1>1. /\ SettleBurns(v, ToSettle(v)) /\ vaults' = [vaults EXCEPT ![v] = OpenedVault(v)]
      /\ UNCHANGED requestNonce
  BY DEF OpenAuction, ResolveKick, KickUnchanged
<1>2. QED BY <1>1, OpenedListed

LEMMA BidListed ==
  ASSUME BurnListInv, TypeInv', NEW v \in Vault, NEW bidder \in Bidders, Bid(bidder, v)
  PROVE  BurnListInv'
<1>1. SettleBurns(v, ToSettle(v)) /\ UNCHANGED requestNonce
  BY DEF Bid, KickUnchanged
<1>2. PICK O \in VaultRecord : O = OpenedVault(v)
  BY OpenedVaultGood DEF BurnListInv, GoodVault
<1>3. \E W : /\ vaults' = [vaults EXCEPT ![v] = W]
             /\ W.registered = O.registered /\ W.active = O.active
             /\ W.liquidationNonce = O.liquidationNonce
  <2>1. CASE BidNothingOwed(v)
    <3>1. PICK W : W = [O EXCEPT !.collateralShares = @ + vaultKicks[v].bond]
      OBVIOUS
    <3>2. /\ W.registered = O.registered /\ W.active = O.active
          /\ W.liquidationNonce = O.liquidationNonce
      BY <3>1 DEF VaultRecord
    <3>3. vaults' = [vaults EXCEPT ![v] = W]
      BY <1>2, <2>1, <3>1 DEF BidNothingOwed
    <3>4. QED BY <3>2, <3>3
  <2>2. CASE BidWhole(bidder, v)
    <3>1. PICK x : vaults' = [vaults EXCEPT ![v] = [O EXCEPT !.collateralShares = x, !.debt = 0]]
      BY <1>2, <2>2 DEF BidWhole
    <3>2. PICK W : W = [O EXCEPT !.collateralShares = x, !.debt = 0]
      OBVIOUS
    <3>3. /\ W.registered = O.registered /\ W.active = O.active
          /\ W.liquidationNonce = O.liquidationNonce
      BY <3>2 DEF VaultRecord
    <3>4. QED BY <3>1, <3>2, <3>3
  <2>3. QED BY <2>1, <2>2 DEF Bid
<1>4. QED BY <1>1, <1>2, <1>3, OpenedListed

LEMMA BackstopVaultListed ==
  ASSUME BurnListInv, TypeInv', NEW old \in Vault, NEW new \in Backstoppers,
         BackstopVault(old, new)
  PROVE  BurnListInv'
<1> DEFINE S == vaultBurnRequests[old]
<1>1. new \in Vault /\ new # old /\ UNCHANGED requestNonce
  BY PartsAssumption DEF BackstopVault, KickUnchanged
<1>2. SettleBurns(old, S)
  BY DEF BackstopVault, BackstopFrozen, BackstopEnded
<1>3. vaults \in [Vault -> VaultRecord]
  BY DEF BurnListInv, TypeInv, GoodVault
<1>4. PICK O \in VaultRecord, N \in VaultRecord : O = vaults[old] /\ N = vaults[new]
  BY <1>1, <1>3
<1>5. PICK V \in VaultRecord : V = SettledVault(old, S)
  BY SettledVaultGood DEF BurnListInv, TypeInv, GoodVault
<1>6. V.registered = O.registered /\ V.active = O.active
  BY <1>4, <1>5 DEF SettledVault, VaultRecord
<1>7. \E W \in VaultRecord : /\ Absorb(old, new, W, N)
                             /\ W.registered = O.registered /\ W.active = O.active
  <2>1. CASE BackstopFrozen(old, new)
    BY <1>4, <1>5, <1>6, <2>1 DEF BackstopFrozen
  <2>2. CASE BackstopEnded(old, new)
    <3>1. PICK P \in VaultRecord : P = OpenedVault(old)
      BY OpenedVaultGood DEF BurnListInv, GoodVault
    <3>2. PICK W : W = [V EXCEPT !.liquidationNonce = P.liquidationNonce,
                                 !.mintNonce = P.mintNonce]
      OBVIOUS
    <3>3. W \in VaultRecord /\ W.registered = V.registered /\ W.active = V.active
      BY <3>1, <3>2, ZenonT(60) DEF VaultRecord
    <3>4. Absorb(old, new, W, N)
      BY <1>4, <1>5, <2>2, <3>1, <3>2 DEF BackstopEnded
    <3>5. QED BY <1>6, <3>3, <3>4
  <2>3. QED BY <2>1, <2>2 DEF BackstopVault
<1>8. PICK W \in VaultRecord : /\ Absorb(old, new, W, N)
                               /\ W.registered = O.registered /\ W.active = O.active
  BY <1>7
<1>9. PICK x, y, n, m :
        vaults' = [vaults EXCEPT
          ![new] = [N EXCEPT !.debt = x, !.collateralShares = y],
          ![old] = [W EXCEPT !.debt = 0, !.collateralShares = 0, !.lockedCollateral = 0,
                             !.liquidationNonce = n, !.mintNonce = m]]
  BY <1>8 DEF Absorb
<1>10. PICK A, E :
         /\ A = [N EXCEPT !.debt = x, !.collateralShares = y]
         /\ E = [W EXCEPT !.debt = 0, !.collateralShares = 0, !.lockedCollateral = 0,
                          !.liquidationNonce = n, !.mintNonce = m]
  OBVIOUS
<1>11. /\ A.registered = N.registered /\ A.active = N.active
       /\ A.liquidationNonce = N.liquidationNonce
  BY <1>10 DEF VaultRecord
<1>12. E.registered = W.registered /\ E.active = W.active
  BY <1>10 DEF VaultRecord
<1>13. /\ vaults'[new] = A /\ vaults'[old] = E
       /\ \A w \in Vault : w # old /\ w # new => vaults'[w] = vaults[w]
  BY <1>1, <1>3, <1>9, <1>10
<1>14. \A w \in Vault : /\ w # old => vaults'[w].liquidationNonce = vaults[w].liquidationNonce
                        /\ vaults'[w].registered = vaults[w].registered
                        /\ vaults'[w].active = vaults[w].active
  BY <1>4, <1>8, <1>11, <1>12, <1>13
<1>15. QED BY <1>1, <1>2, <1>14, SettlementListed

LEMMA AuctionNextListed ==
  ASSUME BurnListInv, TypeInv', AuctionNext
  PROVE  BurnListInv'
<1>1. CASE \E kicker \in Kickers, v \in Vault : Kick(kicker, v) \/ Reauction(kicker, v)
  BY <1>1, KickListed
<1>2. CASE \E v \in Vault : OpenAuction(v) \/ ResolveKick(v)
  BY <1>2, OpenAuctionListed
<1>3. CASE \E bidder \in Bidders, v \in Vault : Bid(bidder, v)
  BY <1>3, BidListed
<1>4. CASE \E old \in Vault, new \in Backstoppers : BackstopVault(old, new)
  BY <1>4, BackstopVaultListed
<1>5. QED BY <1>1, <1>2, <1>3, <1>4 DEF AuctionNext

-----------------------------------------------------------------------------
(* The hub. *)

LEMMA BurnNextListed ==
  ASSUME BurnListInv, TypeInv', BurnNext
  PROVE  BurnListInv'
BY RequestBurnListed, BurnForwardListed, BurnEndsListed DEF BurnNext

LEMMA InitListed ==
  ASSUME Init
  PROVE  BurnListInv
<1>1. TypeInv
  BY InitTyped
<1>2. \A r \in ReqId : burnRequests[r].status = "INVALID"
  BY DEF Init, EmptyBurn
<1>3. \A v \in Vault : vaultBurnRequests[v] = {} /\ ~vaults[v].active
  BY DEF Init, EmptyVault
<1>4. QED
  BY <1>1, <1>2, <1>3
  DEF BurnListInv, RequestsFresh, ListedRegistered, ListedInFlight, ActiveBurn

LEMMA NextListed ==
  ASSUME BurnListInv, [Next]_vars
  PROVE  BurnListInv'
<1>1. TypeInv'
  BY NextTyped DEF BurnListInv
<1>2. CASE VaultNext
  <2>1. requestNonce' >= requestNonce
    BY <1>2, VaultNextTouchesNoBurn DEF BurnListInv, TypeInv
  <2>2. QED BY <1>1, <1>2, <2>1, VaultNextKeepsVaults, VaultNextTouchesNoBurn, KeepsBurns
<1>3. CASE MintNext
  BY <1>1, <1>3, MintNextKeepsVaults, MintNextTouchesNoBurn, KeepsBurns
<1>4. CASE BurnNext
  BY <1>1, <1>4, BurnNextListed
<1>5. CASE AuctionNext
  BY <1>1, <1>5, AuctionNextListed
<1>6. CASE TokenNext \/ Tick \/ UNCHANGED vars
  <2>1. UNCHANGED <<vaults, burnRequests, vaultBurnRequests, requestNonce>>
    BY <1>6 DEF TokenNext, Transfer, Tick, vars, burnVars
  <2>2. KeepsVaults /\ requestNonce' >= requestNonce
    BY <2>1 DEF KeepsVaults, BurnListInv, TypeInv
  <2>3. QED BY <1>1, <2>1, <2>2, KeepsBurns
<1>7. QED BY <1>2, <1>3, <1>4, <1>5, <1>6 DEF Next

\* The inductive invariant of the burn list.
THEOREM BurnListInvariant == Spec => []BurnListInv
<1>1. Init => BurnListInv
  BY InitListed
<1>2. BurnListInv /\ [Next]_vars => BurnListInv'
  BY NextListed
<1>3. QED BY <1>1, <1>2, PTL DEF Spec

\* An auction, a resolution or a backstop settles every burn its vault has in
\* flight, and none twice: the list it walks is at all times the burns of the vault
\* that no exit has closed, each requested since the vault's last auction.
THEOREM BurnListCorrect == Spec => []BurnListExact
<1>1. BurnListInv => BurnListExact
  BY BurnListInvImplies
<1>2. QED BY <1>1, BurnListInvariant, PTL
=============================================================================
