---------------------------- MODULE LedgerProofs ----------------------------
(***************************************************************************)
(* What each step of the hub moves from one ledger to another.  A step of  *)
(* a mint or of a burn replaces one request and one vault; its books say   *)
(* how the numbers of both change together, whatever the step.  The        *)
(* invariants, here the global ledgers of the second part, follow from the *)
(* books, not from the steps.                                              *)
(***************************************************************************)
EXTENDS HubTypeProofs

\* x where c holds.
Part(c, x) == IF c THEN x ELSE 0

\* What the accounts hold of the token, and what they may withdraw.
Balances(f) == Sum(f, NumVaults + NumUsers)
CollateralIn(f) == Sum([a \in Account |-> f[a].collateral], NumVaults + NumUsers)
EthIn(f) == Sum([a \in Account |-> f[a].eth], NumVaults + NumUsers)
Supply == Balances(wsxmr)
CollateralReturns == CollateralIn(pendingReturns)
EthReturns == EthIn(pendingReturns)

\* The accounts are an interval of the naturals, so the sums over them run over indices.
LEMMA AccountIndex == NumVaults + NumUsers \in Nat /\ Account = 1..(NumVaults + NumUsers)
BY SizesAssumption DEF Account

\* The returns and the balances are naturals, account by account, and so are their sums.
LEMMA BalancesNat ==
  ASSUME NEW f \in [Account -> Nat]
  PROVE  NatOn(f, NumVaults + NumUsers) /\ Balances(f) \in Nat
<1>1. NatOn(f, NumVaults + NumUsers)
  BY AccountIndex DEF NatOn
<1>2. QED BY <1>1, AccountIndex, SumNat DEF Balances

\* The returns of an account are two naturals, and so are their sums over the accounts.
LEMMA ReturnsNat ==
  ASSUME NEW f \in [Account -> Returns]
  PROVE  /\ NatOn([a \in Account |-> f[a].collateral], NumVaults + NumUsers)
         /\ NatOn([a \in Account |-> f[a].eth], NumVaults + NumUsers)
         /\ CollateralIn(f) \in Nat /\ EthIn(f) \in Nat
<1>1. /\ NatOn([a \in Account |-> f[a].collateral], NumVaults + NumUsers)
      /\ NatOn([a \in Account |-> f[a].eth], NumVaults + NumUsers)
  BY AccountIndex DEF Returns, NatOn
<1>2. QED BY <1>1, AccountIndex, SumNat DEF CollateralIn, EthIn

\* The supply and the two totals of the returns are naturals.
LEMMA TotalsNat ==
  ASSUME TypeInv
  PROVE  Supply \in Nat /\ CollateralReturns \in Nat /\ EthReturns \in Nat
BY BalancesNat, ReturnsNat DEF TypeInv, Supply, CollateralReturns, EthReturns

\* A payment adds to the totals what it pays.
LEMMA ReturnsUpdate ==
  ASSUME NEW f \in [Account -> Returns], NEW g \in [Account -> Returns],
         NEW a \in Account, NEW raw \in Nat, NEW eth \in Nat,
         \/ g = [f EXCEPT ![a].collateral = @ + raw, ![a].eth = @ + eth]
         \/ g = [f EXCEPT ![a].eth = @ + eth] /\ raw = 0
         \/ g = [f EXCEPT ![a].collateral = @ + raw] /\ eth = 0
  PROVE  /\ CollateralIn(g) = CollateralIn(f) + raw
         /\ EthIn(g) = EthIn(f) + eth
<1> DEFINE n == NumVaults + NumUsers
           C == [b \in Account |-> f[b].collateral]
           D == [b \in Account |-> g[b].collateral]
           E == [b \in Account |-> f[b].eth]
           F == [b \in Account |-> g[b].eth]
<1>1. n \in Nat /\ a \in 1..n /\ Account = 1..n
  BY AccountIndex
<1>2. NatOn(C, n) /\ NatOn(E, n) /\ NatOn(D, n) /\ NatOn(F, n)
  BY ReturnsNat
<1>3. /\ g[a].collateral = f[a].collateral + raw
      /\ g[a].eth = f[a].eth + eth
      /\ \A b \in Account : b # a => g[b] = f[b]
  <2>1. PICK p \in Returns : p = f[a]
    OBVIOUS
  <2>2. p.collateral \in Nat /\ p.eth \in Nat
    BY DEF Returns
  <2>3. PICK q1, q2, q3 : /\ q1 = [p EXCEPT !.collateral = p.collateral + raw, !.eth = p.eth + eth]
                          /\ q2 = [p EXCEPT !.eth = p.eth + eth]
                          /\ q3 = [p EXCEPT !.collateral = p.collateral + raw]
    OBVIOUS
  <2>4. /\ q1.collateral = p.collateral + raw /\ q1.eth = p.eth + eth
        /\ q2.collateral = p.collateral /\ q2.eth = p.eth + eth
        /\ q3.collateral = p.collateral + raw /\ q3.eth = p.eth
    BY <2>3 DEF Returns
  <2>5. \/ g = [f EXCEPT ![a] = q1]
        \/ g = [f EXCEPT ![a] = q2] /\ raw = 0
        \/ g = [f EXCEPT ![a] = q3] /\ eth = 0
    BY <2>1, <2>3
  <2>6. QED BY <2>1, <2>2, <2>4, <2>5
<1>4. /\ D[a] = C[a] + raw /\ F[a] = E[a] + eth
      /\ \A b \in 1..n : b # a => D[b] = C[b] /\ F[b] = E[b]
  BY <1>1, <1>3
<1>5. /\ CollateralIn(f) = Sum(C, n) /\ EthIn(f) = Sum(E, n)
      /\ CollateralIn(g) = Sum(D, n) /\ EthIn(g) = Sum(F, n)
  BY DEF CollateralIn, EthIn
<1> HIDE DEF n, C, D, E, F
<1>6. Sum(D, n) + C[a] = Sum(C, n) + D[a] /\ Sum(F, n) + E[a] = Sum(E, n) + F[a]
  BY <1>1, <1>2, <1>4, SumUpdate
<1>7. Sum(D, n) \in Nat /\ Sum(C, n) \in Nat /\ Sum(F, n) \in Nat /\ Sum(E, n) \in Nat
  BY <1>1, <1>2, SumNat
<1>8. C[a] \in Nat /\ E[a] \in Nat
  BY <1>1, <1>2 DEF NatOn
<1>9. QED BY <1>4, <1>5, <1>6, <1>7, <1>8

\* The same, of the returns of the hub.
LEMMA PaySums ==
  ASSUME TypeInv, TypeInv', NEW a \in Account, NEW raw \in Nat, NEW eth \in Nat,
         \/ pendingReturns' = [pendingReturns EXCEPT ![a].collateral = @ + raw, ![a].eth = @ + eth]
         \/ pendingReturns' = PayEth(a, eth) /\ raw = 0
         \/ pendingReturns' = PayCollateral(a, raw) /\ eth = 0
  PROVE  /\ CollateralReturns' = CollateralReturns + raw
         /\ EthReturns' = EthReturns + eth
<1>1. pendingReturns \in [Account -> Returns] /\ pendingReturns' \in [Account -> Returns]
  BY DEF TypeInv
<1>2. /\ CollateralIn(pendingReturns') = CollateralIn(pendingReturns) + raw
      /\ EthIn(pendingReturns') = EthIn(pendingReturns) + eth
  BY <1>1, ReturnsUpdate DEF PayEth, PayCollateral
<1>3. QED BY <1>2 DEF CollateralReturns, EthReturns, CollateralIn, EthIn

\* Tokens are minted to an account (or burnt, from g to f).
LEMMA BalanceUpdate ==
  ASSUME NEW f \in [Account -> Nat], NEW g \in [Account -> Nat],
         NEW a \in Account, NEW x \in Nat,
         \A b \in Account : b # a => g[b] = f[b],
         g[a] = f[a] + x
  PROVE  Balances(g) = Balances(f) + x
<1> DEFINE n == NumVaults + NumUsers
<1>1. n \in Nat /\ a \in 1..n
  BY AccountIndex
<1>2. NatOn(f, n) /\ NatOn(g, n)
  BY BalancesNat
<1>3. Balances(f) = Sum(f, n) /\ Balances(g) = Sum(g, n)
  BY DEF Balances
<1>4. \A b \in 1..n : b # a => g[b] = f[b]
  BY AccountIndex
<1> HIDE DEF n
<1>5. Sum(g, n) + f[a] = Sum(f, n) + g[a]
  BY <1>1, <1>2, <1>4, SumUpdate
<1>6. Balances(f) \in Nat /\ Balances(g) \in Nat
  BY BalancesNat
<1>7. QED BY <1>3, <1>5, <1>6

\* What moves nothing leaves the totals alone.
LEMMA TotalsSame ==
  /\ UNCHANGED wsxmr => UNCHANGED Supply
  /\ UNCHANGED pendingReturns => UNCHANGED <<CollateralReturns, EthReturns>>
BY DEF Supply, CollateralReturns, EthReturns, Balances, CollateralIn, EthIn

-----------------------------------------------------------------------------
(* A step of a mint. *)

\* What identifies a request, and a vault, no step of a mint changes.
SameMint(m, q) ==
  /\ q.status # "INVALID" /\ q.lpVault = m.lpVault /\ q.wsxmrAmount = m.wsxmrAmount
  /\ q.griefingDeposit = m.griefingDeposit /\ q.vaultMintNonce = m.vaultMintNonce
SameTerms(V, W) ==
  /\ W.registered = V.registered /\ W.active = V.active /\ W.threshold = V.threshold
  /\ W.liquidationNonce = V.liquidationNonce /\ W.mintNonce = V.mintNonce

\* Request m, of vault V, becomes q, and V becomes W.
MintStep(r, m, q, V, W) ==
  /\ m = mintRequests[r] /\ m.status # "INVALID" /\ V = vaults[m.lpVault]
  /\ mintRequests' = [mintRequests EXCEPT ![r] = q]
  /\ vaults' = [vaults EXCEPT ![m.lpVault] = W]
  /\ SameMint(m, q) /\ SameTerms(V, W)

\* The reservation: exact when the vault holds as much as the request reserves.
PendingBooks(m, q, V, W) ==
  (m.status \in MintLive => V.pendingDebt >= m.wsxmrAmount) =>
    W.pendingDebt + Part(m.status \in MintLive, m.wsxmrAmount)
      = V.pendingDebt + Part(q.status \in MintLive, m.wsxmrAmount)

\* The two counters.
CountBooks(m, q, V, W) ==
  /\ W.pendingMintCount + Part(m.status \in MintCounted, 1)
       = V.pendingMintCount + Part(q.status \in MintCounted, 1)
  /\ totalPendingMints' + Part(m.status \in MintCounted, 1)
       = totalPendingMints + Part(q.status \in MintCounted, 1)

\* The bond: exact when the vault's lock holds it and its shares the lock.  Only a
\* vault that takes new business, or a mint it has keyed since its last auction,
\* loses free collateral.
LockBooks(m, q, V, W) ==
  /\ (/\ m.status \in MintBonded => V.lockedCollateral >= m.lockedCollateral
      /\ V.lockedCollateral <= V.collateralShares) =>
       /\ W.lockedCollateral + Part(m.status \in MintBonded, m.lockedCollateral)
            = V.lockedCollateral + Part(q.status \in MintBonded, q.lockedCollateral)
       /\ W.lockedCollateral <= W.collateralShares
  /\ Blocked(m.lpVault) /\ ~NonceMatches(m) => FreeCollateral(W) >= FreeCollateral(V)

\* A bond is new, or the one of before.
BondBooks(m, q, V) ==
  q.status \in MintBonded =>
    \/ m.status \in MintBonded /\ q.lockedCollateral = m.lockedCollateral
    \/ /\ q.lockedCollateral = ParLockFor(m.wsxmrAmount, V.threshold)
       /\ m.status \notin MintBonded => q.lockedCollateral <= FreeCollateral(V) /\ NonceMatches(m)

\* Debt and tokens are minted together, against a bond.
DebtBooks(m, V, W) ==
  /\ W.debt >= V.debt
  /\ W.debt + globalTotalDebt = V.debt + globalTotalDebt'
  /\ W.debt + Supply = V.debt + Supply'
  /\ W.debt > V.debt => m.status \in MintBonded /\ NonceMatches(m)

\* The deposit is held or paid.
Deposited == {"PENDING"} \cup MintBonded
EthBooks(m, q) ==
  EthReturns' + Part(q.status \in Deposited, m.griefingDeposit)
    = EthReturns + Part(m.status \in Deposited, m.griefingDeposit)

\* What the vault loses, an account may withdraw, rounded down.
CollateralBooks(V, W) ==
  \E lost \in Nat : /\ V.collateralShares = W.collateralShares + lost
                    /\ CollateralReturns' = CollateralReturns + RawFromNorm(lost)

\* What covers the vault's obligations: a step adds to neither side's disadvantage, or
\* has found the vault covered after it.
CostBooks(m, q, V, W) ==
  \/ /\ W.debt + W.pendingDebt <= V.debt + V.pendingDebt
     /\ V.collateralShares + Part(q.status \in MintBonded, q.lockedCollateral)
          <= W.collateralShares + Part(m.status \in MintBonded, m.lockedCollateral)
  \/ V.lockedCollateral <= V.collateralShares =>
       FreeCollateral(W) >= RequiredCollateral(W.debt + W.pendingDebt, W.threshold)

MintBooks(m, q, V, W) ==
  /\ PendingBooks(m, q, V, W) /\ CountBooks(m, q, V, W) /\ LockBooks(m, q, V, W)
  /\ CostBooks(m, q, V, W)
  /\ BondBooks(m, q, V) /\ DebtBooks(m, V, W) /\ EthBooks(m, q) /\ CollateralBooks(V, W)

\* Nothing is worth nothing.
LEMMA NothingLost ==
  ASSUME TypeInv, NEW V \in GoodVault, NEW W, W.collateralShares = V.collateralShares,
         UNCHANGED pendingReturns
  PROVE  CollateralBooks(V, W)
<1>1. RawFromNorm(0) = 0
  BY RatesAssumption DEF RawFromNorm
<1>2. V.collateralShares \in Nat /\ CollateralReturns \in Nat
  BY VaultFields, TotalsNat
<1>3. CollateralReturns' = CollateralReturns
  BY TotalsSame
<1>4. V.collateralShares = W.collateralShares + 0 /\ CollateralReturns' = CollateralReturns + 0
  BY <1>2, <1>3
<1>5. QED BY <1>1, <1>4 DEF CollateralBooks

\* The request a step works on, and its vault.
LEMMA MintAndVault ==
  ASSUME TypeInv, NEW r \in ReqId, mintRequests[r].status # "INVALID"
  PROVE  \E m \in GoodMint, V \in GoodVault :
           /\ m = mintRequests[r] /\ V = vaults[m.lpVault] /\ m.lpVault \in Vault
           /\ m.wsxmrAmount \in Nat /\ m.griefingDeposit \in Nat /\ m.lockedCollateral \in Nat
BY MintFields DEF TypeInv

\* A step that writes one request and its vault, and keeps their identity, is a MintStep.
LEMMA MintStepMade ==
  ASSUME TypeInv, TypeInv', NEW r \in ReqId, NEW m \in GoodMint, NEW V \in GoodVault,
         NEW q, NEW W, m = mintRequests[r], m.status # "INVALID", V = vaults[m.lpVault],
         mintRequests' = [mintRequests EXCEPT ![r] = q],
         vaults' = [vaults EXCEPT ![m.lpVault] = W],
         SameMint(m, q), SameTerms(V, W)
  PROVE  q \in GoodMint /\ W \in GoodVault /\ MintStep(r, m, q, V, W)
<1>1. m.lpVault \in Vault
  BY MintFields
<1>2. q = mintRequests'[r] /\ W = vaults'[m.lpVault]
  BY <1>1 DEF TypeInv
<1>3. q \in GoodMint /\ W \in GoodVault
  BY <1>1, <1>2 DEF TypeInv
<1>4. QED BY <1>3 DEF MintStep

\* The vault after a release differs in what is released.
LEMMA ReleaseFields ==
  ASSUME NEW V \in GoodVault, NEW m
  PROVE  LET D == ReleaseDebt(V, m)
             L == ReleaseLock(V, m)
         IN  /\ SameTerms(V, D) /\ D.pendingDebt = Monus(V.pendingDebt, m.wsxmrAmount)
             /\ D.lockedCollateral = V.lockedCollateral /\ D.debt = V.debt
             /\ D.collateralShares = V.collateralShares
             /\ D.pendingMintCount = V.pendingMintCount
             /\ SameTerms(V, L) /\ L.pendingDebt = V.pendingDebt /\ L.debt = V.debt
             /\ L.lockedCollateral = IF V.lockedCollateral >= m.lockedCollateral
                                     THEN V.lockedCollateral - m.lockedCollateral
                                     ELSE V.lockedCollateral
             /\ L.collateralShares = V.collateralShares
             /\ L.pendingMintCount = V.pendingMintCount
BY DEF ReleaseDebt, ReleaseLock, SameTerms, GoodVault, VaultRecord

\* A step that mints nothing and pays nothing has the books of the debt and the deposit.
LEMMA NothingMinted ==
  ASSUME TypeInv, NEW m, NEW V \in GoodVault, NEW W, W.debt = V.debt,
         UNCHANGED <<globalTotalDebt, wsxmr>>
  PROVE  DebtBooks(m, V, W)
<1>1. /\ V.debt \in Nat /\ globalTotalDebt \in Nat /\ Supply \in Nat
      /\ Supply' = Supply
  BY VaultFields, TotalsNat, TotalsSame DEF TypeInv
<1>2. QED BY <1>1 DEF DebtBooks

\* A step that pays nothing and leaves the deposit where it is keeps the books of the ETH.
LEMMA DepositKept ==
  ASSUME TypeInv, NEW m, NEW q, UNCHANGED pendingReturns,
         m.status \in Deposited <=> q.status \in Deposited
  PROVE  EthBooks(m, q)
<1>1. EthReturns' = EthReturns
  BY TotalsSame
<1>2. QED BY <1>1 DEF EthBooks, Part

\* A step that pays the deposit, and the worth of what the vault loses.
LEMMA DepositPaid ==
  ASSUME TypeInv, TypeInv', NEW m \in GoodMint, NEW q, NEW V \in GoodVault, NEW W,
         NEW a \in Account, NEW lost \in Nat, V.collateralShares = W.collateralShares + lost,
         m.status \in Deposited, q.status \notin Deposited,
         \/ pendingReturns' = [pendingReturns EXCEPT ![a].collateral = @ + RawFromNorm(lost),
                                                     ![a].eth = @ + m.griefingDeposit]
         \/ pendingReturns' = PayEth(a, m.griefingDeposit) /\ lost = 0
  PROVE  EthBooks(m, q) /\ CollateralBooks(V, W)
<1>1. m.griefingDeposit \in Nat /\ RawFromNorm(lost) \in Nat
  BY PricesNat DEF GoodMint, MintRecord
<1>2. lost = 0 => RawFromNorm(lost) = 0
  BY RatesAssumption DEF RawFromNorm
<1>3. /\ CollateralReturns' = CollateralReturns + RawFromNorm(lost)
      /\ EthReturns' = EthReturns + m.griefingDeposit
  BY <1>1, <1>2, PaySums
<1>4. EthReturns \in Nat /\ EthReturns' \in Nat
  BY <1>1, <1>3, TotalsNat
<1>5. EthBooks(m, q)
  BY <1>1, <1>3, <1>4 DEF EthBooks, Part
<1>6. QED BY <1>3, <1>5 DEF CollateralBooks

\* The LP's key bonds free shares of the vault to the mint and moves nothing else.
LEMMA ProvideLPKeyBooks ==
  ASSUME TypeInv, TypeInv', NEW r \in ReqId, ProvideLPKey(r)
  PROVE  \E m, q \in GoodMint, V, W \in GoodVault :
           MintStep(r, m, q, V, W) /\ MintBooks(m, q, V, W)
<1>1. mintRequests[r].status = "PENDING"
  BY DEF ProvideLPKey
<1>2. PICK m \in GoodMint, V \in GoodVault :
        /\ m = mintRequests[r] /\ V = vaults[m.lpVault] /\ m.lpVault \in Vault
        /\ m.wsxmrAmount \in Nat /\ m.griefingDeposit \in Nat /\ m.lockedCollateral \in Nat
  BY <1>1, MintAndVault
<1>3. PICK bond \in Nat : bond = ParLockFor(m.wsxmrAmount, V.threshold)
  BY <1>2, PricesNat, VaultFields
<1>4. FreeCollateral(V) >= bond /\ ~Blocked(m.lpVault) /\ NonceMatches(m)
  BY <1>2, <1>3 DEF ProvideLPKey
<1>5. PICK q, W :
        /\ q = [m EXCEPT !.status = "KEY_PROVIDED", !.lockedCollateral = bond]
        /\ W = [V EXCEPT !.pendingDebt = V.pendingDebt + m.wsxmrAmount,
                         !.lockedCollateral = V.lockedCollateral + bond]
  OBVIOUS
<1>6. /\ vaults' = [vaults EXCEPT ![m.lpVault] = W]
      /\ mintRequests' = [mintRequests EXCEPT ![r] = q]
  BY <1>2, <1>3, <1>5 DEF TypeInv, ProvideLPKey
<1>7. q.status = "KEY_PROVIDED" /\ q.lockedCollateral = bond /\ SameMint(m, q)
  BY <1>5 DEF SameMint, GoodMint, MintRecord
<1>8. /\ SameTerms(V, W)
      /\ W.pendingDebt = V.pendingDebt + m.wsxmrAmount
      /\ W.lockedCollateral = V.lockedCollateral + bond
      /\ W.collateralShares = V.collateralShares /\ W.debt = V.debt
      /\ W.pendingMintCount = V.pendingMintCount
  BY <1>5 DEF SameTerms, GoodVault, VaultRecord
<1>9. q \in GoodMint /\ W \in GoodVault /\ MintStep(r, m, q, V, W)
  BY <1>1, <1>2, <1>6, <1>7, <1>8, MintStepMade
<1>10. UNCHANGED <<totalPendingMints, globalTotalDebt, pendingReturns, wsxmr>>
  BY DEF ProvideLPKey
<1>11. PendingBooks(m, q, V, W) /\ CountBooks(m, q, V, W)
  BY <1>1, <1>2, <1>7, <1>8, <1>10, VaultFields
  DEF PendingBooks, CountBooks, Part, MintLive, MintCounted, TypeInv
<1>12. LockBooks(m, q, V, W) /\ BondBooks(m, q, V)
  BY <1>1, <1>2, <1>3, <1>4, <1>7, <1>8, VaultFields
  DEF LockBooks, BondBooks, Part, MintLive, MintBonded, FreeCollateral, Monus
<1>13. DebtBooks(m, V, W) /\ EthBooks(m, q) /\ CollateralBooks(V, W)
  BY <1>1, <1>2, <1>7, <1>8, <1>10, NothingMinted, DepositKept, NothingLost
  DEF Deposited, MintLive, MintBonded
<1>14. CostBooks(m, q, V, W)
  <2>1. /\ V.debt \in Nat /\ V.pendingDebt \in Nat /\ V.collateralShares \in Nat
        /\ V.lockedCollateral \in Nat /\ W.threshold = V.threshold
    BY <1>8, VaultFields DEF SameTerms
  <2>2. V.debt + (V.pendingDebt + m.wsxmrAmount) = W.debt + W.pendingDebt
    BY <1>8
  <2>3. FreeCollateral(V) - bond
          >= RequiredCollateral(W.debt + W.pendingDebt, W.threshold)
    BY <1>2, <1>3, <2>1, <2>2 DEF ProvideLPKey
  <2>4. V.lockedCollateral <= V.collateralShares => FreeCollateral(W) = FreeCollateral(V) - bond
    BY <1>3, <1>4, <1>8, <2>1 DEF FreeCollateral, Monus
  <2>5. QED BY <2>3, <2>4 DEF CostBooks
<1>15. QED BY <1>9, <1>11, <1>12, <1>13, <1>14 DEF MintBooks

\* The attested deposit re-prices the bond and moves nothing else.
LEMMA SetMintReadyBooks ==
  ASSUME TypeInv, TypeInv', NEW r \in ReqId, SetMintReady(r)
  PROVE  \E m, q \in GoodMint, V, W \in GoodVault :
           MintStep(r, m, q, V, W) /\ MintBooks(m, q, V, W)
<1>1. mintRequests[r].status = "KEY_PROVIDED"
  BY DEF SetMintReady
<1>2. PICK m \in GoodMint, V \in GoodVault :
        /\ m = mintRequests[r] /\ V = vaults[m.lpVault] /\ m.lpVault \in Vault
        /\ m.wsxmrAmount \in Nat /\ m.griefingDeposit \in Nat /\ m.lockedCollateral \in Nat
  BY <1>1, MintAndVault
<1>3. PICK lock \in Nat : lock = ParLockFor(m.wsxmrAmount, V.threshold)
  BY <1>2, PricesNat, VaultFields
<1>4. /\ FreeCollateral(V) + m.lockedCollateral >= lock /\ ~Blocked(m.lpVault)
      /\ V.lockedCollateral + lock >= m.lockedCollateral
  BY <1>2, <1>3 DEF SetMintReady
<1>5. PICK locked \in Nat : locked = (V.lockedCollateral + lock) - m.lockedCollateral
  BY <1>2, <1>3, <1>4, VaultFields
<1>6. PICK q, W :
        /\ q = [m EXCEPT !.status = "READY", !.lockedCollateral = lock,
                         !.timeout = block + MintReadyExtension]
        /\ W = [V EXCEPT !.lockedCollateral = locked,
                         !.pendingMintCount = V.pendingMintCount + 1]
  OBVIOUS
<1>7. vaults' = [vaults EXCEPT ![m.lpVault] = W]
  BY <1>2, <1>3, <1>5, <1>6 DEF TypeInv, SetMintReady
<1>8. mintRequests' = [mintRequests EXCEPT ![r] = q]
  BY <1>2, <1>3, <1>6 DEF TypeInv, SetMintReady
<1>9. q.status = "READY" /\ q.lockedCollateral = lock /\ SameMint(m, q)
  BY <1>6 DEF SameMint, GoodMint, MintRecord
<1>10. /\ SameTerms(V, W) /\ W.pendingDebt = V.pendingDebt
       /\ W.lockedCollateral = locked
       /\ W.collateralShares = V.collateralShares /\ W.debt = V.debt
       /\ W.pendingMintCount = V.pendingMintCount + 1
  BY <1>6 DEF SameTerms, GoodVault, VaultRecord
<1>11. q \in GoodMint /\ W \in GoodVault /\ MintStep(r, m, q, V, W)
  BY <1>1, <1>2, <1>7, <1>8, <1>9, <1>10, MintStepMade
<1>12. /\ totalPendingMints' = totalPendingMints + 1
       /\ UNCHANGED <<globalTotalDebt, pendingReturns, wsxmr>>
  BY DEF SetMintReady
<1>13. PendingBooks(m, q, V, W) /\ CountBooks(m, q, V, W)
  BY <1>1, <1>2, <1>9, <1>10, <1>12, VaultFields
  DEF PendingBooks, CountBooks, Part, MintLive, MintCounted, TypeInv
<1>14. LockBooks(m, q, V, W) /\ BondBooks(m, q, V)
  BY <1>1, <1>2, <1>3, <1>4, <1>5, <1>9, <1>10, VaultFields, SMTT(30)
  DEF LockBooks, BondBooks, Part, MintLive, MintBonded, FreeCollateral, Monus
<1>15. DebtBooks(m, V, W) /\ EthBooks(m, q) /\ CollateralBooks(V, W)
  BY <1>1, <1>2, <1>9, <1>10, <1>12, NothingMinted, DepositKept, NothingLost
  DEF Deposited, MintLive, MintBonded
<1>16. CostBooks(m, q, V, W)
  <2>1. /\ V.collateralShares \in Nat /\ V.lockedCollateral \in Nat
        /\ W.threshold = V.threshold
    BY <1>10, VaultFields DEF SameTerms
  <2>2. (FreeCollateral(V) + m.lockedCollateral) - lock
          >= RequiredCollateral(W.debt + W.pendingDebt, W.threshold)
    BY <1>2, <1>3, <1>10, <2>1 DEF SetMintReady
  <2>3. V.lockedCollateral <= V.collateralShares =>
          FreeCollateral(W) = (FreeCollateral(V) + m.lockedCollateral) - lock
    BY <1>2, <1>3, <1>4, <1>5, <1>10, <2>1 DEF FreeCollateral, Monus
  <2>4. QED BY <2>2, <2>3 DEF CostBooks
<1>17. QED BY <1>11, <1>13, <1>14, <1>15, <1>16 DEF MintBooks

\* The revealed secret moves nothing.
LEMMA RevealSecretBooks ==
  ASSUME TypeInv, TypeInv', NEW r \in ReqId, RevealSecret(r)
  PROVE  \E m, q \in GoodMint, V, W \in GoodVault :
           MintStep(r, m, q, V, W) /\ MintBooks(m, q, V, W)
<1>1. mintRequests[r].status = "READY"
  BY DEF RevealSecret
<1>2. PICK m \in GoodMint, V \in GoodVault :
        /\ m = mintRequests[r] /\ V = vaults[m.lpVault] /\ m.lpVault \in Vault
        /\ m.wsxmrAmount \in Nat /\ m.griefingDeposit \in Nat /\ m.lockedCollateral \in Nat
  BY <1>1, MintAndVault
<1>3. PICK q : q = [m EXCEPT !.status = "SECRET_REVEALED", !.userSecret = TRUE]
  OBVIOUS
<1>4. /\ vaults' = [vaults EXCEPT ![m.lpVault] = V]
      /\ mintRequests' = [mintRequests EXCEPT ![r] = q]
  BY <1>2, <1>3 DEF TypeInv, RevealSecret
<1>5. /\ q.status = "SECRET_REVEALED" /\ q.lockedCollateral = m.lockedCollateral
      /\ SameMint(m, q)
  BY <1>3 DEF SameMint, GoodMint, MintRecord
<1>6. q \in GoodMint /\ MintStep(r, m, q, V, V)
  BY <1>1, <1>2, <1>4, <1>5, MintStepMade DEF SameTerms
<1>7. UNCHANGED <<totalPendingMints, globalTotalDebt, pendingReturns, wsxmr>>
  BY DEF RevealSecret
<1>8. PendingBooks(m, q, V, V) /\ CountBooks(m, q, V, V)
  BY <1>1, <1>2, <1>5, <1>7
  DEF PendingBooks, CountBooks, Part, MintLive, MintCounted
<1>9. LockBooks(m, q, V, V) /\ BondBooks(m, q, V)
  BY <1>1, <1>2, <1>5, VaultFields DEF LockBooks, BondBooks, Part, MintLive, MintBonded
<1>10. DebtBooks(m, V, V) /\ EthBooks(m, q) /\ CollateralBooks(V, V)
  BY <1>1, <1>2, <1>5, <1>7, NothingMinted, DepositKept, NothingLost
  DEF Deposited, MintLive, MintBonded
<1>11. CostBooks(m, q, V, V)
  BY <1>1, <1>2, <1>5, VaultFields
  DEF CostBooks, Part, MintLive, MintBonded, Monus
<1>12. QED BY <1>6, <1>8, <1>9, <1>10, <1>11 DEF MintBooks

\* A mint finalized after an auction pays out its bond, or what the vault has of it.
LEMMA FinalizeAfterAuctionBooks ==
  ASSUME TypeInv, TypeInv', NEW r \in ReqId, mintRequests[r].status = "SECRET_REVEALED",
         FinalizeAfterAuction(r)
  PROVE  \E m, q \in GoodMint, V, W \in GoodVault :
           MintStep(r, m, q, V, W) /\ MintBooks(m, q, V, W)
<1>1. mintRequests[r].status = "SECRET_REVEALED"
  OBVIOUS
<1>2. PICK m \in GoodMint, V \in GoodVault :
        /\ m = mintRequests[r] /\ V = vaults[m.lpVault] /\ m.lpVault \in Vault
        /\ m.wsxmrAmount \in Nat /\ m.griefingDeposit \in Nat /\ m.lockedCollateral \in Nat
  BY <1>1, MintAndVault
<1>3. m.initiator \in Account
  BY <1>1, <1>2, MintFields
<1>4. PICK lost \in Nat :
        /\ lost = IF /\ m.lockedCollateral > 0
                     /\ V.lockedCollateral >= m.lockedCollateral
                     /\ V.collateralShares >= m.lockedCollateral
                  THEN m.lockedCollateral ELSE 0
        /\ lost <= V.lockedCollateral /\ lost <= V.collateralShares
  BY <1>2, VaultFields
<1>5. PICK D \in GoodVault : D = ReleaseDebt(V, m)
  BY <1>1, <1>2, ReleaseGood
<1>6. /\ SameTerms(V, D) /\ D.pendingDebt = Monus(V.pendingDebt, m.wsxmrAmount)
      /\ D.lockedCollateral = V.lockedCollateral /\ D.debt = V.debt
      /\ D.collateralShares = V.collateralShares /\ D.pendingMintCount = V.pendingMintCount
  BY <1>5, ReleaseFields
<1>7. PICK q, W : /\ q = [m EXCEPT !.status = "CANCELLED"]
                  /\ W = [D EXCEPT !.pendingMintCount = D.pendingMintCount - 1,
                                   !.lockedCollateral = D.lockedCollateral - lost,
                                   !.collateralShares = D.collateralShares - lost]
  OBVIOUS
<1>8. vaults' = [vaults EXCEPT ![m.lpVault] = W]
  BY <1>2, <1>4, <1>5, <1>7 DEF FinalizeAfterAuction, GoodVault, VaultRecord
<1>9. mintRequests' = [mintRequests EXCEPT ![r] = q]
  BY <1>2, <1>7 DEF TypeInv, FinalizeAfterAuction
<1>10. q.status = "CANCELLED" /\ SameMint(m, q)
  BY <1>2, <1>7 DEF SameMint, GoodMint, MintRecord
<1>11. /\ SameTerms(D, W) /\ W.pendingDebt = D.pendingDebt /\ W.debt = D.debt
       /\ W.lockedCollateral = D.lockedCollateral - lost
       /\ W.collateralShares = D.collateralShares - lost
       /\ W.pendingMintCount = D.pendingMintCount - 1
  BY <1>7 DEF SameTerms, GoodVault, VaultRecord
<1>12. SameTerms(V, W)
  BY <1>6, <1>11 DEF SameTerms
<1>13. q \in GoodMint /\ W \in GoodVault /\ MintStep(r, m, q, V, W)
  BY <1>1, <1>2, <1>8, <1>9, <1>10, <1>12, MintStepMade
<1>14. /\ totalPendingMints' = totalPendingMints - 1 /\ totalPendingMints > 0
       /\ V.pendingMintCount > 0
       /\ UNCHANGED <<globalTotalDebt, wsxmr>>
  BY <1>2 DEF FinalizeAfterAuction
<1>15. PendingBooks(m, q, V, W) /\ CountBooks(m, q, V, W)
  BY <1>1, <1>2, <1>6, <1>10, <1>11, <1>14, VaultFields
  DEF PendingBooks, CountBooks, Part, MintLive, MintCounted, TypeInv, Monus
<1>16. LockBooks(m, q, V, W) /\ BondBooks(m, q, V)
  BY <1>1, <1>2, <1>4, <1>6, <1>10, <1>11, VaultFields
  DEF LockBooks, BondBooks, Part, MintLive, MintBonded, FreeCollateral, Monus
<1>17. DebtBooks(m, V, W)
  BY <1>6, <1>11, <1>14, NothingMinted
<1>18. pendingReturns' =
         [pendingReturns EXCEPT ![m.initiator].collateral = @ + RawFromNorm(lost),
                                ![m.initiator].eth = @ + m.griefingDeposit]
  BY <1>2, <1>4 DEF FinalizeAfterAuction
<1>19. V.collateralShares = W.collateralShares + lost
  BY <1>4, <1>6, <1>11, VaultFields
<1>20. EthBooks(m, q) /\ CollateralBooks(V, W)
  <2>1. m.status \in Deposited /\ q.status \notin Deposited
    BY <1>1, <1>2, <1>10 DEF Deposited, MintLive, MintBonded
  <2>2. QED BY <1>3, <1>18, <1>19, <2>1, DepositPaid
<1>21. CostBooks(m, q, V, W)
  BY <1>1, <1>2, <1>4, <1>6, <1>10, <1>11, VaultFields
  DEF CostBooks, Part, MintLive, MintBonded, Monus
<1>22. QED BY <1>13, <1>15, <1>16, <1>17, <1>20, <1>21 DEF MintBooks

\* A finalized mint turns pending debt into debt, and as many tokens are minted.
LEMMA FinalizeMintingBooks ==
  ASSUME TypeInv, TypeInv', NEW r \in ReqId, mintRequests[r].status = "SECRET_REVEALED",
         FinalizeMinting(r)
  PROVE  \E m, q \in GoodMint, V, W \in GoodVault :
           MintStep(r, m, q, V, W) /\ MintBooks(m, q, V, W)
<1>1. mintRequests[r].status = "SECRET_REVEALED"
  OBVIOUS
<1>2. PICK m \in GoodMint, V \in GoodVault :
        /\ m = mintRequests[r] /\ V = vaults[m.lpVault] /\ m.lpVault \in Vault
        /\ m.wsxmrAmount \in Nat /\ m.griefingDeposit \in Nat /\ m.lockedCollateral \in Nat
  BY <1>1, MintAndVault
<1>3. /\ m.initiator \in Account /\ m.recipient \in Account /\ m.lpVault \in Account
      /\ m.feeAmount \in Nat /\ m.feeAmount <= m.wsxmrAmount
  BY <1>1, <1>2, MintFields, VaultIsAccount
<1>4. /\ NonceMatches(m)
      /\ V.lockedCollateral >= m.lockedCollateral /\ V.pendingDebt >= m.wsxmrAmount
      /\ V.pendingMintCount > 0 /\ totalPendingMints > 0
  BY <1>2 DEF FinalizeMinting
<1>5. PICK q, W : /\ q = [m EXCEPT !.status = "COMPLETED"]
                  /\ W = [V EXCEPT !.lockedCollateral = V.lockedCollateral - m.lockedCollateral,
                                   !.pendingDebt = V.pendingDebt - m.wsxmrAmount,
                                   !.debt = V.debt + m.wsxmrAmount,
                                   !.pendingMintCount = V.pendingMintCount - 1]
  OBVIOUS
<1>6. vaults' = [vaults EXCEPT ![m.lpVault] = W]
  BY <1>2, <1>5 DEF TypeInv, FinalizeMinting
<1>7. mintRequests' = [mintRequests EXCEPT ![r] = q]
  BY <1>2, <1>5 DEF TypeInv, FinalizeMinting
<1>8. q.status = "COMPLETED" /\ SameMint(m, q)
  BY <1>2, <1>5 DEF SameMint, GoodMint, MintRecord
<1>9. /\ SameTerms(V, W) /\ W.collateralShares = V.collateralShares
      /\ W.lockedCollateral = V.lockedCollateral - m.lockedCollateral
      /\ W.pendingDebt = V.pendingDebt - m.wsxmrAmount
      /\ W.debt = V.debt + m.wsxmrAmount
      /\ W.pendingMintCount = V.pendingMintCount - 1
  BY <1>5 DEF SameTerms, GoodVault, VaultRecord
<1>10. q \in GoodMint /\ W \in GoodVault /\ MintStep(r, m, q, V, W)
  BY <1>1, <1>2, <1>6, <1>7, <1>8, <1>9, MintStepMade
<1>11. /\ totalPendingMints' = totalPendingMints - 1
       /\ globalTotalDebt' = globalTotalDebt + m.wsxmrAmount
       /\ pendingReturns' = PayEth(m.initiator, m.griefingDeposit)
  BY <1>2 DEF FinalizeMinting
<1>12. PendingBooks(m, q, V, W) /\ CountBooks(m, q, V, W)
  BY <1>1, <1>2, <1>4, <1>8, <1>9, <1>11, VaultFields
  DEF PendingBooks, CountBooks, Part, MintLive, MintCounted, TypeInv
<1>13. LockBooks(m, q, V, W) /\ BondBooks(m, q, V)
  BY <1>1, <1>2, <1>4, <1>8, <1>9, VaultFields
  DEF LockBooks, BondBooks, Part, MintLive, MintBonded, FreeCollateral, Monus
<1>14. Supply' = Supply + m.wsxmrAmount
  <2>1. PICK net \in Nat : net = m.wsxmrAmount - m.feeAmount
    BY <1>2, <1>3
  <2>2. PICK paid : paid = [wsxmr EXCEPT ![m.recipient] = @ + net]
    OBVIOUS
  <2>3. wsxmr' = [paid EXCEPT ![m.lpVault] = @ + m.feeAmount]
    BY <1>2, <2>1, <2>2 DEF FinalizeMinting
  <2>4. wsxmr \in [Account -> Nat] /\ wsxmr' \in [Account -> Nat] /\ paid \in [Account -> Nat]
    BY <1>3, <2>2 DEF TypeInv
  <2>5. /\ paid[m.recipient] = wsxmr[m.recipient] + net
        /\ wsxmr'[m.lpVault] = paid[m.lpVault] + m.feeAmount
        /\ \A c \in Account : c # m.recipient => paid[c] = wsxmr[c]
        /\ \A c \in Account : c # m.lpVault => wsxmr'[c] = paid[c]
    BY <1>3, <2>2, <2>3, <2>4
  <2>6. /\ Balances(paid) = Balances(wsxmr) + net
        /\ Balances(wsxmr') = Balances(paid) + m.feeAmount
    <3>1. Balances(paid) = Balances(wsxmr) + net
      BY <1>3, <2>4, <2>5, BalanceUpdate
    <3>2. Balances(wsxmr') = Balances(paid) + m.feeAmount
      BY <1>3, <2>4, <2>5, BalanceUpdate
    <3>3. QED BY <3>1, <3>2
  <2>7. Balances(wsxmr) \in Nat /\ Balances(wsxmr') \in Nat /\ Balances(paid) \in Nat
    BY <2>4, BalancesNat
  <2>8. Supply = Balances(wsxmr) /\ Supply' = Balances(wsxmr')
    BY DEF Supply, Balances
  <2>9. QED BY <1>2, <1>3, <2>1, <2>6, <2>7, <2>8
<1>15. DebtBooks(m, V, W)
  BY <1>1, <1>2, <1>4, <1>9, <1>11, <1>14, VaultFields, TotalsNat
  DEF DebtBooks, MintBonded, MintLive, TypeInv
<1>16. EthBooks(m, q) /\ CollateralBooks(V, W)
  <2>1. m.status \in Deposited /\ q.status \notin Deposited
    BY <1>1, <1>2, <1>8 DEF Deposited, MintLive, MintBonded
  <2>2. V.collateralShares = W.collateralShares + 0
    BY <1>9, VaultFields
  <2>3. QED BY <1>3, <1>11, <2>1, <2>2, DepositPaid
<1>17. CostBooks(m, q, V, W)
  BY <1>1, <1>2, <1>4, <1>8, <1>9, VaultFields
  DEF CostBooks, Part, MintLive, MintBonded, Monus
<1>18. QED BY <1>10, <1>12, <1>13, <1>15, <1>16, <1>17 DEF MintBooks

\* A pending mint cancelled returns its deposit; one that expires releases its pending debt.
LEMMA CancelMintBooks ==
  ASSUME TypeInv, TypeInv', NEW r \in ReqId, CancelMint(r)
  PROVE  \E m, q \in GoodMint, V, W \in GoodVault :
           MintStep(r, m, q, V, W) /\ MintBooks(m, q, V, W)
<1>1. mintRequests[r].status \in {"PENDING", "KEY_PROVIDED", "READY", "SECRET_REVEALED"}
  BY DEF CancelMint, CancelPendingMint, ExpireMint
<1>2. PICK m \in GoodMint, V \in GoodVault :
        /\ m = mintRequests[r] /\ V = vaults[m.lpVault] /\ m.lpVault \in Vault
        /\ m.wsxmrAmount \in Nat /\ m.griefingDeposit \in Nat /\ m.lockedCollateral \in Nat
  BY <1>1, MintAndVault
<1>3. CASE CancelPendingMint(r)
  <2>1. m.status = "PENDING" /\ m.initiator \in Account
    BY <1>1, <1>2, <1>3, MintFields DEF CancelPendingMint
  <2>2. PICK q : q = [m EXCEPT !.status = "CANCELLED"]
    OBVIOUS
  <2>3. /\ vaults' = [vaults EXCEPT ![m.lpVault] = V]
        /\ mintRequests' = [mintRequests EXCEPT ![r] = q]
    BY <1>2, <1>3, <2>2 DEF TypeInv, CancelPendingMint
  <2>4. q.status = "CANCELLED" /\ SameMint(m, q)
    BY <1>2, <2>2 DEF SameMint, GoodMint, MintRecord
  <2>5. q \in GoodMint /\ MintStep(r, m, q, V, V)
    BY <1>1, <1>2, <2>3, <2>4, MintStepMade DEF SameTerms
  <2>6. /\ UNCHANGED <<totalPendingMints, globalTotalDebt, wsxmr>>
        /\ pendingReturns' = PayEth(m.initiator, m.griefingDeposit)
    BY <1>2, <1>3 DEF CancelPendingMint
  <2>7. PendingBooks(m, q, V, V) /\ CountBooks(m, q, V, V)
    BY <2>1, <2>4, <2>6 DEF PendingBooks, CountBooks, Part, MintLive, MintCounted
  <2>8. LockBooks(m, q, V, V) /\ BondBooks(m, q, V)
    BY <2>1, <2>4, VaultFields DEF LockBooks, BondBooks, Part, MintLive, MintBonded
  <2>9. DebtBooks(m, V, V)
    BY <2>6, NothingMinted
  <2>10. EthBooks(m, q) /\ CollateralBooks(V, V)
    <3>1. m.status \in Deposited /\ q.status \notin Deposited
      BY <2>1, <2>4 DEF Deposited, MintLive, MintBonded
    <3>2. V.collateralShares = V.collateralShares + 0
      BY VaultFields
    <3>3. QED BY <2>1, <2>6, <3>1, <3>2, DepositPaid
  <2>11. CostBooks(m, q, V, V)
    BY <1>2, <2>1, <2>4, VaultFields DEF CostBooks, Part, MintLive, MintBonded
  <2>12. QED BY <2>5, <2>7, <2>8, <2>9, <2>10, <2>11 DEF MintBooks
<1>4. ASSUME NEW from, NEW to, ExpireMint(r, from, to),
             \/ from = "KEY_PROVIDED" /\ to = "KEY_CANCELLED"
             \/ from = "READY" /\ to = "EXPIRED_READY"
      PROVE  \E q \in GoodMint, W \in GoodVault :
               MintStep(r, m, q, V, W) /\ MintBooks(m, q, V, W)
  <2>1. m.status = from
    BY <1>2, <1>4 DEF ExpireMint
  <2>2. PICK q, W : /\ q = [m EXCEPT !.status = to, !.timeout = block + LpClaimWindow]
                    /\ W = ReleaseDebt(V, m)
    OBVIOUS
  <2>3. vaults' = [vaults EXCEPT ![m.lpVault] = W]
    BY <1>2, <1>4, <2>2 DEF TypeInv, ExpireMint
  <2>4. mintRequests' = [mintRequests EXCEPT ![r] = q]
    BY <1>2, <1>4, <2>2 DEF TypeInv, ExpireMint
  <2>5. q.status = to /\ q.lockedCollateral = m.lockedCollateral /\ SameMint(m, q)
    BY <1>4, <2>2 DEF SameMint, GoodMint, MintRecord
  <2>6. /\ SameTerms(V, W) /\ W.pendingDebt = Monus(V.pendingDebt, m.wsxmrAmount)
        /\ W.lockedCollateral = V.lockedCollateral /\ W.debt = V.debt
        /\ W.collateralShares = V.collateralShares /\ W.pendingMintCount = V.pendingMintCount
    BY <2>2, ReleaseFields
  <2>7. q \in GoodMint /\ W \in GoodVault /\ MintStep(r, m, q, V, W)
    BY <1>1, <1>2, <2>3, <2>4, <2>5, <2>6, MintStepMade
  <2>8. UNCHANGED <<totalPendingMints, globalTotalDebt, pendingReturns, wsxmr>>
    BY <1>4 DEF ExpireMint
  <2>9. PendingBooks(m, q, V, W) /\ CountBooks(m, q, V, W)
    BY <1>2, <1>4, <2>1, <2>5, <2>6, <2>8, VaultFields
    DEF PendingBooks, CountBooks, Part, MintLive, MintCounted, TypeInv, Monus
  <2>10. LockBooks(m, q, V, W) /\ BondBooks(m, q, V)
    BY <1>2, <1>4, <2>1, <2>5, <2>6, VaultFields
    DEF LockBooks, BondBooks, Part, MintLive, MintBonded, FreeCollateral, Monus
  <2>11. DebtBooks(m, V, W) /\ EthBooks(m, q) /\ CollateralBooks(V, W)
    BY <1>2, <1>4, <2>1, <2>5, <2>6, <2>8, NothingMinted, DepositKept, NothingLost
    DEF Deposited, MintLive, MintBonded
  <2>12. CostBooks(m, q, V, W)
    BY <1>2, <1>4, <2>1, <2>5, <2>6, VaultFields
    DEF CostBooks, Part, MintLive, MintBonded, Monus
  <2>13. QED BY <2>7, <2>9, <2>10, <2>11, <2>12 DEF MintBooks
<1>5. CASE \/ ExpireMint(r, "KEY_PROVIDED", "KEY_CANCELLED")
           \/ ExpireMint(r, "READY", "EXPIRED_READY")
  BY <1>4, <1>5
<1>6. CASE /\ mintRequests[r].status = "SECRET_REVEALED"
           /\ FinalizeAfterAuction(r) \/ FinalizeMinting(r)
  BY <1>6, FinalizeAfterAuctionBooks, FinalizeMintingBooks
<1>7. QED BY <1>3, <1>5, <1>6 DEF CancelMint

\* A mint its LP abandons, at the price of its secret, pays the LP the deposit.
LEMMA AbandonKeyProvidedMintBooks ==
  ASSUME TypeInv, TypeInv', NEW r \in ReqId, AbandonKeyProvidedMint(r)
  PROVE  \E m, q \in GoodMint, V, W \in GoodVault :
           MintStep(r, m, q, V, W) /\ MintBooks(m, q, V, W)
<1>1. mintRequests[r].status \in {"KEY_PROVIDED", "KEY_CANCELLED"}
  BY DEF AbandonKeyProvidedMint
<1>2. PICK m \in GoodMint, V \in GoodVault :
        /\ m = mintRequests[r] /\ V = vaults[m.lpVault] /\ m.lpVault \in Vault
        /\ m.wsxmrAmount \in Nat /\ m.griefingDeposit \in Nat /\ m.lockedCollateral \in Nat
  BY <1>1, MintAndVault
<1>3. PICK L \in GoodVault : L = ReleaseLock(V, m)
  BY <1>1, <1>2, ReleaseGood
<1>4. /\ SameTerms(V, L) /\ L.pendingDebt = V.pendingDebt /\ L.debt = V.debt
      /\ L.lockedCollateral = IF V.lockedCollateral >= m.lockedCollateral
                              THEN V.lockedCollateral - m.lockedCollateral
                              ELSE V.lockedCollateral
      /\ L.collateralShares = V.collateralShares /\ L.pendingMintCount = V.pendingMintCount
  BY <1>3, ReleaseFields
<1>5. PICK D : D = ReleaseDebt(L, m)
  OBVIOUS
<1>6. /\ SameTerms(L, D) /\ D.pendingDebt = Monus(L.pendingDebt, m.wsxmrAmount)
      /\ D.lockedCollateral = L.lockedCollateral /\ D.debt = L.debt
      /\ D.collateralShares = L.collateralShares /\ D.pendingMintCount = L.pendingMintCount
  BY <1>5, ReleaseFields
<1>7. PICK W : /\ vaults' = [vaults EXCEPT ![m.lpVault] = W]
               /\ \/ m.status = "KEY_PROVIDED" /\ W = D
                  \/ m.status = "KEY_CANCELLED" /\ W = L
  BY <1>2, <1>3, <1>5 DEF AbandonKeyProvidedMint
<1>8. PICK lock : lock = IF m.lockedCollateral > 0 /\ V.lockedCollateral >= m.lockedCollateral
                         THEN 0 ELSE m.lockedCollateral
  OBVIOUS
<1>9. PICK q : q = [m EXCEPT !.status = "CANCELLED", !.lpSecret = TRUE, !.lockedCollateral = lock]
  OBVIOUS
<1>10. mintRequests' = [mintRequests EXCEPT ![r] = q]
  BY <1>2, <1>8, <1>9 DEF TypeInv, AbandonKeyProvidedMint
<1>11. q.status = "CANCELLED" /\ SameMint(m, q)
  BY <1>9 DEF SameMint, GoodMint, MintRecord
<1>12. /\ SameTerms(V, W) /\ W.debt = V.debt
       /\ W.lockedCollateral = L.lockedCollateral
       /\ W.collateralShares = V.collateralShares
       /\ W.pendingMintCount = V.pendingMintCount
       /\ \/ m.status = "KEY_PROVIDED" /\ W.pendingDebt = Monus(V.pendingDebt, m.wsxmrAmount)
          \/ m.status = "KEY_CANCELLED" /\ W.pendingDebt = V.pendingDebt
  BY <1>4, <1>6, <1>7 DEF SameTerms
<1>13. q \in GoodMint /\ W \in GoodVault /\ MintStep(r, m, q, V, W)
  BY <1>1, <1>2, <1>7, <1>10, <1>11, <1>12, MintStepMade
<1>14. /\ UNCHANGED <<totalPendingMints, globalTotalDebt, wsxmr>>
       /\ pendingReturns' = PayEth(m.lpVault, m.griefingDeposit)
  BY <1>2 DEF AbandonKeyProvidedMint
<1>15. PendingBooks(m, q, V, W) /\ CountBooks(m, q, V, W)
  BY <1>1, <1>2, <1>11, <1>12, <1>14, VaultFields
  DEF PendingBooks, CountBooks, Part, MintLive, MintCounted, TypeInv, Monus
<1>16. LockBooks(m, q, V, W) /\ BondBooks(m, q, V)
  BY <1>1, <1>2, <1>4, <1>11, <1>12, VaultFields
  DEF LockBooks, BondBooks, Part, MintLive, MintBonded, FreeCollateral, Monus
<1>17. DebtBooks(m, V, W)
  BY <1>12, <1>14, NothingMinted
<1>18. EthBooks(m, q) /\ CollateralBooks(V, W)
  <2>1. m.status \in Deposited /\ q.status \notin Deposited
    BY <1>1, <1>2, <1>11 DEF Deposited, MintLive, MintBonded
  <2>2. V.collateralShares = W.collateralShares + 0 /\ m.lpVault \in Account
    BY <1>2, <1>12, VaultFields, VaultIsAccount
  <2>3. QED BY <1>14, <2>1, <2>2, DepositPaid
<1>19. CostBooks(m, q, V, W)
  BY <1>1, <1>2, <1>11, <1>12, VaultFields
  DEF CostBooks, Part, MintLive, MintBonded, Monus
<1>20. QED BY <1>13, <1>15, <1>16, <1>17, <1>18, <1>19 DEF MintBooks

\* The LP of an expired mint claims the deposit, and gets its bond back.
LEMMA ClaimGriefingDepositBooks ==
  ASSUME TypeInv, TypeInv', NEW r \in ReqId, ClaimGriefingDeposit(r)
  PROVE  \E m, q \in GoodMint, V, W \in GoodVault :
           MintStep(r, m, q, V, W) /\ MintBooks(m, q, V, W)
<1>1. mintRequests[r].status = "EXPIRED_READY"
  BY DEF ClaimGriefingDeposit
<1>2. PICK m \in GoodMint, V \in GoodVault :
        /\ m = mintRequests[r] /\ V = vaults[m.lpVault] /\ m.lpVault \in Vault
        /\ m.wsxmrAmount \in Nat /\ m.griefingDeposit \in Nat /\ m.lockedCollateral \in Nat
  BY <1>1, MintAndVault
<1>3. PICK L \in GoodVault : L = ReleaseLock(V, m)
  BY <1>1, <1>2, ReleaseGood
<1>4. /\ SameTerms(V, L) /\ L.pendingDebt = V.pendingDebt /\ L.debt = V.debt
      /\ L.lockedCollateral = IF V.lockedCollateral >= m.lockedCollateral
                              THEN V.lockedCollateral - m.lockedCollateral
                              ELSE V.lockedCollateral
      /\ L.collateralShares = V.collateralShares /\ L.pendingMintCount = V.pendingMintCount
  BY <1>3, ReleaseFields
<1>5. PICK q, W : /\ q = [m EXCEPT !.status = "CANCELLED", !.lpSecret = TRUE]
                  /\ W = [L EXCEPT !.pendingMintCount = L.pendingMintCount - 1]
  OBVIOUS
<1>6. vaults' = [vaults EXCEPT ![m.lpVault] = W]
  BY <1>2, <1>3, <1>5 DEF ClaimGriefingDeposit, GoodVault, VaultRecord
<1>7. mintRequests' = [mintRequests EXCEPT ![r] = q]
  BY <1>2, <1>5 DEF TypeInv, ClaimGriefingDeposit
<1>8. q.status = "CANCELLED" /\ SameMint(m, q)
  BY <1>5 DEF SameMint, GoodMint, MintRecord
<1>9. /\ SameTerms(L, W) /\ W.debt = L.debt /\ W.pendingDebt = L.pendingDebt
      /\ W.lockedCollateral = L.lockedCollateral
      /\ W.collateralShares = L.collateralShares
      /\ W.pendingMintCount = L.pendingMintCount - 1
  BY <1>5 DEF SameTerms, GoodVault, VaultRecord
<1>10. SameTerms(V, W)
  BY <1>4, <1>9 DEF SameTerms
<1>11. q \in GoodMint /\ W \in GoodVault /\ MintStep(r, m, q, V, W)
  BY <1>1, <1>2, <1>6, <1>7, <1>8, <1>10, MintStepMade
<1>12. /\ UNCHANGED <<globalTotalDebt, wsxmr>>
       /\ totalPendingMints' = totalPendingMints - 1
       /\ V.pendingMintCount > 0 /\ totalPendingMints > 0
       /\ pendingReturns' = PayEth(m.lpVault, m.griefingDeposit)
  BY <1>2 DEF ClaimGriefingDeposit
<1>13. PendingBooks(m, q, V, W) /\ CountBooks(m, q, V, W)
  <2>1. /\ V.pendingDebt \in Nat /\ W.pendingDebt = V.pendingDebt
        /\ V.pendingMintCount \in Nat /\ W.pendingMintCount = V.pendingMintCount - 1
        /\ totalPendingMints \in Nat
    BY <1>4, <1>9, VaultFields DEF TypeInv
  <2>2. m.status = "EXPIRED_READY" /\ q.status = "CANCELLED"
    BY <1>1, <1>2, <1>8
  <2>3. QED BY <1>12, <2>1, <2>2 DEF PendingBooks, CountBooks, Part, MintLive, MintCounted
<1>14. LockBooks(m, q, V, W) /\ BondBooks(m, q, V)
  BY <1>1, <1>2, <1>4, <1>8, <1>9, VaultFields
  DEF LockBooks, BondBooks, Part, MintLive, MintBonded, FreeCollateral, Monus
<1>15. DebtBooks(m, V, W)
  BY <1>4, <1>9, <1>12, NothingMinted
<1>16. EthBooks(m, q) /\ CollateralBooks(V, W)
  <2>1. m.status \in Deposited /\ q.status \notin Deposited
    BY <1>1, <1>2, <1>8 DEF Deposited, MintLive, MintBonded
  <2>2. V.collateralShares = W.collateralShares + 0 /\ m.lpVault \in Account
    BY <1>2, <1>4, <1>9, VaultFields, VaultIsAccount
  <2>3. QED BY <1>12, <2>1, <2>2, DepositPaid
<1>17. CostBooks(m, q, V, W)
  BY <1>1, <1>2, <1>4, <1>8, <1>9, VaultFields
  DEF CostBooks, Part, MintLive, MintBonded, Monus
<1>18. QED BY <1>11, <1>13, <1>14, <1>15, <1>16, <1>17 DEF MintBooks

\* A parked deposit goes back to the initiator, with the bond if it is slashed.
LEMMA ReclaimParkedDepositBooks ==
  ASSUME TypeInv, TypeInv', NEW r \in ReqId, ReclaimParkedDeposit(r)
  PROVE  \E m, q \in GoodMint, V, W \in GoodVault :
           MintStep(r, m, q, V, W) /\ MintBooks(m, q, V, W)
<1>1. mintRequests[r].status = "KEY_CANCELLED"
  BY DEF ReclaimParkedDeposit
<1>2. PICK m \in GoodMint, V \in GoodVault :
        /\ m = mintRequests[r] /\ V = vaults[m.lpVault] /\ m.lpVault \in Vault
        /\ m.wsxmrAmount \in Nat /\ m.griefingDeposit \in Nat /\ m.lockedCollateral \in Nat
  BY <1>1, MintAndVault
<1>3. PICK L \in GoodVault : L = ReleaseLock(V, m)
  BY <1>1, <1>2, ReleaseGood
<1>4. /\ SameTerms(V, L) /\ L.pendingDebt = V.pendingDebt /\ L.debt = V.debt
      /\ L.lockedCollateral = IF V.lockedCollateral >= m.lockedCollateral
                              THEN V.lockedCollateral - m.lockedCollateral
                              ELSE V.lockedCollateral
      /\ L.collateralShares = V.collateralShares /\ L.pendingMintCount = V.pendingMintCount
  BY <1>3, ReleaseFields
<1>5. PICK lost \in Nat : lost = Slashed(m) /\ lost <= V.collateralShares
  BY <1>1, <1>2, SlashedBound
<1>6. (lost = 0 \/ lost = m.lockedCollateral) /\ (~NonceMatches(m) => lost = 0)
  BY <1>5 DEF Slashed
<1>7. PICK q, W : /\ q = [m EXCEPT !.status = "CANCELLED"]
                  /\ W = [L EXCEPT !.collateralShares = L.collateralShares - lost]
  OBVIOUS
<1>8. vaults' = [vaults EXCEPT ![m.lpVault] = W]
  <2>1. vaults' = [vaults EXCEPT ![m.lpVault] =
                     [L EXCEPT !.collateralShares = @ - lost]]
    BY <1>2, <1>3, <1>5 DEF ReclaimParkedDeposit
  <2>2. QED BY <1>7, <2>1 DEF GoodVault, VaultRecord
<1>9. mintRequests' = [mintRequests EXCEPT ![r] = q]
  BY <1>2, <1>7 DEF TypeInv, ReturnToInitiator, ReclaimParkedDeposit
<1>10. q.status = "CANCELLED" /\ SameMint(m, q)
  BY <1>7 DEF SameMint, GoodMint, MintRecord
<1>11. /\ SameTerms(L, W) /\ W.debt = L.debt /\ W.pendingDebt = L.pendingDebt
       /\ W.lockedCollateral = L.lockedCollateral
       /\ W.collateralShares = L.collateralShares - lost
       /\ W.pendingMintCount = L.pendingMintCount
  BY <1>7 DEF SameTerms, GoodVault, VaultRecord
<1>12. SameTerms(V, W)
  BY <1>4, <1>11 DEF SameTerms
<1>13. q \in GoodMint /\ W \in GoodVault /\ MintStep(r, m, q, V, W)
  BY <1>1, <1>2, <1>8, <1>9, <1>10, <1>12, MintStepMade
<1>14. /\ UNCHANGED <<globalTotalDebt, wsxmr>>
       /\ totalPendingMints' = totalPendingMints
  BY <1>2 DEF ReclaimParkedDeposit
<1>15. PendingBooks(m, q, V, W) /\ CountBooks(m, q, V, W)
  BY <1>1, <1>2, <1>4, <1>10, <1>11, <1>14, VaultFields
  DEF PendingBooks, CountBooks, Part, MintLive, MintCounted, TypeInv
<1>16. LockBooks(m, q, V, W) /\ BondBooks(m, q, V)
  <2>1. /\ W.lockedCollateral = IF V.lockedCollateral >= m.lockedCollateral
                                THEN V.lockedCollateral - m.lockedCollateral
                                ELSE V.lockedCollateral
        /\ W.collateralShares = V.collateralShares - lost
        /\ V.lockedCollateral \in Nat /\ V.collateralShares \in Nat /\ lost \in Nat
    BY <1>2, <1>4, <1>5, <1>11, VaultFields
  <2>2. m.status \in MintBonded /\ q.status \notin MintBonded
    BY <1>1, <1>2, <1>10 DEF MintLive, MintBonded
  <2>3. ~NonceMatches(m) => FreeCollateral(W) >= FreeCollateral(V)
    BY <1>2, <1>5, <1>6, <2>1 DEF FreeCollateral, Monus
  <2>4. QED BY <1>2, <1>5, <1>6, <2>1, <2>2, <2>3 DEF LockBooks, BondBooks, Part
<1>17. DebtBooks(m, V, W)
  BY <1>4, <1>11, <1>14, NothingMinted
<1>18. EthBooks(m, q) /\ CollateralBooks(V, W)
  <2>1. m.status \in Deposited /\ q.status \notin Deposited
    BY <1>1, <1>2, <1>10 DEF Deposited, MintLive, MintBonded
  <2>2. V.collateralShares = W.collateralShares + lost /\ m.initiator \in Account
    BY <1>1, <1>2, <1>4, <1>5, <1>11, VaultFields, MintFields
  <2>3. pendingReturns' =
          [pendingReturns EXCEPT ![m.initiator].collateral = @ + RawFromNorm(lost),
                                 ![m.initiator].eth = @ + m.griefingDeposit]
    BY <1>2, <1>5 DEF ReturnToInitiator, ReclaimParkedDeposit
  <2>4. QED BY <2>1, <2>2, <2>3, DepositPaid
<1>19. CostBooks(m, q, V, W)
  <2>1. /\ V.collateralShares = W.collateralShares + lost /\ lost <= m.lockedCollateral
        /\ V.debt = W.debt /\ V.pendingDebt = W.pendingDebt
    BY <1>2, <1>4, <1>5, <1>6, <1>11, VaultFields
  <2>2. m.status \in MintBonded /\ q.status \notin MintBonded
    BY <1>1, <1>2, <1>10 DEF MintLive, MintBonded
  <2>3. /\ V.debt \in Nat /\ V.pendingDebt \in Nat /\ W.collateralShares \in Nat
    BY <1>13, VaultFields
  <2>4. QED BY <1>2, <1>5, <2>1, <2>2, <2>3 DEF CostBooks, Part
<1>20. QED BY <1>13, <1>15, <1>16, <1>17, <1>18, <1>19 DEF MintBooks

\* An expired mint swept pays the initiator the deposit, with the bond if it is slashed.
LEMMA SweepUnclaimedExpiredMintBooks ==
  ASSUME TypeInv, TypeInv', NEW r \in ReqId, SweepUnclaimedExpiredMint(r)
  PROVE  \E m, q \in GoodMint, V, W \in GoodVault :
           MintStep(r, m, q, V, W) /\ MintBooks(m, q, V, W)
<1>1. mintRequests[r].status = "EXPIRED_READY"
  BY DEF SweepUnclaimedExpiredMint
<1>2. PICK m \in GoodMint, V \in GoodVault :
        /\ m = mintRequests[r] /\ V = vaults[m.lpVault] /\ m.lpVault \in Vault
        /\ m.wsxmrAmount \in Nat /\ m.griefingDeposit \in Nat /\ m.lockedCollateral \in Nat
  BY <1>1, MintAndVault
<1>3. PICK L \in GoodVault : L = ReleaseLock(V, m)
  BY <1>1, <1>2, ReleaseGood
<1>4. /\ SameTerms(V, L) /\ L.pendingDebt = V.pendingDebt /\ L.debt = V.debt
      /\ L.lockedCollateral = IF V.lockedCollateral >= m.lockedCollateral
                              THEN V.lockedCollateral - m.lockedCollateral
                              ELSE V.lockedCollateral
      /\ L.collateralShares = V.collateralShares /\ L.pendingMintCount = V.pendingMintCount
  BY <1>3, ReleaseFields
<1>5. PICK lost \in Nat : lost = Slashed(m) /\ lost <= V.collateralShares
  BY <1>1, <1>2, SlashedBound
<1>6. (lost = 0 \/ lost = m.lockedCollateral) /\ (~NonceMatches(m) => lost = 0)
  BY <1>5 DEF Slashed
<1>7. PICK q, W : /\ q = [m EXCEPT !.status = "CANCELLED"]
                  /\ W = [L EXCEPT !.collateralShares = L.collateralShares - lost,
                                   !.pendingMintCount = L.pendingMintCount - 1]
  OBVIOUS
<1>8. vaults' = [vaults EXCEPT ![m.lpVault] = W]
  <2>1. vaults' = [vaults EXCEPT ![m.lpVault] =
                     [L EXCEPT !.collateralShares = @ - lost, !.pendingMintCount = @ - 1]]
    BY <1>2, <1>3, <1>5 DEF SweepUnclaimedExpiredMint
  <2>2. QED BY <1>7, <2>1 DEF GoodVault, VaultRecord
<1>9. mintRequests' = [mintRequests EXCEPT ![r] = q]
  BY <1>2, <1>7 DEF TypeInv, ReturnToInitiator, SweepUnclaimedExpiredMint
<1>10. q.status = "CANCELLED" /\ SameMint(m, q)
  BY <1>7 DEF SameMint, GoodMint, MintRecord
<1>11. /\ SameTerms(L, W) /\ W.debt = L.debt /\ W.pendingDebt = L.pendingDebt
       /\ W.lockedCollateral = L.lockedCollateral
       /\ W.collateralShares = L.collateralShares - lost
       /\ W.pendingMintCount = L.pendingMintCount - 1
  BY <1>7 DEF SameTerms, GoodVault, VaultRecord
<1>12. SameTerms(V, W)
  BY <1>4, <1>11 DEF SameTerms
<1>13. q \in GoodMint /\ W \in GoodVault /\ MintStep(r, m, q, V, W)
  BY <1>1, <1>2, <1>8, <1>9, <1>10, <1>12, MintStepMade
<1>14. /\ UNCHANGED <<globalTotalDebt, wsxmr>>
       /\ totalPendingMints' = totalPendingMints - 1 /\ totalPendingMints > 0
       /\ V.pendingMintCount > 0
  BY <1>2 DEF SweepUnclaimedExpiredMint
<1>15. PendingBooks(m, q, V, W) /\ CountBooks(m, q, V, W)
  BY <1>1, <1>2, <1>4, <1>10, <1>11, <1>14, VaultFields
  DEF PendingBooks, CountBooks, Part, MintLive, MintCounted, TypeInv
<1>16. LockBooks(m, q, V, W) /\ BondBooks(m, q, V)
  <2>1. /\ W.lockedCollateral = IF V.lockedCollateral >= m.lockedCollateral
                                THEN V.lockedCollateral - m.lockedCollateral
                                ELSE V.lockedCollateral
        /\ W.collateralShares = V.collateralShares - lost
        /\ V.lockedCollateral \in Nat /\ V.collateralShares \in Nat /\ lost \in Nat
    BY <1>2, <1>4, <1>5, <1>11, VaultFields
  <2>2. m.status \in MintBonded /\ q.status \notin MintBonded
    BY <1>1, <1>2, <1>10 DEF MintLive, MintBonded
  <2>3. ~NonceMatches(m) => FreeCollateral(W) >= FreeCollateral(V)
    BY <1>2, <1>5, <1>6, <2>1 DEF FreeCollateral, Monus
  <2>4. QED BY <1>2, <1>5, <1>6, <2>1, <2>2, <2>3 DEF LockBooks, BondBooks, Part
<1>17. DebtBooks(m, V, W)
  BY <1>4, <1>11, <1>14, NothingMinted
<1>18. EthBooks(m, q) /\ CollateralBooks(V, W)
  <2>1. m.status \in Deposited /\ q.status \notin Deposited
    BY <1>1, <1>2, <1>10 DEF Deposited, MintLive, MintBonded
  <2>2. V.collateralShares = W.collateralShares + lost /\ m.initiator \in Account
    BY <1>1, <1>2, <1>4, <1>5, <1>11, VaultFields, MintFields
  <2>3. pendingReturns' =
          [pendingReturns EXCEPT ![m.initiator].collateral = @ + RawFromNorm(lost),
                                 ![m.initiator].eth = @ + m.griefingDeposit]
    BY <1>2, <1>5 DEF ReturnToInitiator, SweepUnclaimedExpiredMint
  <2>4. QED BY <2>1, <2>2, <2>3, DepositPaid
<1>19. CostBooks(m, q, V, W)
  <2>1. /\ V.collateralShares = W.collateralShares + lost /\ lost <= m.lockedCollateral
        /\ V.debt = W.debt /\ V.pendingDebt = W.pendingDebt
    BY <1>2, <1>4, <1>5, <1>6, <1>11, VaultFields
  <2>2. m.status \in MintBonded /\ q.status \notin MintBonded
    BY <1>1, <1>2, <1>10 DEF MintLive, MintBonded
  <2>3. /\ V.debt \in Nat /\ V.pendingDebt \in Nat /\ W.collateralShares \in Nat
    BY <1>13, VaultFields
  <2>4. QED BY <1>2, <1>5, <2>1, <2>2, <2>3 DEF CostBooks, Part
<1>20. QED BY <1>13, <1>15, <1>16, <1>17, <1>18, <1>19 DEF MintBooks

-----------------------------------------------------------------------------
(* Every step of a mint but the first. *)
MintAction(r) ==
  \/ ProvideLPKey(r) \/ SetMintReady(r) \/ RevealSecret(r) \/ FinalizeMint(r)
  \/ CancelMint(r) \/ AbandonKeyProvidedMint(r) \/ ClaimGriefingDeposit(r)
  \/ ReclaimParkedDeposit(r) \/ SweepUnclaimedExpiredMint(r)

\* Every step of a mint after the first keeps the books.
LEMMA MintActionBooks ==
  ASSUME TypeInv, TypeInv', NEW r \in ReqId, MintAction(r)
  PROVE  /\ \E m, q \in GoodMint, V, W \in GoodVault :
              MintStep(r, m, q, V, W) /\ MintBooks(m, q, V, W)
         /\ MintUnchanged /\ UNCHANGED requestNonce
<1>1. MintUnchanged /\ UNCHANGED requestNonce
  BY DEF MintAction, ProvideLPKey, SetMintReady, RevealSecret, FinalizeMint, CancelMint,
         CancelPendingMint, ExpireMint, FinalizeAfterAuction, FinalizeMinting,
         AbandonKeyProvidedMint, ClaimGriefingDeposit, ReclaimParkedDeposit,
         SweepUnclaimedExpiredMint
<1>2. CASE FinalizeMint(r)
  BY <1>1, <1>2, FinalizeAfterAuctionBooks, FinalizeMintingBooks DEF FinalizeMint
<1>3. CASE ~FinalizeMint(r)
  BY <1>1, <1>3, ProvideLPKeyBooks, SetMintReadyBooks, RevealSecretBooks, CancelMintBooks,
     AbandonKeyProvidedMintBooks, ClaimGriefingDepositBooks, ReclaimParkedDepositBooks,
     SweepUnclaimedExpiredMintBooks
  DEF MintAction
<1>4. QED BY <1>2, <1>3

-----------------------------------------------------------------------------
(* A step of a burn. *)

SameBurn(b, c) ==
  /\ c.lpVault = b.lpVault /\ c.user = b.user /\ c.wsxmrAmount = b.wsxmrAmount
  /\ c.lockedCollateral = b.lockedCollateral /\ c.rewardCollateral = b.rewardCollateral

\* Request b becomes c, and its vault V becomes W; a request that is new is b's first.
BurnStep(r, b, c, V, W) ==
  /\ b = burnRequests[r] /\ V = vaults[c.lpVault]
  /\ burnRequests' = [burnRequests EXCEPT ![r] = c]
  /\ vaults' = [vaults EXCEPT ![c.lpVault] = W]
  /\ c.status # "INVALID"
  /\ b.status # "INVALID" => SameBurn(b, c)
  /\ b.status = "INVALID" => V.active /\ ~Blocked(c.lpVault) /\ r = requestNonce + 1
  /\ c.status \in ActiveBurn => b.status \in ActiveBurn \/ b.status = "INVALID"
  /\ SameTerms(V, W) /\ W.pendingDebt = V.pendingDebt
  /\ W.pendingMintCount = V.pendingMintCount

\* What an abandoned proposal owes is owed until it is resolved.
AbandonedCancelled == \A r \in abandonedBurns : burnRequests[r].status = "CANCELLED"

Active(b) == b.status \in ActiveBurn
BurnsHeld == BurnsInFlight \cup abandonedBurns

PendingBurnBooks(b, c) ==
  (Active(b) => globalPendingBurnDebt >= b.wsxmrAmount) =>
    globalPendingBurnDebt' + Part(Active(b), b.wsxmrAmount)
      = globalPendingBurnDebt + Part(Active(c), c.wsxmrAmount)

\* The lock: exact, within the shares, and no step takes free collateral from a
\* blocked vault.
BurnLockBooks(b, c, V, W) ==
  /\ V.lockedCollateral <= V.collateralShares =>
       /\ W.lockedCollateral + Part(Active(b), TotalLock(b))
            = V.lockedCollateral + Part(Active(c), TotalLock(c))
       /\ W.lockedCollateral <= W.collateralShares
  /\ Blocked(c.lpVault) => FreeCollateral(W) >= FreeCollateral(V)

\* A burn that ends restores at most what it held, or clears debt for it.
BurnDebtBooks(r, b, c, V, W) ==
  /\ W.debt <= V.debt
  /\ W.debt + globalTotalDebt = V.debt + globalTotalDebt'
  /\ Supply' + Part(r \in BurnsHeld', c.wsxmrAmount) + globalTotalDebt
       <= Supply + Part(r \in BurnsHeld, b.wsxmrAmount) + globalTotalDebt'

\* What a burn takes out of the vault is at most the par of the debt it clears.
BurnCostBooks(b, V, W) ==
  \/ V.collateralShares = W.collateralShares
  \/ /\ Active(b)
     /\ V.collateralShares
          <= W.collateralShares + ParCollateral(b.wsxmrAmount, b.thresholdAtRequest)
     /\ b.wsxmrAmount <= V.debt => V.debt = W.debt + b.wsxmrAmount

BurnBooks(r, b, c, V, W) ==
  /\ PendingBurnBooks(b, c) /\ BurnLockBooks(b, c, V, W) /\ BurnDebtBooks(r, b, c, V, W)
  /\ BurnCostBooks(b, V, W)
  /\ EthReturns' = EthReturns /\ CollateralBooks(V, W)

\* Whether a request is held.
LEMMA HeldStatus ==
  ASSUME NEW r \in ReqId
  PROVE  r \in BurnsHeld <=> Active(burnRequests[r]) \/ r \in abandonedBurns
BY DEF BurnsHeld, BurnsInFlight, Active

\* A burn that was requested, and its vault, with the types of what they hold.
LEMMA BurnAndVault ==
  ASSUME TypeInv, NEW r \in ReqId, burnRequests[r].status # "INVALID"
  PROVE  \E b \in GoodBurn, V \in GoodVault :
           /\ b = burnRequests[r] /\ V = vaults[b.lpVault]
           /\ b.lpVault \in Vault /\ b.user \in Account
           /\ b.wsxmrAmount \in Nat /\ b.lockedCollateral \in Nat /\ b.rewardCollateral \in Nat
           /\ b.thresholdAtRequest \in Nat /\ TotalLock(b) \in Nat
BY BurnFields DEF TypeInv, TotalLock

\* A step that writes one burn and its vault, and keeps their identity, is a BurnStep.
LEMMA BurnStepMade ==
  ASSUME TypeInv, TypeInv', NEW r \in ReqId, NEW b \in GoodBurn, NEW V \in GoodVault,
         NEW c, NEW W, b = burnRequests[r], b.status # "INVALID", c.status # "INVALID",
         V = vaults[b.lpVault],
         burnRequests' = [burnRequests EXCEPT ![r] = c],
         vaults' = [vaults EXCEPT ![b.lpVault] = W],
         c.status \in ActiveBurn => b.status \in ActiveBurn,
         SameBurn(b, c), SameTerms(V, W), W.pendingDebt = V.pendingDebt,
         W.pendingMintCount = V.pendingMintCount
  PROVE  c \in GoodBurn /\ W \in GoodVault /\ BurnStep(r, b, c, V, W)
<1>1. b.lpVault \in Vault
  BY BurnFields
<1>2. c = burnRequests'[r] /\ W = vaults'[b.lpVault]
  BY <1>1 DEF TypeInv
<1>3. c \in GoodBurn /\ W \in GoodVault
  BY <1>1, <1>2 DEF TypeInv
<1>4. QED BY <1>3 DEF BurnStep, SameBurn

\* Whole units survive the conversion.
LEMMA RawOfNorm ==
  ASSUME NEW x \in Nat
  PROVE  /\ RawFromNorm(NormFromRaw(x)) = x
         /\ NormFromRaw(RawFromNorm(x)) \in Nat /\ NormFromRaw(RawFromNorm(x)) <= x
<1>1. x * CollateralScale \in Nat /\ CollateralScale \in Nat \ {0}
  BY MulNat, RatesAssumption
<1>2. PICK y : y = (x * CollateralScale) \div CollateralScale
  OBVIOUS
<1>3. y \in Nat /\ CollateralScale * y <= x * CollateralScale
      /\ x * CollateralScale < CollateralScale * (y + 1)
  BY <1>1, <1>2, DivNat
<1>4. y = x
  <2>1. CollateralScale * y <= CollateralScale * x
        /\ CollateralScale * x < CollateralScale * (y + 1)
    BY <1>1, <1>3
  <2>2. ASSUME y > x PROVE FALSE
    <3>1. y >= x + 1 /\ CollateralScale * y >= CollateralScale * (x + 1)
      BY <1>1, <1>3, <2>2
    <3>2. CollateralScale * (x + 1) = CollateralScale * x + CollateralScale
      BY <1>1
    <3>3. QED BY <1>1, <1>3, <2>1, <3>1, <3>2, MulNat
  <2>3. ASSUME y < x PROVE FALSE
    <3>1. x >= y + 1 /\ CollateralScale * x >= CollateralScale * (y + 1)
      BY <1>1, <1>3, <2>3
    <3>2. QED BY <1>1, <1>3, <2>1, <3>1, MulNat
  <2>4. QED BY <1>3, <2>2, <2>3
<1>5. PICK z \in Nat : z = x \div CollateralScale
  BY <1>1, DivNat
<1>6. CollateralScale * z <= x /\ z * CollateralScale = CollateralScale * z
  BY <1>1, <1>5
<1>7. z * CollateralScale \in Nat
  BY <1>1, MulNat
<1>8. QED BY <1>2, <1>4, <1>5, <1>6, <1>7 DEF RawFromNorm, NormFromRaw

\* The exits that clear debt and pay the user.
LEMMA SettleAgainstDebtBooks ==
  ASSUME BurnListInv, AbandonedCancelled, TypeInv', NEW r \in ReqId,
         Active(burnRequests[r]), NEW paid \in Nat, paid <= TotalLock(burnRequests[r]),
         paid <= ParCollateral(burnRequests[r].wsxmrAmount, burnRequests[r].thresholdAtRequest),
         SettleAgainstDebt(r, paid),
         NEW c, burnRequests' = [burnRequests EXCEPT ![r] = c],
         c.status \in {"COMPLETED", "SLASHED"}, SameBurn(burnRequests[r], c)
  PROVE  \E b, d \in GoodBurn, V, W \in GoodVault :
           BurnStep(r, b, d, V, W) /\ BurnBooks(r, b, d, V, W)
<1>1. burnRequests[r].status # "INVALID" /\ TypeInv
  BY DEF Active, ActiveBurn, BurnListInv
<1>2. PICK b \in GoodBurn, V \in GoodVault :
        /\ b = burnRequests[r] /\ V = vaults[b.lpVault]
        /\ b.lpVault \in Vault /\ b.user \in Account
        /\ b.wsxmrAmount \in Nat /\ b.lockedCollateral \in Nat /\ b.rewardCollateral \in Nat
        /\ b.thresholdAtRequest \in Nat /\ TotalLock(b) \in Nat
  BY <1>1, BurnAndVault
<1>3. PICK cleared \in Nat : /\ cleared = Smaller(b.wsxmrAmount, V.debt)
                             /\ cleared <= b.wsxmrAmount /\ cleared <= V.debt
  BY <1>2, VaultFields, MonusNat
<1>4. PICK out \in Nat : out = Payable(paid) /\ out <= paid
  BY RawOfNorm DEF Payable
<1>5. /\ V.lockedCollateral >= TotalLock(b) /\ V.collateralShares >= out
      /\ globalTotalDebt >= cleared /\ globalTotalDebt' = globalTotalDebt - cleared
      /\ pendingReturns' = PayCollateral(b.user, RawFromNorm(paid))
      /\ UNCHANGED <<abandonedBurns, wsxmr>>
      /\ globalPendingBurnDebt' = Monus(globalPendingBurnDebt, b.wsxmrAmount)
  BY <1>2, <1>3, <1>4 DEF SettleAgainstDebt, CloseBurn
<1>6. PICK W : W = [V EXCEPT !.lockedCollateral = V.lockedCollateral - TotalLock(b),
                             !.collateralShares = V.collateralShares - out,
                             !.debt = V.debt - cleared]
  OBVIOUS
<1>7. vaults' = [vaults EXCEPT ![b.lpVault] = W]
  BY <1>1, <1>2, <1>3, <1>4, <1>6 DEF TypeInv, SettleAgainstDebt
<1>8. /\ SameTerms(V, W) /\ W.pendingDebt = V.pendingDebt
      /\ W.pendingMintCount = V.pendingMintCount
      /\ W.lockedCollateral = V.lockedCollateral - TotalLock(b)
      /\ W.collateralShares = V.collateralShares - out
      /\ W.debt = V.debt - cleared
  BY <1>6 DEF SameTerms, GoodVault, VaultRecord
<1>9. c \in GoodBurn /\ W \in GoodVault /\ BurnStep(r, b, c, V, W)
  BY <1>1, <1>2, <1>7, <1>8, BurnStepMade DEF Active
<1>10. ~Active(c) /\ Active(b) /\ c = burnRequests'[r] /\ c.wsxmrAmount = b.wsxmrAmount
  BY <1>1, <1>2 DEF Active, ActiveBurn, SameBurn, TypeInv
<1>11. PendingBurnBooks(b, c)
  BY <1>1, <1>2, <1>5, <1>10 DEF PendingBurnBooks, Part, TypeInv, Monus
<1>12. BurnLockBooks(b, c, V, W)
  BY <1>2, <1>4, <1>5, <1>8, <1>10, VaultFields DEF BurnLockBooks, Part, FreeCollateral, Monus
<1>13. BurnDebtBooks(r, b, c, V, W)
  <2>1. r \in BurnsHeld
    BY <1>2, <1>10, HeldStatus
  <2>2. r \notin BurnsHeld'
    <3>1. r \notin abandonedBurns
      BY <1>2, <1>10 DEF AbandonedCancelled, Active, ActiveBurn
    <3>2. QED BY <1>5, <1>10, <3>1 DEF BurnsHeld, BurnsInFlight, Active
  <2>3. Supply' = Supply /\ Supply \in Nat /\ globalTotalDebt \in Nat /\ V.debt \in Nat
    BY <1>1, <1>5, TotalsSame, TotalsNat, VaultFields DEF TypeInv
  <2>4. W.debt <= V.debt /\ W.debt + globalTotalDebt = V.debt + globalTotalDebt'
    BY <1>3, <1>5, <1>8, <2>3
  <2>5. Supply' + 0 + globalTotalDebt <= Supply + b.wsxmrAmount + globalTotalDebt'
    BY <1>2, <1>3, <1>5, <2>3
  <2>6. QED BY <2>1, <2>2, <2>4, <2>5 DEF BurnDebtBooks, Part
<1>14. EthReturns' = EthReturns /\ CollateralBooks(V, W)
  <2>1. RawFromNorm(paid) \in Nat
    BY PricesNat
  <2>2. /\ CollateralReturns' = CollateralReturns + RawFromNorm(paid)
        /\ EthReturns' = EthReturns + 0
    BY <1>1, <1>2, <1>5, <2>1, PaySums
  <2>3. EthReturns \in Nat
    BY <1>1, TotalsNat
  <2>4. RawFromNorm(out) = RawFromNorm(paid)
    BY <1>4, <2>1, RawOfNorm DEF Payable
  <2>5. V.collateralShares = W.collateralShares + out
    BY <1>5, <1>8, VaultFields
  <2>6. QED BY <2>2, <2>3, <2>4, <2>5 DEF CollateralBooks
<1>15. BurnCostBooks(b, V, W)
  <2>1. PICK par \in Nat : par = ParCollateral(b.wsxmrAmount, b.thresholdAtRequest)
    BY <1>2, PricesNat
  <2>2. out <= par
    BY <1>2, <1>4, <2>1
  <2>3. V.collateralShares <= W.collateralShares + par
    BY <1>4, <1>5, <1>8, <2>1, <2>2, VaultFields
  <2>4. b.wsxmrAmount <= V.debt => V.debt = W.debt + b.wsxmrAmount
    BY <1>2, <1>3, <1>8, VaultFields, SMTT(30) DEF Smaller
  <2>5. QED BY <1>10, <2>1, <2>3, <2>4 DEF BurnCostBooks
<1>16. QED BY <1>9, <1>11, <1>12, <1>13, <1>14, <1>15 DEF BurnBooks

\* The exits that release the lock and leave the debt.
LEMMA CancelBurnBooks ==
  ASSUME BurnListInv, AbandonedCancelled, TypeInv', NEW r \in ReqId,
         Active(burnRequests[r]), NEW minted \in Nat, CancelBurn(r, minted),
         \/ minted = burnRequests[r].wsxmrAmount /\ UNCHANGED abandonedBurns
         \/ minted = 0,
         NEW c, burnRequests' = [burnRequests EXCEPT ![r] = c],
         c.status = "CANCELLED", SameBurn(burnRequests[r], c)
  PROVE  \E b, d \in GoodBurn, V, W \in GoodVault :
           BurnStep(r, b, d, V, W) /\ BurnBooks(r, b, d, V, W)
<1>1. burnRequests[r].status # "INVALID" /\ TypeInv
  BY DEF Active, ActiveBurn, BurnListInv
<1>2. PICK b \in GoodBurn, V \in GoodVault :
        /\ b = burnRequests[r] /\ V = vaults[b.lpVault]
        /\ b.lpVault \in Vault /\ b.user \in Account
        /\ b.wsxmrAmount \in Nat /\ b.lockedCollateral \in Nat /\ b.rewardCollateral \in Nat
        /\ b.thresholdAtRequest \in Nat /\ TotalLock(b) \in Nat
  BY <1>1, BurnAndVault
<1>3. b.vaultLiquidationNonce = V.liquidationNonce
  BY <1>2 DEF BurnListInv, ListedInFlight, Active
<1>4. /\ V.lockedCollateral >= TotalLock(b)
      /\ wsxmr' = [wsxmr EXCEPT ![b.user] = @ + minted]
      /\ UNCHANGED <<globalTotalDebt, pendingReturns>>
      /\ globalPendingBurnDebt' = Monus(globalPendingBurnDebt, b.wsxmrAmount)
  BY <1>2, <1>3 DEF CancelBurn, CloseBurn
<1>5. PICK W : W = [V EXCEPT !.lockedCollateral = V.lockedCollateral - TotalLock(b)]
  OBVIOUS
<1>6. vaults' = [vaults EXCEPT ![b.lpVault] = W]
  BY <1>1, <1>2, <1>3, <1>5 DEF TypeInv, CancelBurn
<1>7. /\ SameTerms(V, W) /\ W.pendingDebt = V.pendingDebt
      /\ W.pendingMintCount = V.pendingMintCount
      /\ W.lockedCollateral = V.lockedCollateral - TotalLock(b)
      /\ W.collateralShares = V.collateralShares /\ W.debt = V.debt
  BY <1>5 DEF SameTerms, GoodVault, VaultRecord
<1>8. c \in GoodBurn /\ W \in GoodVault /\ BurnStep(r, b, c, V, W)
  BY <1>1, <1>2, <1>6, <1>7, BurnStepMade DEF Active
<1>9. ~Active(c) /\ Active(b) /\ c = burnRequests'[r] /\ c.wsxmrAmount = b.wsxmrAmount
  BY <1>1, <1>2 DEF Active, ActiveBurn, SameBurn, TypeInv
<1>10. PendingBurnBooks(b, c)
  BY <1>1, <1>2, <1>4, <1>9 DEF PendingBurnBooks, Part, TypeInv, Monus
<1>11. BurnLockBooks(b, c, V, W)
  BY <1>2, <1>4, <1>7, <1>9, VaultFields DEF BurnLockBooks, Part, FreeCollateral, Monus
<1>12. BurnDebtBooks(r, b, c, V, W)
  <2>1. r \in BurnsHeld /\ r \notin abandonedBurns
    BY <1>2, <1>9, HeldStatus DEF AbandonedCancelled, Active, ActiveBurn
  <2>2. (minted = b.wsxmrAmount /\ r \notin BurnsHeld') \/ minted = 0
    BY <1>2, <1>9, <2>1 DEF BurnsHeld, BurnsInFlight, Active
  <2>3. Supply' = Supply + minted
    <3>1. wsxmr \in [Account -> Nat] /\ wsxmr' \in [Account -> Nat]
      BY <1>1 DEF TypeInv
    <3>2. /\ wsxmr'[b.user] = wsxmr[b.user] + minted
          /\ \A a \in Account : a # b.user => wsxmr'[a] = wsxmr[a]
      BY <1>2, <1>4, <3>1
    <3>3. Balances(wsxmr') = Balances(wsxmr) + minted
      BY <1>2, <3>1, <3>2, BalanceUpdate
    <3>4. QED BY <3>3 DEF Supply, Balances
  <2>4. Supply \in Nat /\ globalTotalDebt \in Nat /\ V.debt \in Nat
    BY <1>1, TotalsNat, VaultFields DEF TypeInv
  <2>5. W.debt <= V.debt /\ W.debt + globalTotalDebt = V.debt + globalTotalDebt'
    BY <1>4, <1>7, <2>4
  <2>6. CASE minted = b.wsxmrAmount /\ r \notin BurnsHeld'
    <3>1. Part(r \in BurnsHeld', c.wsxmrAmount) = 0
      BY <2>6 DEF Part
    <3>2. Part(r \in BurnsHeld, b.wsxmrAmount) = b.wsxmrAmount
      BY <2>1 DEF Part
    <3>3. QED BY <1>2, <1>4, <2>3, <2>4, <2>5, <2>6, <3>1, <3>2 DEF BurnDebtBooks
  <2>7. CASE minted = 0
    <3>1. /\ Part(r \in BurnsHeld', c.wsxmrAmount) \in Nat
          /\ Part(r \in BurnsHeld', c.wsxmrAmount) <= b.wsxmrAmount
      BY <1>2, <1>9 DEF Part
    <3>2. Part(r \in BurnsHeld, b.wsxmrAmount) = b.wsxmrAmount
      BY <2>1 DEF Part
    <3>3. QED BY <1>2, <1>4, <2>3, <2>4, <2>5, <2>7, <3>1, <3>2 DEF BurnDebtBooks
  <2>8. QED BY <2>2, <2>6, <2>7
<1>13. EthReturns' = EthReturns /\ CollateralBooks(V, W)
  BY <1>1, <1>4, <1>7, TotalsSame, NothingLost
<1>14. QED BY <1>7, <1>8, <1>10, <1>11, <1>12, <1>13 DEF BurnBooks, BurnCostBooks

\* The steps that only move the status of a burn, or give an abandoned one back.
LEMMA BurnProgressBooks ==
  ASSUME TypeInv, TypeInv', NEW r \in ReqId, burnRequests[r].status # "INVALID",
         NEW c, burnRequests' = [burnRequests EXCEPT ![r] = c], c.status # "INVALID",
         SameBurn(burnRequests[r], c), Active(c) <=> Active(burnRequests[r]),
         UNCHANGED <<vaults, globalPendingBurnDebt, globalTotalDebt, pendingReturns>>,
         \/ UNCHANGED <<abandonedBurns, wsxmr>>
         \/ /\ r \in abandonedBurns /\ abandonedBurns' = abandonedBurns \ {r} /\ ~Active(c)
            /\ wsxmr' = [wsxmr EXCEPT ![burnRequests[r].user] = @ + burnRequests[r].wsxmrAmount]
  PROVE  \E b, d \in GoodBurn, V, W \in GoodVault :
           BurnStep(r, b, d, V, W) /\ BurnBooks(r, b, d, V, W)
<1>1. PICK b \in GoodBurn, V \in GoodVault :
        /\ b = burnRequests[r] /\ V = vaults[b.lpVault]
        /\ b.lpVault \in Vault /\ b.user \in Account
        /\ b.wsxmrAmount \in Nat /\ b.lockedCollateral \in Nat /\ b.rewardCollateral \in Nat
        /\ b.thresholdAtRequest \in Nat /\ TotalLock(b) \in Nat
  BY BurnAndVault
<1>2. vaults' = [vaults EXCEPT ![b.lpVault] = V]
  BY <1>1 DEF TypeInv
<1>3. c \in GoodBurn /\ BurnStep(r, b, c, V, V)
  BY <1>1, <1>2, BurnStepMade DEF SameTerms, Active
<1>4. /\ c = burnRequests'[r] /\ c.wsxmrAmount = b.wsxmrAmount /\ TotalLock(c) = TotalLock(b)
      /\ Active(c) <=> Active(b)
  BY <1>1 DEF SameBurn, TypeInv, TotalLock
<1>5. PendingBurnBooks(b, c)
  BY <1>4 DEF PendingBurnBooks, Part
<1>6. BurnLockBooks(b, c, V, V)
  BY <1>4, VaultFields DEF BurnLockBooks, Part
<1>7. BurnDebtBooks(r, b, c, V, V)
  <2>1. Supply \in Nat /\ globalTotalDebt \in Nat /\ V.debt \in Nat
    BY TotalsNat, VaultFields DEF TypeInv
  <2>2. CASE UNCHANGED <<abandonedBurns, wsxmr>>
    <3>1. r \in BurnsHeld' <=> r \in BurnsHeld
      BY <1>1, <1>4, <2>2 DEF BurnsHeld, BurnsInFlight, Active
    <3>2. Supply' = Supply
      BY <2>2, TotalsSame
    <3>3. Part(r \in BurnsHeld', c.wsxmrAmount) = Part(r \in BurnsHeld, b.wsxmrAmount)
          /\ Part(r \in BurnsHeld, b.wsxmrAmount) \in Nat
      BY <1>1, <1>4, <3>1 DEF Part
    <3>4. QED BY <2>1, <3>2, <3>3 DEF BurnDebtBooks
  <2>3. CASE /\ r \in abandonedBurns /\ abandonedBurns' = abandonedBurns \ {r} /\ ~Active(c)
             /\ wsxmr' = [wsxmr EXCEPT ![b.user] = @ + b.wsxmrAmount]
    <3>1. r \in BurnsHeld /\ r \notin BurnsHeld'
      BY <1>4, <2>3 DEF BurnsHeld, BurnsInFlight, Active
    <3>2. wsxmr \in [Account -> Nat] /\ wsxmr' \in [Account -> Nat]
      BY DEF TypeInv
    <3>3. /\ wsxmr'[b.user] = wsxmr[b.user] + b.wsxmrAmount
          /\ \A a \in Account : a # b.user => wsxmr'[a] = wsxmr[a]
      BY <1>1, <2>3, <3>2
    <3>4. Balances(wsxmr') = Balances(wsxmr) + b.wsxmrAmount
      BY <1>1, <3>2, <3>3, BalanceUpdate
    <3>5. Supply' = Supply + b.wsxmrAmount
      BY <3>4 DEF Supply, Balances
    <3>6. /\ Part(r \in BurnsHeld', c.wsxmrAmount) = 0
          /\ Part(r \in BurnsHeld, b.wsxmrAmount) = b.wsxmrAmount
      BY <3>1 DEF Part
    <3>7. QED BY <1>1, <2>1, <3>5, <3>6 DEF BurnDebtBooks
  <2>4. QED BY <1>1, <2>2, <2>3
<1>8. EthReturns' = EthReturns /\ CollateralBooks(V, V)
  BY TotalsSame, NothingLost
<1>9. QED BY <1>3, <1>5, <1>6, <1>7, <1>8 DEF BurnBooks, BurnCostBooks

\* A requested burn locks what its books say, and destroys the tokens it burns.
LEMMA RequestBurnBooks ==
  ASSUME BurnListInv, AbandonedCancelled, TypeInv', NEW u \in Burners, NEW v \in Vault,
         NEW amount \in BurnAmounts, RequestBurn(u, v, amount)
  PROVE  \E r \in ReqId, b, d \in GoodBurn, V, W \in GoodVault :
           BurnStep(r, b, d, V, W) /\ BurnBooks(r, b, d, V, W)
<1>1. TypeInv /\ u \in Account /\ amount \in Nat
  BY PartsAssumption, AmountsAssumption DEF BurnListInv
<1>2. PICK V \in GoodVault : V = vaults[v]
  BY <1>1 DEF TypeInv
<1>3. PICK lock \in Nat, reward \in Nat :
        lock = BurnLock(V, amount) /\ reward = BurnReward(V, amount)
  BY <1>1, BurnPrices
<1>4. PICK r \in ReqId : r = requestNonce + 1 /\ requestNonce \in Nat
  <2>1. requestNonce \in 0..MaxRequests /\ requestNonce < MaxRequests
    BY <1>1 DEF TypeInv, RequestBurn
  <2>2. QED BY <2>1, SizesAssumption DEF ReqId
<1>5. PICK b \in GoodBurn : b = burnRequests[r]
  BY <1>1 DEF TypeInv
<1>6. b.status = "INVALID" /\ r \notin abandonedBurns
  BY <1>4, <1>5 DEF BurnListInv, RequestsFresh, AbandonedCancelled
<1>7. PICK c : c = [EmptyBurn EXCEPT !.status = "REQUESTED", !.user = u, !.lpVault = v,
                      !.wsxmrAmount = amount, !.lockedCollateral = lock,
                      !.rewardCollateral = reward, !.deadline = block + V.burnTimeout,
                      !.vaultLiquidationNonce = V.liquidationNonce,
                      !.thresholdAtRequest = V.threshold]
  OBVIOUS
<1>8. /\ c.status = "REQUESTED" /\ c.lpVault = v /\ c.wsxmrAmount = amount
      /\ c.lockedCollateral = lock /\ c.rewardCollateral = reward
  BY <1>7 DEF EmptyBurn
<1>9. burnRequests' = [burnRequests EXCEPT ![r] = c]
  BY <1>2, <1>3, <1>4, <1>7 DEF RequestBurn
<1>10. PICK W : W = [V EXCEPT !.lockedCollateral = V.lockedCollateral + (lock + reward)]
  OBVIOUS
<1>11. vaults' = [vaults EXCEPT ![v] = W]
  BY <1>1, <1>2, <1>3, <1>10 DEF TypeInv, RequestBurn
<1>12. /\ SameTerms(V, W) /\ W.pendingDebt = V.pendingDebt
       /\ W.pendingMintCount = V.pendingMintCount
       /\ W.lockedCollateral = V.lockedCollateral + (lock + reward)
       /\ W.collateralShares = V.collateralShares /\ W.debt = V.debt
  BY <1>10 DEF SameTerms, GoodVault, VaultRecord
<1>13. c = burnRequests'[r] /\ c \in GoodBurn /\ W \in GoodVault
  <2>1. c = burnRequests'[r] /\ W = vaults'[v]
    BY <1>1, <1>9, <1>11 DEF TypeInv
  <2>2. QED BY <2>1 DEF TypeInv
<1>14. /\ V.active /\ ~Blocked(v) /\ FreeCollateral(V) >= lock + reward
       /\ wsxmr[u] >= amount /\ wsxmr' = [wsxmr EXCEPT ![u] = @ - amount]
       /\ globalPendingBurnDebt' = globalPendingBurnDebt + amount
       /\ UNCHANGED <<abandonedBurns, globalTotalDebt, pendingReturns>>
  BY <1>2, <1>3 DEF RequestBurn
<1>15. BurnStep(r, b, c, V, W)
  BY <1>2, <1>4, <1>5, <1>6, <1>8, <1>9, <1>11, <1>12, <1>14 DEF BurnStep
<1>16. Active(c) /\ ~Active(b)
  BY <1>6, <1>8 DEF Active, ActiveBurn
<1>17. PendingBurnBooks(b, c)
  BY <1>1, <1>8, <1>14, <1>16 DEF PendingBurnBooks, Part, TypeInv
<1>18. BurnLockBooks(b, c, V, W)
  BY <1>8, <1>12, <1>14, <1>16, VaultFields
  DEF BurnLockBooks, Part, TotalLock, FreeCollateral, Monus
<1>19. BurnDebtBooks(r, b, c, V, W)
  <2>1. wsxmr \in [Account -> Nat] /\ wsxmr' \in [Account -> Nat]
    BY <1>1 DEF TypeInv
  <2>2. /\ wsxmr[u] = wsxmr'[u] + amount
        /\ \A a \in Account : a # u => wsxmr[a] = wsxmr'[a]
    BY <1>1, <1>14, <2>1
  <2>3. Balances(wsxmr) = Balances(wsxmr') + amount
    BY <1>1, <2>1, <2>2, BalanceUpdate
  <2>4. Balances(wsxmr) \in Nat /\ Balances(wsxmr') \in Nat
    BY <2>1, BalancesNat
  <2>5. Supply = Balances(wsxmr) /\ Supply' = Balances(wsxmr')
    BY DEF Supply, Balances
  <2>6. Part(r \in BurnsHeld, b.wsxmrAmount) = 0
    BY <1>5, <1>6, <1>16, HeldStatus DEF Part
  <2>7. Part(r \in BurnsHeld', c.wsxmrAmount) = amount
    BY <1>8, <1>13, <1>16 DEF Part, BurnsHeld, BurnsInFlight, Active
  <2>8. globalTotalDebt \in Nat /\ V.debt \in Nat
    BY <1>1, VaultFields DEF TypeInv
  <2>9. QED BY <1>1, <1>12, <1>14, <2>3, <2>4, <2>5, <2>6, <2>7, <2>8 DEF BurnDebtBooks
<1>20. EthReturns' = EthReturns /\ CollateralBooks(V, W)
  BY <1>1, <1>12, <1>14, TotalsSame, NothingLost
<1>21. QED BY <1>12, <1>13, <1>15, <1>17, <1>18, <1>19, <1>20 DEF BurnBooks, BurnCostBooks

\* What a slash pays is locked for it, and neither it nor the reward exceeds par.
LEMMA SlashPayoutBound ==
  ASSUME NEW b \in GoodBurn
  PROVE  /\ SlashPayout(b) \in Nat /\ SlashPayout(b) <= b.lockedCollateral
         /\ b.lockedCollateral <= TotalLock(b) /\ b.rewardCollateral <= TotalLock(b)
         /\ ParCollateral(b.wsxmrAmount, b.thresholdAtRequest) \in Nat
         /\ SlashPayout(b) <= ParCollateral(b.wsxmrAmount, b.thresholdAtRequest)
         /\ b.rewardCollateral <= ParCollateral(b.wsxmrAmount, b.thresholdAtRequest)
<1>1. /\ b.wsxmrAmount \in Nat /\ b.lockedCollateral \in Nat /\ b.rewardCollateral \in Nat
      /\ b.thresholdAtRequest \in Nat
  BY BurnFields
<1>2. ParCollateral(b.wsxmrAmount, b.thresholdAtRequest) \in Nat
  BY <1>1, PricesNat
<1>3. /\ SlashPayout(b) \in Nat /\ SlashPayout(b) <= b.lockedCollateral
      /\ SlashPayout(b) <= ParCollateral(b.wsxmrAmount, b.thresholdAtRequest)
  BY <1>1, <1>2, MonusNat DEF SlashPayout
<1>4. b.rewardCollateral <= ParCollateral(b.wsxmrAmount, b.thresholdAtRequest)
  BY BurnFields
<1>5. QED BY <1>1, <1>2, <1>3, <1>4 DEF TotalLock

\* Every step of a burn but the first.
BurnAction(r) ==
  \/ ProposeHash(r) \/ ConfirmMoneroLock(r) \/ RevealBurnSecret(r)
  \/ SettleBurn(r) \/ ClaimSlashedCollateral(r) \/ ForceSettleBurn(r)
  \/ AbortBurn(r) \/ ResolveDeclinedProposal(r) \/ ResolveAbandonedProposal(r)
  \/ AbandonProposedBurn(r)

\* Every step of a burn after the first keeps the books.
LEMMA BurnActionBooks ==
  ASSUME BurnListInv, AbandonedCancelled, TypeInv', NEW r \in ReqId, BurnAction(r)
  PROVE  /\ \E b, d \in GoodBurn, V, W \in GoodVault :
              BurnStep(r, b, d, V, W) /\ BurnBooks(r, b, d, V, W)
         /\ BurnUnchanged
<1>1. TypeInv /\ BurnUnchanged
  BY DEF BurnListInv, BurnAction, ProposeHash, ConfirmMoneroLock, RevealBurnSecret, SettleBurn,
         ClaimSlashedCollateral, ForceSettleBurn, AbortBurn, ResolveDeclinedProposal,
         ResolveAbandonedProposal, AbandonProposedBurn
<1>2. PICK b \in GoodBurn : b = burnRequests[r]
  BY <1>1 DEF TypeInv
<1>3. CASE \/ ProposeHash(r) \/ ConfirmMoneroLock(r) \/ RevealBurnSecret(r)
           \/ ResolveAbandonedProposal(r)
  <2>1. PICK c : /\ burnRequests' = [burnRequests EXCEPT ![r] = c]
                 /\ \/ /\ ProposeHash(r)
                       /\ c = [b EXCEPT !.status = "PROPOSED",
                                        !.deadline = block + BurnCommitTimeout]
                    \/ /\ ConfirmMoneroLock(r)
                       /\ c = [b EXCEPT !.status = "COMMITTED",
                                        !.deadline = block + BurnCommitTimeout]
                    \/ RevealBurnSecret(r) /\ c = [b EXCEPT !.lpSecret = TRUE]
                    \/ ResolveAbandonedProposal(r) /\ c = [b EXCEPT !.userSecret = TRUE]
    BY <1>1, <1>2, <1>3
    DEF TypeInv, ProposeHash, ConfirmMoneroLock, RevealBurnSecret, ResolveAbandonedProposal
  <2>2. /\ SameBurn(b, c) /\ c.status # "INVALID" /\ b.status # "INVALID"
        /\ Active(c) <=> Active(b)
    BY <1>2, <2>1
    DEF SameBurn, GoodBurn, BurnRecord, Active, ActiveBurn, ProposeHash, ConfirmMoneroLock,
        RevealBurnSecret, ResolveAbandonedProposal
  <2>3. /\ UNCHANGED <<vaults, globalPendingBurnDebt, globalTotalDebt, pendingReturns>>
        /\ \/ UNCHANGED <<abandonedBurns, wsxmr>>
           \/ /\ r \in abandonedBurns /\ abandonedBurns' = abandonedBurns \ {r}
              /\ b.status = "CANCELLED"
              /\ wsxmr' = [wsxmr EXCEPT ![b.user] = @ + b.wsxmrAmount]
    BY <1>2, <1>3 DEF ProposeHash, ConfirmMoneroLock, RevealBurnSecret, ResolveAbandonedProposal
  <2>4. b.status = "CANCELLED" => ~Active(c)
    BY <2>2 DEF Active, ActiveBurn
  <2>5. QED BY <1>1, <1>2, <2>1, <2>2, <2>3, <2>4, BurnProgressBooks
<1>4. CASE SettleBurn(r) \/ ClaimSlashedCollateral(r) \/ ForceSettleBurn(r)
  <2>1. b.status # "INVALID" /\ Active(b)
    BY <1>2, <1>4 DEF SettleBurn, ClaimSlashedCollateral, ForceSettleBurn, Active, ActiveBurn
  <2>2. PICK V \in GoodVault : V = vaults[b.lpVault]
    BY <1>1, <1>2, <2>1, BurnAndVault
  <2>3. /\ b.rewardCollateral \in Nat
        /\ Smaller(SlashPayout(b), V.collateralShares) \in Nat
        /\ Smaller(SlashPayout(b), V.collateralShares) <= SlashPayout(b)
        /\ TotalLock(b) \in Nat /\ b.lockedCollateral \in Nat
    BY <1>1, <1>2, <2>1, SlashPayoutBound, VaultFields, MonusNat, BurnAndVault
  <2>4. \E paid \in Nat : /\ paid <= TotalLock(b) /\ SettleAgainstDebt(r, paid)
                         /\ paid <= ParCollateral(b.wsxmrAmount, b.thresholdAtRequest)
    <3>1. CASE SettleBurn(r)
      BY <1>2, <2>3, <3>1, SlashPayoutBound DEF SettleBurn
    <3>2. CASE ClaimSlashedCollateral(r)
      BY <1>2, <2>2, <2>3, <3>2, SlashPayoutBound DEF ClaimSlashedCollateral
    <3>3. CASE ForceSettleBurn(r)
      BY <1>2, <2>3, <3>3, SlashPayoutBound DEF ForceSettleBurn
    <3>4. QED BY <1>4, <3>1, <3>2, <3>3
  <2>5. PICK c : /\ burnRequests' = [burnRequests EXCEPT ![r] = c]
                 /\ \/ c = [b EXCEPT !.status = "COMPLETED", !.lpSecret = TRUE]
                    \/ c = [b EXCEPT !.status = "SLASHED", !.userSecret = TRUE]
                    \/ c = [b EXCEPT !.status = "SLASHED"]
    BY <1>1, <1>2, <1>4 DEF TypeInv, SettleBurn, ClaimSlashedCollateral, ForceSettleBurn
  <2>6. SameBurn(b, c) /\ c.status \in {"COMPLETED", "SLASHED"}
    BY <2>5 DEF SameBurn, GoodBurn, BurnRecord
  <2>7. QED BY <1>1, <1>2, <2>1, <2>4, <2>5, <2>6, SettleAgainstDebtBooks
<1>5. CASE AbortBurn(r) \/ ResolveDeclinedProposal(r) \/ AbandonProposedBurn(r)
  <2>1. Active(b) /\ b.wsxmrAmount \in Nat
    BY <1>2, <1>5, BurnFields
    DEF AbortBurn, ResolveDeclinedProposal, AbandonProposedBurn, Active, ActiveBurn
  <2>2. PICK c : /\ burnRequests' = [burnRequests EXCEPT ![r] = c]
                 /\ \/ c = [b EXCEPT !.status = "CANCELLED", !.userSecret = TRUE]
                    \/ c = [b EXCEPT !.status = "CANCELLED"]
    BY <1>1, <1>2, <1>5 DEF TypeInv, AbortBurn, ResolveDeclinedProposal, AbandonProposedBurn
  <2>3. SameBurn(b, c) /\ c.status = "CANCELLED"
    BY <2>2 DEF SameBurn, GoodBurn, BurnRecord
  <2>4. CASE AbortBurn(r) \/ ResolveDeclinedProposal(r)
    <3>1. CancelBurn(r, b.wsxmrAmount) /\ UNCHANGED abandonedBurns
      BY <1>2, <2>4 DEF AbortBurn, ResolveDeclinedProposal
    <3>2. QED BY <1>1, <1>2, <2>1, <2>2, <2>3, <3>1, CancelBurnBooks
  <2>5. CASE AbandonProposedBurn(r)
    <3>1. CancelBurn(r, 0)
      BY <2>5 DEF AbandonProposedBurn
    <3>2. QED BY <1>1, <1>2, <2>1, <2>2, <2>3, <3>1, CancelBurnBooks
  <2>6. QED BY <1>5, <2>4, <2>5
<1>6. QED BY <1>1, <1>3, <1>4, <1>5 DEF BurnAction

-----------------------------------------------------------------------------
(* A settlement of the burns of a vault. *)

\* What the burns in flight, and those that are owed their tokens, amount to.
InFlight == SumOn(BurnsInFlight, BurnAmount, MaxRequests)
Held == SumOn(BurnsHeld, BurnAmount, MaxRequests)

\* The burns v settles: all of its list, or none.
Settles(v, S) == S = {} \/ S = vaultBurnRequests[v]

\* The amounts and the locks of the burns are naturals.
LEMMA BurnNumbers ==
  ASSUME TypeInv
  PROVE  /\ MaxRequests \in Nat /\ ReqId = 1..MaxRequests
         /\ NatOn(BurnAmount, MaxRequests) /\ NatOn(BurnCollateral, MaxRequests)
<1>1. MaxRequests \in Nat /\ ReqId = 1..MaxRequests
  BY SizesAssumption DEF ReqId
<1>2. \A r \in ReqId : /\ burnRequests[r].wsxmrAmount \in Nat
                       /\ TotalLock(burnRequests[r]) \in Nat
  BY BurnFields, BurnAmountsNat DEF TypeInv
<1>3. QED BY <1>1, <1>2 DEF NatOn, BurnAmount, BurnCollateral

\* A listed burn is cancelled or committed, and holds its lock.
LEMMA ListedSplit ==
  ASSUME BurnListInv, NEW v \in Vault, NEW S, Settles(v, S)
  PROVE  /\ S \subseteq ReqId /\ S \subseteq BurnsInFlight
         /\ \A r : r \in S <=> r \in Cancelled(S) \/ r \in Committed(S)
         /\ \A r : ~(r \in Cancelled(S) /\ r \in Committed(S))
         /\ \A r \in S : burnRequests[r].lpVault = v
         /\ ReleasedLocks(v, S) = SumOn(S, BurnCollateral, MaxRequests)
<1>1. S \subseteq ReqId
  BY DEF BurnListInv, TypeInv, Settles
<1>2. \A r \in S : /\ burnRequests[r].status \in ActiveBurn /\ burnRequests[r].lpVault = v
                   /\ burnRequests[r].vaultLiquidationNonce = vaults[v].liquidationNonce
  BY <1>1 DEF BurnListInv, ListedInFlight, Settles
<1>3. \A r : /\ r \in S <=> r \in Cancelled(S) \/ r \in Committed(S)
             /\ ~(r \in Cancelled(S) /\ r \in Committed(S))
  BY <1>2 DEF Cancelled, Committed, ActiveBurn
<1>4. Committed(S) \cup {r \in Cancelled(S) :
         burnRequests[r].vaultLiquidationNonce = vaults[v].liquidationNonce} = S
  BY <1>2, <1>3
<1>5. ReleasedLocks(v, S) = SumOn(S, BurnCollateral, MaxRequests)
  BY <1>4 DEF ReleasedLocks, BurnCollateral
<1>6. QED BY <1>1, <1>2, <1>3, <1>5 DEF BurnsInFlight

\* The amounts, the locks and the vaults of the burns survive their settlement.
LEMMA SettledBurns ==
  ASSUME BurnListInv, NEW v \in Vault, NEW S, Settles(v, S), SettleBurns(v, S)
  PROVE  /\ BurnAmount' = BurnAmount /\ BurnCollateral' = BurnCollateral
         /\ \A r \in ReqId : r \in BurnsInFlight' <=> r \in BurnsInFlight /\ r \notin S
         /\ \A w \in Vault : \A r \in ReqId : r \in BurnsOf(w)' <=> r \in BurnsOf(w) /\ r \notin S
<1>1. ASSUME NEW r \in ReqId
      PROVE  /\ burnRequests'[r].wsxmrAmount = burnRequests[r].wsxmrAmount
             /\ TotalLock(burnRequests'[r]) = TotalLock(burnRequests[r])
  <2>1. PICK b \in BurnRecord : b = burnRequests[r]
    BY DEF BurnListInv, TypeInv, GoodBurn
  <2>2. \/ burnRequests'[r] = b
        \/ \E s : burnRequests'[r] = [b EXCEPT !.status = s]
    BY <2>1 DEF SettleBurns
  <2>3. QED BY <2>1, <2>2 DEF BurnRecord, TotalLock
<1>2. BurnAmount' = BurnAmount /\ BurnCollateral' = BurnCollateral
  BY <1>1 DEF BurnAmount, BurnCollateral
<1>3. ASSUME NEW r \in ReqId
      PROVE  /\ burnRequests'[r].status \in ActiveBurn
                  <=> burnRequests[r].status \in ActiveBurn /\ r \notin S
             /\ burnRequests'[r].lpVault = burnRequests[r].lpVault
  BY ListedIsSettled DEF Settles
<1>4. QED BY <1>2, <1>3 DEF BurnsInFlight, BurnsOf

\* What is in flight falls by the burns settled, and the lock of their vault with it.
LEMMA SettledInFlight ==
  ASSUME BurnListInv, AbandonedCancelled, NEW v \in Vault, NEW S, Settles(v, S),
         SettleBurns(v, S), UNCHANGED abandonedBurns
  PROVE  /\ AmountOf(S) \in Nat /\ InFlight \in Nat /\ Held \in Nat
         /\ InFlight = InFlight' + AmountOf(S) /\ Held = Held' + AmountOf(S)
         /\ AmountOf(S) = AmountOf(Cancelled(S)) + AmountOf(Committed(S))
         /\ AmountOf(Cancelled(S)) \in Nat /\ AmountOf(Committed(S)) \in Nat
         /\ BurnLocks(v) = BurnLocks(v)' + ReleasedLocks(v, S)
         /\ \A w \in Vault : w # v => BurnLocks(w)' = BurnLocks(w)
<1>1. TypeInv
  BY DEF BurnListInv
<1>2. /\ MaxRequests \in Nat /\ ReqId = 1..MaxRequests
      /\ NatOn(BurnAmount, MaxRequests) /\ NatOn(BurnCollateral, MaxRequests)
  BY <1>1, BurnNumbers
<1>3. /\ S \subseteq BurnsInFlight /\ \A r \in S : burnRequests[r].lpVault = v
      /\ \A r : r \in S <=> r \in Cancelled(S) \/ r \in Committed(S)
      /\ \A r : ~(r \in Cancelled(S) /\ r \in Committed(S))
  BY ListedSplit
<1>4. /\ BurnAmount' = BurnAmount /\ BurnCollateral' = BurnCollateral
      /\ \A r \in ReqId : r \in BurnsInFlight' <=> r \in BurnsInFlight /\ r \notin S
      /\ \A w \in Vault : \A r \in ReqId : r \in BurnsOf(w)' <=> r \in BurnsOf(w) /\ r \notin S
  BY SettledBurns
<1>5. \A T : AmountOf(T) = SumOn(T, BurnAmount, MaxRequests)
  BY DEF AmountOf, BurnAmount
<1>6. \A T : SumOn(T, BurnAmount, MaxRequests) \in Nat /\ SumOn(T, BurnCollateral, MaxRequests) \in Nat
  BY <1>2, SumOnIsNat
<1>7. SumOn(S, BurnAmount, MaxRequests)
        = SumOn(Cancelled(S), BurnAmount, MaxRequests) + SumOn(Committed(S), BurnAmount, MaxRequests)
  BY <1>2, <1>3, SumOnUnion
<1>8. SumOn(BurnsInFlight, BurnAmount, MaxRequests)
        = SumOn(BurnsInFlight', BurnAmount, MaxRequests) + SumOn(S, BurnAmount, MaxRequests)
  <2>1. \A r \in 1..MaxRequests : /\ r \in BurnsInFlight <=> r \in BurnsInFlight' \/ r \in S
                                  /\ ~(r \in BurnsInFlight' /\ r \in S)
    BY <1>2, <1>3, <1>4
  <2>2. QED BY <1>2, <2>1, SumOnUnion
<1>9. SumOn(BurnsHeld, BurnAmount, MaxRequests)
        = SumOn(BurnsHeld', BurnAmount, MaxRequests) + SumOn(S, BurnAmount, MaxRequests)
  <2>1. \A r \in S : r \notin abandonedBurns
    BY <1>3 DEF AbandonedCancelled, BurnsInFlight, ActiveBurn
  <2>2. \A r \in 1..MaxRequests : /\ r \in BurnsHeld <=> r \in BurnsHeld' \/ r \in S
                                  /\ ~(r \in BurnsHeld' /\ r \in S)
    BY <1>2, <1>3, <1>4, <2>1 DEF BurnsHeld
  <2>3. QED BY <1>2, <2>2, SumOnUnion
<1>10. \A w \in Vault : BurnLocks(w)' = SumOn(BurnsOf(w)', BurnCollateral, MaxRequests)
  BY <1>4 DEF BurnLocks
<1>11. SumOn(BurnsOf(v), BurnCollateral, MaxRequests)
         = SumOn(BurnsOf(v)', BurnCollateral, MaxRequests) + SumOn(S, BurnCollateral, MaxRequests)
  <2>1. S \subseteq BurnsOf(v)
    BY <1>3 DEF BurnsOf, BurnsInFlight
  <2>2. \A r \in 1..MaxRequests : /\ r \in BurnsOf(v) <=> r \in BurnsOf(v)' \/ r \in S
                                  /\ ~(r \in BurnsOf(v)' /\ r \in S)
    BY <1>2, <1>4, <2>1
  <2>3. QED BY <1>2, <2>2, SumOnUnion
<1>12. ASSUME NEW w \in Vault, w # v PROVE BurnLocks(w)' = BurnLocks(w)
  <2>1. \A r \in 1..MaxRequests : r \in BurnsOf(w) <=> r \in BurnsOf(w)'
    BY <1>2, <1>3, <1>4, <1>12 DEF BurnsOf
  <2>2. SumOn(BurnsOf(w)', BurnCollateral, MaxRequests) = SumOn(BurnsOf(w), BurnCollateral, MaxRequests)
    BY <1>2, <2>1, SumOnSame
  <2>3. QED BY <1>10, <2>2 DEF BurnLocks
<1>13. ReleasedLocks(v, S) = SumOn(S, BurnCollateral, MaxRequests)
  BY ListedSplit
<1>14. InFlight' = SumOn(BurnsInFlight', BurnAmount, MaxRequests)
       /\ Held' = SumOn(BurnsHeld', BurnAmount, MaxRequests)
  BY <1>4 DEF InFlight, Held
<1>15. QED BY <1>5, <1>6, <1>7, <1>8, <1>9, <1>10, <1>11, <1>12, <1>13, <1>14
           DEF InFlight, Held, BurnLocks

\* The vault after the settlement differs in what it held for the burns.
LEMMA SettledFields ==
  ASSUME TypeInv, NEW v \in Vault, NEW S, NEW V \in GoodVault, V = vaults[v]
  PROVE  LET W == SettledVault(v, S) IN
         /\ SameTerms(V, W) /\ W.pendingDebt = V.pendingDebt
         /\ W.pendingMintCount = V.pendingMintCount
         /\ W.lockedCollateral = Monus(V.lockedCollateral, ReleasedLocks(v, S))
         /\ W.collateralShares = Monus(V.collateralShares, Outflows(S))
         /\ W.debt = Monus(V.debt, AmountOf(Committed(S)))
<1>1. PICK l, c, d : /\ l = Monus(V.lockedCollateral, ReleasedLocks(v, S))
                     /\ c = Monus(V.collateralShares, Outflows(S))
                     /\ d = Monus(V.debt, AmountOf(Committed(S)))
  OBVIOUS
<1>2. SettledVault(v, S) =
        [V EXCEPT !.lockedCollateral = l, !.collateralShares = c, !.debt = d]
  BY <1>1 DEF SettledVault, GoodVault, VaultRecord
<1>3. QED BY <1>1, <1>2 DEF SameTerms, GoodVault, VaultRecord

\* A burn takes no more out of the vault than its lock, and is paid no more than
\* it takes out.
LEMMA OutflowBound ==
  ASSUME NEW b \in GoodBurn
  PROVE  /\ Outflow(b) \in Nat /\ Outflow(b) <= TotalLock(b)
         /\ \A left \in Nat :
              LET paid == IF b.lpSecret THEN RawFromNorm(Smaller(b.rewardCollateral, left))
                          ELSE RawFromNorm(SlashPayout(b) + b.rewardCollateral)
              IN  /\ paid \in Nat /\ NormFromRaw(paid) <= Outflow(b)
                  /\ CollateralScale = 1 /\ Outflow(b) <= left => NormFromRaw(paid) = Outflow(b)
<1>1. /\ b.rewardCollateral \in Nat /\ SlashPayout(b) \in Nat /\ TotalLock(b) \in Nat
      /\ SlashPayout(b) + b.rewardCollateral <= TotalLock(b)
      /\ b.rewardCollateral <= TotalLock(b)
  BY SlashPayoutBound, BurnFields DEF TotalLock
<1>2. PICK x \in Nat : x = SlashPayout(b) + b.rewardCollateral
  BY <1>1
<1>3. Payable(x) \in Nat /\ Payable(x) <= x
  BY RawOfNorm DEF Payable
<1>4. Outflow(b) = IF b.lpSecret THEN b.rewardCollateral ELSE Payable(x)
  BY <1>2 DEF Outflow
<1>5. Outflow(b) \in Nat /\ Outflow(b) <= TotalLock(b)
  BY <1>1, <1>2, <1>3, <1>4
<1>6. ASSUME NEW left \in Nat, NEW paid,
             paid = IF b.lpSecret THEN RawFromNorm(Smaller(b.rewardCollateral, left))
                    ELSE RawFromNorm(x)
      PROVE  /\ paid \in Nat /\ NormFromRaw(paid) <= Outflow(b)
             /\ CollateralScale = 1 /\ Outflow(b) <= left => NormFromRaw(paid) = Outflow(b)
  <2>1. CASE b.lpSecret
    <3>1. PICK y \in Nat : /\ y = Smaller(b.rewardCollateral, left) /\ y <= b.rewardCollateral
                           /\ b.rewardCollateral <= left => y = b.rewardCollateral
      BY <1>1 DEF Smaller
    <3>2. paid = RawFromNorm(y) /\ paid \in Nat /\ NormFromRaw(paid) \in Nat
          /\ NormFromRaw(paid) <= y
      BY <1>6, <2>1, <3>1, PricesNat, RawOfNorm
    <3>3. CollateralScale = 1 => NormFromRaw(paid) = y
      BY <3>2, <3>1 DEF RawFromNorm, NormFromRaw
    <3>4. QED BY <1>1, <1>4, <2>1, <3>1, <3>2, <3>3
  <2>2. CASE ~b.lpSecret
    <3>1. paid = RawFromNorm(x) /\ paid \in Nat
      BY <1>6, <2>2, PricesNat
    <3>2. NormFromRaw(paid) = Outflow(b)
      BY <1>4, <2>2, <3>1 DEF Payable
    <3>3. QED BY <1>5, <3>1, <3>2
  <2>3. QED BY <2>1, <2>2
<1>7. QED BY <1>2, <1>5, <1>6

\* What settlements take out are naturals, burn by burn and summed.
LEMMA OutflowNumbers ==
  ASSUME TypeInv
  PROVE  /\ NatOn([r \in ReqId |-> Outflow(burnRequests[r])], MaxRequests)
         /\ \A T : Outflows(T) \in Nat
<1>1. \A r \in ReqId : Outflow(burnRequests[r]) \in Nat
  BY OutflowBound DEF TypeInv
<1>2. NatOn([r \in ReqId |-> Outflow(burnRequests[r])], MaxRequests)
  BY <1>1, BurnNumbers DEF NatOn
<1>3. QED BY <1>2, SettlementSums, SumOnIsNat, BurnNumbers DEF Outflows

\* What a settlement takes out of a vault was locked.
LEMMA SettledOutflows ==
  ASSUME BurnListInv, NEW v \in Vault, NEW S, Settles(v, S)
  PROVE  Outflows(S) \in Nat /\ ReleasedLocks(v, S) \in Nat /\ Outflows(S) <= ReleasedLocks(v, S)
<1> DEFINE f == [r \in ReqId |-> Outflow(burnRequests[r])]
<1>1. TypeInv
  BY DEF BurnListInv
<1>2. MaxRequests \in Nat /\ ReqId = 1..MaxRequests /\ NatOn(BurnCollateral, MaxRequests)
      /\ NatOn(f, MaxRequests)
  BY <1>1, BurnNumbers, OutflowNumbers
<1>3. \A r \in 1..MaxRequests :
        r \in Committed(S) => r \in S /\ f[r] <= BurnCollateral[r]
  <2>1. \A r \in ReqId : Outflow(burnRequests[r]) <= TotalLock(burnRequests[r])
    BY <1>1, OutflowBound DEF TypeInv
  <2>2. QED BY <1>2, <2>1 DEF BurnCollateral, Committed
<1>4. Outflows(S) = SumOn(Committed(S), f, MaxRequests)
  BY DEF Outflows
<1>5. ReleasedLocks(v, S) = SumOn(S, BurnCollateral, MaxRequests)
  BY ListedSplit
<1> HIDE DEF f
<1>6. SumOn(Committed(S), f, MaxRequests) <= SumOn(S, BurnCollateral, MaxRequests)
  BY <1>2, <1>3, SumOnLE
<1>7. QED BY <1>1, <1>4, <1>5, <1>6, SettlementSums, OutflowNumbers

\* The tokens of the cancelled burns come back, to their users.
LEMMA SettledSupply ==
  ASSUME BurnListInv, NEW v \in Vault, NEW S, Settles(v, S)
  PROVE  Balances(SettledBalances(S)) = Supply + AmountOf(Cancelled(S))
<1> DEFINE n == NumVaults + NumUsers
           u == [r \in ReqId |-> burnRequests[r].user]
           T == Cancelled(S)
           O == [a \in Account |-> {r \in T : burnRequests[r].user = a}]
           g == [a \in Account |-> AmountOf(O[a])]
           h == SettledBalances(S)
<1>1. TypeInv
  BY DEF BurnListInv
<1>2. /\ MaxRequests \in Nat /\ ReqId = 1..MaxRequests /\ NatOn(BurnAmount, MaxRequests)
      /\ n \in Nat /\ Account = 1..n /\ NatOn(wsxmr, n)
  BY <1>1, BurnNumbers, AccountIndex, BalancesNat DEF TypeInv
<1>3. T \subseteq ReqId /\ \A r \in T : burnRequests[r].user \in Account
  <2>1. T \subseteq ReqId /\ \A r \in T : burnRequests[r].status # "INVALID"
    BY ListedSplit DEF Cancelled
  <2>2. QED BY <1>1, <2>1, BurnFields DEF TypeInv
<1>4. /\ \A a \in 1..n : g[a] = SumOn(O[a], BurnAmount, MaxRequests)
      /\ \A a \in 1..n : \A r \in 1..MaxRequests : r \in O[a] <=> r \in T /\ u[r] = a
  BY <1>2, <1>3 DEF AmountOf, BurnAmount
<1>5. \A r \in 1..MaxRequests : r \in T => u[r] \in 1..n
  BY <1>2, <1>3
<1>6. \A a \in 1..n : h[a] = wsxmr[a] + g[a]
  BY <1>2 DEF SettledBalances
<1>7. Balances(h) = Sum(h, n) /\ Supply = Sum(wsxmr, n)
  BY DEF Balances, Supply
<1>8. AmountOf(T) = SumOn(T, BurnAmount, MaxRequests)
  BY DEF AmountOf, BurnAmount
<1> HIDE DEF n, u, T, O, g, h
<1>9. NatOn(g, n) /\ Sum(g, n) = SumOn(T, BurnAmount, MaxRequests)
  <2>1. OwnedBy(O, u, T, n, MaxRequests) /\ SumsOf(g, O, BurnAmount, n, MaxRequests)
    BY <1>4, <1>5 DEF OwnedBy, SumsOf
  <2>2. QED BY <1>2, <2>1, SumByOwner
<1>10. Sum(h, n) = Sum(wsxmr, n) + Sum(g, n)
  BY <1>2, <1>6, <1>9, SumAdd
<1>11. QED BY <1>7, <1>8, <1>9, <1>10 DEF T, h

\* The users of the committed burns are paid, in collateral.
Payments(v, S) == SumOn(Committed(S), [r \in ReqId |-> PaidRaw(v, S, r)], MaxRequests)

\* A settlement adds what it pays to the returns of the collateral, and no ETH.
LEMMA SettledPayments ==
  ASSUME BurnListInv, NEW v \in Vault, NEW S, Settles(v, S)
  PROVE  /\ Payments(v, S) \in Nat
         /\ CollateralIn(SettledReturns(v, S)) = CollateralReturns + Payments(v, S)
         /\ EthIn(SettledReturns(v, S)) = EthReturns
<1> DEFINE n == NumVaults + NumUsers
           u == [r \in ReqId |-> burnRequests[r].user]
           T == Committed(S)
           paid == [r \in ReqId |-> PaidRaw(v, S, r)]
           O == [a \in Account |-> {r \in T : burnRequests[r].user = a}]
           g == [a \in Account |-> SumOn(O[a], paid, MaxRequests)]
           F == SettledReturns(v, S)
           C == [a \in Account |-> pendingReturns[a].collateral]
           D == [a \in Account |-> F[a].collateral]
<1>1. TypeInv
  BY DEF BurnListInv
<1>2. /\ MaxRequests \in Nat /\ ReqId = 1..MaxRequests
      /\ n \in Nat /\ Account = 1..n /\ NatOn(C, n)
  BY <1>1, BurnNumbers, AccountIndex, ReturnsNat DEF TypeInv
<1>3. NatOn(paid, MaxRequests)
  BY <1>1, <1>2, SettlementSums DEF NatOn
<1>4. T \subseteq ReqId /\ \A r \in T : burnRequests[r].user \in Account
  <2>1. T \subseteq ReqId /\ \A r \in T : burnRequests[r].status # "INVALID"
    BY ListedSplit DEF Committed
  <2>2. QED BY <1>1, <2>1, BurnFields DEF TypeInv
<1>5. /\ \A a \in 1..n : g[a] = SumOn(O[a], paid, MaxRequests)
      /\ \A a \in 1..n : \A r \in 1..MaxRequests : r \in O[a] <=> r \in T /\ u[r] = a
  BY <1>2, <1>4
<1>6. \A r \in 1..MaxRequests : r \in T => u[r] \in 1..n
  BY <1>2, <1>4
<1>7. ASSUME NEW a \in Account
      PROVE  F[a].collateral = pendingReturns[a].collateral + g[a]
             /\ F[a].eth = pendingReturns[a].eth
  <2>1. PICK p \in Returns : p = pendingReturns[a]
    BY <1>1 DEF TypeInv
  <2>2. PICK x : x = SumOn({r \in T : burnRequests[r].user = a}, paid, MaxRequests)
    OBVIOUS
  <2>3. F[a] = [p EXCEPT !.collateral = @ + x]
    BY <2>1, <2>2 DEF SettledReturns
  <2>4. QED BY <2>1, <2>2, <2>3 DEF Returns
<1>8. EthIn(F) = EthReturns
  <2>1. [a \in Account |-> F[a].eth] = [a \in Account |-> pendingReturns[a].eth]
    BY <1>7
  <2>2. QED BY <2>1 DEF EthIn, EthReturns
<1>9. /\ CollateralIn(F) = Sum(D, n) /\ CollateralReturns = Sum(C, n)
      /\ Payments(v, S) = SumOn(T, paid, MaxRequests)
  BY DEF CollateralIn, CollateralReturns, Payments
<1>10. \A a \in 1..n : D[a] = C[a] + g[a]
  BY <1>2, <1>7
<1> HIDE DEF n, u, T, O, paid, g, C, D, F
<1>11. NatOn(g, n) /\ Sum(g, n) = SumOn(T, paid, MaxRequests)
  <2>1. OwnedBy(O, u, T, n, MaxRequests) /\ SumsOf(g, O, paid, n, MaxRequests)
    BY <1>5, <1>6 DEF OwnedBy, SumsOf
  <2>2. QED BY <1>2, <1>3, <2>1, SumByOwner
<1>12. Sum(D, n) = Sum(C, n) + Sum(g, n)
  BY <1>2, <1>10, <1>11, SumAdd
<1>13. SumOn(T, paid, MaxRequests) \in Nat
  BY <1>2, <1>3, SumOnIsNat
<1>14. QED BY <1>8, <1>9, <1>11, <1>12, <1>13 DEF F

\* ... each at most what it takes out of the vault: exactly that when nothing is
\* rounded and the vault holds it all.
LEMMA PaymentsBound ==
  ASSUME BurnListInv, NEW v \in Vault, NEW S, Settles(v, S)
  PROVE  /\ NormFromRaw(Payments(v, S)) \in Nat
         /\ NormFromRaw(Payments(v, S)) <= Outflows(S)
         /\ CollateralScale = 1 /\ Outflows(S) <= vaults[v].collateralShares =>
              NormFromRaw(Payments(v, S)) = Outflows(S)
<1> DEFINE T == Committed(S)
           paid == [r \in ReqId |-> PaidRaw(v, S, r)]
           norm == [r \in ReqId |-> PaidRaw(v, S, r) * CollateralScale]
           out == [r \in ReqId |-> Outflow(burnRequests[r])]
           before(r) == Outflows({q \in S : q < r})
           left(r) == Monus(vaults[v].collateralShares, before(r))
<1>1. TypeInv /\ vaults[v].collateralShares \in Nat
  BY VaultFields DEF BurnListInv, TypeInv
<1>2. /\ MaxRequests \in Nat /\ ReqId = 1..MaxRequests /\ CollateralScale \in Nat
      /\ NatOn(out, MaxRequests)
  BY <1>1, BurnNumbers, OutflowNumbers, RatesAssumption
<1>3. NatOn(paid, MaxRequests) /\ NatOn(norm, MaxRequests)
  <2>1. \A r \in ReqId : PaidRaw(v, S, r) \in Nat /\ PaidRaw(v, S, r) * CollateralScale \in Nat
    BY <1>1, <1>2, SettlementSums, MulNat
  <2>2. QED BY <1>2, <2>1 DEF NatOn
<1>4. \A r \in ReqId : before(r) \in Nat /\ left(r) \in Nat
  BY <1>1, OutflowNumbers, MonusNat
<1>5. ASSUME NEW r \in ReqId
      PROVE  /\ norm[r] <= out[r]
             /\ CollateralScale = 1 /\ out[r] <= left(r) => norm[r] = out[r]
  <2>1. PICK b \in GoodBurn : b = burnRequests[r]
    BY <1>1 DEF TypeInv
  <2>2. PICK p : p = PaidRaw(v, S, r)
    OBVIOUS
  <2>3. p = IF b.lpSecret THEN RawFromNorm(Smaller(b.rewardCollateral, left(r)))
            ELSE RawFromNorm(SlashPayout(b) + b.rewardCollateral)
    BY <2>1, <2>2 DEF PaidRaw
  <2>4. /\ NormFromRaw(p) <= Outflow(b)
        /\ CollateralScale = 1 /\ Outflow(b) <= left(r) => NormFromRaw(p) = Outflow(b)
    BY <1>4, <2>3, OutflowBound
  <2>5. norm[r] = NormFromRaw(p) /\ out[r] = Outflow(b)
    BY <2>1, <2>2 DEF NormFromRaw
  <2>6. QED BY <2>4, <2>5
<1>6. ASSUME CollateralScale = 1, Outflows(S) <= vaults[v].collateralShares, NEW r \in ReqId, r \in T
      PROVE  norm[r] = out[r]
  <2> DEFINE P == Committed({q \in S : q < r})
  <2>1. \A i \in 1..MaxRequests : /\ i \in P \cup {r} <=> i \in P \/ i \in {r}
                                  /\ ~(i \in P /\ i \in {r})
    BY <1>2 DEF Committed
  <2>2. SumOn(P \cup {r}, out, MaxRequests)
          = SumOn(P, out, MaxRequests) + SumOn({r}, out, MaxRequests)
    <3> HIDE DEF P, out
    <3>1. QED BY <1>2, <2>1, SumOnUnion
  <2>3. \A i \in 1..MaxRequests : i \in P \cup {r} => i \in T /\ out[i] <= out[i]
    <3>1. \A i \in 1..MaxRequests : out[i] \in Nat
      BY <1>2 DEF NatOn
    <3>2. \A i \in 1..MaxRequests : i \in P \cup {r} => i \in T
      BY <1>6 DEF Committed
    <3> HIDE DEF P, T, out
    <3>3. QED BY <3>1, <3>2
  <2>4. SumOn(P \cup {r}, out, MaxRequests) <= SumOn(T, out, MaxRequests)
    <3> HIDE DEF P, T, out
    <3>1. QED BY <1>2, <2>3, SumOnLE
  <2>5. out[r] <= SumOn({r}, out, MaxRequests) /\ out[r] \in Nat
    <3> HIDE DEF out
    <3>1. QED BY <1>2, SumOnMember DEF NatOn
  <2>6. before(r) = SumOn(P, out, MaxRequests) /\ Outflows(S) = SumOn(T, out, MaxRequests)
    BY DEF Outflows
  <2>7. SumOn({r}, out, MaxRequests) \in Nat /\ SumOn(T, out, MaxRequests) \in Nat
        /\ SumOn(P, out, MaxRequests) \in Nat
    <3> HIDE DEF P, T, out
    <3>1. QED BY <1>2, SumOnIsNat
  <2>8. out[r] <= left(r)
    <3>1. PICK x \in Nat, y \in Nat, z \in Nat, w \in Nat :
            /\ x = SumOn(P, out, MaxRequests) /\ y = SumOn({r}, out, MaxRequests)
            /\ z = SumOn(T, out, MaxRequests) /\ w = vaults[v].collateralShares
      BY <1>1, <2>7
    <3>2. x + y <= z /\ z <= w
      BY <1>6, <2>2, <2>4, <2>6, <3>1
    <3>3. left(r) = Monus(w, x) /\ out[r] <= y /\ out[r] \in Nat
      BY <2>5, <2>6, <3>1
    <3> HIDE DEF out, left
    <3>4. QED BY <3>2, <3>3 DEF Monus
  <2>9. QED BY <1>5, <1>6, <2>8
<1>7. SumOn(T, norm, MaxRequests) = SumOn(T, paid, MaxRequests) * CollateralScale
  <2>1. \A r \in 1..MaxRequests : r \in T => norm[r] = paid[r] * CollateralScale
    BY <1>2
  <2> HIDE DEF T, paid, norm
  <2>2. QED BY <1>2, <1>3, <2>1, SumOnScale
<1>8. SumOn(T, norm, MaxRequests) <= SumOn(T, out, MaxRequests)
  <2>1. \A r \in 1..MaxRequests : r \in T => r \in T /\ norm[r] <= out[r]
    BY <1>2, <1>5
  <2> HIDE DEF T, norm, out
  <2>2. QED BY <1>2, <1>3, <2>1, SumOnLE
<1>9. CollateralScale = 1 /\ Outflows(S) <= vaults[v].collateralShares =>
        SumOn(T, norm, MaxRequests) = SumOn(T, out, MaxRequests)
  <2> SUFFICES ASSUME CollateralScale = 1, Outflows(S) <= vaults[v].collateralShares
               PROVE  SumOn(T, norm, MaxRequests) = SumOn(T, out, MaxRequests)
    OBVIOUS
  <2>1. \A r \in 1..MaxRequests : r \in T => r \in T /\ out[r] <= norm[r]
    <3>1. \A r \in 1..MaxRequests : out[r] \in Nat
      BY <1>2 DEF NatOn
    <3>2. \A r \in 1..MaxRequests : r \in T => norm[r] = out[r]
      BY <1>2, <1>6
    <3> HIDE DEF T, norm, out
    <3>3. QED BY <3>1, <3>2
  <2> HIDE DEF T, norm, out
  <2>2. SumOn(T, out, MaxRequests) <= SumOn(T, norm, MaxRequests)
    BY <1>2, <1>3, <2>1, SumOnLE
  <2>3. SumOn(T, out, MaxRequests) \in Nat /\ SumOn(T, norm, MaxRequests) \in Nat
    BY <1>2, <1>3, SumOnIsNat
  <2>4. QED BY <1>8, <2>2, <2>3
<1>10. SumOn(T, norm, MaxRequests) \in Nat
  BY <1>2, <1>3, SumOnIsNat
<1>11. /\ NormFromRaw(Payments(v, S)) = SumOn(T, paid, MaxRequests) * CollateralScale
       /\ Outflows(S) = SumOn(T, out, MaxRequests)
  BY DEF Payments, NormFromRaw, Outflows
<1> HIDE DEF T, paid, norm, out
<1>12. QED BY <1>7, <1>8, <1>9, <1>10, <1>11

-----------------------------------------------------------------------------
(* The sums over the vaults. *)

Debts == Sum([v \in Vault |-> vaults[v].debt], NumVaults)
Holding(v) == vaults[v].collateralShares + vaultKicks[v].bond
Holdings == Sum([v \in Vault |-> Holding(v)], NumVaults)

\* The debts and the holdings of the vaults are naturals, and so are their sums.
LEMMA VaultNumbers ==
  ASSUME TypeInv
  PROVE  /\ NumVaults \in Nat /\ Vault = 1..NumVaults
         /\ NatOn([v \in Vault |-> vaults[v].debt], NumVaults)
         /\ NatOn([v \in Vault |-> Holding(v)], NumVaults)
         /\ Debts \in Nat /\ Holdings \in Nat
<1>1. NumVaults \in Nat /\ Vault = 1..NumVaults
  BY SizesAssumption DEF Vault
<1>2. \A v \in Vault : vaults[v].debt \in Nat /\ Holding(v) \in Nat
  BY VaultFields, KickFields DEF TypeInv, Holding
<1>3. /\ NatOn([v \in Vault |-> vaults[v].debt], NumVaults)
      /\ NatOn([v \in Vault |-> Holding(v)], NumVaults)
  BY <1>1, <1>2 DEF NatOn
<1>4. QED BY <1>1, <1>3, SumNat DEF Debts, Holdings

\* The debt of one vault changes, or of two.
LEMMA DebtsMove ==
  ASSUME TypeInv, TypeInv', NEW v \in Vault, \A w \in Vault : w # v => vaults'[w].debt = vaults[w].debt
  PROVE  Debts' + vaults[v].debt = Debts + vaults'[v].debt
<1> DEFINE f == [w \in Vault |-> vaults[w].debt]
           g == [w \in Vault |-> vaults'[w].debt]
<1>1. NumVaults \in Nat /\ Vault = 1..NumVaults /\ NatOn(f, NumVaults)
  BY VaultNumbers
<1>2. NatOn(g, NumVaults)
  <2>1. \A w \in Vault : vaults'[w].debt \in Nat
    BY VaultFields DEF TypeInv
  <2>2. QED BY <1>1, <2>1 DEF NatOn
<1>3. Debts = Sum(f, NumVaults) /\ Debts' = Sum(g, NumVaults)
  BY DEF Debts
<1>4. /\ f[v] = vaults[v].debt /\ g[v] = vaults'[v].debt
      /\ \A w \in 1..NumVaults : w # v => g[w] = f[w]
  BY <1>1
<1> HIDE DEF f, g
<1>5. Sum(g, NumVaults) + f[v] = Sum(f, NumVaults) + g[v]
  BY <1>1, <1>2, <1>4, SumUpdate
<1>6. QED BY <1>3, <1>4, <1>5

\* When only two vaults change, the sum of the debts changes by theirs.
LEMMA DebtsMoveTwo ==
  ASSUME TypeInv, TypeInv', NEW v \in Vault, NEW u \in Vault, u # v,
         \A w \in Vault : w # v /\ w # u => vaults'[w].debt = vaults[w].debt
  PROVE  Debts' + vaults[v].debt + vaults[u].debt = Debts + vaults'[v].debt + vaults'[u].debt
<1> DEFINE f == [w \in Vault |-> vaults[w].debt]
           g == [w \in Vault |-> vaults'[w].debt]
<1>1. NumVaults \in Nat /\ Vault = 1..NumVaults /\ NatOn(f, NumVaults)
  BY VaultNumbers
<1>2. NatOn(g, NumVaults)
  <2>1. \A w \in Vault : vaults'[w].debt \in Nat
    BY VaultFields DEF TypeInv
  <2>2. QED BY <1>1, <2>1 DEF NatOn
<1>3. Debts = Sum(f, NumVaults) /\ Debts' = Sum(g, NumVaults)
  BY DEF Debts
<1>4. /\ f[v] = vaults[v].debt /\ g[v] = vaults'[v].debt
      /\ f[u] = vaults[u].debt /\ g[u] = vaults'[u].debt
      /\ \A w \in 1..NumVaults : w # v /\ w # u => g[w] = f[w]
  BY <1>1
<1> HIDE DEF f, g
<1>5. Sum(g, NumVaults) + f[v] + f[u] = Sum(f, NumVaults) + g[v] + g[u]
  BY <1>1, <1>2, <1>4, SumUpdateTwo
<1>6. QED BY <1>3, <1>4, <1>5

\* The collateral of one vault, or the bond of its kick, changes, or of two.
LEMMA HoldingsMove ==
  ASSUME TypeInv, TypeInv', NEW v \in Vault, \A w \in Vault : w # v => Holding(w)' = Holding(w)
  PROVE  Holdings' + Holding(v) = Holdings + Holding(v)'
<1> DEFINE f == [w \in Vault |-> Holding(w)]
           g == [w \in Vault |-> Holding(w)']
<1>1. NumVaults \in Nat /\ Vault = 1..NumVaults /\ NatOn(f, NumVaults)
  BY VaultNumbers
<1>2. NatOn(g, NumVaults)
  <2>1. \A w \in Vault : Holding(w)' \in Nat
    BY VaultFields, KickFields DEF TypeInv, Holding
  <2>2. QED BY <1>1, <2>1 DEF NatOn
<1>3. Holdings = Sum(f, NumVaults) /\ Holdings' = Sum(g, NumVaults)
  BY DEF Holdings
<1>4. /\ f[v] = Holding(v) /\ g[v] = Holding(v)'
      /\ \A w \in 1..NumVaults : w # v => g[w] = f[w]
  BY <1>1
<1> HIDE DEF f, g
<1>5. Sum(g, NumVaults) + f[v] = Sum(f, NumVaults) + g[v]
  BY <1>1, <1>2, <1>4, SumUpdate
<1>6. QED BY <1>3, <1>4, <1>5

\* When only two vaults change, the sum of the holdings changes by theirs.
LEMMA HoldingsMoveTwo ==
  ASSUME TypeInv, TypeInv', NEW v \in Vault, NEW u \in Vault, u # v,
         \A w \in Vault : w # v /\ w # u => Holding(w)' = Holding(w)
  PROVE  Holdings' + Holding(v) + Holding(u) = Holdings + Holding(v)' + Holding(u)'
<1> DEFINE f == [w \in Vault |-> Holding(w)]
           g == [w \in Vault |-> Holding(w)']
<1>1. NumVaults \in Nat /\ Vault = 1..NumVaults /\ NatOn(f, NumVaults)
  BY VaultNumbers
<1>2. NatOn(g, NumVaults)
  <2>1. \A w \in Vault : Holding(w)' \in Nat
    BY VaultFields, KickFields DEF TypeInv, Holding
  <2>2. QED BY <1>1, <2>1 DEF NatOn
<1>3. Holdings = Sum(f, NumVaults) /\ Holdings' = Sum(g, NumVaults)
  BY DEF Holdings
<1>4. /\ f[v] = Holding(v) /\ g[v] = Holding(v)' /\ f[u] = Holding(u) /\ g[u] = Holding(u)'
      /\ \A w \in 1..NumVaults : w # v /\ w # u => g[w] = f[w]
  BY <1>1
<1> HIDE DEF f, g
<1>5. Sum(g, NumVaults) + f[v] + f[u] = Sum(f, NumVaults) + g[v] + g[u]
  BY <1>1, <1>2, <1>4, SumUpdateTwo
<1>6. QED BY <1>3, <1>4, <1>5

-----------------------------------------------------------------------------
(* The steps of an auction that settle. *)

\* The vault the opening of an auction leaves.
LEMMA OpenedFields ==
  ASSUME TypeInv, NEW v \in Vault, NEW V \in GoodVault, V = vaults[v]
  PROVE  LET O == OpenedVault(v)
             W == SettledVault(v, ToSettle(v))
         IN  /\ O.registered = V.registered /\ O.active = V.active /\ O.threshold = V.threshold
             /\ O.pendingDebt = V.pendingDebt /\ O.pendingMintCount = V.pendingMintCount
             /\ O.lockedCollateral = W.lockedCollateral
             /\ O.collateralShares = W.collateralShares /\ O.debt = W.debt
             /\ O.liquidationNonce
                  = IF vaultKicks[v].auctionOpened THEN V.liquidationNonce ELSE V.liquidationNonce + 1
             /\ O.mintNonce
                  = IF vaultKicks[v].auctionOpened THEN V.mintNonce ELSE V.mintNonce + 1
<1>1. PICK W \in GoodVault : W = SettledVault(v, ToSettle(v))
  BY SettledVaultGood
<1>2. SameTerms(V, W) /\ W.pendingDebt = V.pendingDebt /\ W.pendingMintCount = V.pendingMintCount
  BY <1>1, SettledFields
<1>3. OpenedVault(v) =
        IF vaultKicks[v].auctionOpened THEN W
        ELSE [W EXCEPT !.liquidationNonce = W.liquidationNonce + 1, !.mintNonce = W.mintNonce + 1]
  BY <1>1 DEF OpenedVault, GoodVault, VaultRecord
<1>4. QED BY <1>1, <1>2, <1>3 DEF SameTerms, GoodVault, VaultRecord

\* A step that settles the burns S of v, whatever else it does.
SettlementStep(v, S) ==
  \/ /\ S = ToSettle(v)
     /\ OpenAuction(v) \/ ResolveKick(v) \/ \E bidder \in Bidders : Bid(bidder, v)
  \/ /\ S = vaultBurnRequests[v]
     /\ \E new \in Backstoppers : BackstopVault(v, new)

\* Each of the four auction steps that settle burns settles them all alike.
LEMMA SettlementStepSettles ==
  ASSUME NEW v \in Vault, NEW S, SettlementStep(v, S)
  PROVE  /\ Settles(v, S) /\ SettleBurns(v, S) /\ KickUnchanged
         /\ UNCHANGED <<abandonedBurns, requestNonce, mintRequests, totalPendingMints, hubEth>>
BY DEF SettlementStep, OpenAuction, ResolveKick, Bid, BackstopVault, BackstopFrozen, BackstopEnded,
       KickUnchanged, ToSettle, Settles, mintVars

\* The debt that a settlement clears leaves the vault and the global debt, its tokens
\* stay burnt; a bidder burns tokens for what debt is left; a takeover moves debt.
LEMMA SettlementStepDebts ==
  ASSUME BurnListInv, TypeInv', NEW v \in Vault, NEW S, SettlementStep(v, S)
  PROVE  \E cleared \in Nat, burnt \in Nat :
           /\ cleared <= AmountOf(Committed(S))
           /\ Debts = Debts' + cleared + burnt
           /\ cleared <= globalTotalDebt
           /\ globalTotalDebt' = Monus(globalTotalDebt - cleared, burnt)
           /\ Supply' + burnt = Supply + AmountOf(Cancelled(S))
<1>1. TypeInv /\ Settles(v, S) /\ SettleBurns(v, S)
  BY SettlementStepSettles DEF BurnListInv
<1>2. PICK V \in GoodVault, W \in GoodVault : V = vaults[v] /\ W = SettledVault(v, S)
  BY <1>1, SettledVaultGood DEF TypeInv
<1>3. PICK c \in Nat : c = AmountOf(Committed(S))
  BY <1>1, SettlementSums
<1>4. W.debt = Monus(V.debt, c) /\ V.debt \in Nat /\ W.debt \in Nat /\ globalTotalDebt \in Nat
  BY <1>1, <1>2, <1>3, SettledFields, VaultFields DEF TypeInv
<1>5. PICK cleared \in Nat : cleared = V.debt - W.debt /\ cleared <= c
  BY <1>3, <1>4 DEF Monus
<1>6. globalTotalDebt >= cleared /\ SettledDebt(v, S) = globalTotalDebt - cleared
  BY <1>1, <1>2, <1>5 DEF SettleBurns, SettledDebt
<1>7. /\ Balances(SettledBalances(S)) = Supply + AmountOf(Cancelled(S))
      /\ SettledBalances(S) \in [Account -> Nat]
      /\ Supply \in Nat /\ AmountOf(Cancelled(S)) \in Nat /\ Debts \in Nat /\ Debts' \in Nat
  <2>1. Debts' \in Nat
    <3>1. \A w \in Vault : vaults'[w].debt \in Nat
      BY VaultFields DEF TypeInv
    <3>2. NatOn([w \in Vault |-> vaults'[w].debt], NumVaults)
      BY <1>1, <3>1, VaultNumbers DEF NatOn
    <3>3. QED BY <1>1, <3>2, VaultNumbers, SumNat DEF Debts
  <2>2. QED BY <1>1, <2>1, SettledSupply, SettledBalancesTyped, TotalsNat, SettlementSums, VaultNumbers
<1>8. vaults \in [Vault -> GoodVault] /\ vaults' \in [Vault -> GoodVault]
  BY <1>1 DEF TypeInv
<1>9. SUFFICES \E burnt \in Nat :
                 /\ Debts = Debts' + cleared + burnt
                 /\ globalTotalDebt' = Monus(globalTotalDebt - cleared, burnt)
                 /\ Supply' + burnt = Supply + AmountOf(Cancelled(S))
  BY <1>3, <1>5, <1>6
<1>10. CASE S = ToSettle(v) /\ (OpenAuction(v) \/ ResolveKick(v))
  <2>1. vaults' = [vaults EXCEPT ![v] = OpenedVault(v)] /\ OpenedVault(v).debt = W.debt
    BY <1>1, <1>2, <1>10, OpenedFields DEF OpenAuction, ResolveKick
  <2>2. vaults'[v].debt = W.debt /\ \A w \in Vault : w # v => vaults'[w].debt = vaults[w].debt
    BY <1>8, <2>1
  <2>3. Debts' + V.debt = Debts + W.debt
    BY <1>1, <1>2, <2>2, DebtsMove
  <2>4. wsxmr' = SettledBalances(S) /\ globalTotalDebt' = SettledDebt(v, S)
    BY <1>10 DEF OpenAuction, ResolveKick
  <2>5. Supply' = Supply + AmountOf(Cancelled(S))
    BY <1>7, <2>4 DEF Supply, Balances
  <2>6. globalTotalDebt' = Monus(globalTotalDebt - cleared, 0)
    BY <1>4, <1>5, <1>6, <2>4 DEF Monus
  <2>7. Debts = Debts' + cleared + 0 /\ Supply' + 0 = Supply + AmountOf(Cancelled(S))
    BY <1>4, <1>5, <1>7, <2>3, <2>5
  <2>8. QED BY <2>6, <2>7
<1>11. CASE S = ToSettle(v) /\ \E bidder \in Bidders : Bid(bidder, v)
  <2>1. PICK bidder \in Bidders : Bid(bidder, v)
    BY <1>11
  <2>2. PICK O \in GoodVault : O = OpenedVault(v) /\ O.debt = W.debt
    BY <1>1, <1>2, <1>11, OpenedVaultGood, OpenedFields
  <2>3. CASE BidNothingOwed(v)
    <3>1. PICK X : X = [O EXCEPT !.collateralShares = @ + vaultKicks[v].bond]
      OBVIOUS
    <3>2. vaults' = [vaults EXCEPT ![v] = X] /\ X.debt = W.debt
      BY <2>2, <2>3, <3>1 DEF BidNothingOwed, GoodVault, VaultRecord
    <3>3. vaults'[v].debt = W.debt /\ \A w \in Vault : w # v => vaults'[w].debt = vaults[w].debt
      BY <1>8, <3>2
    <3>4. Debts' + V.debt = Debts + W.debt
      BY <1>1, <1>2, <3>3, DebtsMove
    <3>5. wsxmr' = SettledBalances(S) /\ globalTotalDebt' = SettledDebt(v, S)
      BY <1>11, <2>3 DEF BidNothingOwed
    <3>6. Supply' = Supply + AmountOf(Cancelled(S))
      BY <1>7, <3>5 DEF Supply, Balances
    <3>7. globalTotalDebt' = Monus(globalTotalDebt - cleared, 0)
      BY <1>4, <1>5, <1>6, <3>5 DEF Monus
    <3>8. Debts = Debts' + cleared + 0 /\ Supply' + 0 = Supply + AmountOf(Cancelled(S))
      BY <1>4, <1>5, <1>7, <3>4, <3>6
    <3>9. QED BY <3>7, <3>8
  <2>4. CASE BidWhole(bidder, v)
    <3>1. \E x : vaults' = [vaults EXCEPT ![v] = [O EXCEPT !.collateralShares = x, !.debt = 0]]
      BY <2>2, <2>4 DEF BidWhole
    <3>2. PICK X : vaults' = [vaults EXCEPT ![v] = X] /\ X.debt = 0
      <4>1. PICK x : vaults' = [vaults EXCEPT ![v] = [O EXCEPT !.collateralShares = x, !.debt = 0]]
        BY <3>1
      <4>2. [O EXCEPT !.collateralShares = x, !.debt = 0].debt = 0
        BY DEF GoodVault, VaultRecord
      <4>3. QED BY <4>1, <4>2
    <3>3. vaults'[v].debt = 0 /\ \A w \in Vault : w # v => vaults'[w].debt = vaults[w].debt
      BY <1>8, <3>2
    <3>4. Debts' + V.debt = Debts + 0
      BY <1>1, <1>2, <3>3, DebtsMove
    <3>5. PICK f : f = SettledBalances(S) /\ f \in [Account -> Nat]
      BY <1>7
    <3>6. /\ f[bidder] >= W.debt /\ wsxmr' = [f EXCEPT ![bidder] = @ - W.debt]
          /\ globalTotalDebt' = Monus(SettledDebt(v, S), W.debt)
      BY <1>11, <2>2, <2>4, <3>5 DEF BidWhole
    <3>7. bidder \in Account /\ wsxmr' \in [Account -> Nat]
      BY PartsAssumption DEF TypeInv
    <3>8. f[bidder] = wsxmr'[bidder] + W.debt /\ \A a \in Account : a # bidder => f[a] = wsxmr'[a]
      BY <1>4, <3>5, <3>6, <3>7
    <3>9. Balances(f) = Balances(wsxmr') + W.debt
      BY <1>4, <3>5, <3>7, <3>8, BalanceUpdate
    <3>10. Supply' + W.debt = Supply + AmountOf(Cancelled(S))
      BY <1>7, <3>5, <3>9 DEF Supply, Balances
    <3>11. Debts = Debts' + cleared + W.debt
      BY <1>4, <1>5, <1>7, <3>4
    <3>12. globalTotalDebt' = Monus(globalTotalDebt - cleared, W.debt)
      BY <1>6, <3>6
    <3>13. QED BY <1>4, <3>10, <3>11, <3>12
  <2>5. QED BY <2>1, <2>3, <2>4 DEF Bid
<1>12. CASE S = vaultBurnRequests[v] /\ \E new \in Backstoppers : BackstopVault(v, new)
  <2>1. PICK new \in Backstoppers : BackstopVault(v, new)
    BY <1>12
  <2>2. new \in Vault /\ new # v
    BY <2>1, PartsAssumption DEF BackstopVault
  <2>3. PICK N \in GoodVault : N = vaults[new]
    BY <1>8, <2>2
  <2>4. PICK P, Q :
          /\ vaults' = [vaults EXCEPT ![new] = P, ![v] = Q]
          /\ P.debt = N.debt + W.debt /\ Q.debt = 0
    <3>1. PICK A, B : /\ Absorb(v, new, A, N)
                      /\ A = W \/ A = [W EXCEPT !.liquidationNonce = OpenedVault(v).liquidationNonce,
                                                !.mintNonce = OpenedVault(v).mintNonce]
                      /\ B = [N EXCEPT !.debt = @ + A.debt,
                                       !.collateralShares = @ + A.collateralShares]
      BY <1>2, <1>12, <2>1, <2>3 DEF BackstopVault, BackstopFrozen, BackstopEnded
    <3>2. A \in VaultRecord \/ A.debt = W.debt
      BY <3>1 DEF GoodVault, VaultRecord
    <3>3. A.debt = W.debt
      BY <3>1 DEF GoodVault, VaultRecord
    <3>4. B.debt = N.debt + W.debt
      BY <3>1, <3>3 DEF GoodVault, VaultRecord
    <3>5. PICK Q : Q = [A EXCEPT !.debt = 0, !.collateralShares = 0, !.lockedCollateral = 0,
                                 !.liquidationNonce = @ + 1, !.mintNonce = @ + 1]
      OBVIOUS
    <3>6. Q.debt = 0
      BY <3>1, <3>5 DEF GoodVault, VaultRecord
    <3>7. vaults' = [vaults EXCEPT ![new] = B, ![v] = Q]
      BY <3>1, <3>5 DEF Absorb
    <3>8. QED BY <3>4, <3>6, <3>7
  <2>5. /\ vaults'[v].debt = 0 /\ vaults'[new].debt = N.debt + W.debt
        /\ \A w \in Vault : w # v /\ w # new => vaults'[w].debt = vaults[w].debt
    BY <1>8, <2>2, <2>4
  <2>6. Debts' + V.debt + N.debt = Debts + 0 + (N.debt + W.debt)
    BY <1>1, <1>2, <2>2, <2>3, <2>5, DebtsMoveTwo
  <2>7. wsxmr' = SettledBalances(S) /\ globalTotalDebt' = SettledDebt(v, S)
    BY <1>12, <2>1 DEF BackstopVault, BackstopFrozen, BackstopEnded
  <2>8. Supply' = Supply + AmountOf(Cancelled(S))
    BY <1>7, <2>7 DEF Supply, Balances
  <2>9. globalTotalDebt' = Monus(globalTotalDebt - cleared, 0)
    BY <1>4, <1>5, <1>6, <2>7 DEF Monus
  <2>10. Debts = Debts' + cleared + 0 /\ Supply' + 0 = Supply + AmountOf(Cancelled(S))
    <3>1. N.debt \in Nat
      BY VaultFields
    <3>2. Debts' + V.debt = Debts + W.debt
      BY <1>4, <1>7, <2>6, <3>1
    <3>3. QED BY <1>4, <1>5, <1>7, <2>8, <3>2
  <2>11. QED BY <2>9, <2>10
<1>13. QED BY <1>10, <1>11, <1>12 DEF SettlementStep

\* A settlement registers no vault, retires none and starts no kick.
LEMMA SettlementStepVaults ==
  ASSUME BurnListInv, NEW v \in Vault, NEW S, SettlementStep(v, S)
  PROVE  \A w \in Vault :
           /\ vaults'[w].registered = vaults[w].registered
           /\ vaults'[w].active = vaults[w].active
           /\ vaults'[w] # vaults[w] => vaults[w].active \/ vaultKicks[w].active
           /\ vaultKicks'[w].active => vaultKicks[w].active
<1>1. TypeInv /\ vaults \in [Vault -> GoodVault] /\ vaultKicks \in [Vault -> GoodKick]
  BY DEF BurnListInv, TypeInv
<1>2. ~NoKick.active
  BY DEF NoKick
<1>3. PICK k \in GoodKick : k = vaultKicks[v]
  BY <1>1
<1>4. CASE S = ToSettle(v) /\ (OpenAuction(v) \/ ResolveKick(v))
  <2>1. vaults' = [vaults EXCEPT ![v] = OpenedVault(v)] /\ k.active
    BY <1>3, <1>4 DEF OpenAuction, ResolveKick
  <2>2. PICK O \in GoodVault : O = OpenedVault(v) /\ O.registered = vaults[v].registered
                               /\ O.active = vaults[v].active
    BY <1>1, OpenedVaultGood, OpenedVaultKeeps
  <2>3. \A w \in Vault : vaultKicks'[w].active => vaultKicks[w].active
    <3>1. CASE OpenAuction(v)
      <4>1. \A w \in Vault : w # v => vaultKicks'[w] = vaultKicks[w]
        BY <1>1, <3>1 DEF OpenAuction
      <4>2. QED BY <1>3, <2>1, <4>1
    <3>2. CASE ResolveKick(v)
      BY <1>1, <1>2, <3>2 DEF ResolveKick, ClearKick
    <3>3. QED BY <1>4, <3>1, <3>2
  <2>4. QED BY <1>1, <1>3, <2>1, <2>2, <2>3
<1>5. CASE S = ToSettle(v) /\ \E bidder \in Bidders : Bid(bidder, v)
  <2>1. PICK bidder \in Bidders : Bid(bidder, v)
    BY <1>5
  <2>2. PICK O \in GoodVault : O = OpenedVault(v) /\ O.registered = vaults[v].registered
                               /\ O.active = vaults[v].active
    BY <1>1, OpenedVaultGood, OpenedVaultKeeps
  <2>3. PICK x, y : vaults' = [vaults EXCEPT ![v] = [O EXCEPT !.collateralShares = x]]
                    \/ vaults' = [vaults EXCEPT ![v] = [O EXCEPT !.collateralShares = y, !.debt = 0]]
    BY <2>1, <2>2 DEF Bid, BidNothingOwed, BidWhole
  <2>4. PICK X : /\ vaults' = [vaults EXCEPT ![v] = X]
                 /\ X.registered = O.registered /\ X.active = O.active
    <3>1. PICK P, Q : /\ P = [O EXCEPT !.collateralShares = x]
                      /\ Q = [O EXCEPT !.collateralShares = y, !.debt = 0]
      OBVIOUS
    <3>2. P.registered = O.registered /\ P.active = O.active
          /\ Q.registered = O.registered /\ Q.active = O.active
      BY <3>1 DEF GoodVault, VaultRecord
    <3>3. QED BY <2>3, <3>1, <3>2
  <2>5. k.active /\ vaultKicks' = [vaultKicks EXCEPT ![v] = NoKick]
    BY <1>3, <2>1 DEF Bid, ClearKick
  <2>6. QED BY <1>1, <1>2, <1>3, <2>2, <2>4, <2>5
<1>6. CASE S = vaultBurnRequests[v] /\ \E new \in Backstoppers : BackstopVault(v, new)
  <2>1. PICK new \in Backstoppers : BackstopVault(v, new)
    BY <1>6
  <2>2. new \in Vault /\ new # v /\ vaults[v].active /\ vaults[new].active
    BY <2>1, PartsAssumption DEF BackstopVault
  <2>3. PICK N \in GoodVault, W \in GoodVault : N = vaults[new] /\ W = SettledVault(v, S)
                                  /\ W.registered = vaults[v].registered /\ W.active = vaults[v].active
    <3>1. S \subseteq ReqId
      BY <1>1, <1>6 DEF TypeInv
    <3>2. PICK V \in GoodVault, W \in GoodVault : V = vaults[v] /\ W = SettledVault(v, S)
      BY <1>1, <3>1, SettledVaultGood
    <3>3. SameTerms(V, W)
      BY <1>1, <3>2, SettledFields
    <3>4. QED BY <1>1, <2>2, <3>2, <3>3 DEF SameTerms
  <2>4. PICK P, Q : /\ vaults' = [vaults EXCEPT ![new] = P, ![v] = Q]
                    /\ P.registered = N.registered /\ P.active = N.active
                    /\ Q.registered = W.registered /\ Q.active = W.active
    <3>1. PICK A, B : /\ Absorb(v, new, A, N)
                      /\ A = W \/ A = [W EXCEPT !.liquidationNonce = OpenedVault(v).liquidationNonce,
                                                !.mintNonce = OpenedVault(v).mintNonce]
                      /\ B = [N EXCEPT !.debt = @ + A.debt,
                                       !.collateralShares = @ + A.collateralShares]
      BY <1>6, <2>1, <2>3 DEF BackstopVault, BackstopFrozen, BackstopEnded
    <3>2. A \in VaultRecord \/ A.active = W.active
      BY <3>1 DEF GoodVault, VaultRecord
    <3>3. A.active = W.active /\ A.registered = W.registered
      BY <3>1 DEF GoodVault, VaultRecord
    <3>4. B.active = N.active /\ B.registered = N.registered
      BY <3>1 DEF GoodVault, VaultRecord
    <3>5. PICK Q : Q = [A EXCEPT !.debt = 0, !.collateralShares = 0, !.lockedCollateral = 0,
                                 !.liquidationNonce = @ + 1, !.mintNonce = @ + 1]
      OBVIOUS
    <3>6. Q.active = W.active /\ Q.registered = W.registered
      BY <3>1, <3>5 DEF GoodVault, VaultRecord
    <3>7. vaults' = [vaults EXCEPT ![new] = B, ![v] = Q]
      BY <3>1, <3>5 DEF Absorb
    <3>8. QED BY <3>4, <3>6, <3>7
  <2>5. \A w \in Vault : /\ w # v /\ w # new => vaults'[w] = vaults[w]
                         /\ w = new => vaults'[w] = P
                         /\ w = v => vaults'[w] = Q
    BY <1>1, <2>2, <2>4
  <2>6. \A w \in Vault : vaultKicks'[w].active => vaultKicks[w].active
    BY <1>1, <1>2, <2>1 DEF BackstopVault, BackstopFrozen, BackstopEnded, ClearKick
  <2>7. QED BY <2>2, <2>3, <2>4, <2>5, <2>6
<1>7. QED BY <1>4, <1>5, <1>6 DEF SettlementStep

\* The returns after a settlement, and a payment x to a.
LEMMA SettledPaid ==
  ASSUME BurnListInv, NEW v \in Vault, NEW S, Settles(v, S), NEW a, NEW x \in Nat,
         \/ pendingReturns' = SettledReturns(v, S) /\ x = 0
         \/ /\ a \in Account
            /\ pendingReturns' = [SettledReturns(v, S) EXCEPT ![a].collateral = @ + x]
  PROVE  /\ CollateralReturns' = CollateralReturns + Payments(v, S) + x
         /\ EthReturns' = EthReturns
<1>1. PICK f \in [Account -> Returns] : f = SettledReturns(v, S)
  BY SettledReturnsTyped DEF BurnListInv
<1>2. /\ CollateralIn(f) = CollateralReturns + Payments(v, S) /\ EthIn(f) = EthReturns
      /\ Payments(v, S) \in Nat /\ CollateralReturns \in Nat /\ EthReturns \in Nat
  BY <1>1, SettledPayments, TotalsNat DEF BurnListInv
<1>3. CollateralReturns' = CollateralIn(pendingReturns') /\ EthReturns' = EthIn(pendingReturns')
  BY DEF CollateralReturns, EthReturns, CollateralIn, EthIn
<1>4. CASE pendingReturns' = f /\ x = 0
  BY <1>2, <1>3, <1>4
<1>5. CASE a \in Account /\ pendingReturns' = [f EXCEPT ![a].collateral = @ + x]
  <2>1. PICK g : g = [f EXCEPT ![a].collateral = @ + x]
    OBVIOUS
  <2>2. g \in [Account -> Returns]
    <3>1. PICK p \in Returns : p = f[a]
      BY <1>5
    <3>2. [p EXCEPT !.collateral = p.collateral + x] \in Returns
      BY DEF Returns
    <3>3. QED BY <2>1, <3>1, <3>2
  <2>3. CollateralIn(g) = CollateralIn(f) + x /\ EthIn(g) = EthIn(f) + 0
    <3>1. PICK e \in Nat : e = 0
      OBVIOUS
    <3>2. CollateralIn(g) = CollateralIn(f) + x /\ EthIn(g) = EthIn(f) + e
      <4>1. a \in Account /\ g \in [Account -> Returns]
        BY <1>5, <2>2
      <4>2. \/ g = [f EXCEPT ![a].collateral = @ + x, ![a].eth = @ + e]
            \/ g = [f EXCEPT ![a].eth = @ + e] /\ x = 0
            \/ g = [f EXCEPT ![a].collateral = @ + x] /\ e = 0
        BY <2>1, <3>1
      <4> HIDE <3>1
      <4>3. QED BY <4>1, <4>2, ReturnsUpdate
    <3>3. QED BY <3>1, <3>2
  <2>4. QED BY <1>2, <1>3, <1>5, <2>1, <2>3
<1>6. QED BY <1>1, <1>4, <1>5

\* The bid: the bidder and the kicker take at most the offer, and the bond of the
\* kick goes to the vault, or back to the kicker.
LEMMA BidWholeMade ==
  ASSUME TypeInv, NEW v \in Vault, NEW bidder, vaultKicks[v].active, BidWhole(bidder, v)
  PROVE  \E k \in GoodKick, O \in GoodVault, bidderRaw \in Nat, chipRaw \in Nat,
            kept \in Nat, back \in Nat : \E X :
           /\ k = vaultKicks[v] /\ k.kicker \in Account /\ O = OpenedVault(v)
           /\ NormFromRaw(bidderRaw) + NormFromRaw(chipRaw) <= Offered(v)
           /\ vaults' = [vaults EXCEPT ![v] = X]
           /\ SameTerms(O, X) /\ X.lockedCollateral = O.lockedCollateral
           /\ X.pendingDebt = O.pendingDebt /\ X.pendingMintCount = O.pendingMintCount
           /\ X.debt = 0
           /\ X.collateralShares
                = Monus(O.collateralShares, NormFromRaw(bidderRaw) + NormFromRaw(chipRaw)) + kept
           /\ pendingReturns' = [SettledReturns(v, ToSettle(v)) EXCEPT
                                   ![k.kicker].collateral = @ + (back + chipRaw)]
           /\ \/ kept = k.bond /\ back = 0
              \/ kept = 0 /\ back = RawFromNorm(k.bond)
           /\ hubCollateral = hubCollateral' + bidderRaw
<1>1. PICK k \in GoodKick : k = vaultKicks[v]
  BY DEF TypeInv
<1>2. k.kicker \in Account /\ k.bond \in Nat
  BY <1>1, KickFields
<1>3. PICK O \in GoodVault, offer \in Nat : O = OpenedVault(v) /\ offer = Offered(v)
  BY OpenedVaultGood
<1>4. PICK x \in Nat : x = CurrentXBps(k) /\ x <= BpsDenominator
  BY CurrentXBpsBound
<1>5. PICK bidderNorm \in Nat :
        bidderNorm = (offer * x) \div BpsDenominator /\ bidderNorm <= offer
  <2>1. offer * x \in Nat
    BY MulNat
  <2>2. (offer * x) \div BpsDenominator \in Nat
    BY <2>1, DivNat, RatesAssumption
  <2>3. (offer * x) \div BpsDenominator <= offer
    BY <1>4, FractionBound, RatesAssumption
  <2>4. QED BY <2>2, <2>3
<1>6. PICK chipNorm \in Nat :
        /\ chipNorm = ((offer - bidderNorm) * ChipBps) \div BpsDenominator
        /\ chipNorm <= offer - bidderNorm
  <2>1. PICK y \in Nat : y = offer - bidderNorm
    BY <1>5
  <2>2. ChipBps \in Nat /\ ChipBps <= BpsDenominator /\ BpsDenominator \in Nat \ {0}
    BY RatesAssumption
  <2>3. y * ChipBps \in Nat
    BY <2>2, MulNat
  <2>4. (y * ChipBps) \div BpsDenominator \in Nat
    BY <2>2, <2>3, DivNat
  <2>5. (y * ChipBps) \div BpsDenominator <= y
    BY <2>2, FractionBound
  <2>6. QED BY <2>1, <2>4, <2>5
<1>7. PICK bidderRaw \in Nat, chipRaw \in Nat :
        bidderRaw = RawFromNorm(bidderNorm) /\ chipRaw = RawFromNorm(chipNorm)
  BY PricesNat
<1>8. NormFromRaw(bidderRaw) + NormFromRaw(chipRaw) <= offer
  <2>1. /\ NormFromRaw(bidderRaw) \in Nat /\ NormFromRaw(chipRaw) \in Nat
        /\ NormFromRaw(bidderRaw) <= bidderNorm /\ NormFromRaw(chipRaw) <= chipNorm
    BY <1>7, RawOfNorm
  <2>2. QED BY <1>5, <1>6, <2>1
<1>9. PICK left \in Nat :
        left = Monus(O.collateralShares, NormFromRaw(bidderRaw) + NormFromRaw(chipRaw))
  <2>1. NormFromRaw(bidderRaw) \in Nat /\ NormFromRaw(chipRaw) \in Nat
    BY PricesNat
  <2>2. NormFromRaw(bidderRaw) + NormFromRaw(chipRaw) \in Nat /\ O.collateralShares \in Nat
    BY <2>1, VaultFields
  <2>3. QED BY <2>2, MonusNat
<1>10. PICK kept \in Nat, back \in Nat :
         /\ kept = IF x <= KickSaneBps THEN k.bond ELSE 0
         /\ back = IF x <= KickSaneBps THEN 0 ELSE RawFromNorm(k.bond)
  BY <1>2, PricesNat
<1>11. PICK X : X = [O EXCEPT !.collateralShares = left + kept, !.debt = 0]
  OBVIOUS
<1>12. /\ SameTerms(O, X) /\ X.lockedCollateral = O.lockedCollateral
       /\ X.pendingDebt = O.pendingDebt /\ X.pendingMintCount = O.pendingMintCount
       /\ X.debt = 0 /\ X.collateralShares = left + kept
  BY <1>11 DEF SameTerms, GoodVault, VaultRecord
<1>13. vaults' = [vaults EXCEPT ![v] = X]
  <2>1. PICK shares : shares = IF x <= KickSaneBps THEN left + k.bond ELSE left
    OBVIOUS
  <2>2. vaults' = [vaults EXCEPT ![v] = [O EXCEPT !.collateralShares = shares, !.debt = 0]]
    BY <1>1, <1>3, <1>4, <1>5, <1>6, <1>7, <1>9, <2>1 DEF BidWhole
  <2>3. shares = left + kept
    BY <1>10, <2>1
  <2>4. QED BY <1>11, <2>2, <2>3
<1>14. pendingReturns' = [SettledReturns(v, ToSettle(v)) EXCEPT
                            ![k.kicker].collateral = @ + (back + chipRaw)]
  <2>1. PICK paid : paid = IF x <= KickSaneBps THEN chipRaw ELSE RawFromNorm(k.bond) + chipRaw
    OBVIOUS
  <2>2. PICK f : f = SettledReturns(v, ToSettle(v))
    OBVIOUS
  <2>3. pendingReturns' = [f EXCEPT ![k.kicker].collateral = @ + paid]
    BY <1>1, <1>3, <1>4, <1>5, <1>6, <1>7, <2>1, <2>2 DEF BidWhole
  <2>4. paid = back + chipRaw
    BY <1>7, <1>10, <2>1
  <2>5. QED BY <2>2, <2>3, <2>4
<1>15. hubCollateral = hubCollateral' + bidderRaw
  <2>1. hubCollateral >= bidderRaw /\ hubCollateral' = hubCollateral - bidderRaw
    BY <1>1, <1>3, <1>4, <1>5, <1>7 DEF BidWhole
  <2>2. QED BY <1>7, <2>1 DEF TypeInv
<1>16. \/ kept = k.bond /\ back = 0
       \/ kept = 0 /\ back = RawFromNorm(k.bond)
  BY <1>10
<1>17. QED BY <1>1, <1>2, <1>3, <1>7, <1>8, <1>9, <1>10, <1>12, <1>13, <1>14, <1>15, <1>16

\* The ETH an account may withdraw is not touched.
LEMMA SettlementStepReturns ==
  ASSUME BurnListInv, NEW v \in Vault, NEW S, SettlementStep(v, S)
  PROVE  EthReturns' = EthReturns
<1>1. Settles(v, S) /\ TypeInv
  BY SettlementStepSettles DEF BurnListInv
<1>2. PICK k \in GoodKick : k = vaultKicks[v]
  BY <1>1 DEF TypeInv
<1>3. k.active => k.kicker \in Account
  BY DEF GoodKick
<1>4. RawFromNorm(k.bond) \in Nat
  BY KickFields, PricesNat
<1>5. CASE S = ToSettle(v) /\ OpenAuction(v)
  BY <1>1, <1>5, SettledPaid DEF OpenAuction
<1>6. CASE S = ToSettle(v) /\ ResolveKick(v)
  <2>1. k.active /\ pendingReturns' =
           [SettledReturns(v, S) EXCEPT ![k.kicker].collateral = @ + RawFromNorm(k.bond)]
    BY <1>2, <1>6 DEF ResolveKick, ResolvedReturns
  <2>2. QED BY <1>1, <1>3, <1>4, <2>1, SettledPaid
<1>7. CASE S = ToSettle(v) /\ \E bidder \in Bidders : Bid(bidder, v)
  <2>1. PICK bidder \in Bidders : Bid(bidder, v)
    BY <1>7
  <2>2. CASE BidNothingOwed(v)
    BY <1>1, <1>7, <2>2, SettledPaid DEF BidNothingOwed
  <2>3. CASE BidWhole(bidder, v)
    <3>1. vaultKicks[v].active
      BY <2>1 DEF Bid
    <3>2. PICK q \in GoodKick, chipRaw \in Nat, back \in Nat :
            /\ q.kicker \in Account
            /\ pendingReturns' = [SettledReturns(v, ToSettle(v)) EXCEPT
                                    ![q.kicker].collateral = @ + (back + chipRaw)]
      BY <1>1, <2>3, <3>1, BidWholeMade
    <3>3. back + chipRaw \in Nat
      OBVIOUS
    <3>4. QED BY <1>1, <1>7, <3>2, <3>3, SettledPaid
  <2>4. QED BY <2>1, <2>2, <2>3 DEF Bid
<1>8. CASE S = vaultBurnRequests[v] /\ \E new \in Backstoppers : BackstopVault(v, new)
  <2>1. PICK new \in Backstoppers : BackstopVault(v, new)
    BY <1>8
  <2>2. CASE BackstopFrozen(v, new)
    BY <1>1, <1>8, <2>2, SettledPaid DEF BackstopFrozen
  <2>3. CASE BackstopEnded(v, new)
    <3>1. k.active /\ pendingReturns' =
             [SettledReturns(v, S) EXCEPT ![k.kicker].collateral = @ + RawFromNorm(k.bond)]
      BY <1>2, <1>8, <2>3 DEF BackstopEnded
    <3>2. QED BY <1>1, <1>3, <1>4, <3>1, SettledPaid
  <2>4. QED BY <2>1, <2>2, <2>3 DEF BackstopVault
<1>9. QED BY <1>5, <1>6, <1>7, <1>8 DEF SettlementStep

-----------------------------------------------------------------------------
(***************************************************************************)
(* The global ledgers of the hub are exact: its debt is the debt of the    *)
(* vaults, its pending burns are those in flight, its tokens are backed by *)
(* debt, and its ETH is what it owes in returns and deposits.  The books   *)
(* above say what a step moves from one ledger to another; here every step *)
(* is shown to move as much out of each sum as into it.                    *)
(***************************************************************************)

\* The deposits the hub holds for the mints.
MintDeposit == [r \in ReqId |-> mintRequests[r].griefingDeposit]
Deposits == SumOn(LiveDeposits, MintDeposit, MaxRequests)

\* A new request gets an id no mint has had.
MintsFresh == \A r \in ReqId : r > requestNonce => mintRequests[r].status = "INVALID"

\* A vault that was never created is empty: it has no kick and no requests.
Unregistered ==
  /\ \A v \in Vault : ~vaults[v].registered => vaults[v] = EmptyVault /\ ~vaultKicks[v].active
  /\ \A r \in ReqId :
       /\ mintRequests[r].status # "INVALID" => vaults[mintRequests[r].lpVault].registered
       /\ burnRequests[r].status # "INVALID" => vaults[burnRequests[r].lpVault].registered

Ledgers ==
  /\ globalTotalDebt = Debts
  /\ globalPendingBurnDebt = InFlight
  /\ Supply + Held <= globalTotalDebt
  /\ hubEth = EthReturns + Deposits

LedgerFacts == AbandonedCancelled /\ MintsFresh /\ Unregistered /\ Ledgers

\* The inductive invariant.
LedgerInv == BurnListInv /\ LedgerFacts

-----------------------------------------------------------------------------
(* The sums over the requests, when one of them changes. *)

\* The amounts of the mint requests are naturals, request by request.
LEMMA MintNumbers ==
  ASSUME TypeInv
  PROVE  /\ MaxRequests \in Nat /\ ReqId = 1..MaxRequests
         /\ NatOn(MintDeposit, MaxRequests) /\ NatOn(MintAmount, MaxRequests)
         /\ NatOn(MintBond, MaxRequests)
<1>1. MaxRequests \in Nat /\ ReqId = 1..MaxRequests
  BY SizesAssumption DEF ReqId
<1>2. \A r \in ReqId : /\ mintRequests[r].griefingDeposit \in Nat
                       /\ mintRequests[r].wsxmrAmount \in Nat
                       /\ mintRequests[r].lockedCollateral \in Nat
  BY DEF TypeInv, GoodMint, MintRecord
<1>3. QED BY <1>1, <1>2 DEF NatOn, MintDeposit, MintAmount, MintBond

\* When one request changes, the deposits held change by its own.
LEMMA DepositsMove ==
  ASSUME TypeInv, TypeInv', NEW r \in ReqId, NEW m, NEW q, m = mintRequests[r],
         mintRequests' = [mintRequests EXCEPT ![r] = q]
  PROVE  /\ Deposits' + Part(m.status \in Deposited, m.griefingDeposit)
              = Deposits + Part(q.status \in Deposited, q.griefingDeposit)
         /\ Deposits \in Nat /\ Deposits' \in Nat
<1> DEFINE f == MintDeposit
           g == [i \in ReqId |-> mintRequests'[i].griefingDeposit]
           S == LiveDeposits
           T == {i \in ReqId : mintRequests'[i].status \in Deposited}
<1>1. /\ mintRequests'[r] = q /\ \A i \in ReqId : i # r => mintRequests'[i] = mintRequests[i]
      /\ mintRequests \in [ReqId -> GoodMint] /\ mintRequests' \in [ReqId -> GoodMint]
  BY DEF TypeInv
<1>2. MaxRequests \in Nat /\ ReqId = 1..MaxRequests /\ NatOn(f, MaxRequests)
  BY MintNumbers
<1>3. NatOn(g, MaxRequests)
  <2>1. \A i \in ReqId : mintRequests'[i].griefingDeposit \in Nat
    BY <1>1 DEF GoodMint, MintRecord
  <2>2. QED BY <1>2, <2>1 DEF NatOn
<1>4. \A i \in 1..MaxRequests : i # r => /\ i \in S <=> i \in T
                                         /\ i \in S => g[i] = f[i]
  BY <1>1, <1>2 DEF LiveDeposits, Deposited, MintDeposit
<1>5. /\ f[r] = m.griefingDeposit /\ g[r] = q.griefingDeposit
      /\ r \in S <=> m.status \in Deposited
      /\ r \in T <=> q.status \in Deposited
  BY <1>1, <1>2 DEF LiveDeposits, Deposited, MintDeposit
<1>6. Deposits = SumOn(S, f, MaxRequests) /\ Deposits' = SumOn(T, g, MaxRequests)
  BY DEF Deposits, MintDeposit, LiveDeposits, Deposited
<1> HIDE DEF f, g, S, T
<1>7. SumOn(T, g, MaxRequests) + (IF r \in S THEN f[r] ELSE 0)
        = SumOn(S, f, MaxRequests) + (IF r \in T THEN g[r] ELSE 0)
  BY <1>2, <1>3, <1>4, SumOnMoves
<1>8. SumOn(S, f, MaxRequests) \in Nat /\ SumOn(T, g, MaxRequests) \in Nat
  BY <1>2, <1>3, SumOnIsNat
<1>9. QED BY <1>5, <1>6, <1>7, <1>8 DEF Part

\* When one burn changes, what is in flight and what is held change by its amount.
LEMMA HeldMove ==
  ASSUME TypeInv, TypeInv', NEW r \in ReqId, NEW b, NEW c, b = burnRequests[r],
         burnRequests' = [burnRequests EXCEPT ![r] = c],
         \A i \in ReqId : i # r => (i \in abandonedBurns' <=> i \in abandonedBurns)
  PROVE  /\ InFlight' + Part(Active(b), b.wsxmrAmount) = InFlight + Part(Active(c), c.wsxmrAmount)
         /\ Held' + Part(r \in BurnsHeld, b.wsxmrAmount)
              = Held + Part(r \in BurnsHeld', c.wsxmrAmount)
         /\ InFlight \in Nat /\ InFlight' \in Nat /\ Held \in Nat /\ Held' \in Nat
<1> DEFINE f == BurnAmount
           g == [i \in ReqId |-> burnRequests'[i].wsxmrAmount]
           S == BurnsInFlight
           T == {i \in ReqId : burnRequests'[i].status \in ActiveBurn}
           A == BurnsHeld
           B == T \cup abandonedBurns'
<1>1. /\ burnRequests'[r] = c /\ \A i \in ReqId : i # r => burnRequests'[i] = burnRequests[i]
      /\ burnRequests' \in [ReqId -> GoodBurn]
  BY DEF TypeInv
<1>2. MaxRequests \in Nat /\ ReqId = 1..MaxRequests /\ NatOn(f, MaxRequests)
  BY BurnNumbers
<1>3. NatOn(g, MaxRequests)
  <2>1. \A i \in ReqId : burnRequests'[i].wsxmrAmount \in Nat
    BY <1>1 DEF GoodBurn, BurnRecord
  <2>2. QED BY <1>2, <2>1 DEF NatOn
<1>4. \A i \in 1..MaxRequests : i # r => /\ i \in S <=> i \in T
                                         /\ i \in S => g[i] = f[i]
  BY <1>1, <1>2 DEF BurnsInFlight, BurnAmount
<1>5. /\ f[r] = b.wsxmrAmount /\ g[r] = c.wsxmrAmount
      /\ r \in S <=> Active(b)
      /\ r \in T <=> Active(c)
  BY <1>1, <1>2 DEF BurnsInFlight, BurnAmount, Active
<1>6. \A i \in 1..MaxRequests : i # r => /\ i \in A <=> i \in B
                                         /\ i \in A => g[i] = f[i]
  BY <1>1, <1>2 DEF BurnsHeld, BurnsInFlight, BurnAmount
<1>7. /\ InFlight = SumOn(S, f, MaxRequests) /\ InFlight' = SumOn(T, g, MaxRequests)
      /\ Held = SumOn(A, f, MaxRequests) /\ Held' = SumOn(B, g, MaxRequests)
      /\ r \in BurnsHeld' <=> r \in B
  BY DEF InFlight, Held, BurnAmount, BurnsInFlight, BurnsHeld
<1>8. r \in BurnsHeld <=> r \in A
  OBVIOUS
<1> HIDE DEF f, g, S, T, A, B
<1>9. SumOn(T, g, MaxRequests) + (IF r \in S THEN f[r] ELSE 0)
        = SumOn(S, f, MaxRequests) + (IF r \in T THEN g[r] ELSE 0)
  BY <1>2, <1>3, <1>4, SumOnMoves, SMTT(30)
<1>10. SumOn(B, g, MaxRequests) + (IF r \in A THEN f[r] ELSE 0)
        = SumOn(A, f, MaxRequests) + (IF r \in B THEN g[r] ELSE 0)
  BY <1>2, <1>3, <1>6, SumOnMoves, SMTT(30)
<1>11. /\ SumOn(S, f, MaxRequests) \in Nat /\ SumOn(T, g, MaxRequests) \in Nat
       /\ SumOn(A, f, MaxRequests) \in Nat /\ SumOn(B, g, MaxRequests) \in Nat
  BY <1>2, <1>3, SumOnIsNat
<1>12. QED BY <1>5, <1>7, <1>8, <1>9, <1>10, <1>11 DEF Part

-----------------------------------------------------------------------------
(* What keeps the facts about the vaults and the ids. *)

\* A step that starts nothing on an unregistered vault keeps those vaults empty.
LEMMA KeepsUnregistered ==
  ASSUME TypeInv, TypeInv', Unregistered,
         \A v \in Vault :
           /\ vaults'[v] = vaults[v] \/ vaults'[v].registered
           /\ vaults[v].registered => vaults'[v].registered
           /\ vaultKicks'[v].active => vaultKicks[v].active \/ vaults[v].registered,
         \A r \in ReqId :
           \/ mintRequests'[r].status = "INVALID"
           \/ mintRequests[r].status # "INVALID" /\ mintRequests'[r].lpVault = mintRequests[r].lpVault
           \/ vaults[mintRequests'[r].lpVault].registered,
         \A r \in ReqId :
           \/ burnRequests'[r].status = "INVALID"
           \/ burnRequests[r].status # "INVALID" /\ burnRequests'[r].lpVault = burnRequests[r].lpVault
           \/ vaults[burnRequests'[r].lpVault].registered
  PROVE  Unregistered'
<1>1. ASSUME NEW v \in Vault, ~vaults'[v].registered
      PROVE  vaults'[v] = EmptyVault /\ ~vaultKicks'[v].active
  BY <1>1 DEF Unregistered
<1>2. ASSUME NEW r \in ReqId, mintRequests'[r].status # "INVALID"
      PROVE  vaults'[mintRequests'[r].lpVault].registered
  <2>1. mintRequests'[r].lpVault \in Vault
    BY <1>2 DEF TypeInv, GoodMint
  <2>2. vaults[mintRequests'[r].lpVault].registered
    BY <1>2 DEF Unregistered
  <2>3. QED BY <2>1, <2>2
<1>3. ASSUME NEW r \in ReqId, burnRequests'[r].status # "INVALID"
      PROVE  vaults'[burnRequests'[r].lpVault].registered
  <2>1. burnRequests'[r].lpVault \in Vault
    BY <1>3 DEF TypeInv, GoodBurn
  <2>2. vaults[burnRequests'[r].lpVault].registered
    BY <1>3 DEF Unregistered
  <2>3. QED BY <2>1, <2>2
<1>4. QED BY <1>1, <1>2, <1>3 DEF Unregistered

\* Steps that leave the requests alone keep the sums over them.
LEMMA RequestsSame ==
  /\ UNCHANGED <<burnRequests, abandonedBurns>> => UNCHANGED <<InFlight, Held>>
  /\ UNCHANGED mintRequests => UNCHANGED Deposits
BY DEF InFlight, Held, BurnsHeld, BurnsInFlight, BurnAmount, Deposits, LiveDeposits, MintDeposit

\* All that the ledgers count are naturals.
LEMMA LedgersNat ==
  ASSUME TypeInv
  PROVE  /\ Debts \in Nat /\ InFlight \in Nat /\ Held \in Nat /\ Deposits \in Nat
         /\ Supply \in Nat /\ EthReturns \in Nat
         /\ globalTotalDebt \in Nat /\ globalPendingBurnDebt \in Nat /\ hubEth \in Nat
<1>1. InFlight \in Nat /\ Held \in Nat /\ Deposits \in Nat
  BY BurnNumbers, MintNumbers, SumOnIsNat DEF InFlight, Held, Deposits
<1>2. QED BY <1>1, VaultNumbers, TotalsNat DEF TypeInv

\* The totals of the next state are naturals too.
LEMMA PrimedTotals ==
  ASSUME TypeInv'
  PROVE  Debts' \in Nat /\ Supply' \in Nat /\ EthReturns' \in Nat /\ CollateralReturns' \in Nat
<1>1. Debts' \in Nat
  <2>1. \A v \in Vault : vaults'[v].debt \in Nat
    BY VaultFields DEF TypeInv
  <2>2. NumVaults \in Nat /\ Vault = 1..NumVaults
    BY SizesAssumption DEF Vault
  <2>3. NatOn([v \in Vault |-> vaults'[v].debt], NumVaults)
    BY <2>1, <2>2 DEF NatOn
  <2>4. QED BY <2>2, <2>3, SumNat DEF Debts
<1>2. wsxmr' \in [Account -> Nat] /\ pendingReturns' \in [Account -> Returns]
  BY DEF TypeInv
<1>3. Supply' \in Nat
  BY <1>2, BalancesNat DEF Supply, Balances
<1>4. EthReturns' \in Nat /\ CollateralReturns' \in Nat
  <2>1. EthIn(pendingReturns') \in Nat /\ CollateralIn(pendingReturns') \in Nat
    BY <1>2, ReturnsNat
  <2>2. QED BY <2>1 DEF EthReturns, CollateralReturns, EthIn, CollateralIn
<1>5. QED BY <1>1, <1>3, <1>4

-----------------------------------------------------------------------------
(* The mints. *)

\* A step of a mint after its first keeps the ledgers.
LEMMA MintActionLedgers ==
  ASSUME LedgerInv, TypeInv', NEW r \in ReqId, MintAction(r)
  PROVE  LedgerFacts'
<1>1. TypeInv /\ AbandonedCancelled /\ MintsFresh /\ Unregistered /\ Ledgers
  BY DEF LedgerInv, LedgerFacts, BurnListInv
<1>2. PICK m, q \in GoodMint, V, W \in GoodVault :
        MintStep(r, m, q, V, W) /\ MintBooks(m, q, V, W)
  BY <1>1, MintActionBooks
<1>3. UNCHANGED <<burnRequests, abandonedBurns, vaultKicks, requestNonce, hubEth,
                  globalPendingBurnDebt>>
  BY <1>1, MintActionBooks DEF MintUnchanged, burnVars, kickVars, hubVars
<1>4. /\ m = mintRequests[r] /\ m.status # "INVALID" /\ V = vaults[m.lpVault]
      /\ mintRequests' = [mintRequests EXCEPT ![r] = q]
      /\ vaults' = [vaults EXCEPT ![m.lpVault] = W]
      /\ q.status # "INVALID" /\ q.lpVault = m.lpVault /\ q.griefingDeposit = m.griefingDeposit
      /\ W.registered = V.registered /\ m.lpVault \in Vault /\ m.griefingDeposit \in Nat
  BY <1>2, MintFields DEF MintStep, SameMint, SameTerms
<1>5. /\ vaults'[m.lpVault] = W /\ \A w \in Vault : w # m.lpVault => vaults'[w] = vaults[w]
      /\ mintRequests'[r] = q /\ \A i \in ReqId : i # r => mintRequests'[i] = mintRequests[i]
  BY <1>1, <1>4 DEF TypeInv
<1>6. AbandonedCancelled'
  BY <1>1, <1>3 DEF AbandonedCancelled
<1>7. MintsFresh'
  BY <1>1, <1>3, <1>4, <1>5 DEF MintsFresh
<1>8. Unregistered'
  <2>1. V.registered
    BY <1>1, <1>4 DEF Unregistered
  <2>2. \A v \in Vault :
          /\ vaults'[v] = vaults[v] \/ vaults'[v].registered
          /\ vaults[v].registered => vaults'[v].registered
          /\ vaultKicks'[v].active => vaultKicks[v].active \/ vaults[v].registered
    BY <1>3, <1>4, <1>5, <2>1
  <2>3. \A i \in ReqId :
          \/ mintRequests'[i].status = "INVALID"
          \/ mintRequests[i].status # "INVALID" /\ mintRequests'[i].lpVault = mintRequests[i].lpVault
          \/ vaults[mintRequests'[i].lpVault].registered
    BY <1>4, <1>5
  <2>4. \A i \in ReqId :
          \/ burnRequests'[i].status = "INVALID"
          \/ burnRequests[i].status # "INVALID" /\ burnRequests'[i].lpVault = burnRequests[i].lpVault
          \/ vaults[burnRequests'[i].lpVault].registered
    BY <1>3
  <2>5. QED BY <1>1, <2>2, <2>3, <2>4, KeepsUnregistered
<1>9. Debts' + V.debt = Debts + W.debt
  BY <1>1, <1>4, <1>5, DebtsMove
<1>10. /\ W.debt >= V.debt /\ W.debt + globalTotalDebt = V.debt + globalTotalDebt'
       /\ W.debt + Supply = V.debt + Supply'
  BY <1>2 DEF MintBooks, DebtBooks
<1>11. /\ EthReturns' + Part(q.status \in Deposited, m.griefingDeposit)
            = EthReturns + Part(m.status \in Deposited, m.griefingDeposit)
       /\ Deposits' + Part(m.status \in Deposited, m.griefingDeposit)
            = Deposits + Part(q.status \in Deposited, m.griefingDeposit)
       /\ Deposits' \in Nat
  <2>1. EthBooks(m, q)
    BY <1>2 DEF MintBooks
  <2>2. /\ Deposits' + Part(m.status \in Deposited, m.griefingDeposit)
             = Deposits + Part(q.status \in Deposited, q.griefingDeposit)
        /\ Deposits' \in Nat
    BY <1>1, <1>4, DepositsMove
  <2>3. QED BY <1>4, <2>1, <2>2 DEF EthBooks
<1>12. /\ Debts \in Nat /\ Held \in Nat /\ Deposits \in Nat /\ Supply \in Nat
       /\ EthReturns \in Nat /\ V.debt \in Nat /\ W.debt \in Nat
       /\ globalTotalDebt \in Nat /\ globalTotalDebt' \in Nat
       /\ Debts' \in Nat /\ Supply' \in Nat /\ EthReturns' \in Nat
  BY <1>1, LedgersNat, VaultFields, PrimedTotals DEF TypeInv
<1>13. InFlight' = InFlight /\ Held' = Held
  BY <1>3, RequestsSame
<1>14. globalTotalDebt' = Debts' /\ Supply' + Held' <= globalTotalDebt'
  <2>1. globalTotalDebt = Debts /\ Supply + Held <= globalTotalDebt
    BY <1>1 DEF Ledgers
  <2>2. globalTotalDebt' = Debts'
    BY <1>9, <1>10, <1>12, <2>1
  <2>3. Supply' + Held <= globalTotalDebt'
    <3>1. PICK s \in Nat, t \in Nat, h \in Nat, g \in Nat, k \in Nat, a \in Nat, b \in Nat :
            /\ s = Supply /\ t = Supply' /\ h = Held /\ g = globalTotalDebt
            /\ k = globalTotalDebt' /\ a = V.debt /\ b = W.debt
      BY <1>12
    <3>2. b + g = a + k /\ b + s = a + t /\ s + h <= g
      BY <1>10, <2>1, <3>1
    <3>3. t + h <= k
      BY <3>2
    <3>4. QED BY <3>1, <3>3
  <2>4. QED BY <1>13, <2>2, <2>3
<1>15. hubEth' = EthReturns' + Deposits'
  <2>1. hubEth = EthReturns + Deposits
    BY <1>1 DEF Ledgers
  <2>2. PICK x \in Nat, y \in Nat : /\ x = Part(q.status \in Deposited, m.griefingDeposit)
                                    /\ y = Part(m.status \in Deposited, m.griefingDeposit)
    BY <1>4 DEF Part
  <2>3. EthReturns' + x = EthReturns + y /\ Deposits' + y = Deposits + x
    BY <1>11, <2>2
  <2>4. PICK e \in Nat, d \in Nat, f \in Nat, g \in Nat :
          e = EthReturns /\ d = Deposits /\ f = EthReturns' /\ g = Deposits'
    BY <1>11, <1>12
  <2>5. f + x = e + y /\ g + y = d + x
    BY <2>3, <2>4
  <2>6. f + g = e + d
    BY <2>5
  <2>7. QED BY <1>3, <2>1, <2>4, <2>6
<1>16. QED BY <1>1, <1>3, <1>6, <1>7, <1>8, <1>13, <1>14, <1>15 DEF LedgerFacts, Ledgers

\* A new request takes the next id, and brings its deposit.
LEMMA InitiateMintLedgers ==
  ASSUME LedgerInv, TypeInv', NEW u \in Minters, NEW recipient \in Recipients, NEW v \in Vault,
         NEW amount \in MintAmounts, NEW value \in EthValues,
         InitiateMint(u, recipient, v, amount, value)
  PROVE  LedgerFacts'
<1>1. TypeInv /\ AbandonedCancelled /\ MintsFresh /\ Unregistered /\ Ledgers /\ ListedRegistered
  BY DEF LedgerInv, LedgerFacts, BurnListInv
<1>2. PICK r \in ReqId : r = requestNonce + 1 /\ requestNonce \in Nat
  <2>1. requestNonce \in 0..MaxRequests /\ requestNonce < MaxRequests
    BY <1>1 DEF TypeInv, InitiateMint
  <2>2. QED BY <2>1, SizesAssumption DEF ReqId
<1>3. PICK m \in GoodMint : m = mintRequests[r]
  BY <1>1 DEF TypeInv
<1>4. m.status = "INVALID"
  BY <1>1, <1>2, <1>3 DEF MintsFresh
<1>5. PICK q : q = [EmptyMint EXCEPT !.status = "PENDING", !.initiator = u, !.recipient = recipient,
                      !.lpVault = v, !.wsxmrAmount = amount,
                      !.feeAmount = (amount * vaults[v].mintFee) \div BpsDenominator,
                      !.timeout = block + vaults[v].mintTimeout, !.griefingDeposit = value,
                      !.vaultMintNonce = vaults[v].mintNonce]
  OBVIOUS
<1>6. q.status = "PENDING" /\ q.lpVault = v /\ q.griefingDeposit = value
  BY <1>5 DEF EmptyMint
<1>7. mintRequests' = [mintRequests EXCEPT ![r] = q]
  BY <1>2, <1>5 DEF InitiateMint
<1>8. mintRequests'[r] = q /\ \A i \in ReqId : i # r => mintRequests'[i] = mintRequests[i]
  BY <1>1, <1>7 DEF TypeInv
<1>9. /\ requestNonce' = requestNonce + 1 /\ hubEth' = hubEth + value /\ value \in Nat
      /\ vaults[v].registered
      /\ UNCHANGED <<burnRequests, abandonedBurns, vaults, vaultKicks, globalTotalDebt,
                     globalPendingBurnDebt, wsxmr, pendingReturns>>
  BY <1>1, <1>2, AmountsAssumption DEF InitiateMint, burnVars, kickVars, ListedRegistered
<1>10. AbandonedCancelled'
  BY <1>1, <1>9 DEF AbandonedCancelled
<1>11. MintsFresh'
  BY <1>1, <1>2, <1>8, <1>9 DEF MintsFresh, ReqId
<1>12. Unregistered'
  <2>1. \A w \in Vault :
          /\ vaults'[w] = vaults[w] \/ vaults'[w].registered
          /\ vaults[w].registered => vaults'[w].registered
          /\ vaultKicks'[w].active => vaultKicks[w].active \/ vaults[w].registered
    BY <1>9
  <2>2. \A i \in ReqId :
          \/ mintRequests'[i].status = "INVALID"
          \/ mintRequests[i].status # "INVALID" /\ mintRequests'[i].lpVault = mintRequests[i].lpVault
          \/ vaults[mintRequests'[i].lpVault].registered
    BY <1>6, <1>8, <1>9
  <2>3. \A i \in ReqId :
          \/ burnRequests'[i].status = "INVALID"
          \/ burnRequests[i].status # "INVALID" /\ burnRequests'[i].lpVault = burnRequests[i].lpVault
          \/ vaults[burnRequests'[i].lpVault].registered
    BY <1>9
  <2>4. QED BY <1>1, <2>1, <2>2, <2>3, KeepsUnregistered
<1>13. Deposits' = Deposits + value
  <2>1. Part(m.status \in Deposited, m.griefingDeposit) = 0
    BY <1>4 DEF Part, Deposited, MintLive, MintBonded
  <2>2. Part(q.status \in Deposited, q.griefingDeposit) = value
    BY <1>6 DEF Part, Deposited
  <2>3. /\ Deposits' + Part(m.status \in Deposited, m.griefingDeposit)
             = Deposits + Part(q.status \in Deposited, q.griefingDeposit)
        /\ Deposits' \in Nat
    BY <1>1, <1>3, <1>7, DepositsMove
  <2>4. QED BY <2>1, <2>2, <2>3
<1>14. Debts' = Debts /\ InFlight' = InFlight /\ Held' = Held /\ Supply' = Supply
       /\ EthReturns' = EthReturns
  BY <1>9, RequestsSame, TotalsSame DEF Debts
<1>15. hubEth' = EthReturns' + Deposits'
  BY <1>1, <1>9, <1>13, <1>14, LedgersNat DEF Ledgers
<1>16. QED BY <1>1, <1>9, <1>10, <1>11, <1>12, <1>14, <1>15 DEF LedgerFacts, Ledgers

\* The mints keep the ledgers.
LEMMA MintNextLedgers ==
  ASSUME LedgerInv, TypeInv', MintNext
  PROVE  LedgerFacts'
BY MintActionLedgers, InitiateMintLedgers DEF MintNext, MintAction

-----------------------------------------------------------------------------
(* The burns. *)

\* What is abandoned changes with the request, and is cancelled.
LEMMA AbandonedMoves ==
  ASSUME TypeInv, AbandonedCancelled, NEW r \in ReqId, BurnAction(r),
         NEW c, burnRequests' = [burnRequests EXCEPT ![r] = c]
  PROVE  /\ \A i \in ReqId : i # r => (i \in abandonedBurns' <=> i \in abandonedBurns)
         /\ AbandonedCancelled'
<1>1. PICK b \in GoodBurn : b = burnRequests[r]
  BY DEF TypeInv
<1>2. burnRequests'[r] = c /\ \A i \in ReqId : i # r => burnRequests'[i] = burnRequests[i]
  BY DEF TypeInv
<1>3. abandonedBurns \subseteq ReqId
  BY DEF TypeInv
<1>4. CASE AbandonProposedBurn(r)
  <2>1. abandonedBurns' = abandonedBurns \cup {r}
        /\ burnRequests' = [burnRequests EXCEPT ![r].status = "CANCELLED"]
    BY <1>4 DEF AbandonProposedBurn
  <2>2. c = [b EXCEPT !.status = "CANCELLED"]
    BY <1>1, <1>2, <2>1 DEF TypeInv
  <2>3. c.status = "CANCELLED"
    BY <2>2 DEF GoodBurn, BurnRecord
  <2>4. QED BY <1>2, <1>3, <2>1, <2>3 DEF AbandonedCancelled
<1>5. CASE ResolveAbandonedProposal(r)
  <2>1. abandonedBurns' = abandonedBurns \ {r}
    BY <1>5 DEF ResolveAbandonedProposal
  <2>2. QED BY <1>2, <1>3, <2>1 DEF AbandonedCancelled
<1>6. CASE ~AbandonProposedBurn(r) /\ ~ResolveAbandonedProposal(r)
  <2>1. UNCHANGED abandonedBurns /\ b.status # "CANCELLED"
    BY <1>1, <1>6 DEF BurnAction, ProposeHash, ConfirmMoneroLock, RevealBurnSecret, SettleBurn,
       ClaimSlashedCollateral, ForceSettleBurn, AbortBurn, ResolveDeclinedProposal,
       SettleAgainstDebt
  <2>2. QED BY <1>1, <1>2, <1>3, <2>1 DEF AbandonedCancelled
<1>7. QED BY <1>4, <1>5, <1>6

\* A step of one burn that keeps its own books keeps the ledgers of the hub.
LEMMA BurnStepLedgers ==
  ASSUME LedgerInv, TypeInv', NEW r \in ReqId, NEW b \in GoodBurn, NEW c \in GoodBurn,
         NEW V \in GoodVault, NEW W \in GoodVault,
         BurnStep(r, b, c, V, W), BurnBooks(r, b, c, V, W), AbandonedCancelled',
         \A i \in ReqId : i # r => (i \in abandonedBurns' <=> i \in abandonedBurns),
         UNCHANGED <<mintRequests, vaultKicks, hubEth>>, requestNonce' >= requestNonce
  PROVE  LedgerFacts'
<1>1. TypeInv /\ MintsFresh /\ Unregistered /\ Ledgers /\ ListedRegistered
  BY DEF LedgerInv, LedgerFacts, BurnListInv
<1>2. /\ b = burnRequests[r] /\ V = vaults[c.lpVault]
      /\ burnRequests' = [burnRequests EXCEPT ![r] = c]
      /\ vaults' = [vaults EXCEPT ![c.lpVault] = W]
      /\ c.status # "INVALID" /\ c.lpVault \in Vault /\ c.wsxmrAmount \in Nat
      /\ b.wsxmrAmount \in Nat /\ W.registered = V.registered
  BY BurnFields DEF BurnStep, SameTerms
<1>3. /\ vaults'[c.lpVault] = W /\ \A w \in Vault : w # c.lpVault => vaults'[w] = vaults[w]
      /\ burnRequests'[r] = c /\ \A i \in ReqId : i # r => burnRequests'[i] = burnRequests[i]
  BY <1>1, <1>2 DEF TypeInv
<1>4. MintsFresh'
  BY <1>1 DEF MintsFresh, TypeInv, ReqId
<1>5. Unregistered'
  <2>1. V.registered
    <3>1. CASE b.status = "INVALID"
      BY <1>1, <1>2, <3>1 DEF BurnStep, ListedRegistered
    <3>2. CASE b.status # "INVALID"
      BY <1>1, <1>2, <3>2 DEF BurnStep, SameBurn, Unregistered
    <3>3. QED BY <3>1, <3>2
  <2>2. \A v \in Vault :
          /\ vaults'[v] = vaults[v] \/ vaults'[v].registered
          /\ vaults[v].registered => vaults'[v].registered
          /\ vaultKicks'[v].active => vaultKicks[v].active \/ vaults[v].registered
    BY <1>2, <1>3, <2>1
  <2>3. \A i \in ReqId :
          \/ mintRequests'[i].status = "INVALID"
          \/ mintRequests[i].status # "INVALID" /\ mintRequests'[i].lpVault = mintRequests[i].lpVault
          \/ vaults[mintRequests'[i].lpVault].registered
    OBVIOUS
  <2>4. \A i \in ReqId :
          \/ burnRequests'[i].status = "INVALID"
          \/ burnRequests[i].status # "INVALID" /\ burnRequests'[i].lpVault = burnRequests[i].lpVault
          \/ vaults[burnRequests'[i].lpVault].registered
    BY <1>2, <1>3, <2>1
  <2>5. QED BY <1>1, <2>2, <2>3, <2>4, KeepsUnregistered
<1>6. Debts' + V.debt = Debts + W.debt
  BY <1>1, <1>2, <1>3, DebtsMove
<1>7. /\ InFlight' + Part(Active(b), b.wsxmrAmount) = InFlight + Part(Active(c), c.wsxmrAmount)
      /\ Held' + Part(r \in BurnsHeld, b.wsxmrAmount) = Held + Part(r \in BurnsHeld', c.wsxmrAmount)
      /\ InFlight \in Nat /\ InFlight' \in Nat /\ Held \in Nat /\ Held' \in Nat
  BY <1>1, <1>2, HeldMove, ZenonT(60)
<1>8. PendingBurnBooks(b, c) /\ BurnDebtBooks(r, b, c, V, W) /\ EthReturns' = EthReturns
  BY DEF BurnBooks
<1>9. PICK x \in Nat, y \in Nat, p \in Nat, q \in Nat :
        /\ x = Part(Active(b), b.wsxmrAmount) /\ y = Part(Active(c), c.wsxmrAmount)
        /\ p = Part(r \in BurnsHeld, b.wsxmrAmount) /\ q = Part(r \in BurnsHeld', c.wsxmrAmount)
  BY <1>2 DEF Part
<1>10. globalPendingBurnDebt' = InFlight'
  <2>1. Active(b) => b.wsxmrAmount <= InFlight
    <3>1. Active(b) => r \in BurnsInFlight /\ BurnAmount[r] = b.wsxmrAmount
      BY <1>2 DEF Active, BurnsInFlight, BurnAmount
    <3>2. r \in BurnsInFlight => BurnAmount[r] <= InFlight
      BY <1>1, BurnNumbers, SumOnMember DEF InFlight
    <3>3. QED BY <3>1, <3>2
  <2>2. globalPendingBurnDebt = InFlight
    BY <1>1 DEF Ledgers
  <2>3. globalPendingBurnDebt' + x = globalPendingBurnDebt + y
    BY <1>8, <1>9, <2>1, <2>2 DEF PendingBurnBooks
  <2>4. PICK g \in Nat : g = globalPendingBurnDebt'
    BY DEF TypeInv
  <2>5. QED BY <1>7, <1>9, <2>2, <2>3, <2>4
<1>11. PICK s \in Nat, t \in Nat, g \in Nat, h \in Nat, d \in Nat, e \in Nat, k \in Nat, l \in Nat :
         /\ s = Supply /\ t = Supply' /\ g = globalTotalDebt /\ h = globalTotalDebt'
         /\ d = Debts /\ e = Debts' /\ k = Held /\ l = Held'
  BY <1>1, <1>7, LedgersNat, PrimedTotals DEF TypeInv
<1>12. PICK m \in Nat, n \in Nat : m = V.debt /\ n = W.debt
  BY VaultFields
<1>13. h = e /\ t + l <= h
  <2>1. g = d /\ s + k <= g
    BY <1>1, <1>11 DEF Ledgers
  <2>2. n + g = m + h /\ t + q + g <= s + p + h
    BY <1>8, <1>9, <1>11, <1>12 DEF BurnDebtBooks
  <2>3. e + m = d + n /\ l + p = k + q
    BY <1>6, <1>7, <1>9, <1>11, <1>12
  <2>4. h = e
    BY <2>1, <2>2, <2>3
  <2>5. t + l <= h
    BY <2>1, <2>2, <2>3
  <2>6. QED BY <2>4, <2>5
<1>14. hubEth' = EthReturns' + Deposits'
  BY <1>1, <1>8, RequestsSame DEF Ledgers
<1>15. QED BY <1>4, <1>5, <1>10, <1>11, <1>13, <1>14 DEF LedgerFacts, Ledgers

\* The burns keep the ledgers.
LEMMA BurnNextLedgers ==
  ASSUME LedgerInv, TypeInv', BurnNext
  PROVE  LedgerFacts'
<1>1. BurnListInv /\ AbandonedCancelled /\ TypeInv
  BY DEF LedgerInv, LedgerFacts, BurnListInv
<1>2. CASE \E u \in Burners, v \in Vault, amount \in BurnAmounts : RequestBurn(u, v, amount)
  <2>1. PICK u \in Burners, v \in Vault, amount \in BurnAmounts : RequestBurn(u, v, amount)
    BY <1>2
  <2>2. PICK r \in ReqId, b \in GoodBurn, c \in GoodBurn, V \in GoodVault, W \in GoodVault :
          BurnStep(r, b, c, V, W) /\ BurnBooks(r, b, c, V, W)
    BY <1>1, <2>1, RequestBurnBooks
  <2>3. /\ UNCHANGED <<mintRequests, vaultKicks, hubEth, abandonedBurns>>
        /\ requestNonce' = requestNonce + 1 /\ requestNonce \in Nat
    BY <1>1, <2>1 DEF RequestBurn, mintVars, kickVars, hubVars, TypeInv
  <2>4. AbandonedCancelled'
    <3>1. \A i \in ReqId : i # requestNonce + 1 => burnRequests'[i] = burnRequests[i]
      BY <1>1, <2>1 DEF RequestBurn, TypeInv
    <3>2. \A i \in ReqId : i = requestNonce + 1 => burnRequests[i].status = "INVALID"
      BY <1>1, <2>3 DEF BurnListInv, RequestsFresh
    <3>3. QED BY <1>1, <2>3, <3>1, <3>2 DEF AbandonedCancelled, TypeInv
  <2>5. QED BY <2>2, <2>3, <2>4, BurnStepLedgers
<1>3. CASE \E r \in ReqId : BurnAction(r)
  <2>1. PICK r \in ReqId : BurnAction(r)
    BY <1>3
  <2>2. PICK b \in GoodBurn, c \in GoodBurn, V \in GoodVault, W \in GoodVault :
          BurnStep(r, b, c, V, W) /\ BurnBooks(r, b, c, V, W)
    BY <1>1, <2>1, BurnActionBooks
  <2>3. BurnUnchanged
    BY <1>1, <2>1, BurnActionBooks
  <2>4. UNCHANGED <<mintRequests, vaultKicks, hubEth, requestNonce>> /\ requestNonce \in Nat
    BY <1>1, <2>3 DEF BurnUnchanged, mintVars, kickVars, hubVars, TypeInv
  <2>5. /\ AbandonedCancelled'
        /\ \A i \in ReqId : i # r => (i \in abandonedBurns' <=> i \in abandonedBurns)
    BY <1>1, <2>1, <2>2, AbandonedMoves DEF BurnStep
  <2>6. QED BY <2>2, <2>4, <2>5, BurnStepLedgers
<1>4. QED BY <1>2, <1>3 DEF BurnNext, BurnAction

-----------------------------------------------------------------------------
(* The settlements, and the kicks. *)

\* What is pending falls by the burns settled, what is held by their tokens, and the
\* debt by what the settlement clears.
LEMMA SettlementLedgers ==
  ASSUME LedgerInv, TypeInv', NEW v \in Vault, NEW S, SettlementStep(v, S)
  PROVE  LedgerFacts'
<1>1. /\ TypeInv /\ BurnListInv /\ AbandonedCancelled /\ MintsFresh /\ Unregistered /\ Ledgers
      /\ ListedRegistered
  BY DEF LedgerInv, LedgerFacts, BurnListInv
<1>2. /\ Settles(v, S) /\ SettleBurns(v, S)
      /\ UNCHANGED <<abandonedBurns, requestNonce, mintRequests, hubEth>>
  BY SettlementStepSettles
<1>3. /\ AmountOf(S) \in Nat /\ InFlight \in Nat /\ Held \in Nat
      /\ InFlight = InFlight' + AmountOf(S) /\ Held = Held' + AmountOf(S)
      /\ AmountOf(S) = AmountOf(Cancelled(S)) + AmountOf(Committed(S))
      /\ AmountOf(Cancelled(S)) \in Nat /\ AmountOf(Committed(S)) \in Nat
  BY <1>1, <1>2, SettledInFlight
<1>4. PICK cleared \in Nat, burnt \in Nat :
        /\ cleared <= AmountOf(Committed(S))
        /\ Debts = Debts' + cleared + burnt
        /\ cleared <= globalTotalDebt
        /\ globalTotalDebt' = Monus(globalTotalDebt - cleared, burnt)
        /\ Supply' + burnt = Supply + AmountOf(Cancelled(S))
  BY <1>1, SettlementStepDebts
<1>5. AbandonedCancelled'
  <2>1. \A r \in abandonedBurns : r \in ReqId /\ r \notin S
    <3>1. S \subseteq ReqId /\ S \subseteq BurnsInFlight
      BY <1>1, <1>2, ListedSplit
    <3>2. QED BY <1>1, <3>1 DEF AbandonedCancelled, BurnsInFlight, ActiveBurn, TypeInv
  <2>2. \A r \in abandonedBurns : burnRequests'[r] = burnRequests[r]
    BY <1>1, <1>2, <2>1, ListedIsSettled DEF Settles
  <2>3. QED BY <1>1, <1>2, <2>2 DEF AbandonedCancelled
<1>6. MintsFresh'
  BY <1>1, <1>2 DEF MintsFresh
<1>7. Unregistered'
  <2>1. \A w \in Vault :
          /\ vaults'[w].registered = vaults[w].registered
          /\ vaults'[w] # vaults[w] => vaults[w].active \/ vaultKicks[w].active
          /\ vaultKicks'[w].active => vaultKicks[w].active
    BY <1>1, SettlementStepVaults
  <2>2. \A w \in Vault :
          /\ vaults'[w] = vaults[w] \/ vaults'[w].registered
          /\ vaults[w].registered => vaults'[w].registered
          /\ vaultKicks'[w].active => vaultKicks[w].active \/ vaults[w].registered
    BY <1>1, <2>1 DEF Unregistered, ListedRegistered
  <2>3. \A i \in ReqId :
          \/ mintRequests'[i].status = "INVALID"
          \/ mintRequests[i].status # "INVALID" /\ mintRequests'[i].lpVault = mintRequests[i].lpVault
          \/ vaults[mintRequests'[i].lpVault].registered
    BY <1>2
  <2>4. \A i \in ReqId :
          \/ burnRequests'[i].status = "INVALID"
          \/ burnRequests[i].status # "INVALID" /\ burnRequests'[i].lpVault = burnRequests[i].lpVault
          \/ vaults[burnRequests'[i].lpVault].registered
    BY <1>1, <1>2, ListedIsSettled DEF Settles
  <2>5. QED BY <1>1, <2>2, <2>3, <2>4, KeepsUnregistered
<1>8. PICK i \in Nat, j \in Nat, h \in Nat, k \in Nat, a \in Nat, c \in Nat, d \in Nat :
        /\ i = InFlight /\ h = Held /\ a = AmountOf(S)
        /\ j = InFlight' /\ k = Held'
        /\ c = AmountOf(Cancelled(S)) /\ d = AmountOf(Committed(S))
  <2>1. InFlight' \in Nat /\ Held' \in Nat
    <3>1. MaxRequests \in Nat /\ NatOn([r \in ReqId |-> burnRequests'[r].wsxmrAmount], MaxRequests)
      <4>1. BurnAmount' = BurnAmount /\ MaxRequests \in Nat /\ NatOn(BurnAmount, MaxRequests)
        BY <1>1, <1>2, SettledBurns, BurnNumbers
      <4>2. BurnAmount' = [r \in ReqId |-> burnRequests'[r].wsxmrAmount]
        BY DEF BurnAmount
      <4>3. QED BY <4>1, <4>2
    <3>2. \A T : SumOn(T, [r \in ReqId |-> burnRequests'[r].wsxmrAmount], MaxRequests) \in Nat
      BY <3>1, SumOnIsNat
    <3>3. QED BY <3>2 DEF InFlight, Held, BurnAmount
  <2>2. QED BY <1>3, <2>1
<1>9. globalPendingBurnDebt' = InFlight'
  <2>1. globalPendingBurnDebt' = Monus(globalPendingBurnDebt, AmountOf(Cancelled(S) \cup Committed(S)))
    BY <1>2 DEF SettleBurns
  <2>2. AmountOf(Cancelled(S) \cup Committed(S)) = AmountOf(S)
    <3>1. \A r : r \in S <=> r \in Cancelled(S) \/ r \in Committed(S)
      BY <1>1, <1>2, ListedSplit
    <3>2. Cancelled(S) \cup Committed(S) = S
      BY <3>1
    <3>3. QED BY <3>2
  <2>3. globalPendingBurnDebt = InFlight
    BY <1>1 DEF Ledgers
  <2>4. i = j + a
    BY <1>3, <1>8
  <2>5. Monus(i, a) = j
    BY <2>4 DEF Monus
  <2>6. QED BY <1>8, <2>1, <2>2, <2>3, <2>5
<1>10. PICK s \in Nat, t \in Nat, g \in Nat, f \in Nat, m \in Nat, n \in Nat :
         /\ s = Supply /\ t = Supply' /\ g = globalTotalDebt /\ f = globalTotalDebt'
         /\ m = Debts /\ n = Debts'
  BY <1>1, LedgersNat, PrimedTotals DEF TypeInv
<1>11. f = n /\ t + k <= f
  <2>1. g = m /\ s + h <= g
    BY <1>1, <1>8, <1>10 DEF Ledgers
  <2>2. cleared <= d /\ m = n + cleared + burnt /\ t + burnt = s + c
    BY <1>4, <1>8, <1>10
  <2>3. f = Monus(g - cleared, burnt)
    BY <1>4, <1>10
  <2>4. h = k + a /\ a = c + d
    BY <1>3, <1>8
  <2>5. g - cleared = n + burnt
    BY <2>1, <2>2
  <2>6. f = n
    BY <2>3, <2>5 DEF Monus
  <2>7. QED BY <2>1, <2>2, <2>4, <2>6
<1>12. hubEth' = EthReturns' + Deposits'
  BY <1>1, <1>2, SettlementStepReturns, RequestsSame DEF Ledgers
<1>13. QED BY <1>5, <1>6, <1>7, <1>8, <1>9, <1>10, <1>11, <1>12 DEF LedgerFacts, Ledgers

\* A kick moves none of this; only a registered vault is kicked.
LEMMA KickLedgers ==
  ASSUME LedgerInv, TypeInv', NEW v \in Vault, NEW kicker, Kick(kicker, v) \/ Reauction(kicker, v)
  PROVE  LedgerFacts'
<1>1. /\ TypeInv /\ AbandonedCancelled /\ MintsFresh /\ Unregistered /\ Ledgers
      /\ ListedRegistered
  BY DEF LedgerInv, LedgerFacts, BurnListInv
<1>2. /\ vaults[v].active /\ \A w \in Vault : w # v => vaultKicks'[w] = vaultKicks[w]
      /\ UNCHANGED <<vaults, mintRequests, burnRequests, abandonedBurns, requestNonce, wsxmr,
                     pendingReturns, globalTotalDebt, globalPendingBurnDebt, hubEth>>
  <2>1. vaultKicks \in [Vault -> GoodKick]
    BY <1>1 DEF TypeInv
  <2>2. QED BY <2>1 DEF Kick, Reauction, StartKick, KickUnchanged, mintVars
<1>3. AbandonedCancelled' /\ MintsFresh'
  BY <1>1, <1>2 DEF AbandonedCancelled, MintsFresh
<1>4. Unregistered'
  <2>1. \A w \in Vault :
          /\ vaults'[w] = vaults[w] \/ vaults'[w].registered
          /\ vaults[w].registered => vaults'[w].registered
          /\ vaultKicks'[w].active => vaultKicks[w].active \/ vaults[w].registered
    BY <1>1, <1>2 DEF ListedRegistered
  <2>2. \A i \in ReqId :
          \/ mintRequests'[i].status = "INVALID"
          \/ mintRequests[i].status # "INVALID" /\ mintRequests'[i].lpVault = mintRequests[i].lpVault
          \/ vaults[mintRequests'[i].lpVault].registered
    BY <1>2
  <2>3. \A i \in ReqId :
          \/ burnRequests'[i].status = "INVALID"
          \/ burnRequests[i].status # "INVALID" /\ burnRequests'[i].lpVault = burnRequests[i].lpVault
          \/ vaults[burnRequests'[i].lpVault].registered
    BY <1>2
  <2>4. QED BY <1>1, <2>1, <2>2, <2>3, KeepsUnregistered
<1>5. Ledgers'
  BY <1>1, <1>2, RequestsSame, TotalsSame DEF Ledgers, Debts
<1>6. QED BY <1>3, <1>4, <1>5 DEF LedgerFacts

\* Kicks, bids, settlements and backstops keep the ledgers.
LEMMA AuctionNextLedgers ==
  ASSUME LedgerInv, TypeInv', AuctionNext
  PROVE  LedgerFacts'
<1>1. CASE \E kicker \in Kickers, v \in Vault : Kick(kicker, v) \/ Reauction(kicker, v)
  BY <1>1, KickLedgers
<1>2. CASE \E v \in Vault : \E S : SettlementStep(v, S)
  BY <1>2, SettlementLedgers
<1>3. AuctionNext =>
        \/ \E kicker \in Kickers, v \in Vault : Kick(kicker, v) \/ Reauction(kicker, v)
        \/ \E v \in Vault : SettlementStep(v, ToSettle(v)) \/ SettlementStep(v, vaultBurnRequests[v])
  BY DEF AuctionNext, SettlementStep
<1>4. QED BY <1>1, <1>2, <1>3

-----------------------------------------------------------------------------
(* The operations of the LPs. *)

\* Nothing an LP does, but a repayment, moves debt; no vault goes back to what it was
\* before its creation.
VaultKept(v) ==
  /\ vaults'[v] = vaults[v] \/ vaults'[v].registered
  /\ vaults[v].registered => vaults'[v].registered
  /\ vaultKicks'[v].active => vaultKicks[v].active
DebtKept == \A v \in Vault : vaults'[v].debt = vaults[v].debt

\* Registering a vault, with or without an eviction, keeps every vault's debt.
LEMMA CreateVaultKept ==
  ASSUME LedgerInv, NEW v \in Vault, CreateVault(v) \/ \E w \in Vault : CreateVaultEvicting(v, w)
  PROVE  (\A w \in Vault : VaultKept(w)) /\ DebtKept
<1>1. vaults \in [Vault -> VaultRecord] /\ ListedRegistered /\ Unregistered
  BY DEF LedgerInv, LedgerFacts, BurnListInv, TypeInv, GoodVault
<1>2. NewVault.registered /\ NewVault.debt = 0
  BY DEF NewVault, EmptyVault
<1>3. ~vaults[v].registered /\ UNCHANGED vaultKicks
  BY DEF CreateVault, CreateVaultEvicting, kickVars
<1>4. vaults[v].debt = 0
  BY <1>1, <1>3 DEF Unregistered, EmptyVault
<1>5. CASE CreateVault(v)
  BY <1>1, <1>2, <1>3, <1>4, <1>5 DEF CreateVault, VaultKept, DebtKept
<1>6. CASE \E w \in Vault : CreateVaultEvicting(v, w)
  <2>1. PICK w \in Vault : CreateVaultEvicting(v, w)
    BY <1>6
  <2>2. w # v /\ vaults[w].registered
    BY <1>1, <1>3, <2>1 DEF CreateVaultEvicting, IsVaultEvictable, ListedRegistered
  <2>3. PICK W \in VaultRecord : W = vaults[w]
    BY <1>1
  <2>4. PICK E : E = [W EXCEPT !.collateralShares = 0, !.active = FALSE]
    OBVIOUS
  <2>5. vaults' = [vaults EXCEPT ![v] = NewVault, ![w] = E]
    BY <1>1, <2>1, <2>2, <2>3, <2>4 DEF CreateVaultEvicting
  <2>6. E.debt = W.debt /\ E.registered = W.registered
    BY <2>4 DEF VaultRecord
  <2>7. QED BY <1>1, <1>2, <1>3, <1>4, <2>2, <2>3, <2>5, <2>6 DEF VaultKept, DebtKept
<1>7. QED BY <1>5, <1>6

\* One vault changes, in neither its registration nor its debt.
LEMMA OneVaultLedgers ==
  ASSUME vaults \in [Vault -> VaultRecord], NEW v, NEW W,
         vaults' = [vaults EXCEPT ![v] = W], v \in Vault,
         W.registered, W.debt = vaults[v].debt,
         \A w \in Vault : vaultKicks'[w].active => vaultKicks[w].active
  PROVE  (\A w \in Vault : VaultKept(w)) /\ DebtKept
BY DEF VaultKept, DebtKept

\* What an LP does to its vault without touching its debt keeps the ledgers.
LEMMA QuotesLedgers ==
  ASSUME LedgerInv, NEW v \in Vault,
         \/ DeactivateVault(v)
         \/ \E shares \in WithdrawAmounts : WithdrawCollateral(v, shares)
         \/ \E amount \in DepositAmounts : DepositCollateral(v, amount)
         \/ \E x \in Thresholds : SetThreshold(v, x)
         \/ \E x \in MaxMints : SetMaxMintWsxmr(v, x)
         \/ \E x \in GriefingDeposits : SetMintGriefingDeposit(v, x)
         \/ \E x \in MinBurns : SetMinBurnAmount(v, x)
         \/ \E x \in Timeouts : SetMintTimeoutBlocks(v, x) \/ SetBurnTimeoutBlocks(v, x)
         \/ \E x \in MintFees, y \in BurnRewards : SetVaultMarketMetrics(v, x, y)
  PROVE  (\A w \in Vault : VaultKept(w)) /\ DebtKept
<1>1. /\ vaults \in [Vault -> VaultRecord] /\ ListedRegistered
      /\ vaultKicks \in [Vault -> GoodKick]
  BY DEF LedgerInv, LedgerFacts, BurnListInv, TypeInv, GoodVault
<1>2. PICK V \in VaultRecord : V = vaults[v]
  BY <1>1
<1>3. V.registered
  <2>1. vaults[v].active
    BY DEF DeactivateVault, WithdrawCollateral, DepositCollateral, SetThreshold, SetMaxMintWsxmr,
       SetMintGriefingDeposit, SetMinBurnAmount, SetMintTimeoutBlocks, SetBurnTimeoutBlocks,
       SetVaultMarketMetrics
  <2>2. QED BY <1>1, <1>2, <2>1 DEF ListedRegistered
<1>4. \A w \in Vault : vaultKicks'[w].active => vaultKicks[w].active
  <2>1. ~NoKick.active
    BY DEF NoKick
  <2>2. ClearKick(v) \/ UNCHANGED vaultKicks
    BY DEF DeactivateVault, WithdrawCollateral, DepositCollateral, SetThreshold, SetMaxMintWsxmr,
       SetMintGriefingDeposit, SetMinBurnAmount, SetMintTimeoutBlocks, SetBurnTimeoutBlocks,
       SetVaultMarketMetrics, ConfigUnchanged, kickVars
  <2>3. QED BY <1>1, <2>1, <2>2 DEF ClearKick
<1>5. CASE DeactivateVault(v)
  BY <1>1, <1>2, <1>3, <1>4, <1>5 DEF DeactivateVault, VaultKept, DebtKept, VaultRecord
<1>6. CASE \/ \E shares \in WithdrawAmounts : WithdrawCollateral(v, shares)
           \/ \E amount \in DepositAmounts : DepositCollateral(v, amount)
  <2>1. PICK x : vaults' = [vaults EXCEPT ![v] = [V EXCEPT !.collateralShares = x]]
    BY <1>1, <1>2, <1>6 DEF WithdrawCollateral, DepositCollateral
  <2>2. PICK W : W = [V EXCEPT !.collateralShares = x]
    OBVIOUS
  <2>3. W.registered = V.registered /\ W.debt = V.debt
    BY <2>2 DEF VaultRecord
  <2>4. QED BY <1>1, <1>2, <1>3, <1>4, <2>1, <2>2, <2>3, OneVaultLedgers
<1>7. CASE \/ \E x \in Thresholds : SetThreshold(v, x)
           \/ \E x \in MaxMints : SetMaxMintWsxmr(v, x)
           \/ \E x \in GriefingDeposits : SetMintGriefingDeposit(v, x)
  <2>1. PICK x : LET A == [V EXCEPT !.threshold = x]
                     B == [V EXCEPT !.maxMint = x]
                     C == [V EXCEPT !.griefingDeposit = x]
                 IN  \E W \in {A, B, C} : vaults' = [vaults EXCEPT ![v] = W]
    BY <1>1, <1>2, <1>7 DEF SetThreshold, SetMaxMintWsxmr, SetMintGriefingDeposit
  <2>2. PICK W : /\ vaults' = [vaults EXCEPT ![v] = W]
                 /\ W.registered = V.registered /\ W.debt = V.debt
    BY <2>1 DEF VaultRecord
  <2>3. QED BY <1>1, <1>2, <1>3, <1>4, <2>2, OneVaultLedgers
<1>8. CASE \/ \E x \in MinBurns : SetMinBurnAmount(v, x)
           \/ \E x \in Timeouts : SetMintTimeoutBlocks(v, x) \/ SetBurnTimeoutBlocks(v, x)
  <2>1. PICK x : LET A == [V EXCEPT !.minBurn = x]
                     B == [V EXCEPT !.mintTimeout = x]
                     C == [V EXCEPT !.burnTimeout = x]
                 IN  \E W \in {A, B, C} : vaults' = [vaults EXCEPT ![v] = W]
    BY <1>1, <1>2, <1>8 DEF SetMinBurnAmount, SetMintTimeoutBlocks, SetBurnTimeoutBlocks
  <2>2. PICK W : /\ vaults' = [vaults EXCEPT ![v] = W]
                 /\ W.registered = V.registered /\ W.debt = V.debt
    BY <2>1 DEF VaultRecord
  <2>3. QED BY <1>1, <1>2, <1>3, <1>4, <2>2, OneVaultLedgers
<1>9. CASE \E x \in MintFees, y \in BurnRewards : SetVaultMarketMetrics(v, x, y)
  <2>1. PICK x \in MintFees, y \in BurnRewards : SetVaultMarketMetrics(v, x, y)
    BY <1>9
  <2>2. PICK W : W = [V EXCEPT !.mintFee = x, !.burnReward = y]
    OBVIOUS
  <2>3. W.registered = V.registered /\ W.debt = V.debt
    BY <2>2 DEF VaultRecord
  <2>4. vaults' = [vaults EXCEPT ![v] = W]
    BY <1>1, <1>2, <2>1, <2>2 DEF SetVaultMarketMetrics
  <2>5. QED BY <1>1, <1>2, <1>3, <1>4, <2>3, <2>4, OneVaultLedgers
<1>10. QED BY <1>5, <1>6, <1>7, <1>8, <1>9

\* A step that leaves the requests alone, and repays what the vaults owe less.
LEMMA OtherLedgers ==
  ASSUME LedgerInv, TypeInv', \A v \in Vault : VaultKept(v), NEW repaid \in Nat,
         UNCHANGED <<mintRequests, burnRequests, abandonedBurns, requestNonce, globalPendingBurnDebt>>,
         Debts = Debts' + repaid, Supply = Supply' + repaid,
         globalTotalDebt' = Monus(globalTotalDebt, repaid),
         hubEth' + EthReturns = hubEth + EthReturns'
  PROVE  LedgerFacts'
<1>1. TypeInv /\ AbandonedCancelled /\ MintsFresh /\ Unregistered /\ Ledgers
  BY DEF LedgerInv, LedgerFacts, BurnListInv
<1>2. AbandonedCancelled' /\ MintsFresh'
  BY <1>1 DEF AbandonedCancelled, MintsFresh
<1>3. Unregistered'
  <2>1. \A w \in Vault :
          /\ vaults'[w] = vaults[w] \/ vaults'[w].registered
          /\ vaults[w].registered => vaults'[w].registered
          /\ vaultKicks'[w].active => vaultKicks[w].active \/ vaults[w].registered
    BY DEF VaultKept
  <2>2. \A i \in ReqId :
          \/ mintRequests'[i].status = "INVALID"
          \/ mintRequests[i].status # "INVALID" /\ mintRequests'[i].lpVault = mintRequests[i].lpVault
          \/ vaults[mintRequests'[i].lpVault].registered
    OBVIOUS
  <2>3. \A i \in ReqId :
          \/ burnRequests'[i].status = "INVALID"
          \/ burnRequests[i].status # "INVALID" /\ burnRequests'[i].lpVault = burnRequests[i].lpVault
          \/ vaults[burnRequests'[i].lpVault].registered
    OBVIOUS
  <2>4. QED BY <1>1, <2>1, <2>2, <2>3, KeepsUnregistered
<1>4. UNCHANGED <<InFlight, Held, Deposits>>
  BY RequestsSame
<1>5. PICK s \in Nat, t \in Nat, g \in Nat, f \in Nat, m \in Nat, n \in Nat, h \in Nat :
        /\ s = Supply /\ t = Supply' /\ g = globalTotalDebt /\ f = globalTotalDebt'
        /\ m = Debts /\ n = Debts' /\ h = Held
  BY <1>1, LedgersNat, PrimedTotals DEF TypeInv
<1>6. f = n /\ t + h <= f
  <2>1. g = m /\ s + h <= g
    BY <1>1, <1>5 DEF Ledgers
  <2>2. m = n + repaid /\ s = t + repaid /\ f = Monus(g, repaid)
    BY <1>5
  <2>3. QED BY <2>1, <2>2 DEF Monus
<1>7. hubEth' = EthReturns' + Deposits'
  <2>1. PICK e \in Nat, d \in Nat, k \in Nat, l \in Nat, x \in Nat :
          e = EthReturns /\ d = Deposits /\ k = hubEth /\ l = EthReturns' /\ x = hubEth'
    BY <1>1, LedgersNat, PrimedTotals DEF TypeInv
  <2>2. k = e + d
    BY <1>1, <2>1 DEF Ledgers
  <2>3. x + e = k + l
    BY <2>1
  <2>4. x = l + d
    BY <2>2, <2>3
  <2>5. QED BY <1>4, <2>1, <2>4
<1>8. Ledgers'
  <2>1. globalPendingBurnDebt' = InFlight'
    BY <1>1, <1>4 DEF Ledgers
  <2>2. QED BY <1>4, <1>5, <1>6, <1>7, <2>1 DEF Ledgers
<1>9. QED BY <1>2, <1>3, <1>8 DEF LedgerFacts

\* ... or that moves no debt and no tokens.
LEMMA NoDebtLedgers ==
  ASSUME LedgerInv, TypeInv', \A v \in Vault : VaultKept(v), DebtKept,
         UNCHANGED <<mintRequests, burnRequests, abandonedBurns, requestNonce,
                     globalPendingBurnDebt, globalTotalDebt>>,
         Supply' = Supply,
         hubEth' + EthReturns = hubEth + EthReturns'
  PROVE  LedgerFacts'
<1>1. Debts' = Debts
  BY DEF DebtKept, Debts
<1>2. Debts \in Nat /\ Supply \in Nat /\ globalTotalDebt \in Nat
  BY LedgersNat DEF LedgerInv, BurnListInv, TypeInv
<1>3. PICK z \in Nat : z = 0
  OBVIOUS
<1>4. Debts = Debts' + z /\ Supply = Supply' + z /\ globalTotalDebt' = Monus(globalTotalDebt, z)
  BY <1>1, <1>2, <1>3 DEF Monus
<1>5. QED BY <1>4, OtherLedgers

\* A repayment takes as much from the debt, the global debt and the supply.
LEMMA RepayDebtLedgers ==
  ASSUME LedgerInv, TypeInv', NEW v \in Vault, NEW amount \in RepayAmounts, RepayDebt(v, amount)
  PROVE  LedgerFacts'
<1>1. TypeInv /\ ListedRegistered /\ vaults \in [Vault -> GoodVault] /\ wsxmr \in [Account -> Nat]
  BY DEF LedgerInv, BurnListInv, TypeInv
<1>2. PICK V \in GoodVault : V = vaults[v]
  BY <1>1
<1>3. PICK repaid \in Nat : repaid = Smaller(amount, V.debt) /\ repaid <= V.debt
  <2>1. amount \in Nat /\ V.debt \in Nat
    BY AmountsAssumption, VaultFields
  <2>2. QED BY <2>1, MonusNat
<1>4. PICK W, x : /\ vaults' = [vaults EXCEPT ![v] = W]
                  /\ W = [V EXCEPT !.collateralShares = x, !.debt = V.debt - repaid]
  BY <1>1, <1>2, <1>3 DEF RepayDebt
<1>5. W.registered = V.registered /\ W.debt = V.debt - repaid
  BY <1>4 DEF GoodVault, VaultRecord
<1>6. /\ vaults'[v] = W /\ \A w \in Vault : w # v => vaults'[w] = vaults[w]
      /\ V.registered
  BY <1>1, <1>2, <1>4 DEF RepayDebt, ListedRegistered
<1>7. \A w \in Vault : VaultKept(w)
  <2>1. ~NoKick.active /\ vaultKicks \in [Vault -> GoodKick]
    BY <1>1 DEF NoKick, TypeInv
  <2>2. \A w \in Vault : vaultKicks'[w].active => vaultKicks[w].active
    BY <2>1 DEF RepayDebt, ClearKick
  <2>3. QED BY <1>5, <1>6, <2>2 DEF VaultKept
<1>8. Debts = Debts' + repaid
  <2>1. PICK d \in Nat, e \in Nat, n \in Nat : d = Debts /\ e = Debts' /\ n = V.debt
    BY <1>1, LedgersNat, PrimedTotals, VaultFields
  <2>2. Debts' + V.debt = Debts + W.debt
    BY <1>1, <1>2, <1>6, DebtsMove
  <2>3. e + n = d + (n - repaid)
    BY <1>5, <2>1, <2>2
  <2>4. d = e + repaid
    BY <1>3, <2>1, <2>3
  <2>5. QED BY <2>1, <2>4
<1>9. Supply = Supply' + repaid
  <2>1. wsxmr[v] >= repaid /\ wsxmr' = [wsxmr EXCEPT ![v] = @ - repaid]
    BY <1>2, <1>3 DEF RepayDebt
  <2>2. v \in Account /\ wsxmr' \in [Account -> Nat]
    BY VaultIsAccount DEF TypeInv
  <2>3. wsxmr[v] = wsxmr'[v] + repaid /\ \A a \in Account : a # v => wsxmr[a] = wsxmr'[a]
    BY <1>1, <2>1, <2>2
  <2>4. Balances(wsxmr) = Balances(wsxmr') + repaid
    BY <1>1, <2>2, <2>3, BalanceUpdate
  <2>5. QED BY <2>4 DEF Supply, Balances
<1>10. /\ globalTotalDebt' = Monus(globalTotalDebt, repaid)
       /\ UNCHANGED <<mintRequests, burnRequests, abandonedBurns, requestNonce,
                      globalPendingBurnDebt, hubEth, pendingReturns>>
  BY <1>2, <1>3 DEF RepayDebt, mintVars, burnVars, hubVars
<1>11. hubEth' + EthReturns = hubEth + EthReturns'
  BY <1>10, TotalsSame
<1>12. QED BY <1>7, <1>8, <1>9, <1>10, <1>11, OtherLedgers

\* A withdrawal of returns pays what it takes off them.
LEMMA WithdrawReturnsLedgers ==
  ASSUME LedgerInv, TypeInv', NEW a \in Account,
         WithdrawCollateralReturns(a) \/ WithdrawEthReturns(a)
  PROVE  LedgerFacts'
<1>1. TypeInv /\ pendingReturns \in [Account -> Returns] /\ pendingReturns' \in [Account -> Returns]
  BY DEF LedgerInv, BurnListInv, TypeInv
<1>2. /\ UNCHANGED <<mintRequests, burnRequests, abandonedBurns, requestNonce,
                     globalPendingBurnDebt, globalTotalDebt, vaults, vaultKicks, wsxmr>>
      /\ (\A v \in Vault : VaultKept(v)) /\ DebtKept
  BY DEF WithdrawCollateralReturns, WithdrawEthReturns, mintVars, burnVars, kickVars,
         VaultKept, DebtKept
<1>3. PICK p \in Returns : p = pendingReturns[a] /\ p.collateral \in Nat /\ p.eth \in Nat
  BY <1>1 DEF Returns
<1>4. EthReturns \in Nat /\ EthReturns' \in Nat /\ hubEth \in Nat /\ hubEth' \in Nat
  BY <1>1, LedgersNat, PrimedTotals DEF TypeInv
<1>5. EthReturns = EthIn(pendingReturns) /\ EthReturns' = EthIn(pendingReturns')
  BY DEF EthReturns, EthIn
<1>6. hubEth' + EthReturns = hubEth + EthReturns'
  <2>1. CASE WithdrawCollateralReturns(a)
    <3>1. pendingReturns' = [pendingReturns EXCEPT ![a].collateral = 0] /\ UNCHANGED hubEth
      BY <2>1 DEF WithdrawCollateralReturns
    <3>2. PICK q : q = [p EXCEPT !.collateral = 0]
      OBVIOUS
    <3>3. pendingReturns' = [pendingReturns EXCEPT ![a] = q] /\ q.eth = p.eth
      BY <1>1, <1>3, <3>1, <3>2 DEF Returns
    <3>4. \A b \in Account : pendingReturns'[b].eth = pendingReturns[b].eth
      BY <1>1, <1>3, <3>3
    <3>5. EthReturns' = EthReturns
      BY <3>4 DEF EthReturns, EthIn
    <3>6. QED BY <1>4, <3>1, <3>5
  <2>2. CASE WithdrawEthReturns(a)
    <3>1. /\ pendingReturns' = [pendingReturns EXCEPT ![a].eth = 0]
          /\ hubEth >= p.eth /\ hubEth' = hubEth - p.eth
      BY <1>3, <2>2 DEF WithdrawEthReturns
    <3>2. PICK q : q = [p EXCEPT !.eth = 0]
      OBVIOUS
    <3>3. /\ pendingReturns' = [pendingReturns EXCEPT ![a] = q] /\ q \in Returns /\ q.eth = 0
          /\ p = [q EXCEPT !.eth = q.eth + p.eth]
      <4>1. pendingReturns' = [pendingReturns EXCEPT ![a] = q]
        BY <1>1, <1>3, <3>1, <3>2
      <4>2. q \in Returns /\ q.eth = 0 /\ q.collateral = p.collateral
        BY <3>2 DEF Returns
      <4>3. PICK r : r = [q EXCEPT !.eth = q.eth + p.eth]
        OBVIOUS
      <4>4. r \in Returns /\ r.eth = p.eth /\ r.collateral = p.collateral
        BY <1>3, <4>2, <4>3 DEF Returns
      <4>5. r = p
        BY <4>4 DEF Returns
      <4>6. QED BY <4>1, <4>2, <4>3, <4>5
    <3>4. pendingReturns = [pendingReturns' EXCEPT ![a].eth = @ + p.eth]
      <4>1. pendingReturns'[a] = q
        BY <1>1, <3>3
      <4>2. pendingReturns = [pendingReturns' EXCEPT ![a] = p]
        BY <1>1, <1>3, <3>3
      <4>3. QED BY <3>3, <4>1, <4>2
    <3>5. EthIn(pendingReturns) = EthIn(pendingReturns') + p.eth
      <4>1. PICK f \in [Account -> Returns], g \in [Account -> Returns], x \in Nat, z \in Nat :
              f = pendingReturns' /\ g = pendingReturns /\ x = p.eth /\ z = 0
        BY <1>1, <1>3
      <4>2. \/ g = [f EXCEPT ![a].collateral = @ + z, ![a].eth = @ + x]
            \/ g = [f EXCEPT ![a].eth = @ + x] /\ z = 0
            \/ g = [f EXCEPT ![a].collateral = @ + z] /\ x = 0
        BY <3>4, <4>1
      <4>3. EthIn(g) = EthIn(f) + x
        BY <4>2, ReturnsUpdate
      <4>4. QED BY <4>1, <4>3
    <3>6. QED BY <1>3, <1>4, <1>5, <3>1, <3>5
  <2>3. QED BY <2>1, <2>2
<1>7. QED BY <1>2, <1>6, NoDebtLedgers, TotalsSame

\* The steps of the vaults keep the ledgers.
LEMMA VaultNextLedgers ==
  ASSUME LedgerInv, TypeInv', VaultNext
  PROVE  LedgerFacts'
<1>1. CASE \E v \in Vault, amount \in RepayAmounts : RepayDebt(v, amount)
  BY <1>1, RepayDebtLedgers
<1>2. CASE \E a \in Account : WithdrawCollateralReturns(a) \/ WithdrawEthReturns(a)
  BY <1>2, WithdrawReturnsLedgers
<1>3. CASE \E v \in Vault, minters \in Whitelists, on \in BOOLEAN : SetMinterWhitelist(v, minters, on)
  <2>1. UNCHANGED <<mintRequests, burnRequests, abandonedBurns, requestNonce, globalPendingBurnDebt,
                    globalTotalDebt, wsxmr, hubEth, pendingReturns, vaults, vaultKicks>>
    BY <1>3 DEF SetMinterWhitelist, mintVars, burnVars, hubVars, kickVars
  <2>2. (\A v \in Vault : VaultKept(v)) /\ DebtKept
    BY <2>1 DEF VaultKept, DebtKept
  <2>3. QED BY <2>1, <2>2, NoDebtLedgers, TotalsSame
<1>4. CASE \E v \in Vault :
        \/ CreateVault(v) \/ \E w \in Vault : CreateVaultEvicting(v, w)
        \/ DeactivateVault(v)
        \/ \E shares \in WithdrawAmounts : WithdrawCollateral(v, shares)
        \/ \E amount \in DepositAmounts : DepositCollateral(v, amount)
        \/ \E x \in Thresholds : SetThreshold(v, x)
        \/ \E x \in MaxMints : SetMaxMintWsxmr(v, x)
        \/ \E x \in GriefingDeposits : SetMintGriefingDeposit(v, x)
        \/ \E x \in MinBurns : SetMinBurnAmount(v, x)
        \/ \E x \in Timeouts : SetMintTimeoutBlocks(v, x) \/ SetBurnTimeoutBlocks(v, x)
        \/ \E x \in MintFees, y \in BurnRewards : SetVaultMarketMetrics(v, x, y)
  <2>1. (\A w \in Vault : VaultKept(w)) /\ DebtKept
    BY <1>4, CreateVaultKept, QuotesLedgers
  <2>2. UNCHANGED <<mintRequests, burnRequests, abandonedBurns, requestNonce, globalPendingBurnDebt,
                    globalTotalDebt, wsxmr, hubEth, pendingReturns>>
    BY <1>4, ZenonT(60) DEF CreateVault, CreateVaultEvicting, DeactivateVault, WithdrawCollateral,
       DepositCollateral, SetThreshold, SetMaxMintWsxmr, SetMintGriefingDeposit, SetMinBurnAmount,
       SetMintTimeoutBlocks, SetBurnTimeoutBlocks, SetVaultMarketMetrics, ConfigUnchanged,
       mintVars, burnVars, hubVars
  <2>3. QED BY <2>1, <2>2, NoDebtLedgers, TotalsSame
<1>5. QED BY <1>1, <1>2, <1>3, <1>4 DEF VaultNext

-----------------------------------------------------------------------------
(* The hub. *)

\* A transfer keeps the supply; a block, or no step, keeps everything.
LEMMA TransferLedgers ==
  ASSUME LedgerInv, TypeInv', NEW from \in Senders, NEW to \in Account,
         NEW amount \in TransferAmounts, Transfer(from, to, amount)
  PROVE  LedgerFacts'
<1>1. /\ from \in Account /\ from # to /\ amount \in Nat
      /\ wsxmr \in [Account -> Nat] /\ wsxmr' \in [Account -> Nat]
  BY PartsAssumption, AmountsAssumption DEF Transfer, LedgerInv, BurnListInv, TypeInv
<1>2. /\ wsxmr[from] >= amount
      /\ wsxmr' = [wsxmr EXCEPT ![from] = @ - amount, ![to] = @ + amount]
      /\ UNCHANGED <<mintRequests, burnRequests, abandonedBurns, requestNonce, vaults, vaultKicks,
                     globalPendingBurnDebt, globalTotalDebt, hubEth, pendingReturns>>
  BY DEF Transfer, mintVars, burnVars, kickVars, hubVars
<1>3. PICK f \in [Account -> Nat] :
        /\ f[from] = wsxmr[from] - amount
        /\ \A a \in Account : a # from => f[a] = wsxmr[a]
  <2>1. PICK f : f = [wsxmr EXCEPT ![from] = @ - amount]
    OBVIOUS
  <2>2. f \in [Account -> Nat]
    BY <1>1, <1>2, <2>1
  <2>3. QED BY <1>1, <1>2, <2>1, <2>2
<1>4. Balances(wsxmr) = Balances(f) + amount
  <2>1. wsxmr[from] = f[from] + amount /\ \A a \in Account : a # from => wsxmr[a] = f[a]
    BY <1>1, <1>2, <1>3
  <2>2. QED BY <1>1, <2>1, BalanceUpdate
<1>5. Balances(wsxmr') = Balances(f) + amount
  <2>1. wsxmr'[to] = f[to] + amount /\ \A a \in Account : a # to => wsxmr'[a] = f[a]
    BY <1>1, <1>2, <1>3
  <2>2. QED BY <1>1, <2>1, BalanceUpdate
<1>6. Supply' = Supply
  BY <1>4, <1>5 DEF Supply, Balances
<1>7. (\A v \in Vault : VaultKept(v)) /\ DebtKept
  BY <1>2 DEF VaultKept, DebtKept
<1>8. QED BY <1>2, <1>6, <1>7, NoDebtLedgers, TotalsSame

\* Time and stuttering keep the ledgers.
LEMMA QuietLedgers ==
  ASSUME LedgerInv, TypeInv', Tick \/ UNCHANGED vars
  PROVE  LedgerFacts'
<1>1. UNCHANGED <<mintRequests, burnRequests, abandonedBurns, requestNonce, vaults, vaultKicks,
                  globalPendingBurnDebt, globalTotalDebt, hubEth, pendingReturns, wsxmr>>
  BY DEF Tick, vars, mintVars, burnVars, kickVars, hubVars
<1>2. (\A v \in Vault : VaultKept(v)) /\ DebtKept
  BY <1>1 DEF VaultKept, DebtKept
<1>3. QED BY <1>1, <1>2, NoDebtLedgers, TotalsSame

\* Nothing is owed, held or in flight at first.
LEMMA InitLedgers == Init => LedgerInv
<1> SUFFICES ASSUME Init PROVE LedgerInv
  OBVIOUS
<1>1. BurnListInv /\ TypeInv
  BY InitListed DEF BurnListInv
<1>2. AbandonedCancelled /\ MintsFresh /\ Unregistered
  BY DEF Init, AbandonedCancelled, MintsFresh, Unregistered, EmptyVault, EmptyMint, EmptyBurn, NoKick
<1>3. NumVaults \in Nat /\ Vault = 1..NumVaults /\ MaxRequests \in Nat /\ ReqId = 1..MaxRequests
      /\ NumVaults + NumUsers \in Nat /\ Account = 1..(NumVaults + NumUsers)
  BY SizesAssumption, AccountIndex DEF Vault, ReqId
<1>4. Debts = 0
  <2>1. \A v \in Vault : vaults[v].debt = 0
    BY DEF Init, EmptyVault
  <2>2. \A i \in 1..NumVaults : [v \in Vault |-> vaults[v].debt][i] = 0
    BY <1>3, <2>1
  <2>3. QED BY <1>3, <2>2, SumZero DEF Debts
<1>5. Supply = 0
  <2>1. \A i \in 1..(NumVaults + NumUsers) : wsxmr[i] = 0
    BY <1>3 DEF Init
  <2>2. QED BY <1>3, <2>1, SumZero DEF Supply, Balances
<1>6. EthReturns = 0
  <2>1. \A a \in Account : pendingReturns[a].eth = 0
    BY DEF Init, NoReturns
  <2>2. \A i \in 1..(NumVaults + NumUsers) : [a \in Account |-> pendingReturns[a].eth][i] = 0
    BY <1>3, <2>1
  <2>3. QED BY <1>3, <2>2, SumZero DEF EthReturns, EthIn
<1>7. InFlight = 0 /\ Held = 0
  <2>1. BurnsInFlight = {} /\ BurnsHeld = {}
    BY DEF Init, BurnsInFlight, BurnsHeld, ActiveBurn, EmptyBurn
  <2>2. NatOn(BurnAmount, MaxRequests)
    BY <1>1, BurnNumbers
  <2>3. QED BY <1>3, <2>1, <2>2, SumOnEmpty DEF InFlight, Held
<1>8. Deposits = 0
  <2>1. LiveDeposits = {}
    BY DEF Init, LiveDeposits, EmptyMint, MintBonded, MintLive
  <2>2. NatOn(MintDeposit, MaxRequests)
    BY <1>1, MintNumbers
  <2>3. QED BY <1>3, <2>1, <2>2, SumOnEmpty DEF Deposits
<1>9. QED BY <1>1, <1>2, <1>4, <1>5, <1>6, <1>7, <1>8 DEF Init, Ledgers, LedgerFacts, LedgerInv

\* The ledger invariant is inductive.
LEMMA NextLedgers == LedgerInv /\ [Next]_vars => LedgerInv'
<1> SUFFICES ASSUME LedgerInv, [Next]_vars PROVE LedgerInv'
  OBVIOUS
<1>1. TypeInv /\ BurnListInv
  BY DEF LedgerInv, BurnListInv
<1>2. TypeInv' /\ BurnListInv'
  BY <1>1, NextTyped, NextListed
<1>3. CASE TokenNext
  BY <1>2, <1>3, TransferLedgers DEF LedgerInv, TokenNext
<1>4. CASE Tick \/ UNCHANGED vars
  BY <1>2, <1>4, QuietLedgers DEF LedgerInv
<1>5. CASE VaultNext \/ MintNext
  BY <1>2, <1>5, VaultNextLedgers, MintNextLedgers DEF LedgerInv
<1>6. CASE BurnNext \/ AuctionNext
  BY <1>2, <1>6, BurnNextLedgers, AuctionNextLedgers DEF LedgerInv
<1>7. QED BY <1>3, <1>4, <1>5, <1>6 DEF Next

\* The ledgers are what the invariants say.
LEMMA LedgerInvImplies ==
  LedgerInv => DebtLedger /\ PendingBurnAccounting /\ SupplyBacked /\ EthExact
<1> SUFFICES ASSUME LedgerInv PROVE DebtLedger /\ PendingBurnAccounting /\ SupplyBacked /\ EthExact
  OBVIOUS
<1>1. Ledgers
  BY DEF LedgerInv, LedgerFacts
<1>2. DebtLedger
  BY <1>1 DEF Ledgers, DebtLedger, Debts
<1>3. PendingBurnAccounting
  BY <1>1 DEF Ledgers, PendingBurnAccounting, InFlight
<1>4. SupplyBacked
  BY <1>1 DEF Ledgers, SupplyBacked, Supply, Balances, Held, BurnsHeld
<1>5. EthExact
  BY <1>1 DEF Ledgers, EthExact, EthReturns, EthIn, Deposits, MintDeposit
<1>6. QED BY <1>2, <1>3, <1>4, <1>5

\* The inductive invariant holds in every state of the hub.
THEOREM LedgerInvariant == Spec => []LedgerInv
<1>1. Init => LedgerInv
  BY InitLedgers
<1>2. LedgerInv /\ [Next]_vars => LedgerInv'
  BY NextLedgers
<1>3. QED BY <1>1, <1>2, PTL DEF Spec

\* The global debt is the sum of the debts of the vaults: no floor of a repayment, a
\* bid or a settlement is ever reached.
THEOREM DebtLedgerExact == Spec => []DebtLedger
<1>1. LedgerInv => DebtLedger
  BY LedgerInvImplies
<1>2. QED BY <1>1, LedgerInvariant, PTL

\* The global pending burns are the burns in flight, through every exit and auction.
THEOREM PendingBurnsExact == Spec => []PendingBurnAccounting
<1>1. LedgerInv => PendingBurnAccounting
  BY LedgerInvImplies
<1>2. QED BY <1>1, LedgerInvariant, PTL

\* The tokens held, with those a burn may still give back, never exceed the debt.
THEOREM TokensBacked == Spec => []SupplyBacked
<1>1. LedgerInv => SupplyBacked
  BY LedgerInvImplies
<1>2. QED BY <1>1, LedgerInvariant, PTL

\* The hub's ETH is what it owes: the returns, and the deposit of each live mint.
THEOREM DepositsExact == Spec => []EthExact
<1>1. LedgerInv => EthExact
  BY LedgerInvImplies
<1>2. QED BY <1>1, LedgerInvariant, PTL
=============================================================================
