--------------------------- MODULE SolvencyProofs ---------------------------
(***************************************************************************)
(* What the vaults hold locked, and that the hub can pay what it owes.     *)
(*                                                                         *)
(* The lock ledger: what a vault holds locked, pending and counted is      *)
(* exactly what its requests in flight hold of it, whatever is locked is   *)
(* there, an offer at auction is free collateral, and a vault that is gone *)
(* leaves no request behind.  The lock is claimed of the vaults no         *)
(* backstop has emptied.                                                   *)
(*                                                                         *)
(* Solvency: the collateral of every vault, the bond of every kick and     *)
(* every return, as long as no vault was emptied by a backstop; and with a *)
(* collateral of 18 decimals the hub holds that exactly.  A payment comes  *)
(* out of a vault, rounded down; what a settlement takes out of one was    *)
(* locked there, and what a bid takes was on offer, which is what the lock *)
(* ledger shows is covered by the vault's shares.  From the same           *)
(* invariants, what a step may never do: change the terms of a running     *)
(* auction, end a keyed mint without paying its bond, or uncover a vault   *)
(* that covers its debt.                                                   *)
(***************************************************************************)
EXTENDS LedgerProofs

\* What the mints of v have reserved, and how many of them count.
Reserved(v) == SumOn(MintsOf(v, MintLive), MintAmount, MaxRequests)
Counted(v) == Cardinality(MintsOf(v, MintCounted))
AllCounted == {r \in ReqId : mintRequests[r].status \in MintCounted}

MintsExact ==
  /\ \A v \in Vault : /\ vaults[v].pendingDebt = Reserved(v)
                      /\ vaults[v].pendingMintCount = Counted(v)
  /\ totalPendingMints = Cardinality(AllCounted)

\* An auction of v has begun since any mint of v was requested: it is open, or the
\* bond of a kick came back to a vault whose LP had gone.
Stale(v) ==
  \/ vaultKicks[v].auctionOpened
  \/ /\ v \in Intact /\ vaults[v].registered
     /\ ~vaults[v].active /\ vaults[v].collateralShares > 0

\* A mint is of something, is bonded by something, and cannot be keyed in a vault
\* that has been auctioned since.
MintTerms ==
  \A r \in ReqId, v \in Vault :
    LET m == mintRequests[r] IN
    (m.status # "INVALID" /\ m.lpVault = v) =>
      /\ m.wsxmrAmount > 0
      /\ m.status \in MintBonded => m.lockedCollateral > 0
      /\ m.vaultMintNonce <= vaults[v].mintNonce
      /\ Stale(v) => m.vaultMintNonce < vaults[v].mintNonce

VaultTerms ==
  \A v \in Vault :
    /\ Stale(v) => vaults[v].liquidationNonce > 0
    /\ vaultKicks[v].auctionOpened => vaultKicks[v].active
    /\ vaults[v].registered => vaults[v].threshold >= MinThreshold

\* The locks of v are those of its requests and within its shares; its offer is free
\* collateral; without its LP it has nothing in flight.
SoundVault(v) ==
  LET V == vaults[v] IN
  /\ V.lockedCollateral = MintLocks(v) + BurnLocks(v)
  /\ V.lockedCollateral <= V.collateralShares
  /\ (vaultKicks[v].auctionOpened /\ V.active) =>
       vaultKicks[v].offeredCollateral + V.lockedCollateral <= V.collateralShares
  /\ (V.registered /\ ~V.active) =>
       V.debt = 0 /\ V.lockedCollateral = 0 /\ MintsOf(v, MintBonded) = {}

LockFacts == MintsExact /\ MintTerms /\ VaultTerms /\ \A v \in Intact : SoundVault(v)

\* The inductive invariant.
LockInv == LedgerInv /\ LockFacts

-----------------------------------------------------------------------------
(* The sums over the mints and the burns, when one of them changes. *)

\* One id enters or leaves a set of ids.
LEMMA CardinalityMoves ==
  ASSUME NEW S \in SUBSET ReqId, NEW T \in SUBSET ReqId, NEW r \in ReqId,
         \A i \in ReqId : i # r => (i \in S <=> i \in T)
  PROVE  /\ Cardinality(T) + Part(r \in S, 1) = Cardinality(S) + Part(r \in T, 1)
         /\ Cardinality(S) \in Nat /\ Cardinality(T) \in Nat
<1>1. IsFiniteSet(ReqId)
  BY FS_Interval, SizesAssumption DEF ReqId
<1>2. IsFiniteSet(S) /\ IsFiniteSet(T)
  BY <1>1, FS_Subset
<1>3. Cardinality(S) \in Nat /\ Cardinality(T) \in Nat
  BY <1>2, FS_CardinalityType
<1>4. CASE r \in S <=> r \in T
  <2>1. S = T
    BY <1>4
  <2>2. QED BY <1>3, <2>1 DEF Part
<1>5. CASE r \in S /\ r \notin T
  <2>1. S = T \cup {r}
    BY <1>5
  <2>2. Cardinality(S) = Cardinality(T) + 1
    BY <1>2, <1>5, <2>1, FS_AddElement
  <2>3. QED BY <1>3, <1>5, <2>2 DEF Part
<1>6. CASE r \notin S /\ r \in T
  <2>1. T = S \cup {r}
    BY <1>6
  <2>2. Cardinality(T) = Cardinality(S) + 1
    BY <1>2, <1>6, <2>1, FS_AddElement
  <2>3. QED BY <1>3, <1>6, <2>2 DEF Part
<1>7. QED BY <1>4, <1>5, <1>6

\* Whether m is a mint of v with its status in S, and b a burn of v in flight.
MintOf(m, v, S) == m.lpVault = v /\ m.status \in S
BurnOf(b, v) == b.lpVault = v /\ Active(b)

\* Request m becomes q: what its vault, or another one, holds for its mints.
LEMMA MintsMove ==
  ASSUME TypeInv, TypeInv', NEW r \in ReqId, NEW m, NEW q, m = mintRequests[r],
         mintRequests' = [mintRequests EXCEPT ![r] = q], NEW v \in Vault
  PROVE  /\ Reserved(v)' + Part(MintOf(m, v, MintLive), m.wsxmrAmount)
              = Reserved(v) + Part(MintOf(q, v, MintLive), q.wsxmrAmount)
         /\ MintLocks(v)' + Part(MintOf(m, v, MintBonded), m.lockedCollateral)
              = MintLocks(v) + Part(MintOf(q, v, MintBonded), q.lockedCollateral)
         /\ Reserved(v) \in Nat /\ Reserved(v)' \in Nat
         /\ MintLocks(v) \in Nat /\ MintLocks(v)' \in Nat
<1> DEFINE f == MintAmount
           g == [i \in ReqId |-> mintRequests'[i].wsxmrAmount]
           h == MintBond
           k == [i \in ReqId |-> mintRequests'[i].lockedCollateral]
           S == MintsOf(v, MintLive)
           T == {i \in ReqId : mintRequests'[i].lpVault = v /\ mintRequests'[i].status \in MintLive}
           A == MintsOf(v, MintBonded)
           B == {i \in ReqId : mintRequests'[i].lpVault = v /\ mintRequests'[i].status \in MintBonded}
<1>1. /\ mintRequests'[r] = q /\ \A i \in ReqId : i # r => mintRequests'[i] = mintRequests[i]
      /\ mintRequests' \in [ReqId -> GoodMint]
  BY DEF TypeInv
<1>2. /\ MaxRequests \in Nat /\ ReqId = 1..MaxRequests
      /\ NatOn(f, MaxRequests) /\ NatOn(h, MaxRequests)
  BY MintNumbers
<1>3. NatOn(g, MaxRequests) /\ NatOn(k, MaxRequests)
  <2>1. \A i \in ReqId : mintRequests'[i].wsxmrAmount \in Nat /\ mintRequests'[i].lockedCollateral \in Nat
    BY <1>1 DEF GoodMint, MintRecord
  <2>2. QED BY <1>2, <2>1 DEF NatOn
<1>4. \A i \in 1..MaxRequests : i # r => /\ i \in S <=> i \in T
                                         /\ i \in S => g[i] = f[i]
  BY <1>1, <1>2 DEF MintsOf, MintAmount
<1>5. \A i \in 1..MaxRequests : i # r => /\ i \in A <=> i \in B
                                         /\ i \in A => k[i] = h[i]
  BY <1>1, <1>2 DEF MintsOf, MintBond
<1>6. /\ f[r] = m.wsxmrAmount /\ g[r] = q.wsxmrAmount
      /\ h[r] = m.lockedCollateral /\ k[r] = q.lockedCollateral
      /\ r \in S <=> m.lpVault = v /\ m.status \in MintLive
      /\ r \in T <=> q.lpVault = v /\ q.status \in MintLive
      /\ r \in A <=> m.lpVault = v /\ m.status \in MintBonded
      /\ r \in B <=> q.lpVault = v /\ q.status \in MintBonded
  BY <1>1, <1>2 DEF MintsOf, MintAmount, MintBond
<1>7. /\ Reserved(v) = SumOn(S, f, MaxRequests) /\ Reserved(v)' = SumOn(T, g, MaxRequests)
      /\ MintLocks(v) = SumOn(A, h, MaxRequests) /\ MintLocks(v)' = SumOn(B, k, MaxRequests)
  BY DEF Reserved, MintLocks, MintAmount, MintBond, MintsOf
<1> HIDE DEF f, g, h, k, S, T, A, B
<1>8. SumOn(T, g, MaxRequests) + (IF r \in S THEN f[r] ELSE 0)
        = SumOn(S, f, MaxRequests) + (IF r \in T THEN g[r] ELSE 0)
  BY <1>2, <1>3, <1>4, SumOnMoves, SMTT(30)
<1>9. SumOn(B, k, MaxRequests) + (IF r \in A THEN h[r] ELSE 0)
        = SumOn(A, h, MaxRequests) + (IF r \in B THEN k[r] ELSE 0)
  BY <1>2, <1>3, <1>5, SumOnMoves, SMTT(30)
<1>10. /\ SumOn(S, f, MaxRequests) \in Nat /\ SumOn(T, g, MaxRequests) \in Nat
       /\ SumOn(A, h, MaxRequests) \in Nat /\ SumOn(B, k, MaxRequests) \in Nat
  BY <1>2, <1>3, SumOnIsNat
<1>11. QED BY <1>6, <1>7, <1>8, <1>9, <1>10 DEF Part, MintOf

\* The counters, likewise.
LEMMA CountsMove ==
  ASSUME TypeInv, NEW r \in ReqId, NEW m, NEW q, m = mintRequests[r],
         mintRequests' = [mintRequests EXCEPT ![r] = q], NEW v \in Vault
  PROVE  /\ Counted(v)' + Part(MintOf(m, v, MintCounted), 1)
              = Counted(v) + Part(MintOf(q, v, MintCounted), 1)
         /\ Cardinality(AllCounted)' + Part(m.status \in MintCounted, 1)
              = Cardinality(AllCounted) + Part(q.status \in MintCounted, 1)
         /\ Counted(v) \in Nat /\ Counted(v)' \in Nat
         /\ Cardinality(AllCounted) \in Nat /\ Cardinality(AllCounted)' \in Nat
<1> DEFINE S == MintsOf(v, MintCounted)
           T == {i \in ReqId : mintRequests'[i].lpVault = v /\ mintRequests'[i].status \in MintCounted}
           B == {i \in ReqId : mintRequests'[i].status \in MintCounted}
<1>1. mintRequests'[r] = q /\ \A i \in ReqId : i # r => mintRequests'[i] = mintRequests[i]
  BY DEF TypeInv
<1>2. /\ S \in SUBSET ReqId /\ T \in SUBSET ReqId
      /\ \A i \in ReqId : i # r => (i \in S <=> i \in T)
      /\ r \in S <=> m.lpVault = v /\ m.status \in MintCounted
      /\ r \in T <=> q.lpVault = v /\ q.status \in MintCounted
  BY <1>1 DEF MintsOf
<1>3. /\ AllCounted \in SUBSET ReqId /\ B \in SUBSET ReqId
      /\ \A i \in ReqId : i # r => (i \in AllCounted <=> i \in B)
      /\ r \in AllCounted <=> m.status \in MintCounted
      /\ r \in B <=> q.status \in MintCounted
  BY <1>1 DEF AllCounted
<1>4. /\ Counted(v) = Cardinality(S) /\ Counted(v)' = Cardinality(T)
      /\ Cardinality(AllCounted)' = Cardinality(B)
  BY DEF Counted, MintsOf, AllCounted
<1> HIDE DEF S, T, B
<1>5. /\ Cardinality(T) + Part(r \in S, 1) = Cardinality(S) + Part(r \in T, 1)
      /\ Cardinality(S) \in Nat /\ Cardinality(T) \in Nat
  BY <1>2, CardinalityMoves
<1>6. /\ Cardinality(B) + Part(r \in AllCounted, 1) = Cardinality(AllCounted) + Part(r \in B, 1)
      /\ Cardinality(AllCounted) \in Nat /\ Cardinality(B) \in Nat
  BY <1>3, CardinalityMoves
<1>7. QED BY <1>2, <1>3, <1>4, <1>5, <1>6 DEF Part, MintOf

\* Burn b becomes c: what a vault has locked for its burns.
LEMMA BurnLocksMove ==
  ASSUME TypeInv, TypeInv', NEW r \in ReqId, NEW b, NEW c, b = burnRequests[r],
         burnRequests' = [burnRequests EXCEPT ![r] = c], NEW v \in Vault
  PROVE  /\ BurnLocks(v)' + Part(BurnOf(b, v), TotalLock(b))
              = BurnLocks(v) + Part(BurnOf(c, v), TotalLock(c))
         /\ BurnLocks(v) \in Nat /\ BurnLocks(v)' \in Nat
<1> DEFINE f == BurnCollateral
           g == [i \in ReqId |-> TotalLock(burnRequests'[i])]
           S == BurnsOf(v)
           T == {i \in ReqId : burnRequests'[i].lpVault = v /\ burnRequests'[i].status \in ActiveBurn}
<1>1. /\ burnRequests'[r] = c /\ \A i \in ReqId : i # r => burnRequests'[i] = burnRequests[i]
      /\ burnRequests' \in [ReqId -> GoodBurn]
  BY DEF TypeInv
<1>2. MaxRequests \in Nat /\ ReqId = 1..MaxRequests /\ NatOn(f, MaxRequests)
  BY BurnNumbers
<1>3. NatOn(g, MaxRequests)
  <2>1. \A i \in ReqId : TotalLock(burnRequests'[i]) \in Nat
    BY <1>1, BurnAmountsNat
  <2>2. QED BY <1>2, <2>1 DEF NatOn
<1>4. \A i \in 1..MaxRequests : i # r => /\ i \in S <=> i \in T
                                         /\ i \in S => g[i] = f[i]
  BY <1>1, <1>2 DEF BurnsOf, BurnCollateral
<1>5. /\ f[r] = TotalLock(b) /\ g[r] = TotalLock(c)
      /\ r \in S <=> b.lpVault = v /\ Active(b)
      /\ r \in T <=> c.lpVault = v /\ Active(c)
  BY <1>1, <1>2 DEF BurnsOf, BurnCollateral, Active
<1>6. BurnLocks(v) = SumOn(S, f, MaxRequests) /\ BurnLocks(v)' = SumOn(T, g, MaxRequests)
  BY DEF BurnLocks, BurnsOf, BurnCollateral
<1> HIDE DEF f, g, S, T
<1>7. SumOn(T, g, MaxRequests) + (IF r \in S THEN f[r] ELSE 0)
        = SumOn(S, f, MaxRequests) + (IF r \in T THEN g[r] ELSE 0)
  BY <1>2, <1>3, <1>4, SumOnMoves, SMTT(30)
<1>8. SumOn(S, f, MaxRequests) \in Nat /\ SumOn(T, g, MaxRequests) \in Nat
  BY <1>2, <1>3, SumOnIsNat
<1>9. QED BY <1>5, <1>6, <1>7, <1>8 DEF Part, BurnOf

\* Nothing moves when no request does.
LEMMA HoldsSame ==
  /\ UNCHANGED mintRequests =>
       /\ \A v : Reserved(v)' = Reserved(v) /\ Counted(v)' = Counted(v)
                 /\ MintLocks(v)' = MintLocks(v) /\ MintsOf(v, MintBonded)' = MintsOf(v, MintBonded)
       /\ AllCounted' = AllCounted
  /\ UNCHANGED burnRequests => \A v : BurnLocks(v)' = BurnLocks(v)
BY DEF Reserved, Counted, MintLocks, MintsOf, MintAmount, MintBond, AllCounted,
       BurnLocks, BurnsOf, BurnCollateral


-----------------------------------------------------------------------------
(* Steps that touch no request. *)

\* The numbers a vault's facts are made of.
LEMMA HoldsNat ==
  ASSUME TypeInv, NEW v \in Vault
  PROVE  /\ MintLocks(v) \in Nat /\ BurnLocks(v) \in Nat /\ Reserved(v) \in Nat
         /\ vaults[v] \in GoodVault /\ vaultKicks[v] \in GoodKick
BY MintNumbers, BurnNumbers, SumOnIsNat DEF MintLocks, BurnLocks, Reserved, TypeInv

\* A vault without locks has no mint that is keyed: a bond is never 0.
LEMMA NothingKeyed ==
  ASSUME TypeInv, MintTerms, NEW v \in Vault, MintLocks(v) = 0
  PROVE  MintsOf(v, MintBonded) = {}
<1> SUFFICES ASSUME NEW r \in MintsOf(v, MintBonded)
             PROVE  FALSE
  OBVIOUS
<1>1. r \in ReqId /\ mintRequests[r].status \in MintBonded /\ mintRequests[r].lpVault = v
  BY DEF MintsOf
<1>2. mintRequests[r].status # "INVALID"
  BY <1>1 DEF MintBonded, MintLive
<1>3. mintRequests[r].lockedCollateral > 0
  BY <1>1, <1>2 DEF MintTerms
<1>4. /\ MaxRequests \in Nat /\ r \in 1..MaxRequests /\ NatOn(MintBond, MaxRequests)
      /\ MintBond[r] = mintRequests[r].lockedCollateral
  BY <1>1, MintNumbers DEF MintBond
<1>5. MintBond[r] <= MintLocks(v)
  BY <1>4, SumOnMember DEF MintLocks
<1>6. mintRequests[r].lockedCollateral \in Nat
  BY <1>1 DEF TypeInv, GoodMint, MintRecord
<1>7. QED BY <1>3, <1>4, <1>5, <1>6

\* What every such step keeps of a vault ...
SameHolds(V, W) ==
  /\ W.lockedCollateral = V.lockedCollateral /\ W.pendingDebt = V.pendingDebt
  /\ W.pendingMintCount = V.pendingMintCount /\ W.liquidationNonce = V.liquidationNonce
  /\ W.mintNonce = V.mintNonce
  /\ W.registered => W.threshold >= MinThreshold
SameAuction(v) ==
  vaultKicks'[v].auctionOpened =>
    /\ vaultKicks[v].auctionOpened /\ vaultKicks'[v].active
    /\ vaultKicks'[v].offeredCollateral = vaultKicks[v].offeredCollateral

\* ... and what may become of it: it gains collateral or loses debt, loses collateral
\* that is free while nobody has kicked it, is created, or is retired.
Fares(v, V, W) ==
  \/ /\ W.registered = V.registered /\ W.active = V.active /\ W.debt <= V.debt
     /\ W.collateralShares >= V.collateralShares
     /\ W.active \/ W.collateralShares = V.collateralShares
  \/ /\ W.registered /\ W.active /\ ~vaultKicks'[v].auctionOpened
     /\ W.lockedCollateral <= W.collateralShares
  \/ /\ W.registered /\ ~W.active /\ W.collateralShares = 0
     /\ W.debt = 0 /\ W.lockedCollateral = 0

Quiet(v) ==
  SameHolds(vaults[v], vaults'[v]) /\ SameAuction(v) /\ Fares(v, vaults[v], vaults'[v])

\* Who goes is in the open only while its auction is.
LEMMA QuietStale ==
  ASSUME TypeInv, NEW v \in Vault, Quiet(v), Stale(v)', UNCHANGED backstopped
  PROVE  Stale(v)
<1>1. CASE vaultKicks'[v].auctionOpened
  BY <1>1 DEF Quiet, SameAuction, Stale
<1>2. CASE ~vaultKicks'[v].auctionOpened
  <2>1. /\ v \in Intact' /\ vaults'[v].registered
        /\ ~vaults'[v].active /\ vaults'[v].collateralShares > 0
    BY <1>2 DEF Stale
  <2>2. v \in Intact
    BY <2>1 DEF Intact
  <2>3. vaults'[v].collateralShares # 0
    BY <2>1
  <2>4. /\ vaults[v].registered /\ ~vaults[v].active
        /\ vaults[v].collateralShares = vaults'[v].collateralShares
    BY <2>1, <2>3 DEF Quiet, Fares
  <2>5. QED BY <2>1, <2>2, <2>4 DEF Stale
<1>3. QED BY <1>1, <1>2

\* A vault whose locks, shares and kick a step leaves alone stays sound.
LEMMA QuietSound ==
  ASSUME TypeInv, TypeInv', MintTerms, NEW v \in Intact, SoundVault(v), Quiet(v),
         UNCHANGED <<mintRequests, burnRequests>>
  PROVE  SoundVault(v)'
<1>1. v \in Vault
  BY DEF Intact
<1>2. PICK V \in GoodVault, W \in GoodVault : V = vaults[v] /\ W = vaults'[v]
  BY <1>1 DEF TypeInv
<1>3. PICK k \in GoodKick, l \in GoodKick : k = vaultKicks[v] /\ l = vaultKicks'[v]
  BY <1>1 DEF TypeInv
<1>4. /\ MintLocks(v)' = MintLocks(v) /\ BurnLocks(v)' = BurnLocks(v)
      /\ MintsOf(v, MintBonded)' = MintsOf(v, MintBonded)
  BY HoldsSame
<1>5. /\ V.lockedCollateral = MintLocks(v) + BurnLocks(v)
      /\ V.lockedCollateral <= V.collateralShares
      /\ (k.auctionOpened /\ V.active) =>
           k.offeredCollateral + V.lockedCollateral <= V.collateralShares
      /\ (V.registered /\ ~V.active) =>
           V.debt = 0 /\ V.lockedCollateral = 0 /\ MintsOf(v, MintBonded) = {}
  BY <1>2, <1>3 DEF SoundVault
<1>6. /\ W.lockedCollateral = V.lockedCollateral
      /\ l.auctionOpened => k.auctionOpened /\ l.offeredCollateral = k.offeredCollateral
  BY <1>2, <1>3 DEF Quiet, SameHolds, SameAuction
<1>7. \/ /\ W.registered = V.registered /\ W.active = V.active /\ W.debt <= V.debt
         /\ W.collateralShares >= V.collateralShares
      \/ W.registered /\ W.active /\ ~l.auctionOpened /\ W.lockedCollateral <= W.collateralShares
      \/ W.registered /\ ~W.active /\ W.debt = 0 /\ W.lockedCollateral = 0
  BY <1>2, <1>3 DEF Quiet, Fares
<1>8. /\ V.lockedCollateral \in Nat /\ V.collateralShares \in Nat /\ V.debt \in Nat
      /\ W.lockedCollateral \in Nat /\ W.collateralShares \in Nat /\ W.debt \in Nat
      /\ k.offeredCollateral \in Nat
  BY VaultFields, KickFields
<1>9. W.lockedCollateral = MintLocks(v)' + BurnLocks(v)'
  BY <1>4, <1>5, <1>6
<1>10. W.lockedCollateral <= W.collateralShares
  BY <1>5, <1>6, <1>7, <1>8
<1>11. (l.auctionOpened /\ W.active) =>
         l.offeredCollateral + W.lockedCollateral <= W.collateralShares
  <2>1. ASSUME l.auctionOpened, W.active
        PROVE  l.offeredCollateral + W.lockedCollateral <= W.collateralShares
    <3>1. V.active /\ W.collateralShares >= V.collateralShares
      BY <1>7, <2>1
    <3>2. k.offeredCollateral + V.lockedCollateral <= V.collateralShares
      BY <1>5, <1>6, <2>1, <3>1
    <3>3. l.offeredCollateral = k.offeredCollateral
      BY <1>6, <2>1
    <3>4. QED BY <1>6, <1>8, <3>1, <3>2, <3>3
  <2>2. QED BY <2>1
<1>12. (W.registered /\ ~W.active) =>
         W.debt = 0 /\ W.lockedCollateral = 0 /\ MintsOf(v, MintBonded)' = {}
  <2>1. MintLocks(v) \in Nat /\ BurnLocks(v) \in Nat
    BY <1>1, HoldsNat
  <2>2. V.lockedCollateral = 0 => MintsOf(v, MintBonded) = {}
    BY <1>1, <1>5, <2>1, NothingKeyed
  <2>3. ASSUME W.registered, ~W.active
        PROVE  W.debt = 0 /\ W.lockedCollateral = 0
    <3>1. CASE W.registered = V.registered /\ W.active = V.active /\ W.debt <= V.debt
      <4>1. V.registered /\ ~V.active
        BY <2>3, <3>1
      <4>2. V.debt = 0 /\ V.lockedCollateral = 0
        BY <1>5, <4>1
      <4>3. QED BY <1>6, <1>8, <3>1, <4>2
    <3>2. QED BY <1>7, <2>3, <3>1
  <2>4. QED BY <1>4, <1>6, <2>2, <2>3
<1>13. QED BY <1>2, <1>3, <1>9, <1>10, <1>11, <1>12 DEF SoundVault

\* A step that leaves the locks of every vault and every request alone keeps the invariant.
LEMMA QuietLocks ==
  ASSUME LockInv, TypeInv', \A v \in Vault : Quiet(v),
         UNCHANGED <<mintRequests, burnRequests, totalPendingMints, backstopped>>
  PROVE  LockFacts'
<1>1. TypeInv /\ MintsExact /\ MintTerms /\ VaultTerms /\ \A v \in Intact : SoundVault(v)
  BY DEF LockInv, LockFacts, LedgerInv, BurnListInv
<1>2. MintsExact'
  <2>1. \A v \in Vault : /\ vaults'[v].pendingDebt = vaults[v].pendingDebt
                         /\ vaults'[v].pendingMintCount = vaults[v].pendingMintCount
    BY DEF Quiet, SameHolds
  <2>2. QED BY <1>1, <2>1, HoldsSame DEF MintsExact
<1>3. \A v \in Vault : Stale(v)' => Stale(v)
  BY <1>1, QuietStale
<1>4. \A v \in Vault : /\ vaults'[v].mintNonce = vaults[v].mintNonce
                       /\ vaults'[v].liquidationNonce = vaults[v].liquidationNonce
                       /\ vaults'[v].registered => vaults'[v].threshold >= MinThreshold
                       /\ vaultKicks'[v].auctionOpened => vaultKicks'[v].active
  <2>1. \A v \in Vault : /\ vaults'[v].mintNonce = vaults[v].mintNonce
                         /\ vaults'[v].liquidationNonce = vaults[v].liquidationNonce
                         /\ vaults'[v].registered => vaults'[v].threshold >= MinThreshold
    BY DEF Quiet, SameHolds
  <2>2. \A v \in Vault : vaultKicks'[v].auctionOpened => vaultKicks'[v].active
    BY DEF Quiet, SameAuction
  <2>3. QED BY <2>1, <2>2
<1>5. MintTerms'
  BY <1>1, <1>3, <1>4 DEF MintTerms
<1>6. VaultTerms'
  BY <1>1, <1>3, <1>4 DEF VaultTerms
<1>7. \A v \in Intact' : SoundVault(v)'
  BY <1>1, QuietSound DEF Intact
<1>8. QED BY <1>2, <1>5, <1>6, <1>7 DEF LockFacts

-----------------------------------------------------------------------------
(* The operations of the LPs. *)

RequestsKept == UNCHANGED <<mintRequests, burnRequests, totalPendingMints, backstopped>>

\* A vault and a kick that stay as they are.
LEMMA SameIsQuiet ==
  ASSUME TypeInv, VaultTerms, NEW w \in Vault,
         vaults'[w] = vaults[w], vaultKicks'[w] = vaultKicks[w]
  PROVE  Quiet(w)
<1>1. PICK V \in GoodVault, k \in GoodKick : V = vaults[w] /\ k = vaultKicks[w]
  BY DEF TypeInv
<1>2. /\ V.registered => V.threshold >= MinThreshold
      /\ k.auctionOpened => k.active
  BY <1>1 DEF VaultTerms
<1>3. SameHolds(V, V)
  BY <1>2 DEF SameHolds
<1>4. V.debt <= V.debt /\ V.collateralShares >= V.collateralShares
  BY VaultFields
<1>5. Fares(w, V, V)
  BY <1>4 DEF Fares
<1>6. SameAuction(w)
  BY <1>1, <1>2 DEF SameAuction
<1>7. QED BY <1>1, <1>3, <1>5, <1>6 DEF Quiet

\* A creation; at the cap it retires another vault.
LEMMA CreateVaultQuiet ==
  ASSUME LedgerInv, VaultTerms, NEW v \in Vault,
         CreateVault(v) \/ \E w \in Vault : CreateVaultEvicting(v, w)
  PROVE  (\A w \in Vault : Quiet(w)) /\ RequestsKept
<1>1. TypeInv /\ ListedRegistered /\ Unregistered
  BY DEF LedgerInv, LedgerFacts, BurnListInv
<1>2. ~vaults[v].registered /\ UNCHANGED vaultKicks /\ RequestsKept
  BY DEF CreateVault, CreateVaultEvicting, kickVars, mintVars, burnVars, RequestsKept
<1>3. vaults[v] = EmptyVault /\ ~vaultKicks[v].auctionOpened
  BY <1>1, <1>2 DEF Unregistered, VaultTerms
<1>4. SameHolds(EmptyVault, NewVault)
  BY RatesAssumption DEF SameHolds, EmptyVault, NewVault
<1>5. Fares(v, EmptyVault, NewVault)
  BY <1>2, <1>3 DEF Fares, EmptyVault, NewVault
<1>6. SameAuction(v)
  BY <1>2, <1>3 DEF SameAuction
<1>7. CASE CreateVault(v)
  <2>1. vaults' = [vaults EXCEPT ![v] = NewVault]
    BY <1>7 DEF CreateVault
  <2>2. vaults'[v] = NewVault /\ \A w \in Vault : w # v => vaults'[w] = vaults[w]
    BY <1>1, <2>1 DEF TypeInv
  <2>3. Quiet(v)
    BY <1>3, <1>4, <1>5, <1>6, <2>2 DEF Quiet
  <2>4. QED BY <1>1, <1>2, <2>2, <2>3, SameIsQuiet
<1>8. CASE \E w \in Vault : CreateVaultEvicting(v, w)
  <2>1. PICK w \in Vault : CreateVaultEvicting(v, w)
    BY <1>8
  <2>2. PICK V \in GoodVault : V = vaults[w]
    BY <1>1 DEF TypeInv
  <2>3. V.active /\ V.debt = 0 /\ V.lockedCollateral = 0
    BY <2>1, <2>2 DEF CreateVaultEvicting, IsVaultEvictable
  <2>4. V.registered /\ w # v
    BY <1>1, <1>2, <2>2, <2>3 DEF ListedRegistered
  <2>5. PICK E : E = [V EXCEPT !.collateralShares = 0, !.active = FALSE]
    OBVIOUS
  <2>6. vaults' = [vaults EXCEPT ![v] = NewVault, ![w] = E]
    BY <1>1, <2>1, <2>2, <2>4, <2>5 DEF CreateVaultEvicting, TypeInv
  <2>7. /\ vaults'[v] = NewVault /\ vaults'[w] = E
        /\ \A u \in Vault : u # v /\ u # w => vaults'[u] = vaults[u]
    BY <1>1, <2>4, <2>6 DEF TypeInv
  <2>8. Quiet(v)
    BY <1>3, <1>4, <1>5, <1>6, <2>7 DEF Quiet
  <2>9. /\ E.registered = V.registered /\ ~E.active /\ E.collateralShares = 0
        /\ E.debt = V.debt /\ E.lockedCollateral = V.lockedCollateral
        /\ E.pendingDebt = V.pendingDebt /\ E.pendingMintCount = V.pendingMintCount
        /\ E.liquidationNonce = V.liquidationNonce /\ E.mintNonce = V.mintNonce
        /\ E.threshold = V.threshold
    BY <2>5 DEF GoodVault, VaultRecord
  <2>10. V.threshold >= MinThreshold
    BY <2>2, <2>4 DEF VaultTerms
  <2>11. SameHolds(V, E)
    BY <2>9, <2>10 DEF SameHolds
  <2>12. Fares(w, V, E)
    BY <2>3, <2>4, <2>9 DEF Fares
  <2>13. SameAuction(w)
    BY <1>2, SameIsQuiet DEF SameAuction, VaultTerms
  <2>14. Quiet(w)
    BY <2>2, <2>7, <2>11, <2>12, <2>13 DEF Quiet
  <2>15. QED BY <1>1, <1>2, <2>7, <2>8, <2>14, SameIsQuiet
<1>9. QED BY <1>7, <1>8

\* The operations on one vault.
LEMMA OneVaultQuiet ==
  ASSUME LedgerInv, VaultTerms, NEW v \in Vault, NEW V \in GoodVault, V = vaults[v], V.active,
         NEW W, vaults' = [vaults EXCEPT ![v] = W],
         SameHolds(V, W), Fares(v, V, W),
         vaultKicks' = vaultKicks \/ vaultKicks' = [vaultKicks EXCEPT ![v] = NoKick]
  PROVE  \A w \in Vault : Quiet(w)
<1>1. TypeInv
  BY DEF LedgerInv, BurnListInv
<1>2. /\ vaults'[v] = W
      /\ \A w \in Vault : w # v => vaults'[w] = vaults[w] /\ vaultKicks'[w] = vaultKicks[w]
      /\ vaultKicks'[v] = vaultKicks[v] \/ vaultKicks'[v] = NoKick
  BY <1>1 DEF TypeInv
<1>3. ~NoKick.auctionOpened
  BY DEF NoKick
<1>4. SameAuction(v)
  BY <1>2, <1>3 DEF SameAuction, VaultTerms
<1>5. Quiet(v)
  BY <1>2, <1>4 DEF Quiet
<1>6. QED BY <1>1, <1>2, <1>5, SameIsQuiet

\* What W keeps of V when only its quotes, its collateral or its debt change.
KeepsHolds(V, W) ==
  /\ W.registered = V.registered /\ W.active = V.active
  /\ W.lockedCollateral = V.lockedCollateral /\ W.pendingDebt = V.pendingDebt
  /\ W.pendingMintCount = V.pendingMintCount /\ W.liquidationNonce = V.liquidationNonce
  /\ W.mintNonce = V.mintNonce

\* A quote: no number of the vault changes but the quote.
LEMMA QuoteMade ==
  ASSUME LedgerInv, VaultTerms, NEW v \in Vault,
         \/ \E x \in Thresholds : SetThreshold(v, x)
         \/ \E x \in MaxMints : SetMaxMintWsxmr(v, x)
         \/ \E x \in GriefingDeposits : SetMintGriefingDeposit(v, x)
         \/ \E x \in MinBurns : SetMinBurnAmount(v, x)
         \/ \E x \in Timeouts : SetMintTimeoutBlocks(v, x) \/ SetBurnTimeoutBlocks(v, x)
         \/ \E x \in MintFees, y \in BurnRewards : SetVaultMarketMetrics(v, x, y)
  PROVE  /\ ConfigUnchanged /\ vaults[v].active
         /\ \E W : /\ vaults' = [vaults EXCEPT ![v] = W]
                  /\ KeepsHolds(vaults[v], W) /\ W.threshold >= MinThreshold
                  /\ W.debt = vaults[v].debt /\ W.collateralShares = vaults[v].collateralShares
<1>1. TypeInv /\ ListedRegistered
  BY DEF LedgerInv, BurnListInv
<1>2. PICK V \in GoodVault : V = vaults[v]
  BY <1>1 DEF TypeInv
<1>3. ConfigUnchanged /\ V.active
  BY <1>2 DEF SetThreshold, SetMaxMintWsxmr, SetMintGriefingDeposit, SetMinBurnAmount,
     SetMintTimeoutBlocks, SetBurnTimeoutBlocks, SetVaultMarketMetrics
<1>4. V.registered /\ V.threshold >= MinThreshold
  BY <1>1, <1>2, <1>3 DEF ListedRegistered, VaultTerms
<1>5. \E W : /\ vaults' = [vaults EXCEPT ![v] = W]
             /\ KeepsHolds(V, W) /\ W.threshold >= MinThreshold
             /\ W.debt = V.debt /\ W.collateralShares = V.collateralShares
  <2>1. CASE \E x \in Thresholds : SetThreshold(v, x)
    <3>1. PICK x \in Thresholds : SetThreshold(v, x)
      BY <2>1
    <3>2. PICK W : W = [V EXCEPT !.threshold = x]
      OBVIOUS
    <3>3. vaults' = [vaults EXCEPT ![v] = W] /\ x >= MinThreshold
      BY <1>1, <1>2, <3>1, <3>2 DEF SetThreshold, TypeInv
    <3>4. KeepsHolds(V, W) /\ W.threshold = x /\ W.debt = V.debt
          /\ W.collateralShares = V.collateralShares
      BY <3>2 DEF GoodVault, VaultRecord, KeepsHolds
    <3>5. QED BY <3>3, <3>4
  <2>2. CASE \/ \E x \in MaxMints : SetMaxMintWsxmr(v, x)
             \/ \E x \in GriefingDeposits : SetMintGriefingDeposit(v, x)
             \/ \E x \in MinBurns : SetMinBurnAmount(v, x)
             \/ \E x \in Timeouts : SetMintTimeoutBlocks(v, x) \/ SetBurnTimeoutBlocks(v, x)
    <3>1. PICK x : \E W \in {[V EXCEPT !.maxMint = x], [V EXCEPT !.griefingDeposit = x],
                             [V EXCEPT !.minBurn = x], [V EXCEPT !.mintTimeout = x],
                             [V EXCEPT !.burnTimeout = x]} : vaults' = [vaults EXCEPT ![v] = W]
      BY <1>1, <1>2, <2>2 DEF SetMaxMintWsxmr, SetMintGriefingDeposit, SetMinBurnAmount,
         SetMintTimeoutBlocks, SetBurnTimeoutBlocks, TypeInv
    <3>2. PICK W : /\ vaults' = [vaults EXCEPT ![v] = W]
                   /\ \/ W = [V EXCEPT !.maxMint = x] \/ W = [V EXCEPT !.griefingDeposit = x]
                      \/ W = [V EXCEPT !.minBurn = x] \/ W = [V EXCEPT !.mintTimeout = x]
                      \/ W = [V EXCEPT !.burnTimeout = x]
      BY <3>1
    <3>3. /\ KeepsHolds(V, W) /\ W.threshold = V.threshold /\ W.debt = V.debt
          /\ W.collateralShares = V.collateralShares
      BY <3>2 DEF GoodVault, VaultRecord, KeepsHolds
    <3>4. QED BY <1>4, <3>2, <3>3
  <2>3. CASE \E x \in MintFees, y \in BurnRewards : SetVaultMarketMetrics(v, x, y)
    <3>1. PICK x \in MintFees, y \in BurnRewards : SetVaultMarketMetrics(v, x, y)
      BY <2>3
    <3>2. PICK W : W = [V EXCEPT !.mintFee = x, !.burnReward = y]
      OBVIOUS
    <3>3. vaults' = [vaults EXCEPT ![v] = W]
      <4>1. vaults' = [vaults EXCEPT ![v].mintFee = x, ![v].burnReward = y]
        BY <3>1 DEF SetVaultMarketMetrics
      <4>2. PICK U : U = [V EXCEPT !.mintFee = x] /\ W = [U EXCEPT !.burnReward = y]
        BY <3>2
      <4>3. PICK F : F = [vaults EXCEPT ![v] = U] /\ vaults' = [F EXCEPT ![v].burnReward = y]
        BY <1>2, <4>1, <4>2
      <4>4. F[v] = U /\ vaults' = [F EXCEPT ![v] = W]
        BY <1>1, <4>2, <4>3 DEF TypeInv
      <4>5. QED BY <1>1, <4>3, <4>4 DEF TypeInv
    <3>4. /\ KeepsHolds(V, W) /\ W.threshold = V.threshold /\ W.debt = V.debt
          /\ W.collateralShares = V.collateralShares
      BY <3>2 DEF GoodVault, VaultRecord, KeepsHolds
    <3>5. QED BY <1>4, <3>3, <3>4
  <2>4. QED BY <2>1, <2>2, <2>3
<1>6. QED BY <1>2, <1>3, <1>5

\* So a quote disturbs nothing.
LEMMA QuotesQuiet ==
  ASSUME LedgerInv, VaultTerms, NEW v \in Vault,
         \/ \E x \in Thresholds : SetThreshold(v, x)
         \/ \E x \in MaxMints : SetMaxMintWsxmr(v, x)
         \/ \E x \in GriefingDeposits : SetMintGriefingDeposit(v, x)
         \/ \E x \in MinBurns : SetMinBurnAmount(v, x)
         \/ \E x \in Timeouts : SetMintTimeoutBlocks(v, x) \/ SetBurnTimeoutBlocks(v, x)
         \/ \E x \in MintFees, y \in BurnRewards : SetVaultMarketMetrics(v, x, y)
  PROVE  (\A w \in Vault : Quiet(w)) /\ RequestsKept
<1>1. TypeInv /\ ListedRegistered
  BY DEF LedgerInv, BurnListInv
<1>2. PICK V \in GoodVault : V = vaults[v]
  BY <1>1 DEF TypeInv
<1>3. ConfigUnchanged /\ V.active
  BY <1>2, QuoteMade
<1>4. UNCHANGED vaultKicks /\ RequestsKept
  BY <1>3 DEF ConfigUnchanged, kickVars, mintVars, burnVars, RequestsKept
<1>5. V.registered /\ V.threshold >= MinThreshold
  BY <1>1, <1>2, <1>3 DEF ListedRegistered, VaultTerms
<1>6. \E W : /\ vaults' = [vaults EXCEPT ![v] = W]
             /\ KeepsHolds(V, W) /\ W.threshold >= MinThreshold
             /\ W.debt = V.debt /\ W.collateralShares = V.collateralShares
  BY <1>2, QuoteMade
<1>7. PICK W : /\ vaults' = [vaults EXCEPT ![v] = W]
               /\ KeepsHolds(V, W) /\ W.threshold >= MinThreshold
               /\ W.debt = V.debt /\ W.collateralShares = V.collateralShares
  BY <1>6
<1>8. V.debt <= V.debt /\ V.collateralShares >= V.collateralShares
  BY VaultFields
<1>9. SameHolds(V, W) /\ Fares(v, V, W)
  BY <1>7, <1>8 DEF SameHolds, Fares, KeepsHolds
<1>10. QED BY <1>2, <1>3, <1>4, <1>7, <1>9, OneVaultQuiet

\* A withdrawal takes what is free of a vault that is not kicked; a retirement finds
\* nothing left.
LEMMA LeavingQuiet ==
  ASSUME LedgerInv, VaultTerms, NEW v \in Vault,
         DeactivateVault(v) \/ \E shares \in WithdrawAmounts : WithdrawCollateral(v, shares)
  PROVE  (\A w \in Vault : Quiet(w)) /\ RequestsKept
<1>1. TypeInv /\ ListedRegistered
  BY DEF LedgerInv, BurnListInv
<1>2. PICK V \in GoodVault : V = vaults[v]
  BY <1>1 DEF TypeInv
<1>3. /\ V.active /\ UNCHANGED vaultKicks /\ RequestsKept /\ ~vaultKicks[v].active
  BY <1>2 DEF DeactivateVault, WithdrawCollateral, kickVars, mintVars, burnVars, RequestsKept, Blocked
<1>4. V.registered /\ V.threshold >= MinThreshold /\ ~vaultKicks'[v].auctionOpened
  BY <1>1, <1>2, <1>3 DEF ListedRegistered, VaultTerms
<1>5. CASE DeactivateVault(v)
  <2>1. PICK W : W = [V EXCEPT !.active = FALSE]
    OBVIOUS
  <2>2. /\ vaults' = [vaults EXCEPT ![v] = W]
        /\ V.debt = 0 /\ V.collateralShares = 0 /\ V.lockedCollateral = 0
    BY <1>1, <1>2, <1>5, <2>1 DEF DeactivateVault, TypeInv
  <2>3. /\ SameHolds(V, W) /\ W.registered /\ ~W.active /\ W.collateralShares = 0
        /\ W.debt = 0 /\ W.lockedCollateral = 0
    BY <1>4, <2>1, <2>2 DEF GoodVault, VaultRecord, SameHolds
  <2>4. Fares(v, V, W)
    BY <2>3 DEF Fares
  <2>5. QED BY <1>2, <1>3, <2>2, <2>3, <2>4, OneVaultQuiet
<1>6. CASE \E shares \in WithdrawAmounts : WithdrawCollateral(v, shares)
  <2>1. PICK shares \in WithdrawAmounts : WithdrawCollateral(v, shares)
    BY <1>6
  <2>2. PICK out \in Nat : out = NormFromRaw(RawFromNorm(shares))
    BY AmountsAssumption, RawOfNorm
  <2>3. PICK W : W = [V EXCEPT !.collateralShares = @ - out]
    OBVIOUS
  <2>4. /\ vaults' = [vaults EXCEPT ![v] = W]
        /\ V.collateralShares >= V.lockedCollateral
        /\ V.collateralShares - V.lockedCollateral >= out
    BY <1>1, <1>2, <2>1, <2>2, <2>3 DEF WithdrawCollateral, TypeInv
  <2>5. /\ SameHolds(V, W) /\ W.registered /\ W.active
        /\ W.lockedCollateral = V.lockedCollateral
        /\ W.collateralShares = V.collateralShares - out
    BY <1>3, <1>4, <2>3 DEF GoodVault, VaultRecord, SameHolds
  <2>6. V.collateralShares \in Nat /\ V.lockedCollateral \in Nat
    BY VaultFields
  <2>7. W.lockedCollateral <= W.collateralShares
    BY <2>2, <2>4, <2>5, <2>6
  <2>8. Fares(v, V, W)
    BY <1>4, <2>5, <2>7 DEF Fares
  <2>9. QED BY <1>2, <1>3, <2>4, <2>5, <2>8, OneVaultQuiet
<1>7. QED BY <1>5, <1>6

\* A deposit and a repayment do a vault good, and may end its kick.
LEMMA PaymentsQuiet ==
  ASSUME LedgerInv, VaultTerms, NEW v \in Vault,
         \/ \E amount \in DepositAmounts : DepositCollateral(v, amount)
         \/ \E amount \in RepayAmounts : RepayDebt(v, amount)
  PROVE  (\A w \in Vault : Quiet(w)) /\ RequestsKept
<1>1. TypeInv /\ ListedRegistered
  BY DEF LedgerInv, BurnListInv
<1>2. PICK V \in GoodVault, k \in GoodKick : V = vaults[v] /\ k = vaultKicks[v]
  BY <1>1 DEF TypeInv
<1>3. V.active /\ RequestsKept /\ (ClearKick(v) \/ UNCHANGED vaultKicks)
  BY <1>2 DEF DepositCollateral, RepayDebt, mintVars, burnVars, RequestsKept
<1>4. V.registered /\ V.threshold >= MinThreshold
  BY <1>1, <1>2, <1>3 DEF ListedRegistered, VaultTerms
<1>5. vaultKicks' = vaultKicks \/ vaultKicks' = [vaultKicks EXCEPT ![v] = NoKick]
  BY <1>3 DEF ClearKick
<1>6. V.collateralShares \in Nat /\ V.debt \in Nat /\ k.bond \in Nat
  BY VaultFields, KickFields
<1>7. PICK gain \in Nat, less \in Nat :
        /\ less <= V.debt
        /\ vaults' = [vaults EXCEPT ![v] = [V EXCEPT !.collateralShares = @ + gain, !.debt = @ - less]]
  <2>1. CASE \E amount \in DepositAmounts : DepositCollateral(v, amount)
    <3>1. PICK amount \in DepositAmounts : DepositCollateral(v, amount)
      BY <2>1
    <3>2. PICK bond \in Nat :
            vaults' = [vaults EXCEPT ![v].collateralShares = @ + bond + NormFromRaw(amount)]
      BY <1>2, <1>6, <3>1 DEF DepositCollateral
    <3>3. PICK x \in Nat : x = NormFromRaw(amount)
      BY AmountsAssumption, RatesAssumption, MulNat DEF NormFromRaw
    <3>4. PICK W : W = [V EXCEPT !.collateralShares = @ + (bond + x), !.debt = @ - 0]
      OBVIOUS
    <3>5. PICK U : U = [V EXCEPT !.collateralShares = @ + bond + x]
      OBVIOUS
    <3>6. V.collateralShares + bond + x = V.collateralShares + (bond + x) /\ V.debt - 0 = V.debt
      BY <1>6
    <3>7. U = W
      BY <3>4, <3>5, <3>6 DEF GoodVault, VaultRecord
    <3>8. vaults' = [vaults EXCEPT ![v] = W]
      BY <1>1, <1>2, <3>2, <3>3, <3>5, <3>7 DEF TypeInv
    <3>9. 0 <= V.debt /\ bond + x \in Nat
      BY <1>6
    <3>10. QED BY <3>4, <3>8, <3>9
  <2>2. CASE \E amount \in RepayAmounts : RepayDebt(v, amount)
    <3>1. PICK amount \in RepayAmounts : RepayDebt(v, amount)
      BY <2>2
    <3>2. amount \in Nat
      BY AmountsAssumption
    <3>3. PICK bond \in Nat, repaid \in Nat :
            /\ repaid <= V.debt
            /\ vaults' = [vaults EXCEPT ![v].collateralShares = @ + bond, ![v].debt = @ - repaid]
      BY <1>2, <1>6, <3>1, <3>2, MonusNat DEF RepayDebt
    <3>4. PICK W : W = [V EXCEPT !.collateralShares = @ + bond, !.debt = @ - repaid]
      OBVIOUS
    <3>5. vaults' = [vaults EXCEPT ![v] = W]
      BY <1>1, <1>2, <3>3, <3>4 DEF TypeInv, GoodVault, VaultRecord
    <3>6. QED BY <3>3, <3>4, <3>5
  <2>3. QED BY <2>1, <2>2
<1>8. PICK W : W = [V EXCEPT !.collateralShares = @ + gain, !.debt = @ - less]
  OBVIOUS
<1>9. /\ SameHolds(V, W) /\ W.registered = V.registered /\ W.active
      /\ W.collateralShares = V.collateralShares + gain /\ W.debt = V.debt - less
  BY <1>3, <1>4, <1>8 DEF GoodVault, VaultRecord, SameHolds
<1>10. W.debt <= V.debt /\ W.collateralShares >= V.collateralShares
  BY <1>6, <1>9
<1>11. Fares(v, V, W)
  BY <1>3, <1>9, <1>10 DEF Fares
<1>12. vaults' = [vaults EXCEPT ![v] = W]
  BY <1>7, <1>8
<1>13. QED BY <1>2, <1>3, <1>5, <1>9, <1>11, <1>12, OneVaultQuiet

\* No operation of an LP disturbs the lock ledger.
LEMMA VaultNextLocks ==
  ASSUME LockInv, TypeInv', VaultNext
  PROVE  LockFacts'
<1>1. LedgerInv /\ VaultTerms /\ TypeInv
  BY DEF LockInv, LockFacts, LedgerInv, BurnListInv
<1>2. CASE \E v \in Vault : CreateVault(v) \/ \E w \in Vault : CreateVaultEvicting(v, w)
  <2>1. (\A w \in Vault : Quiet(w)) /\ RequestsKept
    BY <1>1, <1>2, CreateVaultQuiet
  <2>2. QED BY <2>1, QuietLocks DEF RequestsKept
<1>3. CASE \E v \in Vault :
        DeactivateVault(v) \/ \E shares \in WithdrawAmounts : WithdrawCollateral(v, shares)
  <2>1. (\A w \in Vault : Quiet(w)) /\ RequestsKept
    BY <1>1, <1>3, LeavingQuiet
  <2>2. QED BY <2>1, QuietLocks DEF RequestsKept
<1>4. CASE \E v \in Vault :
        \/ \E amount \in DepositAmounts : DepositCollateral(v, amount)
        \/ \E amount \in RepayAmounts : RepayDebt(v, amount)
  <2>1. (\A w \in Vault : Quiet(w)) /\ RequestsKept
    BY <1>1, <1>4, PaymentsQuiet
  <2>2. QED BY <2>1, QuietLocks DEF RequestsKept
<1>5. CASE \E v \in Vault :
        \/ \E x \in Thresholds : SetThreshold(v, x)
        \/ \E x \in MaxMints : SetMaxMintWsxmr(v, x)
        \/ \E x \in GriefingDeposits : SetMintGriefingDeposit(v, x)
        \/ \E x \in MinBurns : SetMinBurnAmount(v, x)
        \/ \E x \in Timeouts : SetMintTimeoutBlocks(v, x) \/ SetBurnTimeoutBlocks(v, x)
        \/ \E x \in MintFees, y \in BurnRewards : SetVaultMarketMetrics(v, x, y)
  <2>1. (\A w \in Vault : Quiet(w)) /\ RequestsKept
    BY <1>1, <1>5, QuotesQuiet
  <2>2. QED BY <2>1, QuietLocks DEF RequestsKept
<1>6. CASE \/ \E v \in Vault, minters \in Whitelists, on \in BOOLEAN : SetMinterWhitelist(v, minters, on)
           \/ \E a \in Account : WithdrawCollateralReturns(a) \/ WithdrawEthReturns(a)
  <2>1. RequestsKept /\ UNCHANGED <<vaults, vaultKicks>>
    BY <1>6 DEF SetMinterWhitelist, WithdrawCollateralReturns, WithdrawEthReturns, mintVars,
       burnVars, kickVars, RequestsKept
  <2>2. \A w \in Vault : Quiet(w)
    BY <1>1, <2>1, SameIsQuiet
  <2>3. QED BY <2>1, <2>2, QuietLocks DEF RequestsKept
<1>7. QED BY <1>2, <1>3, <1>4, <1>5, <1>6 DEF VaultNext

\* Nor does a kick, a transfer or a block: a kick that starts has opened no auction.
LEMMA OtherNextLocks ==
  ASSUME LockInv, TypeInv',
         \/ \E kicker \in Kickers, v \in Vault : Kick(kicker, v) \/ Reauction(kicker, v)
         \/ TokenNext \/ Tick \/ UNCHANGED vars
  PROVE  LockFacts'
<1>1. VaultTerms /\ TypeInv
  BY DEF LockInv, LockFacts, LedgerInv, BurnListInv
<1>2. CASE \E kicker \in Kickers, v \in Vault : Kick(kicker, v) \/ Reauction(kicker, v)
  <2>1. PICK kicker \in Kickers, v \in Vault : Kick(kicker, v) \/ Reauction(kicker, v)
    BY <1>2
  <2>2. StartKick(v, kicker) /\ KickUnchanged
    BY <2>1 DEF Kick, Reauction
  <2>3. RequestsKept /\ UNCHANGED vaults
    BY <2>2 DEF StartKick, KickUnchanged, mintVars, RequestsKept
  <2>4. PICK k : vaultKicks' = [vaultKicks EXCEPT ![v] = k] /\ ~k.auctionOpened
    <3>1. PICK bond, end :
            vaultKicks' = [vaultKicks EXCEPT ![v] =
              [NoKick EXCEPT !.active = TRUE, !.kicker = kicker, !.bond = bond,
                             !.kickBlock = block, !.auctionEnd = end]]
      BY <2>2 DEF StartKick
    <3>2. PICK k : k = [NoKick EXCEPT !.active = TRUE, !.kicker = kicker, !.bond = bond,
                                      !.kickBlock = block, !.auctionEnd = end]
      OBVIOUS
    <3>3. ~k.auctionOpened
      BY <3>2 DEF NoKick
    <3>4. QED BY <3>1, <3>2, <3>3
  <2>5. /\ ~vaultKicks'[v].auctionOpened
        /\ \A w \in Vault : w # v => vaultKicks'[w] = vaultKicks[w]
    BY <1>1, <2>4 DEF TypeInv
  <2>6. PICK V \in GoodVault : V = vaults[v]
    BY <1>1 DEF TypeInv
  <2>7. SameHolds(V, V) /\ Fares(v, V, V)
    <3>1. V.debt <= V.debt /\ V.collateralShares >= V.collateralShares
      BY VaultFields
    <3>2. V.registered => V.threshold >= MinThreshold
      BY <1>1, <2>6 DEF VaultTerms
    <3>3. QED BY <3>1, <3>2 DEF SameHolds, Fares
  <2>8. Quiet(v)
    BY <2>3, <2>5, <2>6, <2>7 DEF Quiet, SameAuction
  <2>9. \A w \in Vault : Quiet(w)
    BY <1>1, <2>3, <2>5, <2>8, SameIsQuiet
  <2>10. QED BY <2>3, <2>9, QuietLocks DEF RequestsKept
<1>3. CASE TokenNext \/ Tick \/ UNCHANGED vars
  <2>1. RequestsKept /\ UNCHANGED <<vaults, vaultKicks>>
    BY <1>3 DEF TokenNext, Transfer, Tick, vars, mintVars, burnVars, kickVars, RequestsKept
  <2>2. \A w \in Vault : Quiet(w)
    BY <1>1, <2>1, SameIsQuiet
  <2>3. QED BY <2>1, <2>2, QuietLocks DEF RequestsKept
<1>4. QED BY <1>2, <1>3

-----------------------------------------------------------------------------
(* The mints. *)

\* x times y, divided by d, is something when x is and y is at least d.
LEMMA QuotientPositive ==
  ASSUME NEW x \in Nat \ {0}, NEW d \in Nat \ {0}, NEW y \in Nat, y >= d
  PROVE  (x * y) \div d \in Nat \ {0}
<1>1. PICK p \in Nat : p = x * y /\ p >= y
  <2>1. PICK z \in Nat : x = z + 1
    <3>1. x - 1 \in Nat /\ x = (x - 1) + 1
      OBVIOUS
    <3>2. QED BY <3>1
  <2>2. z * y \in Nat
    BY MulNat
  <2>3. x * y = z * y + y
    BY <2>1
  <2>4. QED BY <2>2, <2>3
<1>2. p >= d
  BY <1>1
<1>3. p \div d \in Nat /\ p \div d # 0
  BY <1>2
<1>4. QED BY <1>1, <1>3

\* A bond at a threshold of the hub is never 0.
LEMMA BondPositive ==
  ASSUME NEW amount \in Nat \ {0}, NEW threshold \in Nat, threshold >= MinThreshold
  PROVE  ParLockFor(amount, threshold) \in Nat \ {0}
<1>1. threshold >= WsxmrDecimals
  BY BondAssumption, RatesAssumption
<1>2. ParCollateral(amount, threshold) \in Nat \ {0}
  BY <1>1, RatesAssumption, QuotientPositive DEF ParCollateral
<1>3. QED BY <1>2, BondAssumption, RatesAssumption, QuotientPositive DEF ParLockFor

\* What request r holds of its vault is part of what the vault holds for its mints.
LEMMA MintShare ==
  ASSUME TypeInv, NEW r \in ReqId, NEW m, m = mintRequests[r]
  PROVE  /\ m.status \in MintLive => m.wsxmrAmount <= Reserved(m.lpVault)
         /\ m.status \in MintBonded => m.lockedCollateral <= MintLocks(m.lpVault)
<1>1. /\ MaxRequests \in Nat /\ r \in 1..MaxRequests
      /\ NatOn(MintAmount, MaxRequests) /\ NatOn(MintBond, MaxRequests)
      /\ MintAmount[r] = m.wsxmrAmount /\ MintBond[r] = m.lockedCollateral
  BY MintNumbers DEF MintAmount, MintBond
<1>2. ASSUME m.status \in MintLive
      PROVE  m.wsxmrAmount <= Reserved(m.lpVault)
  <2>1. r \in MintsOf(m.lpVault, MintLive)
    BY <1>2 DEF MintsOf
  <2>2. QED BY <1>1, <2>1, SumOnMember DEF Reserved
<1>3. ASSUME m.status \in MintBonded
      PROVE  m.lockedCollateral <= MintLocks(m.lpVault)
  <2>1. r \in MintsOf(m.lpVault, MintBonded)
    BY <1>3 DEF MintsOf
  <2>2. QED BY <1>1, <2>1, SumOnMember DEF MintLocks
<1>4. QED BY <1>2, <1>3

\* The reservations and the counters follow the request.
LEMMA MintStepExact ==
  ASSUME LockInv, TypeInv', NEW r \in ReqId, NEW m \in GoodMint, NEW q \in GoodMint,
         NEW V \in GoodVault, NEW W \in GoodVault,
         MintStep(r, m, q, V, W), MintBooks(m, q, V, W)
  PROVE  MintsExact'
<1>1. TypeInv /\ MintsExact
  BY DEF LockInv, LockFacts, LedgerInv, BurnListInv
<1>2. /\ m = mintRequests[r] /\ m.status # "INVALID" /\ V = vaults[m.lpVault]
      /\ mintRequests' = [mintRequests EXCEPT ![r] = q]
      /\ vaults' = [vaults EXCEPT ![m.lpVault] = W]
      /\ q.lpVault = m.lpVault /\ q.wsxmrAmount = m.wsxmrAmount
      /\ m.lpVault \in Vault /\ m.wsxmrAmount \in Nat
  BY MintFields DEF MintStep, SameMint
<1>11. TypeInv /\ m = mintRequests[r] /\ mintRequests' = [mintRequests EXCEPT ![r] = q]
  BY <1>1, <1>2
<1>3. PICK v \in Vault : v = m.lpVault
  BY <1>2
<1>4. vaults'[v] = W /\ \A w \in Vault : w # v => vaults'[w] = vaults[w]
  BY <1>1, <1>2, <1>3 DEF TypeInv
<1>5. V.pendingDebt = Reserved(v) /\ V.pendingMintCount = Counted(v)
  BY <1>1, <1>2, <1>3 DEF MintsExact
<1>6. /\ W.pendingDebt \in Nat /\ V.pendingDebt \in Nat
      /\ W.pendingMintCount \in Nat /\ V.pendingMintCount \in Nat
      /\ totalPendingMints \in Nat /\ totalPendingMints' \in Nat
  BY <1>1, VaultFields DEF TypeInv
<1>7. W.pendingDebt = Reserved(v)'
  <2>1. m.status \in MintLive => V.pendingDebt >= m.wsxmrAmount
    <3>1. m.status \in MintLive => m.wsxmrAmount <= Reserved(v)
      BY <1>1, <1>2, <1>3, MintShare
    <3>2. QED BY <1>2, <1>5, <1>6, <3>1
  <2>2. PICK a \in Nat, b \in Nat : /\ a = Part(m.status \in MintLive, m.wsxmrAmount)
                                    /\ b = Part(q.status \in MintLive, m.wsxmrAmount)
    BY <1>2 DEF Part, MintOf
  <2>3. W.pendingDebt + a = V.pendingDebt + b
    BY <2>1, <2>2 DEF MintBooks, PendingBooks
  <2>4. Reserved(v)' + a = Reserved(v) + b /\ Reserved(v)' \in Nat
    <3>1. /\ Reserved(v)' + Part(MintOf(m, v, MintLive), m.wsxmrAmount)
               = Reserved(v) + Part(MintOf(q, v, MintLive), q.wsxmrAmount)
          /\ Reserved(v)' \in Nat
      BY <1>11, MintsMove DEF Part, MintOf
    <3>2. QED BY <1>2, <1>3, <2>2, <3>1 DEF Part, MintOf
  <2>5. QED BY <1>5, <1>6, <2>3, <2>4
<1>8. /\ W.pendingMintCount = Counted(v)'
      /\ totalPendingMints' = Cardinality(AllCounted)'
  <2>1. PICK a \in Nat, b \in Nat : /\ a = Part(m.status \in MintCounted, 1)
                                    /\ b = Part(q.status \in MintCounted, 1)
    BY DEF Part, MintOf
  <2>2. /\ W.pendingMintCount + a = V.pendingMintCount + b
        /\ totalPendingMints' + a = totalPendingMints + b
    BY <2>1 DEF MintBooks, CountBooks
  <2>3. /\ Counted(v)' + a = Counted(v) + b /\ Counted(v)' \in Nat
        /\ Cardinality(AllCounted)' + a = Cardinality(AllCounted) + b
        /\ Cardinality(AllCounted)' \in Nat
    <3>1. /\ Counted(v)' + Part(MintOf(m, v, MintCounted), 1)
               = Counted(v) + Part(MintOf(q, v, MintCounted), 1)
          /\ Cardinality(AllCounted)' + Part(m.status \in MintCounted, 1)
               = Cardinality(AllCounted) + Part(q.status \in MintCounted, 1)
          /\ Counted(v)' \in Nat /\ Cardinality(AllCounted)' \in Nat
      BY <1>11, CountsMove, ZenonT(60)
    <3>2. QED BY <1>2, <1>3, <2>1, <3>1 DEF Part, MintOf
  <2>4. totalPendingMints = Cardinality(AllCounted)
    BY <1>1 DEF MintsExact
  <2>5. PICK n \in Nat : n = Cardinality(AllCounted)'
    BY <2>3
  <2>6. W.pendingMintCount = Counted(v)'
    BY <1>5, <1>6, <2>1, <2>2, <2>3
  <2>7. totalPendingMints' = n
    BY <1>6, <2>1, <2>2, <2>3, <2>4, <2>5
  <2>8. QED BY <2>5, <2>6, <2>7
<1>9. \A w \in Vault : w # v => Reserved(w)' = Reserved(w) /\ Counted(w)' = Counted(w)
  <2>1. SUFFICES ASSUME NEW w \in Vault, w # v
                 PROVE  Reserved(w)' = Reserved(w) /\ Counted(w)' = Counted(w)
    OBVIOUS
  <2>2. /\ Reserved(w)' + Part(MintOf(m, w, MintLive), m.wsxmrAmount)
             = Reserved(w) + Part(MintOf(q, w, MintLive), q.wsxmrAmount)
        /\ Reserved(w) \in Nat /\ Reserved(w)' \in Nat
    BY <1>11, MintsMove DEF Part, MintOf
  <2>3. /\ Counted(w)' + Part(MintOf(m, w, MintCounted), 1)
             = Counted(w) + Part(MintOf(q, w, MintCounted), 1)
        /\ Counted(w) \in Nat /\ Counted(w)' \in Nat
    BY <1>11, CountsMove, ZenonT(60)
  <2>4. QED BY <1>2, <1>3, <2>1, <2>2, <2>3 DEF Part, MintOf
<1>10. QED BY <1>1, <1>4, <1>7, <1>8, <1>9 DEF MintsExact

\* A bond is something, and a nonce that was passed stays passed.
LEMMA MintStepTerms ==
  ASSUME LockInv, TypeInv', NEW r \in ReqId, NEW m \in GoodMint, NEW q \in GoodMint,
         NEW V \in GoodVault, NEW W \in GoodVault,
         MintStep(r, m, q, V, W), MintBooks(m, q, V, W), UNCHANGED <<vaultKicks, backstopped>>
  PROVE  /\ MintTerms' /\ VaultTerms'
         /\ \A w \in Vault : Stale(w)' => Stale(w)
         /\ (q.status \in MintBonded /\ m.status \notin MintBonded) =>
              /\ q.lockedCollateral > 0 /\ q.lockedCollateral <= FreeCollateral(V)
              /\ NonceMatches(m)
<1>1. TypeInv /\ MintTerms /\ VaultTerms /\ Unregistered
  BY DEF LockInv, LockFacts, LedgerInv, LedgerFacts, BurnListInv
<1>2. /\ m = mintRequests[r] /\ m.status # "INVALID" /\ V = vaults[m.lpVault]
      /\ mintRequests' = [mintRequests EXCEPT ![r] = q]
      /\ vaults' = [vaults EXCEPT ![m.lpVault] = W]
      /\ q.lpVault = m.lpVault /\ q.wsxmrAmount = m.wsxmrAmount
      /\ q.vaultMintNonce = m.vaultMintNonce
      /\ m.lpVault \in Vault /\ m.wsxmrAmount \in Nat
  BY MintFields DEF MintStep, SameMint
<1>3. PICK v \in Vault : v = m.lpVault
  BY <1>2
<1>4. /\ vaults'[v] = W /\ \A w \in Vault : w # v => vaults'[w] = vaults[w]
      /\ mintRequests'[r] = q /\ \A i \in ReqId : i # r => mintRequests'[i] = mintRequests[i]
  BY <1>1, <1>2, <1>3 DEF TypeInv
<1>5. SameTerms(V, W)
  BY DEF MintStep
<1>6. W.collateralShares > 0 => V.collateralShares > 0
  <2>1. PICK lost \in Nat : V.collateralShares = W.collateralShares + lost
    BY DEF MintBooks, CollateralBooks
  <2>2. QED BY <2>1, VaultFields
<1>7. \A w \in Vault : Stale(w)' => Stale(w)
  <2>1. SUFFICES ASSUME NEW w \in Vault, Stale(w)' PROVE Stale(w)
    OBVIOUS
  <2>2. Intact' = Intact
    BY DEF Intact
  <2>3. CASE w = v
    <3>1. Stale(v)' => \/ vaultKicks[v].auctionOpened
                       \/ /\ v \in Intact /\ V.registered /\ ~V.active /\ V.collateralShares > 0
      BY <1>4, <1>5, <1>6, <2>2 DEF Stale, SameTerms
    <3>2. QED BY <1>2, <1>3, <2>1, <2>3, <3>1 DEF Stale
  <2>4. CASE w # v
    BY <1>4, <2>1, <2>2, <2>4 DEF Stale
  <2>5. QED BY <2>3, <2>4
<1>8. VaultTerms'
  <2>1. \A w \in Vault : /\ vaults'[w].liquidationNonce = vaults[w].liquidationNonce
                         /\ vaults'[w].registered = vaults[w].registered
                         /\ vaults'[w].threshold = vaults[w].threshold
    BY <1>2, <1>3, <1>4, <1>5 DEF SameTerms
  <2>2. QED BY <1>1, <1>7, <2>1 DEF VaultTerms
<1>9. /\ m.wsxmrAmount > 0
      /\ m.status \in MintBonded => m.lockedCollateral > 0
      /\ m.vaultMintNonce <= V.mintNonce
      /\ Stale(v) => m.vaultMintNonce < V.mintNonce
  BY <1>1, <1>2, <1>3 DEF MintTerms
<1>10. ParLockFor(m.wsxmrAmount, V.threshold) > 0
  <2>1. V.registered
    BY <1>1, <1>2 DEF Unregistered
  <2>2. V.threshold >= MinThreshold /\ V.threshold \in Nat
    BY <1>1, <1>2, <1>3, <2>1, VaultFields DEF VaultTerms
  <2>3. m.wsxmrAmount \in Nat \ {0}
    BY <1>2, <1>9
  <2>4. ParLockFor(m.wsxmrAmount, V.threshold) \in Nat \ {0}
    BY <2>2, <2>3, BondPositive
  <2>5. QED BY <2>4
<1>11. q.status \in MintBonded =>
         \/ m.status \in MintBonded /\ q.lockedCollateral = m.lockedCollateral
         \/ /\ q.lockedCollateral = ParLockFor(m.wsxmrAmount, V.threshold)
            /\ m.status \notin MintBonded =>
                 q.lockedCollateral <= FreeCollateral(V) /\ NonceMatches(m)
  BY DEF MintBooks, BondBooks
<1>12. q.status \in MintBonded => q.lockedCollateral > 0
  BY <1>9, <1>10, <1>11
<1>13. MintTerms'
  <2>1. \A w \in Vault : vaults'[w].mintNonce = vaults[w].mintNonce
    BY <1>2, <1>3, <1>4, <1>5 DEF SameTerms
  <2>2. SUFFICES ASSUME NEW i \in ReqId, NEW w \in Vault, NEW n, n = mintRequests'[i],
                        n.status # "INVALID", n.lpVault = w
                 PROVE  /\ n.wsxmrAmount > 0
                        /\ n.status \in MintBonded => n.lockedCollateral > 0
                        /\ n.vaultMintNonce <= vaults[w].mintNonce
                        /\ Stale(w)' => n.vaultMintNonce < vaults[w].mintNonce
    BY <2>1 DEF MintTerms
  <2>3. CASE i = r
    <3>1. n = q /\ w = v
      BY <1>2, <1>3, <1>4, <2>2, <2>3
    <3>2. /\ q.wsxmrAmount > 0 /\ q.vaultMintNonce <= V.mintNonce
          /\ Stale(v)' => q.vaultMintNonce < V.mintNonce
      BY <1>2, <1>7, <1>9
    <3>3. QED BY <1>2, <1>3, <1>12, <3>1, <3>2
  <2>4. CASE i # r
    <3>1. n = mintRequests[i]
      BY <1>4, <2>2, <2>4
    <3>2. QED BY <1>1, <1>7, <2>2, <3>1 DEF MintTerms
  <2>5. QED BY <2>3, <2>4
<1>14. QED BY <1>7, <1>8, <1>11, <1>12, <1>13

\* The lock follows the request, and only free collateral nobody was offered is locked.
LEMMA MintStepSound ==
  ASSUME LockInv, TypeInv', NEW r \in ReqId, NEW m \in GoodMint, NEW q \in GoodMint,
         NEW V \in GoodVault, NEW W \in GoodVault,
         MintStep(r, m, q, V, W), MintBooks(m, q, V, W),
         UNCHANGED <<vaultKicks, vaultFrozen, backstopped, burnRequests>>, NEW v \in Intact
  PROVE  SoundVault(v)'
<1>0. TypeInv /\ v \in Vault
  BY DEF LockInv, LedgerInv, BurnListInv, Intact
<1>1. TypeInv /\ MintTerms /\ VaultTerms /\ SoundVault(v) /\ v \in Vault
  BY <1>0 DEF LockInv, LockFacts
<1>2. /\ m = mintRequests[r] /\ m.status # "INVALID" /\ V = vaults[m.lpVault]
      /\ mintRequests' = [mintRequests EXCEPT ![r] = q]
      /\ vaults' = [vaults EXCEPT ![m.lpVault] = W]
      /\ q.lpVault = m.lpVault /\ m.lpVault \in Vault
      /\ m.lockedCollateral \in Nat /\ q.lockedCollateral \in Nat
  BY MintFields DEF MintStep, SameMint
<1>3. PICK u \in Vault : u = m.lpVault
  BY <1>2
<1>4. /\ vaults'[u] = W /\ \A w \in Vault : w # u => vaults'[w] = vaults[w]
      /\ mintRequests'[r] = q /\ \A i \in ReqId : i # r => mintRequests'[i] = mintRequests[i]
  BY <1>1, <1>2, <1>3 DEF TypeInv
<1>5. /\ MintLocks(v)' + Part(MintOf(m, v, MintBonded), m.lockedCollateral)
           = MintLocks(v) + Part(MintOf(q, v, MintBonded), q.lockedCollateral)
      /\ MintLocks(v) \in Nat /\ MintLocks(v)' \in Nat
  <2>1. m = mintRequests[r] /\ mintRequests' = [mintRequests EXCEPT ![r] = q]
    BY <1>2
  <2>2. QED BY <1>0, <2>1, MintsMove, ZenonT(60) DEF Part, MintOf
<1>6. BurnLocks(v)' = BurnLocks(v) /\ BurnLocks(v) \in Nat
  BY <1>1, HoldsSame, HoldsNat
<1>7. CASE v # u
  <2>1. MintLocks(v)' = MintLocks(v)
    BY <1>2, <1>3, <1>5, <1>7 DEF Part, MintOf
  <2>2. MintsOf(v, MintBonded)' = MintsOf(v, MintBonded)
    BY <1>2, <1>3, <1>4, <1>7 DEF MintsOf
  <2>3. vaults'[v] = vaults[v]
    BY <1>1, <1>4, <1>7
  <2>4. QED BY <1>1, <1>6, <2>1, <2>2, <2>3 DEF SoundVault
<1>8. CASE v = u
  <2>1. V = vaults[v] /\ vaults'[v] = W /\ m.lpVault = v /\ q.lpVault = v
    BY <1>2, <1>3, <1>4, <1>8
  <2>2. PICK k \in GoodKick : k = vaultKicks[v]
    BY <1>1 DEF TypeInv
  <2>3. /\ V.lockedCollateral = MintLocks(v) + BurnLocks(v)
        /\ V.lockedCollateral <= V.collateralShares
        /\ (k.auctionOpened /\ V.active) =>
             k.offeredCollateral + V.lockedCollateral <= V.collateralShares
        /\ (V.registered /\ ~V.active) =>
             V.debt = 0 /\ V.lockedCollateral = 0 /\ MintsOf(v, MintBonded) = {}
    BY <1>1, <2>1, <2>2 DEF SoundVault
  <2>4. /\ V.lockedCollateral \in Nat /\ V.collateralShares \in Nat /\ V.debt \in Nat
        /\ W.lockedCollateral \in Nat /\ W.collateralShares \in Nat /\ W.debt \in Nat
        /\ k.offeredCollateral \in Nat
    BY VaultFields, KickFields
  <2>5. PICK a \in Nat, b \in Nat : /\ a = Part(m.status \in MintBonded, m.lockedCollateral)
                                    /\ b = Part(q.status \in MintBonded, q.lockedCollateral)
    BY <1>2 DEF Part, MintOf
  <2>6. W.lockedCollateral + a = V.lockedCollateral + b /\ W.lockedCollateral <= W.collateralShares
    <3>1. m.status \in MintBonded => m.lockedCollateral <= MintLocks(v)
      BY <1>1, <1>2, <2>1, MintShare
    <3>2. m.status \in MintBonded => V.lockedCollateral >= m.lockedCollateral
      BY <1>2, <1>5, <1>6, <2>3, <3>1
    <3>3. QED BY <2>3, <2>5, <3>2 DEF MintBooks, LockBooks
  <2>7. MintLocks(v)' + a = MintLocks(v) + b
    BY <1>5, <2>1, <2>5 DEF Part, MintOf
  <2>8. W.lockedCollateral = MintLocks(v)' + BurnLocks(v)'
    BY <1>5, <1>6, <2>3, <2>4, <2>6, <2>7
  <2>9. SameTerms(V, W)
    BY DEF MintStep
  <2>10. (k.auctionOpened /\ W.active) =>
           k.offeredCollateral + W.lockedCollateral <= W.collateralShares
    <3>1. SUFFICES ASSUME k.auctionOpened, W.active
                   PROVE  k.offeredCollateral + W.lockedCollateral <= W.collateralShares
      OBVIOUS
    <3>2. Stale(v) /\ Blocked(v)
      BY <1>1, <2>2, <3>1 DEF Stale, VaultTerms, Blocked
    <3>3. m.vaultMintNonce < V.mintNonce
      BY <1>1, <1>2, <2>1, <3>2 DEF MintTerms
    <3>4. m.vaultMintNonce \in Nat /\ V.mintNonce \in Nat
      BY VaultFields DEF GoodMint, MintRecord
    <3>5. ~NonceMatches(m)
      BY <1>2, <3>3, <3>4 DEF NonceMatches
    <3>6. FreeCollateral(W) >= FreeCollateral(V)
      BY <2>1, <3>2, <3>5 DEF MintBooks, LockBooks
    <3>7. k.offeredCollateral + V.lockedCollateral <= V.collateralShares
      BY <2>3, <2>9, <3>1 DEF SameTerms
    <3>8. /\ FreeCollateral(W) = W.collateralShares - W.lockedCollateral
          /\ FreeCollateral(V) = V.collateralShares - V.lockedCollateral
      BY <2>3, <2>4, <2>6 DEF FreeCollateral, Monus
    <3>9. QED BY <2>4, <3>6, <3>7, <3>8
  <2>11. (W.registered /\ ~W.active) =>
           W.debt = 0 /\ W.lockedCollateral = 0 /\ MintsOf(v, MintBonded)' = {}
    <3>1. SUFFICES ASSUME W.registered, ~W.active
                   PROVE  W.debt = 0 /\ W.lockedCollateral = 0 /\ MintsOf(v, MintBonded)' = {}
      OBVIOUS
    <3>2. V.registered /\ ~V.active
      BY <2>9, <3>1 DEF SameTerms
    <3>3. V.debt = 0 /\ V.lockedCollateral = 0 /\ MintsOf(v, MintBonded) = {}
      BY <2>3, <3>2
    <3>4. m.status \notin MintBonded
      BY <1>2, <2>1, <3>3 DEF MintsOf
    <3>5. W.debt = 0
      <4>1. W.debt >= V.debt /\ ~(W.debt > V.debt)
        BY <3>4 DEF MintBooks, DebtBooks
      <4>2. QED BY <2>4, <3>3, <4>1
    <3>6. q.status \notin MintBonded
      <4>1. SUFFICES ASSUME q.status \in MintBonded PROVE FALSE
        OBVIOUS
      <4>2. /\ q.lockedCollateral > 0 /\ q.lockedCollateral <= FreeCollateral(V)
            /\ NonceMatches(m)
        BY <3>4, <4>1, MintStepTerms
      <4>3. FreeCollateral(V) = V.collateralShares
        BY <2>4, <3>3 DEF FreeCollateral, Monus
      <4>4. V.collateralShares > 0
        BY <1>2, <2>4, <4>2, <4>3
      <4>5. Stale(v)
        BY <2>1, <3>2, <4>4 DEF Stale
      <4>6. m.vaultMintNonce < V.mintNonce
        BY <1>1, <1>2, <2>1, <4>5 DEF MintTerms
      <4>7. m.vaultMintNonce \in Nat /\ V.mintNonce \in Nat
        BY VaultFields DEF GoodMint, MintRecord
      <4>8. QED BY <1>2, <4>2, <4>6, <4>7 DEF NonceMatches
    <3>7. MintsOf(v, MintBonded)' = {}
      BY <1>4, <3>3, <3>6 DEF MintsOf
    <3>8. W.lockedCollateral = 0
      <4>1. a = 0 /\ b = 0
        BY <2>5, <3>4, <3>6 DEF Part, MintOf
      <4>2. QED BY <2>4, <2>6, <3>3, <4>1
    <3>9. QED BY <3>5, <3>7, <3>8
  <2>12. vaultKicks'[v] = k
    BY <2>2
  <2>13. QED BY <2>1, <2>6, <2>8, <2>10, <2>11, <2>12 DEF SoundVault
<1>9. QED BY <1>7, <1>8

\* A new request is pending, under an id no mint has had.
LEMMA MintRequested ==
  ASSUME TypeInv, NEW u \in Minters, NEW recipient \in Recipients, NEW v \in Vault,
         NEW amount \in MintAmounts, NEW value \in EthValues,
         InitiateMint(u, recipient, v, amount, value)
  PROVE  /\ requestNonce + 1 \in ReqId
         /\ MintsFresh => mintRequests[requestNonce + 1].status = "INVALID"
         /\ \E q : /\ mintRequests' = [mintRequests EXCEPT ![requestNonce + 1] = q]
                  /\ q.status = "PENDING" /\ q.lpVault = v /\ q.wsxmrAmount = amount
                  /\ q.vaultMintNonce = vaults[v].mintNonce
<1>1. requestNonce + 1 \in ReqId /\ requestNonce + 1 > requestNonce
  BY SizesAssumption, SMTT(30) DEF InitiateMint, TypeInv, ReqId
<1>2. PICK fee, timeout :
        mintRequests' = [mintRequests EXCEPT ![requestNonce + 1] =
          [EmptyMint EXCEPT !.status = "PENDING", !.initiator = u, !.recipient = recipient,
                            !.lpVault = v, !.wsxmrAmount = amount, !.feeAmount = fee,
                            !.timeout = timeout, !.griefingDeposit = value,
                            !.vaultMintNonce = vaults[v].mintNonce]]
  BY DEF InitiateMint
<1>3. PICK q : q = [EmptyMint EXCEPT !.status = "PENDING", !.initiator = u,
                            !.recipient = recipient, !.lpVault = v, !.wsxmrAmount = amount,
                            !.feeAmount = fee, !.timeout = timeout, !.griefingDeposit = value,
                            !.vaultMintNonce = vaults[v].mintNonce]
  OBVIOUS
<1>4. /\ q.status = "PENDING" /\ q.lpVault = v /\ q.wsxmrAmount = amount
      /\ q.vaultMintNonce = vaults[v].mintNonce
  BY <1>3 DEF EmptyMint
<1>5. QED BY <1>1, <1>2, <1>3, <1>4 DEF MintsFresh

\* A new request holds nothing yet.
LEMMA InitiateMintLocks ==
  ASSUME LockInv, TypeInv', NEW u \in Minters, NEW recipient \in Recipients, NEW v \in Vault,
         NEW amount \in MintAmounts, NEW value \in EthValues,
         InitiateMint(u, recipient, v, amount, value)
  PROVE  LockFacts'
<1>1. TypeInv /\ MintsExact /\ MintTerms /\ VaultTerms /\ MintsFresh
  BY DEF LockInv, LockFacts, LedgerInv, LedgerFacts, BurnListInv
<1>2. UNCHANGED <<vaults, vaultKicks, backstopped, burnRequests, totalPendingMints>>
  BY DEF InitiateMint, burnVars, kickVars
<1>3. PICK r \in ReqId : r = requestNonce + 1 /\ mintRequests[r].status = "INVALID"
  BY <1>1, MintRequested
<1>4. PICK q : /\ mintRequests' = [mintRequests EXCEPT ![r] = q]
               /\ q.status = "PENDING" /\ q.lpVault = v /\ q.wsxmrAmount = amount
               /\ q.vaultMintNonce = vaults[v].mintNonce
  BY <1>1, <1>3, MintRequested
<1>5. /\ mintRequests'[r] = q /\ \A i \in ReqId : i # r => mintRequests'[i] = mintRequests[i]
      /\ "PENDING" \notin MintBonded /\ "INVALID" \notin MintBonded
      /\ "PENDING" \notin MintLive /\ "INVALID" \notin MintLive
      /\ "PENDING" \notin MintCounted /\ "INVALID" \notin MintCounted
  BY <1>1, <1>4 DEF TypeInv, MintBonded, MintLive, MintCounted
<1>6. /\ \A w \in Vault : \A S \in {MintBonded, MintLive, MintCounted} : MintsOf(w, S)' = MintsOf(w, S)
      /\ AllCounted' = AllCounted
  BY <1>3, <1>4, <1>5 DEF MintsOf, AllCounted
<1>7. PICK m : m = mintRequests[r] /\ m.status = "INVALID"
  BY <1>3
<1>8. \A w \in Vault : /\ Reserved(w)' = Reserved(w) /\ Counted(w)' = Counted(w)
                       /\ MintLocks(w)' = MintLocks(w)
  <2>1. SUFFICES ASSUME NEW w \in Vault
                 PROVE  /\ Reserved(w)' = Reserved(w) /\ Counted(w)' = Counted(w)
                        /\ MintLocks(w)' = MintLocks(w)
    OBVIOUS
  <2>2. TypeInv /\ m = mintRequests[r] /\ mintRequests' = [mintRequests EXCEPT ![r] = q]
    BY <1>1, <1>4, <1>7
  <2>3. /\ Reserved(w)' + Part(MintOf(m, w, MintLive), m.wsxmrAmount)
             = Reserved(w) + Part(MintOf(q, w, MintLive), q.wsxmrAmount)
        /\ Reserved(w) \in Nat /\ Reserved(w)' \in Nat
    BY <2>2, MintsMove DEF Part, MintOf
  <2>4. /\ MintLocks(w)' + Part(MintOf(m, w, MintBonded), m.lockedCollateral)
             = MintLocks(w) + Part(MintOf(q, w, MintBonded), q.lockedCollateral)
        /\ MintLocks(w) \in Nat /\ MintLocks(w)' \in Nat
    BY <2>2, MintsMove DEF Part, MintOf
  <2>5. ~MintOf(m, w, MintLive) /\ ~MintOf(q, w, MintLive)
        /\ ~MintOf(m, w, MintBonded) /\ ~MintOf(q, w, MintBonded)
    BY <1>4, <1>5, <1>7 DEF MintOf
  <2>6. Reserved(w)' = Reserved(w)
    BY <2>3, <2>5 DEF Part
  <2>7. MintLocks(w)' = MintLocks(w)
    BY <2>4, <2>5 DEF Part
  <2>8. Counted(w)' = Counted(w)
    BY <1>6 DEF Counted
  <2>9. QED BY <2>6, <2>7, <2>8
<1>9. MintsExact'
  BY <1>1, <1>2, <1>6, <1>8 DEF MintsExact
<1>10. \A w \in Vault : Stale(w)' <=> Stale(w)
  BY <1>2 DEF Stale, Intact
<1>11. VaultTerms'
  BY <1>1, <1>2, <1>10 DEF VaultTerms
<1>12. MintTerms'
  <2>1. SUFFICES ASSUME NEW i \in ReqId, NEW w \in Vault, NEW n, n = mintRequests'[i],
                        n.status # "INVALID", n.lpVault = w
                 PROVE  /\ n.wsxmrAmount > 0
                        /\ n.status \in MintBonded => n.lockedCollateral > 0
                        /\ n.vaultMintNonce <= vaults[w].mintNonce
                        /\ Stale(w)' => n.vaultMintNonce < vaults[w].mintNonce
    BY <1>2 DEF MintTerms
  <2>2. CASE i = r
    <3>1. n = q /\ w = v
      BY <1>4, <1>5, <2>1, <2>2
    <3>2. amount > 0
      BY AmountsAssumption
    <3>3. vaults[v].mintNonce \in Nat
      BY <1>1, VaultFields DEF TypeInv
    <3>4. ~Stale(v)
      BY <1>1 DEF InitiateMint, Blocked, Stale, VaultTerms
    <3>5. QED BY <1>4, <1>5, <1>10, <3>1, <3>2, <3>3, <3>4
  <2>3. CASE i # r
    <3>1. n = mintRequests[i]
      BY <1>5, <2>1, <2>3
    <3>2. QED BY <1>1, <1>10, <2>1, <3>1 DEF MintTerms
  <2>4. QED BY <2>2, <2>3
<1>13. \A w \in Intact' : SoundVault(w)'
  <2>1. SUFFICES ASSUME NEW w \in Intact PROVE SoundVault(w)'
    BY <1>2 DEF Intact
  <2>2. w \in Vault /\ SoundVault(w)
    BY DEF Intact, LockInv, LockFacts
  <2>3. /\ MintLocks(w)' = MintLocks(w) /\ BurnLocks(w)' = BurnLocks(w)
        /\ MintsOf(w, MintBonded)' = MintsOf(w, MintBonded)
    BY <1>2, <1>6, <1>8, <2>2, HoldsSame
  <2>4. QED BY <1>2, <2>2, <2>3 DEF SoundVault
<1>14. QED BY <1>9, <1>11, <1>12, <1>13 DEF LockFacts

\* Every step of a mint.
LEMMA MintNextLocks ==
  ASSUME LockInv, TypeInv', MintNext
  PROVE  LockFacts'
<1>1. TypeInv
  BY DEF LockInv, LedgerInv, BurnListInv
<1>2. CASE \E r \in ReqId : MintAction(r)
  <2>1. PICK r \in ReqId : MintAction(r)
    BY <1>2
  <2>2. PICK m, q \in GoodMint, V, W \in GoodVault :
          MintStep(r, m, q, V, W) /\ MintBooks(m, q, V, W)
    BY <1>1, <2>1, MintActionBooks
  <2>3. UNCHANGED <<vaultKicks, vaultFrozen, backstopped, burnRequests>>
    BY <1>1, <2>1, MintActionBooks DEF MintUnchanged, burnVars, kickVars
  <2>4. MintsExact'
    BY <2>2, MintStepExact
  <2>5. MintTerms' /\ VaultTerms'
    BY <2>2, <2>3, MintStepTerms
  <2>6. \A v \in Intact : SoundVault(v)'
    BY <2>2, <2>3, MintStepSound
  <2>7. Intact' = Intact
    BY <2>3 DEF Intact
  <2>8. QED BY <2>4, <2>5, <2>6, <2>7 DEF LockFacts
<1>3. CASE \E u \in Minters, recipient \in Recipients, v \in Vault,
              amount \in MintAmounts, value \in EthValues :
             InitiateMint(u, recipient, v, amount, value)
  BY <1>3, InitiateMintLocks
<1>4. QED BY <1>2, <1>3 DEF MintNext, MintAction

-----------------------------------------------------------------------------
(* The burns. *)

\* The lock follows the burn, and none of what an auction offers is locked for it.
LEMMA BurnStepSound ==
  ASSUME LockInv, TypeInv', NEW r \in ReqId, NEW b \in GoodBurn, NEW c \in GoodBurn,
         NEW V \in GoodVault, NEW W \in GoodVault,
         BurnStep(r, b, c, V, W), BurnBooks(r, b, c, V, W),
         UNCHANGED <<vaultKicks, vaultFrozen, backstopped, mintRequests>>, NEW v \in Intact
  PROVE  SoundVault(v)'
<1>0. TypeInv /\ v \in Vault
  BY DEF LockInv, LedgerInv, BurnListInv, Intact
<1>1. VaultTerms /\ SoundVault(v)
  BY DEF LockInv, LockFacts
<1>2. /\ b = burnRequests[r] /\ V = vaults[c.lpVault]
      /\ burnRequests' = [burnRequests EXCEPT ![r] = c]
      /\ vaults' = [vaults EXCEPT ![c.lpVault] = W]
      /\ c.lpVault \in Vault
      /\ Active(b) => b.lpVault = c.lpVault
      /\ Active(c) => (Active(b) /\ TotalLock(c) = TotalLock(b)) \/ V.active
      /\ SameTerms(V, W)
  <2>1. b.status # "INVALID" => SameBurn(b, c)
    BY DEF BurnStep
  <2>2. SameBurn(b, c) => c.lpVault = b.lpVault /\ TotalLock(c) = TotalLock(b)
    BY DEF SameBurn, TotalLock
  <2>3. Active(b) => b.status # "INVALID"
    BY DEF Active, ActiveBurn
  <2>4. Active(c) => Active(b) \/ V.active
    BY DEF BurnStep, Active
  <2>5. c.lpVault \in Vault
    BY BurnFields DEF BurnStep
  <2>6. QED BY <2>1, <2>2, <2>3, <2>4, <2>5 DEF BurnStep
<1>3. PICK u \in Vault : u = c.lpVault
  BY <1>2
<1>4. vaults'[u] = W /\ \A w \in Vault : w # u => vaults'[w] = vaults[w]
  BY <1>0, <1>2, <1>3 DEF TypeInv
<1>5. /\ BurnLocks(v)' + Part(BurnOf(b, v), TotalLock(b))
           = BurnLocks(v) + Part(BurnOf(c, v), TotalLock(c))
      /\ BurnLocks(v) \in Nat /\ BurnLocks(v)' \in Nat
  <2>1. b = burnRequests[r] /\ burnRequests' = [burnRequests EXCEPT ![r] = c]
    BY <1>2
  <2>2. QED BY <1>0, <2>1, BurnLocksMove DEF Part, BurnOf
<1>6. /\ MintLocks(v)' = MintLocks(v) /\ MintLocks(v) \in Nat
      /\ MintsOf(v, MintBonded)' = MintsOf(v, MintBonded)
  BY <1>0, HoldsSame, HoldsNat
<1>7. CASE v # u
  <2>1. ~BurnOf(b, v) /\ ~BurnOf(c, v)
    BY <1>2, <1>3, <1>7 DEF BurnOf
  <2>2. BurnLocks(v)' = BurnLocks(v)
    BY <1>5, <2>1 DEF Part
  <2>3. vaults'[v] = vaults[v]
    BY <1>0, <1>4, <1>7
  <2>4. QED BY <1>1, <1>6, <2>2, <2>3 DEF SoundVault
<1>8. CASE v = u
  <2>1. V = vaults[v] /\ vaults'[v] = W /\ c.lpVault = v
    BY <1>2, <1>3, <1>4, <1>8
  <2>2. PICK k \in GoodKick : k = vaultKicks[v]
    BY <1>0 DEF TypeInv
  <2>3. /\ V.lockedCollateral = MintLocks(v) + BurnLocks(v)
        /\ V.lockedCollateral <= V.collateralShares
        /\ (k.auctionOpened /\ V.active) =>
             k.offeredCollateral + V.lockedCollateral <= V.collateralShares
        /\ (V.registered /\ ~V.active) =>
             V.debt = 0 /\ V.lockedCollateral = 0 /\ MintsOf(v, MintBonded) = {}
    BY <1>1, <2>1, <2>2 DEF SoundVault
  <2>4. /\ V.lockedCollateral \in Nat /\ V.collateralShares \in Nat /\ V.debt \in Nat
        /\ W.lockedCollateral \in Nat /\ W.collateralShares \in Nat /\ W.debt \in Nat
        /\ k.offeredCollateral \in Nat
    BY VaultFields, KickFields
  <2>5. PICK x \in Nat, y \in Nat : /\ x = Part(Active(b), TotalLock(b))
                                    /\ y = Part(Active(c), TotalLock(c))
    BY BurnAmountsNat DEF Part
  <2>6. W.lockedCollateral + x = V.lockedCollateral + y /\ W.lockedCollateral <= W.collateralShares
    BY <2>3, <2>5 DEF BurnBooks, BurnLockBooks
  <2>7. BurnLocks(v)' + x = BurnLocks(v) + y
    <3>1. BurnOf(b, v) <=> Active(b)
      BY <1>2, <2>1 DEF BurnOf
    <3>2. BurnOf(c, v) <=> Active(c)
      BY <2>1 DEF BurnOf
    <3>3. QED BY <1>5, <2>5, <3>1, <3>2 DEF Part
  <2>8. W.lockedCollateral = MintLocks(v)' + BurnLocks(v)'
    BY <1>5, <1>6, <2>3, <2>4, <2>6, <2>7
  <2>9. (k.auctionOpened /\ W.active) =>
          k.offeredCollateral + W.lockedCollateral <= W.collateralShares
    <3>1. SUFFICES ASSUME k.auctionOpened, W.active
                   PROVE  k.offeredCollateral + W.lockedCollateral <= W.collateralShares
      OBVIOUS
    <3>2. Blocked(v)
      BY <1>0, <1>1, <2>2, <3>1 DEF VaultTerms, Blocked
    <3>3. FreeCollateral(W) >= FreeCollateral(V)
      BY <2>1, <3>2 DEF BurnBooks, BurnLockBooks
    <3>4. k.offeredCollateral + V.lockedCollateral <= V.collateralShares
      BY <1>2, <2>3, <3>1 DEF SameTerms
    <3>5. /\ FreeCollateral(W) = W.collateralShares - W.lockedCollateral
          /\ FreeCollateral(V) = V.collateralShares - V.lockedCollateral
      BY <2>3, <2>4, <2>6 DEF FreeCollateral, Monus
    <3>6. QED BY <2>4, <3>3, <3>4, <3>5
  <2>10. (W.registered /\ ~W.active) =>
           W.debt = 0 /\ W.lockedCollateral = 0 /\ MintsOf(v, MintBonded)' = {}
    <3>1. SUFFICES ASSUME W.registered, ~W.active
                   PROVE  W.debt = 0 /\ W.lockedCollateral = 0 /\ MintsOf(v, MintBonded)' = {}
      OBVIOUS
    <3>2. V.registered /\ ~V.active
      BY <1>2, <3>1 DEF SameTerms
    <3>3. V.debt = 0 /\ V.lockedCollateral = 0 /\ MintsOf(v, MintBonded) = {}
      BY <2>3, <3>2
    <3>4. W.debt = 0
      <4>1. W.debt <= V.debt
        BY DEF BurnBooks, BurnDebtBooks
      <4>2. QED BY <2>4, <3>3, <4>1
    <3>5. y <= x
      BY <1>2, <2>5, <3>2 DEF Part
    <3>6. W.lockedCollateral = 0
      BY <2>4, <2>6, <3>3, <3>5
    <3>7. QED BY <1>6, <3>3, <3>4, <3>6
  <2>11. vaultKicks'[v] = k
    BY <2>2
  <2>12. QED BY <2>1, <2>6, <2>8, <2>9, <2>10, <2>11 DEF SoundVault
<1>9. QED BY <1>7, <1>8

\* A burn changes no mint, and the terms of no vault.
LEMMA BurnStepLocks ==
  ASSUME LockInv, TypeInv', NEW r \in ReqId, NEW b \in GoodBurn, NEW c \in GoodBurn,
         NEW V \in GoodVault, NEW W \in GoodVault,
         BurnStep(r, b, c, V, W), BurnBooks(r, b, c, V, W),
         UNCHANGED <<vaultKicks, vaultFrozen, backstopped, mintRequests, totalPendingMints>>
  PROVE  LockFacts'
<1>1. TypeInv /\ MintsExact /\ MintTerms /\ VaultTerms
  BY DEF LockInv, LockFacts, LedgerInv, BurnListInv
<1>2. PICK u \in Vault : u = c.lpVault
  BY BurnFields DEF BurnStep
<1>3. /\ V = vaults[u] /\ vaults'[u] = W /\ \A w \in Vault : w # u => vaults'[w] = vaults[w]
      /\ SameTerms(V, W) /\ W.pendingDebt = V.pendingDebt
      /\ W.pendingMintCount = V.pendingMintCount
  BY <1>1, <1>2 DEF TypeInv, BurnStep
<1>4. MintsExact'
  <2>1. \A w \in Vault : /\ vaults'[w].pendingDebt = vaults[w].pendingDebt
                         /\ vaults'[w].pendingMintCount = vaults[w].pendingMintCount
    BY <1>3
  <2>2. QED BY <1>1, <2>1, HoldsSame DEF MintsExact
<1>5. W.collateralShares > 0 => V.collateralShares > 0
  <2>1. PICK lost \in Nat : V.collateralShares = W.collateralShares + lost
    BY DEF BurnBooks, CollateralBooks
  <2>2. QED BY <2>1, VaultFields
<1>6. \A w \in Vault : Stale(w)' => Stale(w)
  <2>1. SUFFICES ASSUME NEW w \in Vault, Stale(w)' PROVE Stale(w)
    OBVIOUS
  <2>2. Intact' = Intact
    BY DEF Intact
  <2>3. CASE w = u
    <3>1. Stale(u)' => \/ vaultKicks[u].auctionOpened
                       \/ /\ u \in Intact /\ V.registered /\ ~V.active /\ V.collateralShares > 0
      BY <1>3, <1>5, <2>2 DEF Stale, SameTerms
    <3>2. QED BY <1>3, <2>1, <2>3, <3>1 DEF Stale
  <2>4. CASE w # u
    BY <1>3, <2>1, <2>2, <2>4 DEF Stale
  <2>5. QED BY <2>3, <2>4
<1>7. \A w \in Vault : /\ vaults'[w].liquidationNonce = vaults[w].liquidationNonce
                       /\ vaults'[w].registered = vaults[w].registered
                       /\ vaults'[w].threshold = vaults[w].threshold
                       /\ vaults'[w].mintNonce = vaults[w].mintNonce
  BY <1>3 DEF SameTerms
<1>8. VaultTerms'
  BY <1>1, <1>6, <1>7 DEF VaultTerms
<1>9. MintTerms'
  BY <1>1, <1>6, <1>7 DEF MintTerms
<1>10. \A v \in Intact : SoundVault(v)'
  BY BurnStepSound
<1>11. QED BY <1>4, <1>8, <1>9, <1>10 DEF LockFacts, Intact

\* Every step of a burn.
LEMMA BurnNextLocks ==
  ASSUME LockInv, TypeInv', BurnNext
  PROVE  LockFacts'
<1>1. BurnListInv /\ AbandonedCancelled
  BY DEF LockInv, LedgerInv, LedgerFacts
<1>2. CASE \E r \in ReqId : BurnAction(r)
  <2>1. PICK r \in ReqId : BurnAction(r)
    BY <1>2
  <2>2. PICK b, c \in GoodBurn, V, W \in GoodVault :
          BurnStep(r, b, c, V, W) /\ BurnBooks(r, b, c, V, W)
    BY <1>1, <2>1, BurnActionBooks
  <2>3. UNCHANGED <<vaultKicks, vaultFrozen, backstopped, mintRequests, totalPendingMints>>
    BY <1>1, <2>1, BurnActionBooks DEF BurnUnchanged, mintVars, kickVars
  <2>4. QED BY <2>2, <2>3, BurnStepLocks
<1>3. CASE \E u \in Burners, v \in Vault, amount \in BurnAmounts : RequestBurn(u, v, amount)
  <2>1. PICK u \in Burners, v \in Vault, amount \in BurnAmounts : RequestBurn(u, v, amount)
    BY <1>3
  <2>2. PICK r \in ReqId, b, c \in GoodBurn, V, W \in GoodVault :
          BurnStep(r, b, c, V, W) /\ BurnBooks(r, b, c, V, W)
    BY <1>1, <2>1, RequestBurnBooks
  <2>3. UNCHANGED <<vaultKicks, vaultFrozen, backstopped, mintRequests, totalPendingMints>>
    BY <2>1 DEF RequestBurn, mintVars, kickVars
  <2>4. QED BY <2>2, <2>3, BurnStepLocks
<1>4. QED BY <1>2, <1>3 DEF BurnNext, BurnAction


-----------------------------------------------------------------------------
(* The settlements. *)

\* An auction that opens leaves every mint of its vault behind.
LEMMA OpenedTerms ==
  ASSUME LockInv, NEW v \in Vault, NEW V \in GoodVault, V = vaults[v],
         NEW O \in GoodVault, O = OpenedVault(v)
  PROVE  /\ O.liquidationNonce > 0 /\ O.mintNonce >= V.mintNonce
         /\ O.registered => O.threshold >= MinThreshold
         /\ \A r \in ReqId : (mintRequests[r].status # "INVALID" /\ mintRequests[r].lpVault = v) =>
              mintRequests[r].vaultMintNonce < O.mintNonce
<1>1. TypeInv /\ MintTerms /\ VaultTerms
  BY DEF LockInv, LockFacts, LedgerInv, BurnListInv
<1>2. /\ O.registered = V.registered /\ O.threshold = V.threshold
      /\ O.liquidationNonce
           = IF vaultKicks[v].auctionOpened THEN V.liquidationNonce ELSE V.liquidationNonce + 1
      /\ O.mintNonce
           = IF vaultKicks[v].auctionOpened THEN V.mintNonce ELSE V.mintNonce + 1
  BY <1>1, OpenedFields
<1>3. V.liquidationNonce \in Nat /\ V.mintNonce \in Nat
  BY VaultFields
<1>4. vaultKicks[v].auctionOpened => V.liquidationNonce > 0
  BY <1>1 DEF VaultTerms, Stale
<1>5. O.liquidationNonce > 0 /\ O.mintNonce >= V.mintNonce
  BY <1>2, <1>3, <1>4
<1>6. V.registered => V.threshold >= MinThreshold
  BY <1>1 DEF VaultTerms
<1>7. ASSUME NEW r \in ReqId, mintRequests[r].status # "INVALID", mintRequests[r].lpVault = v
      PROVE  mintRequests[r].vaultMintNonce < O.mintNonce
  <2>1. mintRequests[r].vaultMintNonce \in Nat
    BY <1>1 DEF TypeInv, GoodMint, MintRecord
  <2>2. /\ mintRequests[r].vaultMintNonce <= V.mintNonce
        /\ vaultKicks[v].auctionOpened => mintRequests[r].vaultMintNonce < V.mintNonce
    BY <1>1, <1>7 DEF MintTerms, Stale
  <2>3. QED BY <1>2, <1>3, <2>1, <2>2
<1>8. QED BY <1>2, <1>5, <1>6, <1>7

\* What it settles it takes out of the locks; the offer is what is left free.
LEMMA OpenedSound ==
  ASSUME LockInv, NEW v \in Intact, NEW V \in GoodVault, V = vaults[v],
         NEW O \in GoodVault, O = OpenedVault(v),
         SettleBurns(v, ToSettle(v)), UNCHANGED <<abandonedBurns, mintRequests>>
  PROVE  /\ O.lockedCollateral = MintLocks(v)' + BurnLocks(v)'
         /\ O.lockedCollateral <= O.collateralShares
         /\ V.active => Offered(v) + O.lockedCollateral <= O.collateralShares
         /\ (V.registered /\ ~V.active) =>
              O.debt = 0 /\ O.lockedCollateral = 0 /\ MintsOf(v, MintBonded)' = {}
         /\ Offered(v) \in Nat
         /\ O.collateralShares + V.lockedCollateral >= V.collateralShares + O.lockedCollateral
         /\ O.debt <= V.debt
<1> DEFINE S == ToSettle(v)
<1>1. /\ TypeInv /\ BurnListInv /\ AbandonedCancelled /\ v \in Vault
      /\ SoundVault(v) /\ Settles(v, S) /\ vaultKicks[v] \in GoodKick
  BY DEF LockInv, LockFacts, LedgerInv, LedgerFacts, BurnListInv, Intact, Settles, ToSettle, TypeInv
<1>2. PICK ml \in Nat, bl \in Nat, rel \in Nat, out \in Nat, ac \in Nat :
        /\ ml = MintLocks(v) /\ bl = BurnLocks(v)
        /\ rel = ReleasedLocks(v, S) /\ out = Outflows(S) /\ ac = AmountOf(Committed(S))
  BY <1>1, HoldsNat, SettledOutflows, SettledInFlight
<1>3. out <= rel
  BY <1>1, <1>2, SettledOutflows
<1>4. bl = BurnLocks(v)' + rel
  BY <1>1, <1>2, SettledInFlight
<1>5. /\ V.lockedCollateral = ml + bl /\ V.lockedCollateral <= V.collateralShares
      /\ (vaultKicks[v].auctionOpened /\ V.active) =>
           vaultKicks[v].offeredCollateral + V.lockedCollateral <= V.collateralShares
      /\ (V.registered /\ ~V.active) =>
           V.debt = 0 /\ V.lockedCollateral = 0 /\ MintsOf(v, MintBonded) = {}
  BY <1>1, <1>2 DEF SoundVault
<1>6. /\ O.lockedCollateral = Monus(V.lockedCollateral, rel)
      /\ O.collateralShares = Monus(V.collateralShares, out)
      /\ O.debt = Monus(V.debt, ac)
  BY <1>1, <1>2, OpenedFields, SettledFields
<1>7. /\ V.lockedCollateral \in Nat /\ V.collateralShares \in Nat /\ V.debt \in Nat
      /\ O.lockedCollateral \in Nat /\ O.collateralShares \in Nat /\ O.debt \in Nat
      /\ vaultKicks[v].offeredCollateral \in Nat /\ FreeCollateral(O) \in Nat
  BY <1>1, VaultFields, KickFields
<1>8. MintLocks(v)' = ml /\ MintsOf(v, MintBonded)' = MintsOf(v, MintBonded)
  BY <1>2, HoldsSame
<1>9. BurnLocks(v)' \in Nat /\ rel <= V.lockedCollateral
  <2>1. BurnLocks(v)' \in Nat
    <3>1. BurnCollateral' = BurnCollateral
      BY <1>1, SettledBurns
    <3>2. BurnLocks(v)' = SumOn(BurnsOf(v)', BurnCollateral, MaxRequests)
      BY <3>1 DEF BurnLocks
    <3>3. QED BY <1>1, <3>2, BurnNumbers, SumOnIsNat
  <2>2. QED BY <1>2, <1>4, <1>5, <1>7, <2>1
<1>10. /\ O.lockedCollateral = V.lockedCollateral - rel
       /\ O.collateralShares = V.collateralShares - out
  BY <1>2, <1>3, <1>5, <1>6, <1>7, <1>9 DEF Monus
<1>11. O.lockedCollateral = MintLocks(v)' + BurnLocks(v)'
  BY <1>2, <1>4, <1>5, <1>7, <1>8, <1>9, <1>10
<1>12. /\ O.lockedCollateral <= O.collateralShares
       /\ O.collateralShares + V.lockedCollateral >= V.collateralShares + O.lockedCollateral
  BY <1>2, <1>3, <1>5, <1>7, <1>10
<1>13. O.debt <= V.debt
  BY <1>2, <1>6, <1>7 DEF Monus
<1>14. (V.registered /\ ~V.active) =>
          O.debt = 0 /\ O.lockedCollateral = 0 /\ MintsOf(v, MintBonded)' = {}
  <2>1. V.lockedCollateral = 0 => O.lockedCollateral = 0
    BY <1>2, <1>7, <1>9, <1>10
  <2>2. V.debt = 0 => O.debt = 0
    BY <1>7, <1>13
  <2>3. QED BY <1>5, <1>8, <2>1, <2>2
<1>15. Offered(v) \in Nat /\ (V.active => Offered(v) + O.lockedCollateral <= O.collateralShares)
  <2>1. CASE vaultKicks[v].auctionOpened
    <3>1. Offered(v) = vaultKicks[v].offeredCollateral
      BY <2>1 DEF Offered
    <3>2. PICK off \in Nat : off = Offered(v)
      BY <1>7, <3>1
    <3>3. V.active => off + V.lockedCollateral <= V.collateralShares
      BY <1>5, <2>1, <3>1, <3>2
    <3>4. V.active => off + O.lockedCollateral <= O.collateralShares
      BY <1>7, <1>12, <3>3
    <3>5. QED BY <3>2, <3>4
  <2>2. CASE ~vaultKicks[v].auctionOpened
    <3>1. Offered(v) = Monus(O.collateralShares, O.lockedCollateral)
      BY <2>2 DEF Offered, FreeCollateral
    <3>2. QED BY <1>7, <1>12, <3>1 DEF Monus
  <2>3. QED BY <2>1, <2>2
<1>16. QED BY <1>11, <1>12, <1>13, <1>14, <1>15


\* A vault that no settlement touches keeps its facts.
LEMMA OthersKept ==
  ASSUME LockInv, NEW w \in Vault, vaults'[w] = vaults[w], vaultKicks'[w] = vaultKicks[w],
         w \in Intact' <=> w \in Intact, UNCHANGED mintRequests, BurnLocks(w)' = BurnLocks(w)
  PROVE  /\ Stale(w)' = Stale(w)
         /\ w \in Intact => SoundVault(w)'
         /\ \A r \in ReqId : (mintRequests[r].status # "INVALID" /\ mintRequests[r].lpVault = w) =>
              /\ mintRequests[r].wsxmrAmount > 0
              /\ mintRequests[r].status \in MintBonded => mintRequests[r].lockedCollateral > 0
              /\ mintRequests[r].vaultMintNonce <= vaults'[w].mintNonce
              /\ Stale(w)' => mintRequests[r].vaultMintNonce < vaults'[w].mintNonce
         /\ Stale(w)' => vaults'[w].liquidationNonce > 0
         /\ vaultKicks'[w].auctionOpened => vaultKicks'[w].active
         /\ vaults'[w].registered => vaults'[w].threshold >= MinThreshold
<1>1. MintTerms /\ VaultTerms
  BY DEF LockInv, LockFacts
<1>2. Stale(w)' = Stale(w)
  BY DEF Stale
<1>3. MintLocks(w)' = MintLocks(w) /\ MintsOf(w, MintBonded)' = MintsOf(w, MintBonded)
  BY HoldsSame
<1>4. w \in Intact => SoundVault(w)'
  <2>1. ASSUME w \in Intact PROVE SoundVault(w)'
    <3>1. SoundVault(w)
      BY <2>1 DEF LockInv, LockFacts
    <3>2. QED BY <1>3, <3>1 DEF SoundVault
  <2>2. QED BY <2>1
<1>5. ASSUME NEW r \in ReqId, mintRequests[r].status # "INVALID", mintRequests[r].lpVault = w
      PROVE  /\ mintRequests[r].wsxmrAmount > 0
             /\ mintRequests[r].status \in MintBonded => mintRequests[r].lockedCollateral > 0
             /\ mintRequests[r].vaultMintNonce <= vaults[w].mintNonce
             /\ Stale(w) => mintRequests[r].vaultMintNonce < vaults[w].mintNonce
  BY <1>1, <1>5 DEF MintTerms
<1>6. /\ Stale(w) => vaults[w].liquidationNonce > 0
      /\ vaultKicks[w].auctionOpened => vaultKicks[w].active
      /\ vaults[w].registered => vaults[w].threshold >= MinThreshold
  BY <1>1 DEF VaultTerms
<1>7. QED BY <1>2, <1>4, <1>5, <1>6

\* The settled vault of an auction, after what the step makes of it, has its facts:
\* what a bidder takes of it was offered.
LEMMA SettledSound ==
  ASSUME LockInv, NEW v \in Intact, NEW V \in GoodVault, V = vaults[v],
         NEW O \in GoodVault, O = OpenedVault(v), V.registered,
         SettleBurns(v, ToSettle(v)), UNCHANGED <<abandonedBurns, mintRequests>>,
         NEW X \in GoodVault, vaults'[v] = X, SameTerms(O, X),
         X.lockedCollateral = O.lockedCollateral, X.debt <= O.debt,
         \/ X.collateralShares >= O.collateralShares
         \/ O.debt > 0 /\ X.collateralShares + Offered(v) >= O.collateralShares,
         vaultKicks'[v].auctionOpened =>
           X.collateralShares = O.collateralShares /\ vaultKicks'[v].offeredCollateral = Offered(v)
  PROVE  SoundVault(v)'
<1>1. /\ O.lockedCollateral = MintLocks(v)' + BurnLocks(v)'
      /\ O.lockedCollateral <= O.collateralShares
      /\ V.active => Offered(v) + O.lockedCollateral <= O.collateralShares
      /\ (V.registered /\ ~V.active) =>
           O.debt = 0 /\ O.lockedCollateral = 0 /\ MintsOf(v, MintBonded)' = {}
      /\ Offered(v) \in Nat
  BY OpenedSound
<1>2. v \in Vault /\ TypeInv
  BY DEF Intact, LockInv, LedgerInv, BurnListInv
<1>3. X.registered = V.registered /\ X.active = V.active
  BY <1>2, OpenedFields DEF SameTerms
<1>4. /\ O.lockedCollateral \in Nat /\ O.collateralShares \in Nat /\ O.debt \in Nat
      /\ X.lockedCollateral \in Nat /\ X.collateralShares \in Nat /\ X.debt \in Nat
  BY VaultFields
<1>5. X.lockedCollateral <= X.collateralShares
  <2>1. PICK off \in Nat : off = Offered(v)
    BY <1>1
  <2>2. CASE X.collateralShares >= O.collateralShares
    BY <1>1, <1>4, <2>2
  <2>3. CASE O.debt > 0 /\ X.collateralShares + Offered(v) >= O.collateralShares
    <3>1. V.active
      BY <1>1, <2>3
    <3>2. off + O.lockedCollateral <= O.collateralShares
      BY <1>1, <2>1, <3>1
    <3>3. X.collateralShares + off >= O.collateralShares
      BY <2>1, <2>3
    <3>4. QED BY <1>4, <2>1, <3>2, <3>3
  <2>4. QED BY <2>2, <2>3
<1>6. (vaultKicks'[v].auctionOpened /\ X.active) =>
         vaultKicks'[v].offeredCollateral + X.lockedCollateral <= X.collateralShares
  BY <1>1, <1>3
<1>7. (X.registered /\ ~X.active) =>
         X.debt = 0 /\ X.lockedCollateral = 0 /\ MintsOf(v, MintBonded)' = {}
  <2>1. O.debt = 0 => X.debt = 0
    BY <1>4
  <2>2. QED BY <1>1, <1>3, <2>1
<1>8. X.lockedCollateral = MintLocks(v)' + BurnLocks(v)'
  BY <1>1
<1>9. QED BY <1>5, <1>6, <1>7, <1>8 DEF SoundVault

\* A step of an auction that settles its vault, and takes at most the offer from it.
LEMMA SettledLocks ==
  ASSUME LockInv, TypeInv', NEW v \in Vault, NEW V \in GoodVault, V = vaults[v],
         NEW O \in GoodVault, O = OpenedVault(v), vaultKicks[v].active,
         SettleBurns(v, ToSettle(v)),
         UNCHANGED <<abandonedBurns, mintRequests, totalPendingMints, backstopped>>,
         NEW X, vaults' = [vaults EXCEPT ![v] = X], SameTerms(O, X),
         X.lockedCollateral = O.lockedCollateral, X.debt <= O.debt,
         X.pendingDebt = O.pendingDebt, X.pendingMintCount = O.pendingMintCount,
         \/ X.collateralShares >= O.collateralShares
         \/ O.debt > 0 /\ X.collateralShares + Offered(v) >= O.collateralShares,
         \A w \in Vault : w # v => vaultKicks'[w] = vaultKicks[w],
         vaultKicks'[v].auctionOpened =>
           /\ vaultKicks'[v].active
           /\ X.collateralShares = O.collateralShares
           /\ vaultKicks'[v].offeredCollateral = Offered(v)
  PROVE  LockFacts'
<1>1. /\ TypeInv /\ BurnListInv /\ AbandonedCancelled /\ Unregistered /\ MintsExact
      /\ Settles(v, ToSettle(v)) /\ vaults \in [Vault -> GoodVault]
  BY DEF LockInv, LockFacts, LedgerInv, LedgerFacts, BurnListInv, Settles, ToSettle, TypeInv
<1>2. /\ vaults'[v] = X /\ X \in GoodVault /\ \A w \in Vault : w # v => vaults'[w] = vaults[w]
  <2>1. vaults' \in [Vault -> GoodVault]
    BY DEF TypeInv
  <2>2. QED BY <1>1, <2>1
<1>3. V.registered
  BY <1>1 DEF Unregistered
<1>4. /\ O.registered = V.registered /\ O.pendingDebt = V.pendingDebt
      /\ O.pendingMintCount = V.pendingMintCount
  BY <1>1, OpenedFields
<1>5. MintsExact'
  <2>1. \A w \in Vault : /\ vaults'[w].pendingDebt = vaults[w].pendingDebt
                         /\ vaults'[w].pendingMintCount = vaults[w].pendingMintCount
    BY <1>2, <1>4
  <2>2. QED BY <1>1, <2>1, HoldsSame DEF MintsExact
<1>6. Intact' = Intact
  BY DEF Intact
<1>7. \A w \in Vault : w # v => BurnLocks(w)' = BurnLocks(w)
  BY <1>1, SettledInFlight
<1>8. MintTerms'
  <2>1. SUFFICES ASSUME NEW r \in ReqId, NEW w \in Vault,
                        mintRequests[r].status # "INVALID", mintRequests[r].lpVault = w
                 PROVE  /\ mintRequests[r].wsxmrAmount > 0
                        /\ mintRequests[r].status \in MintBonded => mintRequests[r].lockedCollateral > 0
                        /\ mintRequests[r].vaultMintNonce <= vaults'[w].mintNonce
                        /\ Stale(w)' => mintRequests[r].vaultMintNonce < vaults'[w].mintNonce
    BY DEF MintTerms
  <2>2. CASE w = v
    <3>1. /\ mintRequests[r].wsxmrAmount > 0
          /\ mintRequests[r].status \in MintBonded => mintRequests[r].lockedCollateral > 0
      BY <2>1 DEF LockInv, LockFacts, MintTerms
    <3>2. mintRequests[r].vaultMintNonce < O.mintNonce
      BY <2>1, <2>2, OpenedTerms
    <3>3. vaults'[w].mintNonce = O.mintNonce
      BY <1>2, <2>2 DEF SameTerms
    <3>4. mintRequests[r].vaultMintNonce \in Nat /\ O.mintNonce \in Nat
      BY <1>1, VaultFields DEF TypeInv, GoodMint, MintRecord
    <3>5. QED BY <3>1, <3>2, <3>3, <3>4
  <2>3. CASE w # v
    BY <1>2, <1>6, <1>7, <2>1, <2>3, OthersKept
  <2>4. QED BY <2>2, <2>3
<1>9. VaultTerms'
  <2>1. SUFFICES ASSUME NEW w \in Vault
                 PROVE  /\ Stale(w)' => vaults'[w].liquidationNonce > 0
                        /\ vaultKicks'[w].auctionOpened => vaultKicks'[w].active
                        /\ vaults'[w].registered => vaults'[w].threshold >= MinThreshold
    BY DEF VaultTerms
  <2>2. CASE w = v
    <3>1. O.liquidationNonce > 0 /\ (O.registered => O.threshold >= MinThreshold)
      BY OpenedTerms
    <3>2. QED BY <1>2, <2>2, <3>1 DEF SameTerms
  <2>3. CASE w # v
    BY <1>2, <1>6, <1>7, <2>3, OthersKept
  <2>4. QED BY <2>2, <2>3
<1>10. \A w \in Intact : SoundVault(w)'
  <2>1. SUFFICES ASSUME NEW w \in Intact PROVE SoundVault(w)'
    OBVIOUS
  <2>2. CASE w = v
    BY <1>2, <1>3, <2>1, <2>2, SettledSound
  <2>3. CASE w # v
    BY <1>2, <1>6, <1>7, <2>1, <2>3, OthersKept DEF Intact
  <2>4. QED BY <2>2, <2>3
<1>11. QED BY <1>5, <1>6, <1>8, <1>9, <1>10 DEF LockFacts


\* The steps of an auction on one vault.
LEMMA AuctionStepLocks ==
  ASSUME LockInv, TypeInv', NEW v \in Vault,
         OpenAuction(v) \/ ResolveKick(v) \/ \E bidder \in Bidders : Bid(bidder, v)
  PROVE  LockFacts'
<1>1. TypeInv /\ vaultKicks \in [Vault -> GoodKick] /\ vaultKicks[v].active
  BY DEF LockInv, LedgerInv, BurnListInv, TypeInv, OpenAuction, ResolveKick, Bid
<1>2. PICK V \in GoodVault, O \in GoodVault : V = vaults[v] /\ O = OpenedVault(v)
  BY <1>1, OpenedVaultGood DEF TypeInv
<1>3. /\ SettleBurns(v, ToSettle(v))
      /\ UNCHANGED <<abandonedBurns, mintRequests, totalPendingMints, backstopped>>
  BY DEF OpenAuction, ResolveKick, Bid, KickUnchanged, mintVars
<1>4. SameTerms(O, O) /\ O.debt <= O.debt /\ O.collateralShares >= O.collateralShares
  BY VaultFields DEF SameTerms
<1>5. ~NoKick.auctionOpened
  BY DEF NoKick
<1>6. CASE OpenAuction(v)
  <2>1. vaults' = [vaults EXCEPT ![v] = O]
    BY <1>2, <1>6 DEF OpenAuction
  <2>2. /\ vaultKicks'[v].active /\ vaultKicks'[v].offeredCollateral = Offered(v)
        /\ \A w \in Vault : w # v => vaultKicks'[w] = vaultKicks[w]
    <3>1. PICK k \in GoodKick, off \in Nat : k = vaultKicks[v] /\ off = Offered(v)
      BY <1>1, OpenedVaultGood
    <3>2. PICK j : j = [k EXCEPT !.auctionOpened = TRUE, !.offeredCollateral = off]
      OBVIOUS
    <3>3. j.active = k.active /\ j.offeredCollateral = off
      BY <3>2 DEF GoodKick, KickRecord
    <3>4. vaultKicks' = [vaultKicks EXCEPT ![v] = j]
      BY <1>1, <1>6, <3>1, <3>2 DEF OpenAuction
    <3>5. QED BY <1>1, <3>1, <3>3, <3>4
  <2>3. QED BY <1>1, <1>2, <1>3, <1>4, <2>1, <2>2, SettledLocks
<1>7. CASE ResolveKick(v)
  <2>1. vaults' = [vaults EXCEPT ![v] = O]
    BY <1>2, <1>7 DEF ResolveKick
  <2>2. ~vaultKicks'[v].auctionOpened /\ \A w \in Vault : w # v => vaultKicks'[w] = vaultKicks[w]
    BY <1>1, <1>5, <1>7 DEF ResolveKick, ClearKick
  <2>3. QED BY <1>1, <1>2, <1>3, <1>4, <2>1, <2>2, SettledLocks
<1>8. CASE \E bidder \in Bidders : Bid(bidder, v)
  <2>1. PICK bidder \in Bidders : Bid(bidder, v)
    BY <1>8
  <2>2. ~vaultKicks'[v].auctionOpened /\ \A w \in Vault : w # v => vaultKicks'[w] = vaultKicks[w]
    BY <1>1, <1>5, <2>1 DEF Bid, ClearKick
  <2>3. CASE BidNothingOwed(v)
    <3>1. PICK bond \in Nat : bond = vaultKicks[v].bond
      BY <1>1, KickFields
    <3>2. PICK X : X = [O EXCEPT !.collateralShares = @ + bond]
      OBVIOUS
    <3>3. /\ SameTerms(O, X) /\ X.lockedCollateral = O.lockedCollateral /\ X.debt = O.debt
          /\ X.pendingDebt = O.pendingDebt /\ X.pendingMintCount = O.pendingMintCount
          /\ X.collateralShares = O.collateralShares + bond
      BY <3>2 DEF GoodVault, VaultRecord, SameTerms
    <3>4. vaults' = [vaults EXCEPT ![v] = X]
      BY <1>2, <2>3, <3>1, <3>2 DEF BidNothingOwed
    <3>5. X.debt <= O.debt /\ X.collateralShares >= O.collateralShares
      BY <3>1, <3>3, VaultFields
    <3>6. QED BY <1>1, <1>2, <1>3, <2>2, <3>3, <3>4, <3>5, SettledLocks
  <2>4. CASE BidWhole(bidder, v)
    <3>1. PICK k \in GoodKick, P \in GoodVault, bidderRaw \in Nat, chipRaw \in Nat,
               kept \in Nat, back \in Nat : \E X :
            /\ k = vaultKicks[v] /\ k.kicker \in Account /\ P = OpenedVault(v)
            /\ NormFromRaw(bidderRaw) + NormFromRaw(chipRaw) <= Offered(v)
            /\ vaults' = [vaults EXCEPT ![v] = X]
            /\ SameTerms(P, X) /\ X.lockedCollateral = P.lockedCollateral
            /\ X.pendingDebt = P.pendingDebt /\ X.pendingMintCount = P.pendingMintCount
            /\ X.debt = 0
            /\ X.collateralShares
                 = Monus(P.collateralShares, NormFromRaw(bidderRaw) + NormFromRaw(chipRaw)) + kept
            /\ pendingReturns' = [SettledReturns(v, ToSettle(v)) EXCEPT
                                    ![k.kicker].collateral = @ + (back + chipRaw)]
            /\ \/ kept = k.bond /\ back = 0
               \/ kept = 0 /\ back = RawFromNorm(k.bond)
            /\ hubCollateral = hubCollateral' + bidderRaw
      BY <1>1, <2>4, BidWholeMade
    <3>2. PICK X :
            /\ vaults' = [vaults EXCEPT ![v] = X]
            /\ SameTerms(O, X) /\ X.lockedCollateral = O.lockedCollateral
            /\ X.pendingDebt = O.pendingDebt /\ X.pendingMintCount = O.pendingMintCount
            /\ X.debt = 0
            /\ X.collateralShares
                 = Monus(O.collateralShares, NormFromRaw(bidderRaw) + NormFromRaw(chipRaw)) + kept
      BY <1>2, <3>1
    <3>3. NormFromRaw(bidderRaw) \in Nat /\ NormFromRaw(chipRaw) \in Nat /\ Offered(v) \in Nat
      BY <1>1, OpenedVaultGood, RatesAssumption DEF NormFromRaw
    <3>4. PICK paid \in Nat, off \in Nat :
            /\ paid = NormFromRaw(bidderRaw) + NormFromRaw(chipRaw) /\ off = Offered(v)
            /\ paid <= off
      BY <3>1, <3>3
    <3>5. O.debt > 0
      BY <1>2, <2>4 DEF BidWhole
    <3>6. X.collateralShares = Monus(O.collateralShares, paid) + kept /\ O.collateralShares \in Nat
      BY <3>2, <3>4, VaultFields
    <3>7. X.collateralShares + off >= O.collateralShares
      BY <3>4, <3>6 DEF Monus
    <3>8. X.debt <= O.debt
      BY <3>2, VaultFields
    <3>9. QED BY <1>1, <1>2, <1>3, <2>2, <3>2, <3>4, <3>5, <3>7, <3>8, SettledLocks
  <2>5. QED BY <2>1, <2>3, <2>4 DEF Bid
<1>9. QED BY <1>6, <1>7, <1>8

\* What v's burns are settled for, and the bond of its kick returned.
ResolvedReturnsOf(v, S) ==
  [SettledReturns(v, S) EXCEPT
     ![vaultKicks[v].kicker].collateral = @ + RawFromNorm(vaultKicks[v].bond)]

\* A backstop: the debt and the shares of the vault v, settled to W, go to the vault N
\* of new, which nobody has kicked; N becomes P, and v is left with Q.
BackstopMoves(v, new, W, N, P, Q) ==
  /\ W = SettledVault(v, vaultBurnRequests[v])
  /\ new \in Vault /\ new # v /\ N = vaults[new] /\ N.active /\ ~vaultKicks[new].active
  /\ vaults' = [vaults EXCEPT ![new] = P, ![v] = Q]
  /\ SameTerms(N, P) /\ P.lockedCollateral = N.lockedCollateral
  /\ P.pendingDebt = N.pendingDebt /\ P.pendingMintCount = N.pendingMintCount
  /\ P.debt = N.debt + W.debt
  /\ P.collateralShares = N.collateralShares + W.collateralShares
  /\ Q.registered = W.registered /\ Q.active = W.active /\ Q.threshold = W.threshold
  /\ Q.pendingDebt = W.pendingDebt /\ Q.pendingMintCount = W.pendingMintCount
  /\ Q.debt = 0 /\ Q.collateralShares = 0 /\ Q.lockedCollateral = 0
  /\ Q.liquidationNonce > vaults[v].liquidationNonce /\ Q.mintNonce > vaults[v].mintNonce
  /\ FreeCollateral(P) >= RequiredCollateral(P.debt + P.pendingDebt, P.threshold)
  /\ backstopped' = backstopped \cup {v}
  /\ hubCollateral' = hubCollateral
  /\ \/ /\ ~vaultKicks[v].active /\ vaultKicks' = vaultKicks
        /\ pendingReturns' = SettledReturns(v, vaultBurnRequests[v])
     \/ /\ vaultKicks[v].active /\ vaultKicks' = [vaultKicks EXCEPT ![v] = NoKick]
        /\ pendingReturns' = ResolvedReturnsOf(v, vaultBurnRequests[v])

\* What a backstop does.
LEMMA BackstopMade ==
  ASSUME TypeInv, TypeInv', NEW v \in Vault, NEW new \in Backstoppers, BackstopVault(v, new)
  PROVE  \E W, N, P, Q \in GoodVault : BackstopMoves(v, new, W, N, P, Q)
<1> DEFINE S == vaultBurnRequests[v]
<1>1. /\ new \in Vault /\ new # v /\ vaults[v].active /\ vaults[new].active
      /\ ~vaultKicks[new].active /\ hubCollateral' = hubCollateral
  BY PartsAssumption DEF BackstopVault, Blocked
<1>2. PICK V \in GoodVault, W \in GoodVault, N \in GoodVault :
        V = vaults[v] /\ W = SettledVault(v, S) /\ N = vaults[new]
  BY <1>1, SettledVaultGood DEF TypeInv
<1>3. SameTerms(V, W)
  BY <1>2, SettledFields
<1>4. PICK ln \in Nat, mn \in Nat :
        /\ ln = OpenedVault(v).liquidationNonce /\ mn = OpenedVault(v).mintNonce
        /\ ln >= V.liquidationNonce /\ mn >= V.mintNonce
  <2>1. OpenedVault(v) \in GoodVault
    BY OpenedVaultGood
  <2>2. OpenedVault(v).liquidationNonce >= V.liquidationNonce /\ OpenedVault(v).mintNonce >= V.mintNonce
    BY <1>2, OpenedFields, VaultFields
  <2>3. QED BY <2>1, <2>2, VaultFields
<1>5. PICK A : /\ Absorb(v, new, A, N)
               /\ A = W \/ A = [W EXCEPT !.liquidationNonce = ln, !.mintNonce = mn]
  BY <1>2, <1>4 DEF BackstopVault, BackstopFrozen, BackstopEnded
<1>6. PICK P, Q :
        /\ P = [N EXCEPT !.debt = @ + A.debt, !.collateralShares = @ + A.collateralShares]
        /\ Q = [A EXCEPT !.debt = 0, !.collateralShares = 0, !.lockedCollateral = 0,
                         !.liquidationNonce = @ + 1, !.mintNonce = @ + 1]
  OBVIOUS
<1>7. vaults' = [vaults EXCEPT ![new] = P, ![v] = Q] /\ backstopped' = backstopped \cup {v}
  BY <1>5, <1>6 DEF Absorb
<1>8. /\ A \in VaultRecord
      /\ A.registered = W.registered /\ A.active = W.active /\ A.threshold = W.threshold
      /\ A.pendingDebt = W.pendingDebt /\ A.pendingMintCount = W.pendingMintCount
      /\ A.debt = W.debt /\ A.collateralShares = W.collateralShares
      /\ A.liquidationNonce \in Nat /\ A.liquidationNonce >= V.liquidationNonce
      /\ A.mintNonce \in Nat /\ A.mintNonce >= V.mintNonce
  <2>1. CASE A = W
    <3>1. W.mintNonce = V.mintNonce /\ W.liquidationNonce = V.liquidationNonce
      BY <1>3 DEF SameTerms
    <3>2. QED BY <2>1, <3>1, VaultFields DEF GoodVault
  <2>2. CASE A = [W EXCEPT !.liquidationNonce = ln, !.mintNonce = mn]
    BY <1>4, <2>2 DEF GoodVault, VaultRecord
  <2>3. QED BY <1>5, <2>1, <2>2
<1>9. /\ SameTerms(N, P) /\ P.lockedCollateral = N.lockedCollateral
      /\ P.pendingDebt = N.pendingDebt /\ P.pendingMintCount = N.pendingMintCount
      /\ P.debt = N.debt + W.debt
      /\ P.collateralShares = N.collateralShares + W.collateralShares
  BY <1>6, <1>8 DEF GoodVault, VaultRecord, SameTerms
<1>10. /\ Q.registered = W.registered /\ Q.active = W.active /\ Q.threshold = W.threshold
       /\ Q.pendingDebt = W.pendingDebt /\ Q.pendingMintCount = W.pendingMintCount
       /\ Q.debt = 0 /\ Q.collateralShares = 0 /\ Q.lockedCollateral = 0
       /\ Q.liquidationNonce = A.liquidationNonce + 1 /\ Q.mintNonce = A.mintNonce + 1
  BY <1>6, <1>8 DEF VaultRecord
<1>11. Q.liquidationNonce > V.liquidationNonce /\ Q.mintNonce > V.mintNonce
  BY <1>8, <1>10, VaultFields
<1>12. \/ /\ ~vaultKicks[v].active /\ vaultKicks' = vaultKicks
          /\ pendingReturns' = SettledReturns(v, S)
       \/ /\ vaultKicks[v].active /\ vaultKicks' = [vaultKicks EXCEPT ![v] = NoKick]
          /\ pendingReturns' = ResolvedReturnsOf(v, S)
  BY DEF BackstopVault, BackstopFrozen, BackstopEnded, ClearKick, ResolvedReturnsOf
<1>13. P \in GoodVault /\ Q \in GoodVault
  <2>1. vaults \in [Vault -> GoodVault] /\ vaults' \in [Vault -> GoodVault]
    BY DEF TypeInv
  <2>2. vaults'[new] = P /\ vaults'[v] = Q
    BY <1>1, <1>7, <2>1
  <2>3. QED BY <1>1, <2>1, <2>2
<1>14. FreeCollateral(P) >= RequiredCollateral(P.debt + P.pendingDebt, P.threshold)
  BY <1>5, <1>6 DEF Absorb
<1>15. BackstopMoves(v, new, W, N, P, Q)
  BY <1>1, <1>2, <1>7, <1>9, <1>10, <1>11, <1>12, <1>14 DEF BackstopMoves
<1>16. QED BY <1>2, <1>13, <1>15


\* A backstop: of the emptied vault no lock is claimed any more, and the vault that
\* takes it over gains collateral and debt, with no auction of its own open.
LEMMA BackstopLocks ==
  ASSUME LockInv, TypeInv', NEW v \in Vault, NEW new \in Backstoppers, BackstopVault(v, new)
  PROVE  LockFacts'
<1>1. /\ TypeInv /\ BurnListInv /\ AbandonedCancelled /\ MintsExact /\ MintTerms /\ VaultTerms
      /\ vaults \in [Vault -> GoodVault] /\ vaultKicks \in [Vault -> GoodKick]
  BY DEF LockInv, LockFacts, LedgerInv, LedgerFacts, BurnListInv, TypeInv
<1>2. PICK W \in GoodVault, N \in GoodVault, P \in GoodVault, Q \in GoodVault :
        BackstopMoves(v, new, W, N, P, Q)
  BY <1>1, BackstopMade
<1>. USE <1>2 DEF BackstopMoves
<1>3. /\ SettleBurns(v, vaultBurnRequests[v]) /\ Settles(v, vaultBurnRequests[v])
      /\ UNCHANGED <<abandonedBurns, mintRequests, totalPendingMints>>
  <2>1. SettlementStep(v, vaultBurnRequests[v])
    BY DEF SettlementStep
  <2>2. QED BY <2>1, SettlementStepSettles
<1>4. PICK V \in GoodVault : V = vaults[v] /\ SameTerms(V, W) /\ W.pendingDebt = V.pendingDebt
                             /\ W.pendingMintCount = V.pendingMintCount
  BY <1>1, <1>2, SettledFields
<1>5. /\ vaults'[v] = Q /\ vaults'[new] = P
      /\ \A w \in Vault : w # v /\ w # new => vaults'[w] = vaults[w]
  BY <1>1, <1>2
<1>6. ~NoKick.auctionOpened
  BY DEF NoKick
<1>7. /\ ~vaultKicks'[v].auctionOpened
      /\ \A w \in Vault : w # v => vaultKicks'[w] = vaultKicks[w]
  BY <1>1, <1>2, <1>6 DEF VaultTerms
<1>8. v \notin Intact' /\ \A w \in Vault : w # v => (w \in Intact' <=> w \in Intact)
  BY <1>2 DEF Intact
<1>9. \A w \in Vault : w # v => BurnLocks(w)' = BurnLocks(w)
  BY <1>1, <1>3, SettledInFlight
<1>10. MintsExact'
  <2>1. ASSUME NEW w \in Vault
        PROVE  /\ vaults'[w].pendingDebt = vaults[w].pendingDebt
               /\ vaults'[w].pendingMintCount = vaults[w].pendingMintCount
    BY <1>2, <1>4, <1>5, ZenonT(60)
  <2>2. QED BY <1>1, <1>3, <2>1, HoldsSame DEF MintsExact
<1>11. ~Stale(v)' /\ ~Stale(new)'
  <2>1. ~Stale(v)'
    BY <1>7, <1>8 DEF Stale
  <2>2. P.active /\ ~vaultKicks'[new].auctionOpened
    BY <1>1, <1>2, <1>7 DEF SameTerms, VaultTerms
  <2>3. QED BY <1>5, <2>1, <2>2 DEF Stale
<1>12. MintTerms'
  <2>1. SUFFICES ASSUME NEW r \in ReqId, NEW w \in Vault,
                        mintRequests[r].status # "INVALID", mintRequests[r].lpVault = w
                 PROVE  /\ mintRequests[r].wsxmrAmount > 0
                        /\ mintRequests[r].status \in MintBonded => mintRequests[r].lockedCollateral > 0
                        /\ mintRequests[r].vaultMintNonce <= vaults'[w].mintNonce
                        /\ Stale(w)' => mintRequests[r].vaultMintNonce < vaults'[w].mintNonce
    BY <1>3 DEF MintTerms
  <2>2. /\ mintRequests[r].wsxmrAmount > 0
        /\ mintRequests[r].status \in MintBonded => mintRequests[r].lockedCollateral > 0
        /\ mintRequests[r].vaultMintNonce <= vaults[w].mintNonce
    BY <1>1, <2>1 DEF MintTerms
  <2>3. mintRequests[r].vaultMintNonce \in Nat /\ vaults[w].mintNonce \in Nat /\ Q.mintNonce \in Nat
    <3>1. Q \in GoodVault
      BY <1>5 DEF TypeInv
    <3>2. QED BY <1>1, <3>1, VaultFields DEF TypeInv, GoodMint, MintRecord
  <2>4. CASE w = v
    BY <1>2, <1>5, <1>11, <2>2, <2>3, <2>4
  <2>5. CASE w = new
    <3>1. vaults'[w].mintNonce = vaults[w].mintNonce
      BY <1>2, <1>5, <2>5 DEF SameTerms
    <3>2. QED BY <1>11, <2>2, <2>5, <3>1
  <2>6. CASE w # v /\ w # new
    BY <1>3, <1>5, <1>7, <1>8, <1>9, <2>1, <2>6, OthersKept
  <2>7. QED BY <2>4, <2>5, <2>6
<1>13. VaultTerms'
  <2>1. SUFFICES ASSUME NEW w \in Vault
                 PROVE  /\ Stale(w)' => vaults'[w].liquidationNonce > 0
                        /\ vaultKicks'[w].auctionOpened => vaultKicks'[w].active
                        /\ vaults'[w].registered => vaults'[w].threshold >= MinThreshold
    BY DEF VaultTerms
  <2>2. /\ V.registered => V.threshold >= MinThreshold
        /\ N.registered => N.threshold >= MinThreshold
        /\ vaultKicks[w].auctionOpened => vaultKicks[w].active
    BY <1>1, <1>2, <1>4 DEF VaultTerms
  <2>3. CASE w = v
    BY <1>2, <1>4, <1>5, <1>7, <1>11, <2>2, <2>3 DEF SameTerms
  <2>4. CASE w = new
    BY <1>2, <1>5, <1>7, <1>11, <2>2, <2>4 DEF SameTerms
  <2>5. CASE w # v /\ w # new
    BY <1>3, <1>5, <1>7, <1>8, <1>9, <2>5, OthersKept
  <2>6. QED BY <2>3, <2>4, <2>5
<1>14. \A w \in Intact' : SoundVault(w)'
  <2>1. SUFFICES ASSUME NEW w \in Vault, w # v, w \in Intact PROVE SoundVault(w)'
    BY <1>8 DEF Intact
  <2>2. CASE w = new
    <3>1. /\ N.lockedCollateral = MintLocks(w) + BurnLocks(w)
          /\ N.lockedCollateral <= N.collateralShares
      BY <1>2, <2>1, <2>2 DEF LockInv, LockFacts, SoundVault
    <3>2. N.lockedCollateral \in Nat /\ N.collateralShares \in Nat /\ W.collateralShares \in Nat
      BY VaultFields
    <3>3. P.lockedCollateral <= P.collateralShares
      BY <1>2, <3>1, <3>2
    <3>4. MintLocks(w)' = MintLocks(w) /\ BurnLocks(w)' = BurnLocks(w)
      BY <1>3, <1>9, <2>1, HoldsSame
    <3>5. P.lockedCollateral = MintLocks(w)' + BurnLocks(w)'
      BY <1>2, <3>1, <3>4
    <3>6. P.active /\ ~vaultKicks'[w].auctionOpened
      BY <1>1, <1>2, <1>7, <2>2 DEF SameTerms, VaultTerms
    <3>7. QED BY <1>5, <2>2, <3>3, <3>5, <3>6 DEF SoundVault
  <2>3. CASE w # new
    BY <1>3, <1>5, <1>7, <1>8, <1>9, <2>1, <2>3, OthersKept
  <2>4. QED BY <2>2, <2>3
<1>15. QED BY <1>10, <1>12, <1>13, <1>14 DEF LockFacts

\* Every step of an auction.
LEMMA AuctionNextLocks ==
  ASSUME LockInv, TypeInv', AuctionNext
  PROVE  LockFacts'
<1>1. CASE \E kicker \in Kickers, v \in Vault : Kick(kicker, v) \/ Reauction(kicker, v)
  BY <1>1, OtherNextLocks
<1>2. CASE \E v \in Vault : OpenAuction(v) \/ ResolveKick(v)
  BY <1>2, AuctionStepLocks
<1>3. CASE \E bidder \in Bidders, v \in Vault : Bid(bidder, v)
  BY <1>3, AuctionStepLocks
<1>4. CASE \E old \in Vault, new \in Backstoppers : BackstopVault(old, new)
  BY <1>4, BackstopLocks
<1>5. QED BY <1>1, <1>2, <1>3, <1>4 DEF AuctionNext

-----------------------------------------------------------------------------
(* The hub. *)

\* Nothing is held at first.
LEMMA InitLocks == Init => LockInv
<1> SUFFICES ASSUME Init PROVE LockInv
  OBVIOUS
<1>1. LedgerInv /\ TypeInv
  BY InitLedgers DEF LedgerInv, BurnListInv
<1>2. \A r \in ReqId : mintRequests[r].status = "INVALID" /\ burnRequests[r].status = "INVALID"
  BY DEF Init, EmptyMint, EmptyBurn
<1>3. /\ \A v \in Vault : /\ MintsOf(v, MintLive) = {} /\ MintsOf(v, MintBonded) = {}
                          /\ MintsOf(v, MintCounted) = {} /\ BurnsOf(v) = {}
      /\ AllCounted = {}
  BY <1>2 DEF MintsOf, BurnsOf, AllCounted, MintLive, MintBonded, MintCounted, ActiveBurn
<1>4. Cardinality({}) = 0
  BY FS_EmptySet
<1>5. \A v \in Vault : Reserved(v) = 0 /\ MintLocks(v) = 0 /\ BurnLocks(v) = 0
  <2>1. MaxRequests \in Nat
    BY SizesAssumption
  <2>2. QED BY <1>3, <2>1, SumOnEmpty DEF Reserved, MintLocks, BurnLocks
<1>6. MintsExact
  BY <1>3, <1>4, <1>5 DEF MintsExact, Counted, Init, EmptyVault
<1>7. MintTerms
  BY <1>2 DEF MintTerms
<1>8. VaultTerms
  BY DEF VaultTerms, Stale, Init, EmptyVault, NoKick
<1>9. \A v \in Vault : SoundVault(v)
  BY <1>5 DEF SoundVault, Init, EmptyVault, NoKick
<1>10. QED BY <1>1, <1>6, <1>7, <1>8, <1>9 DEF LockInv, LockFacts, Intact

\* The invariant of the locks is inductive.
LEMMA NextLocks == LockInv /\ [Next]_vars => LockInv'
<1> SUFFICES ASSUME LockInv, [Next]_vars PROVE LockInv'
  OBVIOUS
<1>1. LedgerInv'
  BY NextLedgers DEF LockInv
<1>2. TypeInv'
  BY <1>1 DEF LedgerInv, BurnListInv
<1>3. CASE TokenNext \/ Tick \/ UNCHANGED vars
  BY <1>1, <1>2, <1>3, OtherNextLocks DEF LockInv
<1>4. CASE VaultNext \/ MintNext
  BY <1>1, <1>2, <1>4, VaultNextLocks, MintNextLocks DEF LockInv
<1>5. CASE BurnNext \/ AuctionNext
  BY <1>1, <1>2, <1>5, BurnNextLocks, AuctionNextLocks DEF LockInv
<1>6. QED BY <1>3, <1>4, <1>5 DEF Next

\* A vault whose LP is gone is settled: what it has it got back after an auction.
LEMMA RetiredSettled ==
  ASSUME LockInv, NEW v \in Intact, vaults[v].registered, ~vaults[v].active
  PROVE  /\ vaults[v].debt = 0 /\ vaults[v].lockedCollateral = 0 /\ vaults[v].pendingDebt = 0
         /\ MintsOf(v, MintBonded) = {}
         /\ vaults[v].collateralShares = 0 \/ vaults[v].liquidationNonce > 0
<1>1. TypeInv /\ v \in Vault /\ SoundVault(v) /\ MintsExact /\ VaultTerms
  BY DEF LockInv, LockFacts, LedgerInv, BurnListInv, Intact
<1>2. /\ vaults[v].debt = 0 /\ vaults[v].lockedCollateral = 0 /\ MintsOf(v, MintBonded) = {}
  BY <1>1 DEF SoundVault
<1>3. vaults[v].pendingDebt = 0
  <2>1. MintsOf(v, MintLive) = {}
    BY <1>2 DEF MintsOf, MintBonded
  <2>2. Reserved(v) = 0
    BY <2>1, SizesAssumption, SumOnEmpty DEF Reserved
  <2>3. QED BY <1>1, <2>2 DEF MintsExact
<1>4. vaults[v].collateralShares = 0 \/ vaults[v].liquidationNonce > 0
  <2>1. vaults[v].collateralShares \in Nat
    BY <1>1, VaultFields DEF TypeInv
  <2>2. vaults[v].collateralShares > 0 => Stale(v)
    BY DEF Stale
  <2>3. QED BY <1>1, <2>1, <2>2 DEF VaultTerms
<1>5. QED BY <1>2, <1>3, <1>4

\* The lock facts are what the invariants say.
LEMMA LockInvImplies ==
  LockInv => RequestsAccounted /\ LockedWithinShares /\ OfferBacked /\ RetiredIsSettled
<1> SUFFICES ASSUME LockInv
    PROVE RequestsAccounted /\ LockedWithinShares /\ OfferBacked /\ RetiredIsSettled
  OBVIOUS
<1>1. MintsExact /\ \A v \in Intact : SoundVault(v)
  BY DEF LockInv, LockFacts
<1>2. RequestsAccounted
  BY <1>1 DEF MintsExact, SoundVault, RequestsAccounted, Reserved, Counted, AllCounted
<1>3. LockedWithinShares
  BY <1>1 DEF SoundVault, LockedWithinShares
<1>4. OfferBacked
  BY <1>1 DEF SoundVault, OfferBacked
<1>5. RetiredIsSettled
  BY RetiredSettled DEF RetiredIsSettled
<1>6. QED BY <1>2, <1>3, <1>4, <1>5

\* The inductive invariant holds in every state of the hub.
THEOREM LockInvariant == Spec => []LockInv
<1>1. Init => LockInv
  BY InitLocks
<1>2. LockInv /\ [Next]_vars => LockInv'
  BY NextLocks
<1>3. QED BY <1>1, <1>2, PTL DEF Spec

\* What the requests in flight hold of a vault is what the vault holds for them, in
\* its lock, its pending debt and its counters.
THEOREM RequestsAccountedFor == Spec => []RequestsAccounted
<1>1. LockInv => RequestsAccounted
  BY LockInvImplies
<1>2. QED BY <1>1, LockInvariant, PTL

\* What is locked is there.
THEOREM LocksCovered == Spec => []LockedWithinShares
<1>1. LockInv => LockedWithinShares
  BY LockInvImplies
<1>2. QED BY <1>1, LockInvariant, PTL

\* The offer of an auction is free collateral until it is sold.
THEOREM OffersBacked == Spec => []OfferBacked
<1>1. LockInv => OfferBacked
  BY LockInvImplies
<1>2. QED BY <1>1, LockInvariant, PTL

\* An LP that is gone, by its own hand or evicted, has left nothing in flight.
THEOREM RetiredSettledAlways == Spec => []RetiredIsSettled
<1>1. LockInv => RetiredIsSettled
  BY LockInvImplies
<1>2. QED BY <1>1, LockInvariant, PTL

-----------------------------------------------------------------------------
(* Solvency. *)

\* The kick of a vault that nobody has kicked holds no bond.
IdleBonds == \A v \in Vault : ~vaultKicks[v].active => vaultKicks[v].bond = 0

\* A step that keeps the hub as good as it was: what it owes grows by no more than what
\* it holds, and by exactly that when no amount is rounded.
Fair ==
  /\ NormFromRaw(hubCollateral) + Owed' <= NormFromRaw(hubCollateral') + Owed
  /\ CollateralScale = 1 => hubCollateral + Owed' = hubCollateral' + Owed

-----------------------------------------------------------------------------
(* What a step moves between the hub, the vaults and the returns. *)

\* The conversion to normalized units is linear.
LEMMA NormLinear ==
  ASSUME NEW x \in Nat, NEW y \in Nat
  PROVE  /\ NormFromRaw(x) \in Nat /\ NormFromRaw(y) \in Nat
         /\ NormFromRaw(x + y) = NormFromRaw(x) + NormFromRaw(y)
         /\ CollateralScale = 1 => NormFromRaw(x) = x
<1>1. CollateralScale \in Nat
  BY RatesAssumption
<1>2. (x + y) * CollateralScale = x * CollateralScale + y * CollateralScale
  BY <1>1
<1>3. QED BY <1>1, <1>2, PricesNat DEF NormFromRaw

\* A payment is worth what it was made for, or less.
LEMMA RoundedDown ==
  ASSUME NEW x \in Nat
  PROVE  /\ RawFromNorm(x) \in Nat /\ NormFromRaw(RawFromNorm(x)) \in Nat
         /\ NormFromRaw(RawFromNorm(x)) <= x
         /\ CollateralScale = 1 => NormFromRaw(RawFromNorm(x)) = x
<1>1. RawFromNorm(x) \in Nat /\ NormFromRaw(RawFromNorm(x)) \in Nat /\ NormFromRaw(RawFromNorm(x)) <= x
  BY RawOfNorm, PricesNat
<1>2. CollateralScale = 1 => RawFromNorm(x) = x
  BY DEF RawFromNorm
<1>3. CollateralScale = 1 => NormFromRaw(RawFromNorm(x)) = x
  BY <1>1, <1>2, NormLinear
<1>4. QED BY <1>1, <1>3

\* What is owed is what the vaults hold, and the returns.
LEMMA OwedParts ==
  /\ Owed = Holdings + NormFromRaw(CollateralReturns)
  /\ Owed' = Holdings' + NormFromRaw(CollateralReturns')
BY DEF Owed, Holdings, Holding, CollateralReturns, CollateralIn

\* What a vault holds, before and after, is a natural, and so is the sum.
LEMMA HoldingsNat ==
  ASSUME TypeInv, TypeInv'
  PROVE  /\ Holdings \in Nat /\ Holdings' \in Nat
         /\ \A v \in Vault : Holding(v) \in Nat /\ Holding(v)' \in Nat
<1>1. NumVaults \in Nat /\ Vault = 1..NumVaults /\ Holdings \in Nat
  BY VaultNumbers
<1>2. \A v \in Vault : Holding(v)' \in Nat
  BY VaultFields, KickFields DEF TypeInv, Holding
<1>3. NatOn([v \in Vault |-> Holding(v)'], NumVaults)
  BY <1>1, <1>2 DEF NatOn
<1>4. Holdings' \in Nat
  BY <1>1, <1>3, SumNat DEF Holdings
<1>5. \A v \in Vault : Holding(v) \in Nat
  BY VaultFields, KickFields DEF TypeInv, Holding
<1>6. QED BY <1>1, <1>2, <1>4, <1>5

\* A step is fair when its payments, and what the vaults gain, are covered by its
\* receipts and by what the vaults lose.
LEMMA Balanced ==
  ASSUME TypeInv, TypeInv',
         NEW rin \in Nat, NEW rout \in Nat, NEW paid \in Nat, NEW taken \in Nat,
         NEW gained \in Nat, NEW lost \in Nat,
         hubCollateral' + rout = hubCollateral + rin,
         CollateralReturns' + taken = CollateralReturns + paid,
         Holdings' + lost = Holdings + gained,
         NormFromRaw(rout) + NormFromRaw(paid) + gained
           <= NormFromRaw(rin) + NormFromRaw(taken) + lost,
         CollateralScale = 1 => rout + paid + gained = rin + taken + lost
  PROVE  Fair
<1>1. PICK h \in Nat, i \in Nat, r \in Nat, s \in Nat, x \in Nat, y \in Nat :
        /\ h = hubCollateral /\ i = hubCollateral'
        /\ r = CollateralReturns /\ s = CollateralReturns'
        /\ x = Holdings /\ y = Holdings'
  BY HoldingsNat, TotalsNat, PrimedTotals DEF TypeInv
<1>2. /\ NormFromRaw(i) + NormFromRaw(rout) = NormFromRaw(h) + NormFromRaw(rin)
      /\ NormFromRaw(s) + NormFromRaw(taken) = NormFromRaw(r) + NormFromRaw(paid)
  <2>1. i + rout = h + rin /\ s + taken = r + paid
    BY <1>1
  <2>2. /\ NormFromRaw(i + rout) = NormFromRaw(i) + NormFromRaw(rout)
        /\ NormFromRaw(h + rin) = NormFromRaw(h) + NormFromRaw(rin)
        /\ NormFromRaw(s + taken) = NormFromRaw(s) + NormFromRaw(taken)
        /\ NormFromRaw(r + paid) = NormFromRaw(r) + NormFromRaw(paid)
    BY NormLinear, ZenonT(60)
  <2>3. QED BY <2>1, <2>2
<1>3. PICK nh \in Nat, ni \in Nat, nr \in Nat, ns \in Nat :
        /\ nh = NormFromRaw(h) /\ ni = NormFromRaw(i)
        /\ nr = NormFromRaw(r) /\ ns = NormFromRaw(s)
  BY NormLinear
<1>4. PICK no \in Nat, nn \in Nat, np \in Nat, nt \in Nat :
        /\ no = NormFromRaw(rout) /\ nn = NormFromRaw(rin)
        /\ np = NormFromRaw(paid) /\ nt = NormFromRaw(taken)
  BY NormLinear
<1>5. Owed = x + nr /\ Owed' = y + ns
  BY <1>1, <1>3, OwedParts
<1>6. nh + (y + ns) <= ni + (x + nr)
  <2>1. ni + no = nh + nn /\ ns + nt = nr + np
    BY <1>2, <1>3, <1>4
  <2>2. y + lost = x + gained /\ no + np + gained <= nn + nt + lost
    BY <1>1, <1>4
  <2>3. QED BY <2>1, <2>2
<1>7. CollateralScale = 1 => h + (y + ns) = i + (x + nr)
  <2>1. SUFFICES ASSUME CollateralScale = 1 PROVE h + (y + ns) = i + (x + nr)
    OBVIOUS
  <2>2. ns = s /\ nr = r
    BY <1>3, <2>1, NormLinear
  <2>3. i + rout = h + rin /\ s + taken = r + paid /\ y + lost = x + gained
    BY <1>1
  <2>4. rout + paid + gained = rin + taken + lost
    BY <2>1
  <2>5. QED BY <2>2, <2>3, <2>4
<1>8. QED BY <1>1, <1>3, <1>5, <1>6, <1>7 DEF Fair

\* The same, when one vault loses or gains.
LEMMA OneVaultFair ==
  ASSUME TypeInv, TypeInv', NEW u \in Vault, \A w \in Vault : w # u => Holding(w)' = Holding(w),
         NEW rin \in Nat, NEW rout \in Nat, NEW paid \in Nat, NEW taken \in Nat,
         NEW gained \in Nat, NEW lost \in Nat,
         hubCollateral' + rout = hubCollateral + rin,
         CollateralReturns' + taken = CollateralReturns + paid,
         Holding(u)' + lost = Holding(u) + gained,
         NormFromRaw(rout) + NormFromRaw(paid) + gained
           <= NormFromRaw(rin) + NormFromRaw(taken) + lost,
         CollateralScale = 1 => rout + paid + gained = rin + taken + lost
  PROVE  Fair
<1>1. Holdings' + Holding(u) = Holdings + Holding(u)'
  BY HoldingsMove
<1>2. PICK x \in Nat, y \in Nat, a \in Nat, b \in Nat :
        x = Holdings /\ y = Holdings' /\ a = Holding(u) /\ b = Holding(u)'
  BY HoldingsNat
<1>3. y + a = x + b /\ b + lost = a + gained
  BY <1>1, <1>2
<1>4. y + lost = x + gained
  BY <1>3
<1>5. Holdings' + lost = Holdings + gained
  BY <1>2, <1>4
<1>6. QED BY <1>5, Balanced

\* A step that moves no collateral.
LEMMA NothingMoves ==
  ASSUME TypeInv, TypeInv', UNCHANGED <<hubCollateral, vaultKicks>>,
         CollateralReturns' = CollateralReturns,
         \A v \in Vault : vaults'[v].collateralShares = vaults[v].collateralShares
  PROVE  Fair
<1>1. \A v \in Vault : Holding(v)' = Holding(v)
  BY DEF Holding
<1>2. Holdings' = Holdings
  BY <1>1 DEF Holdings
<1>3. PICK z \in Nat : z = 0 /\ NormFromRaw(z) = 0
  BY RatesAssumption DEF NormFromRaw
<1>4. /\ hubCollateral' + z = hubCollateral + z
      /\ CollateralReturns' + z = CollateralReturns + z
      /\ Holdings' + z = Holdings + z
      /\ NormFromRaw(z) + NormFromRaw(z) + z <= NormFromRaw(z) + NormFromRaw(z) + z
      /\ CollateralScale = 1 => z + z + z = z + z + z
  BY <1>2, <1>3
<1>5. QED BY <1>4, Balanced

-----------------------------------------------------------------------------
(* The requests. *)

\* What a request takes from its vault, an account may withdraw.
LEMMA PaidFromVault ==
  ASSUME TypeInv, TypeInv', NEW u \in Vault, NEW V \in GoodVault, NEW W \in GoodVault,
         V = vaults[u], vaults' = [vaults EXCEPT ![u] = W], CollateralBooks(V, W),
         UNCHANGED <<hubCollateral, vaultKicks>>
  PROVE  Fair
<1>1. PICK lost \in Nat : /\ V.collateralShares = W.collateralShares + lost
                          /\ CollateralReturns' = CollateralReturns + RawFromNorm(lost)
  BY DEF CollateralBooks
<1>2. vaults'[u] = W /\ \A w \in Vault : w # u => vaults'[w] = vaults[w]
  BY DEF TypeInv
<1>3. \A w \in Vault : w # u => Holding(w)' = Holding(w)
  BY <1>2 DEF Holding
<1>4. PICK a \in Nat, c \in Nat, b \in Nat :
        a = V.collateralShares /\ c = W.collateralShares /\ b = vaultKicks[u].bond
  BY VaultFields, KickFields DEF TypeInv
<1>5. Holding(u) = a + b /\ Holding(u)' = c + b
  BY <1>2, <1>4 DEF Holding
<1>6. PICK z \in Nat : z = 0 /\ NormFromRaw(z) = 0
  BY RatesAssumption DEF NormFromRaw
<1>7. Holding(u)' + lost = Holding(u) + z
  BY <1>1, <1>4, <1>5, <1>6
<1>8. PICK paid \in Nat : /\ paid = RawFromNorm(lost) /\ NormFromRaw(paid) <= lost
                          /\ NormFromRaw(paid) \in Nat
                          /\ CollateralScale = 1 => paid = lost
  <2>1. RawFromNorm(lost) \in Nat
    BY RoundedDown
  <2>2. CollateralScale = 1 => RawFromNorm(lost) = lost
    BY RoundedDown, NormLinear
  <2>3. QED BY <2>1, <2>2, RoundedDown
<1>9. /\ hubCollateral' + z = hubCollateral + z
      /\ CollateralReturns' + z = CollateralReturns + paid
  BY <1>1, <1>6, <1>8, TotalsNat, PrimedTotals DEF TypeInv
<1>10. NormFromRaw(z) + NormFromRaw(paid) + z <= NormFromRaw(z) + NormFromRaw(z) + lost
  BY <1>6, <1>8
<1>11. CollateralScale = 1 => z + paid + z = z + z + lost
  BY <1>6, <1>8
<1>12. QED BY <1>3, <1>7, <1>9, <1>10, <1>11, OneVaultFair, SMTT(30)

\* Every step of a mint or of a burn.
LEMMA RequestsFair ==
  ASSUME LockInv, TypeInv', MintNext \/ BurnNext
  PROVE  Fair
<1>1. TypeInv /\ BurnListInv /\ AbandonedCancelled
  BY DEF LockInv, LedgerInv, LedgerFacts, BurnListInv
<1>2. CASE \E r \in ReqId : MintAction(r)
  <2>1. PICK r \in ReqId : MintAction(r)
    BY <1>2
  <2>2. PICK m, q \in GoodMint, V, W \in GoodVault :
          MintStep(r, m, q, V, W) /\ MintBooks(m, q, V, W)
    BY <1>1, <2>1, MintActionBooks
  <2>3. UNCHANGED <<hubCollateral, vaultKicks>>
    BY <1>1, <2>1, MintActionBooks DEF MintUnchanged, kickVars, hubVars
  <2>4. /\ m.lpVault \in Vault /\ V = vaults[m.lpVault]
        /\ vaults' = [vaults EXCEPT ![m.lpVault] = W] /\ CollateralBooks(V, W)
    BY <2>2, MintFields DEF MintStep, MintBooks
  <2>5. QED BY <1>1, <2>3, <2>4, PaidFromVault
<1>3. CASE \E u \in Minters, recipient \in Recipients, v \in Vault,
              amount \in MintAmounts, value \in EthValues :
                InitiateMint(u, recipient, v, amount, value)
  <2>1. PICK u \in Minters, recipient \in Recipients, v \in Vault,
             amount \in MintAmounts, value \in EthValues :
               InitiateMint(u, recipient, v, amount, value)
    BY <1>3
  <2>2. UNCHANGED <<hubCollateral, vaultKicks, vaults, pendingReturns>>
    BY <2>1 DEF InitiateMint, kickVars, MintUnchanged
  <2>3. CollateralReturns' = CollateralReturns
    BY <2>2, TotalsSame
  <2>4. QED BY <1>1, <2>2, <2>3, NothingMoves
<1>4. CASE \E r \in ReqId : BurnAction(r)
  <2>1. PICK r \in ReqId : BurnAction(r)
    BY <1>4
  <2>2. PICK b, c \in GoodBurn, V, W \in GoodVault :
          BurnStep(r, b, c, V, W) /\ BurnBooks(r, b, c, V, W)
    BY <1>1, <2>1, BurnActionBooks
  <2>3. UNCHANGED <<hubCollateral, vaultKicks>>
    BY <1>1, <2>1, BurnActionBooks DEF BurnUnchanged, kickVars, hubVars
  <2>4. /\ c.lpVault \in Vault /\ V = vaults[c.lpVault]
        /\ vaults' = [vaults EXCEPT ![c.lpVault] = W] /\ CollateralBooks(V, W)
    BY <2>2, BurnFields DEF BurnStep, BurnBooks
  <2>5. QED BY <1>1, <2>3, <2>4, PaidFromVault
<1>5. CASE \E u \in Burners, v \in Vault, amount \in BurnAmounts : RequestBurn(u, v, amount)
  <2>1. PICK u \in Burners, v \in Vault, amount \in BurnAmounts : RequestBurn(u, v, amount)
    BY <1>5
  <2>2. PICK r \in ReqId, b, c \in GoodBurn, V, W \in GoodVault :
          BurnStep(r, b, c, V, W) /\ BurnBooks(r, b, c, V, W)
    BY <1>1, <2>1, RequestBurnBooks
  <2>3. UNCHANGED <<hubCollateral, vaultKicks>>
    BY <2>1 DEF RequestBurn, BurnUnchanged, kickVars, hubVars
  <2>4. /\ c.lpVault \in Vault /\ V = vaults[c.lpVault]
        /\ vaults' = [vaults EXCEPT ![c.lpVault] = W] /\ CollateralBooks(V, W)
    BY <2>2, BurnFields DEF BurnStep, BurnBooks
  <2>5. QED BY <1>1, <2>3, <2>4, PaidFromVault
<1>6. QED BY <1>2, <1>3, <1>4, <1>5 DEF MintNext, BurnNext, MintAction, BurnAction


-----------------------------------------------------------------------------
(* The operations of the LPs, the returns and the kicks. *)

\* A deposit brings what its vault gains; the bond of a rescued kick moves within it.
LEMMA DepositFair ==
  ASSUME TypeInv, TypeInv', NEW v \in Vault, NEW amount \in DepositAmounts,
         DepositCollateral(v, amount)
  PROVE  Fair
<1>1. PICK V \in GoodVault, k \in GoodKick : V = vaults[v] /\ k = vaultKicks[v]
  BY DEF TypeInv
<1>2. PICK s \in Nat, b \in Nat : s = V.collateralShares /\ b = k.bond
  BY VaultFields, KickFields
<1>3. amount \in Nat
  BY AmountsAssumption
<1>4. PICK x \in Nat : x = NormFromRaw(amount) /\ (CollateralScale = 1 => x = amount)
  BY <1>3, NormLinear
<1>5. PICK bond \in Nat :
        /\ vaults' = [vaults EXCEPT ![v].collateralShares = @ + bond + NormFromRaw(amount)]
        /\ \/ bond = b /\ ClearKick(v)
           \/ bond = 0 /\ UNCHANGED vaultKicks
  BY <1>1, <1>2 DEF DepositCollateral
<1>6. PICK W : W = [V EXCEPT !.collateralShares = s + bond + x]
  OBVIOUS
<1>7. vaults' = [vaults EXCEPT ![v] = W] /\ W.collateralShares = s + bond + x
  BY <1>1, <1>2, <1>4, <1>5, <1>6 DEF TypeInv, GoodVault, VaultRecord
<1>8. /\ vaults'[v] = W /\ \A w \in Vault : w # v => vaults'[w] = vaults[w]
      /\ \A w \in Vault : w # v => vaultKicks'[w] = vaultKicks[w]
  BY <1>5, <1>7 DEF TypeInv, ClearKick
<1>9. PICK c \in Nat : c = vaultKicks'[v].bond /\ bond + c = b
  <2>1. CASE bond = b /\ ClearKick(v)
    <3>1. vaultKicks'[v].bond = 0
      BY <2>1 DEF TypeInv, ClearKick, NoKick
    <3>2. QED BY <1>2, <2>1, <3>1
  <2>2. CASE bond = 0 /\ UNCHANGED vaultKicks
    BY <1>1, <1>2, <2>2
  <2>3. QED BY <1>5, <2>1, <2>2
<1>10. Holding(v) = s + b /\ Holding(v)' = s + bond + x + c
  BY <1>1, <1>2, <1>7, <1>8, <1>9 DEF Holding
<1>11. PICK z \in Nat : z = 0 /\ NormFromRaw(z) = 0
  BY RatesAssumption DEF NormFromRaw
<1>12. Holding(v)' + z = Holding(v) + x
  BY <1>9, <1>10, <1>11
<1>13. hubCollateral' + z = hubCollateral + amount /\ CollateralReturns' + z = CollateralReturns + z
  <2>1. hubCollateral' = hubCollateral + amount /\ UNCHANGED pendingReturns /\ hubCollateral \in Nat
    BY DEF DepositCollateral, TypeInv
  <2>2. QED BY <1>3, <1>11, <2>1, TotalsSame
<1>14. NormFromRaw(z) + NormFromRaw(z) + x <= NormFromRaw(amount) + NormFromRaw(z) + z
  BY <1>4, <1>11
<1>15. CollateralScale = 1 => z + z + x = amount + z + z
  BY <1>3, <1>4, <1>11
<1>16. \A w \in Vault : w # v => Holding(w)' = Holding(w)
  BY <1>8 DEF Holding
<1>17. QED BY <1>3, <1>12, <1>13, <1>14, <1>15, <1>16, OneVaultFair

\* A repayment moves at most a bond, into the shares of its vault.
LEMMA RepaymentFair ==
  ASSUME TypeInv, TypeInv', NEW v \in Vault, NEW amount \in RepayAmounts, RepayDebt(v, amount)
  PROVE  Fair
<1>1. PICK V \in GoodVault, k \in GoodKick : V = vaults[v] /\ k = vaultKicks[v]
  BY DEF TypeInv
<1>2. PICK s \in Nat, b \in Nat : s = V.collateralShares /\ b = k.bond
  BY VaultFields, KickFields
<1>3. PICK bond \in Nat, repaid \in Nat :
        /\ vaults' = [vaults EXCEPT ![v].collateralShares = @ + bond, ![v].debt = @ - repaid]
        /\ \/ bond = b /\ ClearKick(v)
           \/ bond = 0 /\ UNCHANGED vaultKicks
  BY <1>1, <1>2, AmountsAssumption, VaultFields, MonusNat DEF RepayDebt
<1>4. PICK W : W = [V EXCEPT !.collateralShares = s + bond, !.debt = @ - repaid]
  OBVIOUS
<1>5. vaults' = [vaults EXCEPT ![v] = W] /\ W.collateralShares = s + bond
  BY <1>1, <1>2, <1>3, <1>4 DEF TypeInv, GoodVault, VaultRecord
<1>6. /\ vaults'[v] = W /\ \A w \in Vault : w # v => vaults'[w] = vaults[w]
      /\ \A w \in Vault : w # v => vaultKicks'[w] = vaultKicks[w]
  BY <1>3, <1>5 DEF TypeInv, ClearKick
<1>7. PICK c \in Nat : c = vaultKicks'[v].bond /\ bond + c = b
  <2>1. CASE bond = b /\ ClearKick(v)
    <3>1. vaultKicks'[v].bond = 0
      BY <2>1 DEF TypeInv, ClearKick, NoKick
    <3>2. QED BY <1>2, <2>1, <3>1
  <2>2. CASE bond = 0 /\ UNCHANGED vaultKicks
    BY <1>1, <1>2, <2>2
  <2>3. QED BY <1>3, <2>1, <2>2
<1>8. Holding(v) = s + b /\ Holding(v)' = s + bond + c
  BY <1>1, <1>2, <1>5, <1>6, <1>7 DEF Holding
<1>9. PICK z \in Nat : z = 0 /\ NormFromRaw(z) = 0
  BY RatesAssumption DEF NormFromRaw
<1>10. Holding(v)' + z = Holding(v) + z
  BY <1>7, <1>8, <1>9
<1>11. hubCollateral' + z = hubCollateral + z /\ CollateralReturns' + z = CollateralReturns + z
  <2>1. UNCHANGED <<hubCollateral, pendingReturns>>
    BY DEF RepayDebt, hubVars
  <2>2. QED BY <2>1, TotalsSame
<1>12. /\ NormFromRaw(z) + NormFromRaw(z) + z <= NormFromRaw(z) + NormFromRaw(z) + z
       /\ CollateralScale = 1 => z + z + z = z + z + z
  BY <1>9
<1>13. \A w \in Vault : w # v => Holding(w)' = Holding(w)
  BY <1>6 DEF Holding
<1>14. QED BY <1>10, <1>11, <1>12, <1>13, OneVaultFair

\* What is withdrawn of a vault is paid out, in whole raw units.
LEMMA WithdrawalFair ==
  ASSUME TypeInv, TypeInv', NEW v \in Vault, NEW shares \in WithdrawAmounts,
         WithdrawCollateral(v, shares)
  PROVE  Fair
<1>1. PICK V \in GoodVault : V = vaults[v]
  BY DEF TypeInv
<1>2. PICK s \in Nat, b \in Nat : s = V.collateralShares /\ b = vaultKicks[v].bond
  BY VaultFields, KickFields DEF TypeInv
<1>3. shares \in Nat
  BY AmountsAssumption
<1>4. PICK raw \in Nat, x \in Nat :
        raw = RawFromNorm(shares) /\ x = NormFromRaw(raw) /\ (CollateralScale = 1 => x = raw)
  BY <1>3, RoundedDown, NormLinear
<1>5. /\ V.collateralShares >= V.lockedCollateral /\ V.collateralShares - V.lockedCollateral >= x
      /\ vaults' = [vaults EXCEPT ![v] = [V EXCEPT !.collateralShares = @ - x]]
      /\ hubCollateral >= raw /\ hubCollateral' = hubCollateral - raw
      /\ UNCHANGED <<vaultKicks, pendingReturns>>
  BY <1>1, <1>4 DEF WithdrawCollateral, kickVars
<1>6. x <= s
  BY <1>2, <1>5, VaultFields
<1>7. PICK W : W = [V EXCEPT !.collateralShares = s - x]
  OBVIOUS
<1>8. W.collateralShares = s - x /\ vaults' = [vaults EXCEPT ![v] = W]
  BY <1>2, <1>5, <1>7 DEF GoodVault, VaultRecord
<1>9. vaults'[v] = W /\ \A w \in Vault : w # v => vaults'[w] = vaults[w]
  BY <1>8 DEF TypeInv
<1>10. Holding(v) = s + b /\ Holding(v)' = (s - x) + b
  BY <1>1, <1>2, <1>5, <1>8, <1>9 DEF Holding
<1>11. PICK z \in Nat : z = 0 /\ NormFromRaw(z) = 0
  BY RatesAssumption DEF NormFromRaw
<1>12. Holding(v)' + x = Holding(v) + z
  BY <1>6, <1>10, <1>11
<1>13. hubCollateral' + raw = hubCollateral + z /\ CollateralReturns' + z = CollateralReturns + z
  <2>1. hubCollateral \in Nat
    BY DEF TypeInv
  <2>2. QED BY <1>5, <1>11, <2>1, TotalsSame
<1>14. NormFromRaw(raw) + NormFromRaw(z) + z <= NormFromRaw(z) + NormFromRaw(z) + x
  BY <1>4, <1>11
<1>15. CollateralScale = 1 => raw + z + z = z + z + x
  BY <1>4, <1>11
<1>16. \A w \in Vault : w # v => Holding(w)' = Holding(w)
  BY <1>5, <1>9 DEF Holding
<1>17. QED BY <1>12, <1>13, <1>14, <1>15, <1>16, OneVaultFair

\* An eviction pays its vault out, rounded down.
LEMMA EvictionFair ==
  ASSUME LedgerInv, TypeInv', NEW v \in Vault, NEW w \in Vault, CreateVaultEvicting(v, w)
  PROVE  Fair
<1>1. TypeInv /\ Unregistered
  BY DEF LedgerInv, LedgerFacts, BurnListInv
<1>2. PICK V \in GoodVault : V = vaults[w]
  BY <1>1 DEF TypeInv
<1>3. PICK s \in Nat, b \in Nat : s = V.collateralShares /\ b = vaultKicks[w].bond
  BY <1>1, VaultFields, KickFields DEF TypeInv
<1>4. PICK raw \in Nat : /\ raw = RawFromNorm(s) /\ NormFromRaw(raw) <= s
                         /\ NormFromRaw(raw) \in Nat
                         /\ CollateralScale = 1 => raw = s
  <2>1. RawFromNorm(s) \in Nat
    BY RoundedDown
  <2>2. CollateralScale = 1 => RawFromNorm(s) = s
    BY RoundedDown, NormLinear
  <2>3. QED BY <2>1, <2>2, RoundedDown
<1>5. /\ ~vaults[v].registered /\ V.active
      /\ vaults' = [vaults EXCEPT ![v] = NewVault,
                                  ![w].collateralShares = 0, ![w].active = FALSE]
      /\ hubCollateral >= raw /\ hubCollateral' = hubCollateral - raw
      /\ UNCHANGED <<vaultKicks, pendingReturns>>
  BY <1>2, <1>3, <1>4 DEF CreateVaultEvicting, IsVaultEvictable, kickVars
<1>6. vaults[v] = EmptyVault /\ v # w
  BY <1>1, <1>2, <1>5 DEF Unregistered, EmptyVault
<1>7. PICK W : W = [V EXCEPT !.collateralShares = 0, !.active = FALSE]
  OBVIOUS
<1>8. W.collateralShares = 0 /\ vaults' = [vaults EXCEPT ![v] = NewVault, ![w] = W]
  BY <1>1, <1>2, <1>5, <1>6, <1>7 DEF TypeInv, GoodVault, VaultRecord
<1>9. /\ vaults'[w] = W /\ vaults'[v] = NewVault
      /\ \A u \in Vault : u # v /\ u # w => vaults'[u] = vaults[u]
  BY <1>1, <1>6, <1>8 DEF TypeInv
<1>10. NewVault.collateralShares = 0 /\ EmptyVault.collateralShares = 0
  BY DEF NewVault, EmptyVault
<1>11. \A u \in Vault : u # w => Holding(u)' = Holding(u)
  BY <1>5, <1>6, <1>9, <1>10 DEF Holding
<1>12. Holding(w) = s + b /\ Holding(w)' = 0 + b
  BY <1>2, <1>3, <1>5, <1>8, <1>9 DEF Holding
<1>13. PICK z \in Nat : z = 0 /\ NormFromRaw(z) = 0
  BY RatesAssumption DEF NormFromRaw
<1>14. Holding(w)' + s = Holding(w) + z
  BY <1>12, <1>13
<1>15. hubCollateral' + raw = hubCollateral + z /\ CollateralReturns' + z = CollateralReturns + z
  <2>1. hubCollateral \in Nat
    BY <1>1 DEF TypeInv
  <2>2. QED BY <1>5, <1>13, <2>1, TotalsSame
<1>16. NormFromRaw(raw) + NormFromRaw(z) + z <= NormFromRaw(z) + NormFromRaw(z) + s
  BY <1>4, <1>13
<1>17. CollateralScale = 1 => raw + z + z = z + z + s
  BY <1>4, <1>13
<1>18. QED BY <1>1, <1>11, <1>14, <1>15, <1>16, <1>17, OneVaultFair


\* Returns are paid once.
LEMMA ReturnsFair ==
  ASSUME TypeInv, TypeInv', NEW a \in Account, WithdrawCollateralReturns(a)
  PROVE  Fair
<1>1. pendingReturns \in [Account -> Returns] /\ pendingReturns' \in [Account -> Returns]
  BY DEF TypeInv
<1>2. PICK p \in Returns : p = pendingReturns[a] /\ p.collateral \in Nat /\ p.eth \in Nat
  BY <1>1 DEF Returns
<1>3. /\ pendingReturns' = [pendingReturns EXCEPT ![a].collateral = 0]
      /\ hubCollateral >= p.collateral /\ hubCollateral' = hubCollateral - p.collateral
      /\ UNCHANGED <<vaults, vaultKicks>>
  BY <1>2 DEF WithdrawCollateralReturns, kickVars
<1>4. PICK q : q = [p EXCEPT !.collateral = 0]
  OBVIOUS
<1>5. /\ pendingReturns' = [pendingReturns EXCEPT ![a] = q] /\ q \in Returns
      /\ q.collateral = 0 /\ q.eth = p.eth
  <2>1. pendingReturns' = [pendingReturns EXCEPT ![a] = q]
    BY <1>1, <1>2, <1>3, <1>4
  <2>2. q \in Returns /\ q.collateral = 0 /\ q.eth = p.eth
    BY <1>4 DEF Returns
  <2>3. QED BY <2>1, <2>2
<1>6. p = [q EXCEPT !.collateral = q.collateral + p.collateral]
  <2>1. PICK r : r = [q EXCEPT !.collateral = q.collateral + p.collateral]
    OBVIOUS
  <2>2. r \in Returns /\ r.collateral = p.collateral /\ r.eth = p.eth
    BY <1>2, <1>5, <2>1 DEF Returns
  <2>3. r = p
    BY <2>2 DEF Returns
  <2>4. QED BY <2>1, <2>3
<1>7. pendingReturns = [pendingReturns' EXCEPT ![a].collateral = @ + p.collateral]
  <2>1. pendingReturns'[a] = q
    BY <1>1, <1>5
  <2>2. pendingReturns = [pendingReturns' EXCEPT ![a] = p]
    BY <1>1, <1>2, <1>5
  <2>3. QED BY <1>6, <2>1, <2>2
<1>8. CollateralReturns = CollateralReturns' + p.collateral
  <2>1. PICK f \in [Account -> Returns], g \in [Account -> Returns], x \in Nat, z \in Nat :
          f = pendingReturns' /\ g = pendingReturns /\ x = p.collateral /\ z = 0
    BY <1>1, <1>2
  <2>2. \/ g = [f EXCEPT ![a].collateral = @ + x, ![a].eth = @ + z]
        \/ g = [f EXCEPT ![a].eth = @ + z] /\ x = 0
        \/ g = [f EXCEPT ![a].collateral = @ + x] /\ z = 0
    BY <1>7, <2>1
  <2>3. CollateralIn(g) = CollateralIn(f) + x
    BY <2>2, ReturnsUpdate
  <2>4. CollateralReturns = CollateralIn(pendingReturns) /\ CollateralReturns' = CollateralIn(pendingReturns')
    BY DEF CollateralReturns, CollateralIn
  <2>5. QED BY <2>1, <2>3, <2>4
<1>9. PICK z \in Nat, x \in Nat : z = 0 /\ NormFromRaw(z) = 0 /\ x = p.collateral /\ NormFromRaw(x) \in Nat
  BY <1>2, NormLinear, RatesAssumption DEF NormFromRaw
<1>10. /\ hubCollateral' + x = hubCollateral + z
       /\ CollateralReturns' + x = CollateralReturns + z
  <2>1. hubCollateral \in Nat /\ CollateralReturns \in Nat /\ CollateralReturns' \in Nat
    BY TotalsNat, PrimedTotals DEF TypeInv
  <2>2. QED BY <1>3, <1>8, <1>9, <2>1
<1>11. Holdings' + z = Holdings + z
  <2>1. \A v \in Vault : Holding(v)' = Holding(v)
    BY <1>3 DEF Holding
  <2>2. QED BY <2>1 DEF Holdings
<1>12. /\ NormFromRaw(x) + NormFromRaw(z) + z <= NormFromRaw(z) + NormFromRaw(x) + z
       /\ CollateralScale = 1 => x + z + z = z + x + z
  BY <1>9
<1>13. QED BY <1>10, <1>11, <1>12, Balanced

\* Every operation of an LP, and every withdrawal of returns.
LEMMA VaultNextFair ==
  ASSUME LockInv, TypeInv', VaultNext
  PROVE  Fair
<1>1. TypeInv /\ LedgerInv /\ Unregistered
  BY DEF LockInv, LedgerInv, LedgerFacts, BurnListInv
<1>2. EmptyVault.collateralShares = 0 /\ NewVault.collateralShares = 0
  BY DEF EmptyVault, NewVault
<1>3. CASE \E v \in Vault : CreateVault(v)
  <2>1. PICK v \in Vault : CreateVault(v)
    BY <1>3
  <2>2. /\ vaults[v] = EmptyVault /\ vaults' = [vaults EXCEPT ![v] = NewVault]
        /\ UNCHANGED <<hubCollateral, vaultKicks, pendingReturns>>
    BY <1>1, <2>1 DEF CreateVault, Unregistered, kickVars, hubVars
  <2>3. \A w \in Vault : vaults'[w].collateralShares = vaults[w].collateralShares
    BY <1>1, <1>2, <2>2 DEF TypeInv
  <2>4. QED BY <1>1, <2>2, <2>3, TotalsSame, NothingMoves
<1>4. CASE \E v, w \in Vault : CreateVaultEvicting(v, w)
  BY <1>1, <1>4, EvictionFair
<1>5. CASE \E v \in Vault, amount \in DepositAmounts : DepositCollateral(v, amount)
  BY <1>1, <1>5, DepositFair
<1>6. CASE \E v \in Vault, shares \in WithdrawAmounts : WithdrawCollateral(v, shares)
  BY <1>1, <1>6, WithdrawalFair
<1>7. CASE \E v \in Vault, amount \in RepayAmounts : RepayDebt(v, amount)
  BY <1>1, <1>7, RepaymentFair
<1>8. CASE \E a \in Account : WithdrawCollateralReturns(a)
  BY <1>1, <1>8, ReturnsFair
<1>9. CASE \E a \in Account : WithdrawEthReturns(a)
  <2>1. PICK a \in Account : WithdrawEthReturns(a)
    BY <1>9
  <2>2. /\ pendingReturns' = [pendingReturns EXCEPT ![a].eth = 0]
        /\ UNCHANGED <<hubCollateral, vaultKicks, vaults>>
    BY <2>1 DEF WithdrawEthReturns, kickVars
  <2>3. PICK p \in Returns : p = pendingReturns[a]
    BY <1>1 DEF TypeInv
  <2>4. PICK q : q = [p EXCEPT !.eth = 0]
    OBVIOUS
  <2>5. \A b \in Account : pendingReturns'[b].collateral = pendingReturns[b].collateral
    <3>1. q.collateral = p.collateral
      BY <2>4 DEF Returns
    <3>2. QED BY <1>1, <2>2, <2>3, <2>4, <3>1 DEF TypeInv
  <2>6. CollateralReturns' = CollateralReturns
    BY <2>5 DEF CollateralReturns, CollateralIn
  <2>7. QED BY <1>1, <2>2, <2>6, NothingMoves
<1>10. CASE \E v \in Vault : \E minters \in Whitelists, whitelisted \in BOOLEAN :
               SetMinterWhitelist(v, minters, whitelisted)
  <2>1. UNCHANGED <<hubCollateral, vaultKicks, pendingReturns, vaults>>
    BY <1>10 DEF SetMinterWhitelist, kickVars, hubVars
  <2>2. QED BY <1>1, <2>1, TotalsSame, NothingMoves
<1>11. CASE \E v \in Vault : DeactivateVault(v)
  <2>1. PICK v \in Vault, V \in GoodVault : V = vaults[v] /\ DeactivateVault(v)
    BY <1>1, <1>11 DEF TypeInv
  <2>2. PICK W : W = [V EXCEPT !.active = FALSE]
    OBVIOUS
  <2>3. /\ UNCHANGED <<hubCollateral, vaultKicks, pendingReturns>>
        /\ vaults' = [vaults EXCEPT ![v] = W] /\ W.collateralShares = V.collateralShares
    <3>1. UNCHANGED <<hubCollateral, vaultKicks, pendingReturns>>
      BY <2>1 DEF DeactivateVault, kickVars, hubVars
    <3>2. vaults' = [vaults EXCEPT ![v] = W]
      BY <1>1, <2>1, <2>2 DEF DeactivateVault, TypeInv
    <3>3. W.collateralShares = V.collateralShares
      BY <2>2 DEF GoodVault, VaultRecord
    <3>4. QED BY <3>1, <3>2, <3>3
  <2>4. \A w \in Vault : vaults'[w].collateralShares = vaults[w].collateralShares
    BY <1>1, <2>1, <2>2, <2>3 DEF TypeInv
  <2>5. QED BY <1>1, <2>3, <2>4, TotalsSame, NothingMoves
<1>12. CASE \E v \in Vault :
              \/ \E threshold \in Thresholds : SetThreshold(v, threshold)
              \/ \E maxMint \in MaxMints : SetMaxMintWsxmr(v, maxMint)
              \/ \E deposit \in GriefingDeposits : SetMintGriefingDeposit(v, deposit)
              \/ \E mintFee \in MintFees, burnReward \in BurnRewards :
                   SetVaultMarketMetrics(v, mintFee, burnReward)
              \/ \E minBurn \in MinBurns : SetMinBurnAmount(v, minBurn)
              \/ \E blocks \in Timeouts : SetMintTimeoutBlocks(v, blocks)
              \/ \E blocks \in Timeouts : SetBurnTimeoutBlocks(v, blocks)
  <2>1. VaultTerms
    BY DEF LockInv, LockFacts
  <2>2. PICK v \in Vault :
          /\ ConfigUnchanged
          /\ \E W : /\ vaults' = [vaults EXCEPT ![v] = W]
                   /\ KeepsHolds(vaults[v], W) /\ W.threshold >= MinThreshold
                   /\ W.debt = vaults[v].debt
                   /\ W.collateralShares = vaults[v].collateralShares
    BY <1>1, <1>12, <2>1, QuoteMade
  <2>3. PICK W : /\ vaults' = [vaults EXCEPT ![v] = W]
                 /\ W.collateralShares = vaults[v].collateralShares
    BY <2>2
  <2>4. UNCHANGED <<hubCollateral, vaultKicks, pendingReturns>>
    BY <2>2 DEF ConfigUnchanged, kickVars, hubVars
  <2>5. \A w \in Vault : vaults'[w].collateralShares = vaults[w].collateralShares
    BY <1>1, <2>3 DEF TypeInv
  <2>6. QED BY <1>1, <2>4, <2>5, TotalsSame, NothingMoves
<1>13. QED
  BY <1>3, <1>4, <1>5, <1>6, <1>7, <1>8, <1>9, <1>10, <1>11, <1>12 DEF VaultNext

-----------------------------------------------------------------------------
(* The kicks, and the settlements. *)

\* The kick of a vault brings the bond it records, in whole raw units.
LEMMA KickFair ==
  ASSUME TypeInv, TypeInv', IdleBonds, NEW v \in Vault, NEW kicker \in Kickers,
         Kick(kicker, v) \/ Reauction(kicker, v)
  PROVE  Fair
<1>1. StartKick(v, kicker) /\ ~vaultKicks[v].active
  BY DEF Kick, Reauction
<1>2. vaultKicks \in [Vault -> GoodKick] /\ vaults \in [Vault -> GoodVault] /\ hubCollateral \in Nat
  BY DEF TypeInv
<1>3. PICK s \in Nat : s = vaults[v].collateralShares
  BY <1>2, VaultFields
<1>4. PICK share \in Nat : share = (s * KickBondBps) \div BpsDenominator
  BY MulNat, DivNat, RatesAssumption
<1>5. PICK b \in Nat : b = IF share < KickBondMin THEN KickBondMin ELSE share
  BY <1>4, RatesAssumption
<1>6. PICK raw \in Nat : raw = RawFromNorm(b)
  BY RoundedDown
<1>7. PICK x \in Nat : x = NormFromRaw(raw) /\ (CollateralScale = 1 => x = raw)
  BY NormLinear
<1>8. /\ hubCollateral' = hubCollateral + raw
      /\ vaultKicks'[v].bond = x
      /\ \A w \in Vault : w # v => vaultKicks'[w] = vaultKicks[w]
      /\ UNCHANGED <<vaults, pendingReturns>>
  <2>1. PICK j : j = [NoKick EXCEPT !.active = TRUE, !.kicker = kicker, !.bond = x,
                      !.kickBlock = block,
                      !.auctionEnd = block + KickGrace + AuctionOpenDelay + AuctionDuration]
    OBVIOUS
  <2>2. j.bond = x
    BY <2>1 DEF NoKick
  <2>3. /\ hubCollateral' = hubCollateral + raw
        /\ vaultKicks' = [vaultKicks EXCEPT ![v] = j]
        /\ UNCHANGED <<vaults, pendingReturns>>
    BY <1>1, <1>3, <1>4, <1>5, <1>6, <1>7, <2>1 DEF StartKick
  <2>4. QED BY <1>2, <2>2, <2>3
<1>9. vaultKicks[v].bond = 0
  BY <1>1 DEF IdleBonds
<1>10. PICK z \in Nat : z = 0 /\ NormFromRaw(z) = 0
  BY RatesAssumption DEF NormFromRaw
<1>11. Holding(v)' + z = Holding(v) + x
  <2>1. Holding(v) = s + 0 /\ Holding(v)' = s + x
    BY <1>3, <1>8, <1>9 DEF Holding
  <2>2. QED BY <1>10, <2>1
<1>12. hubCollateral' + z = hubCollateral + raw /\ CollateralReturns' + z = CollateralReturns + z
  BY <1>2, <1>8, <1>10, TotalsSame
<1>13. NormFromRaw(z) + NormFromRaw(z) + x <= NormFromRaw(raw) + NormFromRaw(z) + z
  BY <1>7, <1>10
<1>14. CollateralScale = 1 => z + z + x = raw + z + z
  BY <1>7, <1>10
<1>15. \A w \in Vault : w # v => Holding(w)' = Holding(w)
  BY <1>8 DEF Holding
<1>16. QED BY <1>11, <1>12, <1>13, <1>14, <1>15, OneVaultFair

\* What a settlement takes out of a vault is there, and covers what it pays.
LEMMA SettlementCovered ==
  ASSUME LockInv, NEW v \in Intact, NEW S, Settles(v, S), SettleBurns(v, S),
         UNCHANGED abandonedBurns
  PROVE  \E out \in Nat, pay \in Nat :
           /\ pay = Payments(v, S) /\ out <= vaults[v].collateralShares
           /\ SettledVault(v, S).collateralShares + out = vaults[v].collateralShares
           /\ NormFromRaw(pay) \in Nat /\ NormFromRaw(pay) <= out
           /\ CollateralScale = 1 => pay = out
<1>1. /\ TypeInv /\ BurnListInv /\ AbandonedCancelled /\ v \in Vault /\ SoundVault(v)
  BY DEF LockInv, LockFacts, LedgerInv, LedgerFacts, BurnListInv, Intact
<1>2. PICK V \in GoodVault : V = vaults[v]
  BY <1>1 DEF TypeInv
<1>3. PICK s \in Nat, l \in Nat : s = V.collateralShares /\ l = V.lockedCollateral
  BY VaultFields
<1>4. PICK out \in Nat, rel \in Nat, pay \in Nat :
        /\ out = Outflows(S) /\ rel = ReleasedLocks(v, S) /\ pay = Payments(v, S) /\ out <= rel
  BY <1>1, SettledOutflows, SettledPayments
<1>5. out <= s
  <2>1. PICK bl \in Nat, bn \in Nat, ml \in Nat :
          bl = BurnLocks(v) /\ bn = BurnLocks(v)' /\ ml = MintLocks(v)
    <3>1. BurnCollateral' = BurnCollateral
      BY <1>1, SettledBurns
    <3>2. BurnLocks(v)' = SumOn(BurnsOf(v)', BurnCollateral, MaxRequests)
      BY <3>1 DEF BurnLocks
    <3>3. QED BY <1>1, <3>2, HoldsNat, BurnNumbers, SumOnIsNat
  <2>2. bl = bn + rel
    BY <1>1, <1>4, <2>1, SettledInFlight
  <2>3. l = ml + bl /\ l <= s
    BY <1>1, <1>2, <1>3, <2>1 DEF SoundVault
  <2>4. QED BY <1>4, <2>2, <2>3
<1>6. SettledVault(v, S).collateralShares = Monus(s, out)
  BY <1>1, <1>2, <1>3, <1>4, SettledFields
<1>7. SettledVault(v, S).collateralShares + out = s
  BY <1>5, <1>6 DEF Monus
<1>8. NormFromRaw(pay) \in Nat /\ NormFromRaw(pay) <= out
  BY <1>1, <1>4, PaymentsBound
<1>9. CollateralScale = 1 => pay = out
  <2>1. CollateralScale = 1 => NormFromRaw(pay) = out
    BY <1>1, <1>2, <1>3, <1>4, <1>5, PaymentsBound
  <2>2. QED BY <2>1, NormLinear
<1>10. QED BY <1>2, <1>3, <1>4, <1>5, <1>7, <1>8, <1>9

\* What a step that changes one vault moves, as in OneVaultFair.
Moved(u, rin, rout, paid, taken, gained, lost) ==
  /\ \A w \in Vault : w # u => Holding(w)' = Holding(w)
  /\ hubCollateral' + rout = hubCollateral + rin
  /\ CollateralReturns' + taken = CollateralReturns + paid
  /\ Holding(u)' + lost = Holding(u) + gained
  /\ NormFromRaw(rout) + NormFromRaw(paid) + gained
       <= NormFromRaw(rin) + NormFromRaw(taken) + lost
  /\ CollateralScale = 1 => rout + paid + gained = rin + taken + lost

\* Such a step is fair.
LEMMA MovedFair ==
  ASSUME TypeInv, TypeInv', NEW u \in Vault, NEW rin \in Nat, NEW rout \in Nat,
         NEW paid \in Nat, NEW taken \in Nat, NEW gained \in Nat, NEW lost \in Nat,
         Moved(u, rin, rout, paid, taken, gained, lost)
  PROVE  Fair
BY OneVaultFair, SMTT(30) DEF Moved

\* A step of an auction that settles the vault v, of which s is left, and makes X of
\* it: of what is left a bid takes c, which with the bond b covers rout, paid by the
\* hub, x, which an account may withdraw, and what goes back to the vault.
SettlementMoves(v, S, s, b, X, a, rout, x, kept, c) ==
  /\ s = SettledVault(v, S).collateralShares /\ b = vaultKicks[v].bond
  /\ vaults' = [vaults EXCEPT ![v] = X]
  /\ \A w \in Vault : w # v => vaultKicks'[w] = vaultKicks[w]
  /\ \/ pendingReturns' = SettledReturns(v, S) /\ x = 0
     \/ /\ a \in Account
        /\ pendingReturns' = [SettledReturns(v, S) EXCEPT ![a].collateral = @ + x]
  /\ hubCollateral' + rout = hubCollateral
  /\ X.collateralShares + c = s + kept
  /\ NormFromRaw(rout) + NormFromRaw(x) + kept + vaultKicks'[v].bond <= c + b
  /\ CollateralScale = 1 => rout + x + kept + vaultKicks'[v].bond = c + b

\* It is fair.
LEMMA SettlementFair ==
  ASSUME LockInv, TypeInv', NEW v \in Intact, NEW S, Settles(v, S), SettleBurns(v, S),
         UNCHANGED abandonedBurns, NEW X \in GoodVault, NEW a,
         NEW s \in Nat, NEW b \in Nat, NEW rout \in Nat, NEW x \in Nat,
         NEW kept \in Nat, NEW c \in Nat,
         SettlementMoves(v, S, s, b, X, a, rout, x, kept, c)
  PROVE  Fair
<1>1. TypeInv /\ BurnListInv /\ v \in Vault /\ vaults \in [Vault -> GoodVault]
  BY DEF LockInv, LedgerInv, BurnListInv, Intact, TypeInv
<1>2. PICK V \in GoodVault, bond \in Nat : V = vaults[v] /\ bond = vaultKicks'[v].bond
  BY <1>1, KickFields DEF TypeInv
<1>3. PICK out \in Nat, pay \in Nat :
        /\ pay = Payments(v, S) /\ s + out = V.collateralShares
        /\ NormFromRaw(pay) \in Nat /\ NormFromRaw(pay) <= out
        /\ CollateralScale = 1 => pay = out
  BY <1>2, SettlementCovered DEF SettlementMoves
<1>4. CollateralReturns' = CollateralReturns + Payments(v, S) + x
  <2>1. \/ pendingReturns' = SettledReturns(v, S) /\ x = 0
        \/ /\ a \in Account
           /\ pendingReturns' = [SettledReturns(v, S) EXCEPT ![a].collateral = @ + x]
    BY DEF SettlementMoves
  <2>2. QED BY <1>1, <2>1, SettledPaid
<1>5. /\ vaults'[v] = X /\ \A w \in Vault : w # v => vaults'[w] = vaults[w]
  BY <1>1 DEF SettlementMoves
<1>6. PICK t \in Nat, y \in Nat : t = V.collateralShares /\ y = X.collateralShares
  BY VaultFields
<1>7. Holding(v) = t + b /\ Holding(v)' = y + bond
  BY <1>2, <1>5, <1>6 DEF Holding, SettlementMoves
<1>8. PICK paid \in Nat, lost \in Nat, gained \in Nat :
        paid = pay + x /\ lost = out + c + b /\ gained = kept + bond
  OBVIOUS
<1>9. Holding(v)' + lost = Holding(v) + gained
  <2>1. y + c = s + kept /\ s + out = t
    BY <1>3, <1>6 DEF SettlementMoves
  <2>2. (y + bond) + (out + c + b) = (t + b) + (kept + bond)
    BY <2>1
  <2>3. QED BY <1>7, <1>8, <2>2
<1>10. PICK z \in Nat : z = 0 /\ NormFromRaw(z) = 0
  BY RatesAssumption DEF NormFromRaw
<1>11. hubCollateral' + rout = hubCollateral + z /\ CollateralReturns' + z = CollateralReturns + paid
  <2>1. CollateralReturns \in Nat /\ CollateralReturns' \in Nat /\ hubCollateral \in Nat
    BY <1>1, TotalsNat, PrimedTotals DEF TypeInv
  <2>2. hubCollateral' + rout = hubCollateral
    BY DEF SettlementMoves
  <2>3. QED BY <1>3, <1>4, <1>8, <1>10, <2>1, <2>2
<1>12. NormFromRaw(rout) + NormFromRaw(paid) + gained <= NormFromRaw(z) + NormFromRaw(z) + lost
  <2>1. NormFromRaw(paid) = NormFromRaw(pay) + NormFromRaw(x)
    BY <1>8, NormLinear
  <2>2. PICK nr \in Nat, nx \in Nat, np \in Nat :
          nr = NormFromRaw(rout) /\ nx = NormFromRaw(x) /\ np = NormFromRaw(pay)
    BY NormLinear
  <2>3. nr + nx + kept + bond <= c + b /\ np <= out
    BY <1>2, <1>3, <2>2 DEF SettlementMoves
  <2>4. nr + (np + nx) + (kept + bond) <= 0 + 0 + (out + c + b)
    BY <2>3
  <2>5. QED BY <1>8, <1>10, <2>1, <2>2, <2>4
<1>13. CollateralScale = 1 => rout + paid + gained = z + z + lost
  BY <1>2, <1>3, <1>8, <1>10 DEF SettlementMoves
<1>14. \A w \in Vault : w # v => Holding(w)' = Holding(w)
  BY <1>5 DEF Holding, SettlementMoves
<1>15. Moved(v, z, rout, paid, z, gained, lost)
  BY <1>9, <1>11, <1>12, <1>13, <1>14 DEF Moved
<1>16. QED BY <1>1, <1>15, MovedFair

\* The steps of an auction on one vault.
LEMMA AuctionStepFair ==
  ASSUME LockInv, TypeInv', NEW v \in Intact,
         OpenAuction(v) \/ ResolveKick(v) \/ \E bidder \in Bidders : Bid(bidder, v)
  PROVE  Fair
<1>1. /\ TypeInv /\ vaultKicks \in [Vault -> GoodKick] /\ vaultKicks[v].active /\ v \in Vault
      /\ vaults \in [Vault -> GoodVault]
  BY DEF LockInv, LedgerInv, BurnListInv, TypeInv, OpenAuction, ResolveKick, Bid, Intact
<1>2. PICK V \in GoodVault, O \in GoodVault, k \in GoodKick, S \in SUBSET ReqId :
        V = vaults[v] /\ O = OpenedVault(v) /\ k = vaultKicks[v] /\ S = ToSettle(v)
  <2>1. ToSettle(v) \in SUBSET ReqId
    BY <1>1 DEF ToSettle, TypeInv
  <2>2. QED BY <1>1, <2>1, OpenedVaultGood
<1>3. SettleBurns(v, S) /\ UNCHANGED <<abandonedBurns, mintRequests>> /\ Settles(v, S)
  BY <1>2 DEF OpenAuction, ResolveKick, Bid, KickUnchanged, mintVars, Settles, ToSettle
<1>4. PICK s \in Nat, b \in Nat :
        s = O.collateralShares /\ s = SettledVault(v, S).collateralShares /\ b = k.bond
  BY <1>1, <1>2, OpenedFields, VaultFields, KickFields
<1>5. PICK z \in Nat : z = 0 /\ NormFromRaw(z) = 0 /\ NoKick.bond = z
  BY RatesAssumption DEF NormFromRaw, NoKick
<1>6. hubCollateral \in Nat /\ hubCollateral' \in Nat
  BY <1>1 DEF TypeInv
<1>7. ASSUME vaults' = [vaults EXCEPT ![v] = O]
      PROVE  O.collateralShares + z = s + z
  BY <1>4, <1>5
<1>8. k.kicker \in Account
  BY <1>1, <1>2, KickFields
<1>9. CASE OpenAuction(v)
  <2>1. /\ vaults' = [vaults EXCEPT ![v] = O] /\ pendingReturns' = SettledReturns(v, S)
        /\ hubCollateral' + z = hubCollateral
    BY <1>2, <1>5, <1>6, <1>9 DEF OpenAuction
  <2>2. vaultKicks'[v].bond = b /\ \A w \in Vault : w # v => vaultKicks'[w] = vaultKicks[w]
    <3>1. PICK off \in Nat : off = Offered(v)
      BY <1>1, OpenedVaultGood
    <3>2. PICK j : j = [k EXCEPT !.auctionOpened = TRUE, !.offeredCollateral = off]
      OBVIOUS
    <3>3. j.bond = k.bond
      BY <3>2 DEF GoodKick, KickRecord
    <3>4. vaultKicks' = [vaultKicks EXCEPT ![v] = j]
      BY <1>1, <1>2, <1>9, <3>1, <3>2 DEF OpenAuction
    <3>5. QED BY <1>1, <1>4, <3>3, <3>4
  <2>3. /\ O.collateralShares + z = s + z
        /\ NormFromRaw(z) + NormFromRaw(z) + z + b <= z + b
        /\ CollateralScale = 1 => z + z + z + b = z + b
    BY <1>4, <1>5
  <2>4. SettlementMoves(v, S, s, b, O, k.kicker, z, z, z, z)
    BY <1>2, <1>4, <1>5, <2>1, <2>2, <2>3 DEF SettlementMoves
  <2>5. QED BY <1>3, <2>4, SettlementFair
<1>10. CASE ResolveKick(v)
  <2>1. PICK x \in Nat : x = RawFromNorm(b) /\ NormFromRaw(x) \in Nat /\ NormFromRaw(x) <= b
                         /\ (CollateralScale = 1 => x = b)
    <3>1. RawFromNorm(b) \in Nat
      BY RoundedDown
    <3>2. CollateralScale = 1 => RawFromNorm(b) = b
      BY RoundedDown, NormLinear
    <3>3. QED BY <3>1, <3>2, RoundedDown
  <2>2. /\ vaults' = [vaults EXCEPT ![v] = O]
        /\ pendingReturns' = [SettledReturns(v, S) EXCEPT ![k.kicker].collateral = @ + x]
        /\ hubCollateral' + z = hubCollateral
    BY <1>2, <1>4, <1>5, <1>6, <1>10, <2>1 DEF ResolveKick, ResolvedReturns
  <2>3. vaultKicks'[v].bond = z /\ \A w \in Vault : w # v => vaultKicks'[w] = vaultKicks[w]
    BY <1>1, <1>5, <1>10 DEF ResolveKick, ClearKick
  <2>4. /\ O.collateralShares + z = s + z
        /\ NormFromRaw(z) + NormFromRaw(x) + z + z <= z + b
        /\ CollateralScale = 1 => z + x + z + z = z + b
    BY <1>4, <1>5, <2>1
  <2>5. SettlementMoves(v, S, s, b, O, k.kicker, z, x, z, z)
    BY <1>2, <1>4, <1>8, <2>2, <2>3, <2>4 DEF SettlementMoves
  <2>6. QED BY <1>3, <2>5, SettlementFair
<1>11. CASE \E bidder \in Bidders : Bid(bidder, v)
  <2>1. PICK bidder \in Bidders : Bid(bidder, v)
    BY <1>11
  <2>2. vaultKicks'[v].bond = z /\ \A w \in Vault : w # v => vaultKicks'[w] = vaultKicks[w]
    BY <1>1, <1>5, <2>1 DEF Bid, ClearKick
  <2>3. CASE BidNothingOwed(v)
    <3>1. PICK X : X = [O EXCEPT !.collateralShares = @ + b]
      OBVIOUS
    <3>2. X.collateralShares = s + b /\ X \in GoodVault
      <4>1. X.collateralShares = s + b
        BY <1>4, <3>1 DEF GoodVault, VaultRecord
      <4>2. vaults'[v] = X
        BY <1>1, <1>2, <1>4, <2>3, <3>1 DEF BidNothingOwed
      <4>3. QED BY <1>1, <4>1, <4>2 DEF TypeInv
    <3>3. /\ vaults' = [vaults EXCEPT ![v] = X] /\ pendingReturns' = SettledReturns(v, S)
          /\ hubCollateral' + z = hubCollateral
      BY <1>2, <1>4, <1>5, <1>6, <2>3, <3>1 DEF BidNothingOwed
    <3>4. /\ X.collateralShares + z = s + b
          /\ NormFromRaw(z) + NormFromRaw(z) + b + z <= z + b
          /\ CollateralScale = 1 => z + z + b + z = z + b
      BY <1>4, <1>5, <3>2
    <3>5. SettlementMoves(v, S, s, b, X, k.kicker, z, z, b, z)
      BY <1>2, <1>4, <1>5, <2>2, <3>3, <3>4 DEF SettlementMoves
    <3>6. QED BY <1>3, <3>2, <3>5, SettlementFair
  <2>4. CASE BidWhole(bidder, v)
    <3>1. PICK k2 \in GoodKick, P \in GoodVault, bidderRaw \in Nat, chipRaw \in Nat,
               kept \in Nat, back \in Nat : \E X :
            /\ k2 = vaultKicks[v] /\ k2.kicker \in Account /\ P = OpenedVault(v)
            /\ NormFromRaw(bidderRaw) + NormFromRaw(chipRaw) <= Offered(v)
            /\ vaults' = [vaults EXCEPT ![v] = X]
            /\ SameTerms(P, X) /\ X.lockedCollateral = P.lockedCollateral
            /\ X.pendingDebt = P.pendingDebt /\ X.pendingMintCount = P.pendingMintCount
            /\ X.debt = 0
            /\ X.collateralShares
                 = Monus(P.collateralShares, NormFromRaw(bidderRaw) + NormFromRaw(chipRaw)) + kept
            /\ pendingReturns' = [SettledReturns(v, ToSettle(v)) EXCEPT
                                    ![k2.kicker].collateral = @ + (back + chipRaw)]
            /\ \/ kept = k2.bond /\ back = 0
               \/ kept = 0 /\ back = RawFromNorm(k2.bond)
            /\ hubCollateral = hubCollateral' + bidderRaw
      BY <1>1, <2>4, BidWholeMade
    <3>2. PICK nb \in Nat, nc \in Nat, off \in Nat, c \in Nat :
            /\ nb = NormFromRaw(bidderRaw) /\ nc = NormFromRaw(chipRaw) /\ off = Offered(v)
            /\ c = nb + nc /\ c <= off
            /\ CollateralScale = 1 => nb = bidderRaw /\ nc = chipRaw
      <4>1. Offered(v) \in Nat
        BY <1>1, OpenedVaultGood
      <4>2. QED BY <3>1, <4>1, NormLinear
    <3>3. PICK X :
            /\ vaults' = [vaults EXCEPT ![v] = X]
            /\ X.collateralShares = Monus(s, c) + kept
            /\ pendingReturns' = [SettledReturns(v, S) EXCEPT ![k.kicker].collateral = @ + (back + chipRaw)]
            /\ \/ kept = b /\ back = 0
               \/ kept = 0 /\ back = RawFromNorm(b)
            /\ hubCollateral' + bidderRaw = hubCollateral
      <4>1. PICK X :
              /\ vaults' = [vaults EXCEPT ![v] = X]
              /\ X.collateralShares
                   = Monus(P.collateralShares, NormFromRaw(bidderRaw) + NormFromRaw(chipRaw)) + kept
        BY <3>1
      <4>2. X.collateralShares = Monus(s, c) + kept
        BY <1>2, <1>4, <3>1, <3>2, <4>1
      <4>3. QED BY <1>2, <1>4, <1>6, <3>1, <4>1, <4>2
    <3>4. X \in GoodVault
      <4>1. vaults'[v] = X
        BY <1>1, <3>3
      <4>2. QED BY <1>1, <4>1 DEF TypeInv
    <3>5. c <= s
      <4>1. O.debt > 0
        BY <1>2, <2>4 DEF BidWhole
      <4>2. V.registered
        BY <1>1, <1>2 DEF LockInv, LedgerInv, LedgerFacts, Unregistered
      <4>3. /\ V.active => Offered(v) + O.lockedCollateral <= O.collateralShares
            /\ (V.registered /\ ~V.active) => O.debt = 0
        BY <1>2, <1>3, OpenedSound
      <4>4. off + O.lockedCollateral <= s /\ O.lockedCollateral \in Nat
        BY <1>4, <3>2, <4>1, <4>2, <4>3, VaultFields
      <4>5. QED BY <3>2, <4>4
    <3>6. X.collateralShares + c = s + kept
      BY <3>3, <3>5 DEF Monus
    <3>7. PICK nk \in Nat : nk = NormFromRaw(back) /\ nk + kept <= b
                            /\ (CollateralScale = 1 => back + kept = b)
      <4>1. CASE kept = b /\ back = 0
        BY <1>5, <4>1
      <4>2. CASE kept = 0 /\ back = RawFromNorm(b)
        BY <4>2, RoundedDown, NormLinear
      <4>3. QED BY <3>3, <4>1, <4>2
    <3>8. PICK x \in Nat : x = back + chipRaw /\ NormFromRaw(x) = nk + nc
      BY <3>2, <3>7, NormLinear
    <3>9. NormFromRaw(bidderRaw) + NormFromRaw(x) + kept + z <= c + b
      BY <1>5, <3>2, <3>7, <3>8
    <3>10. CollateralScale = 1 => bidderRaw + x + kept + z = c + b
      BY <1>5, <3>2, <3>7, <3>8
    <3>11. SettlementMoves(v, S, s, b, X, k.kicker, bidderRaw, x, kept, c)
      BY <1>2, <1>4, <1>8, <2>2, <3>3, <3>6, <3>8, <3>9, <3>10 DEF SettlementMoves
    <3>12. QED BY <1>3, <3>2, <3>4, <3>11, SettlementFair
  <2>5. QED BY <2>1, <2>3, <2>4 DEF Bid
<1>12. QED BY <1>9, <1>10, <1>11


\* A backstop moves what is left of its vault to another, and gives the bond back.
LEMMA BackstopFair ==
  ASSUME LockInv, IdleBonds, TypeInv', NEW v \in Intact, NEW new \in Backstoppers,
         BackstopVault(v, new)
  PROVE  Fair
<1>1. /\ TypeInv /\ BurnListInv /\ v \in Vault
      /\ vaults \in [Vault -> GoodVault] /\ vaultKicks \in [Vault -> GoodKick]
  BY DEF LockInv, LedgerInv, BurnListInv, TypeInv, Intact
<1>2. PICK W \in GoodVault, N \in GoodVault, P \in GoodVault, Q \in GoodVault :
        BackstopMoves(v, new, W, N, P, Q)
  BY <1>1, BackstopMade
<1>3. PICK S \in SUBSET ReqId : S = vaultBurnRequests[v]
  BY <1>1 DEF TypeInv
<1>4. /\ new \in Vault /\ new # v /\ W = SettledVault(v, S) /\ N = vaults[new]
      /\ vaults' = [vaults EXCEPT ![new] = P, ![v] = Q]
      /\ P.collateralShares = N.collateralShares + W.collateralShares
      /\ Q.collateralShares = 0 /\ hubCollateral' = hubCollateral
  BY <1>2, <1>3 DEF BackstopMoves
<1>5. SettleBurns(v, S) /\ Settles(v, S) /\ UNCHANGED abandonedBurns
  <2>1. SettlementStep(v, S)
    BY <1>3 DEF SettlementStep
  <2>2. QED BY <1>1, <2>1, SettlementStepSettles
<1>6. PICK out \in Nat, pay \in Nat :
        /\ pay = Payments(v, S)
        /\ W.collateralShares + out = vaults[v].collateralShares
        /\ NormFromRaw(pay) \in Nat /\ NormFromRaw(pay) <= out
        /\ CollateralScale = 1 => pay = out
  BY <1>4, <1>5, SettlementCovered DEF LockInv
<1>7. PICK b \in Nat, nb \in Nat : b = vaultKicks[v].bond /\ nb = vaultKicks[new].bond
  BY <1>1, <1>4, KickFields
<1>8. PICK t \in Nat, s \in Nat, n \in Nat :
        t = vaults[v].collateralShares /\ s = W.collateralShares /\ n = N.collateralShares
  BY <1>1, VaultFields
<1>9. PICK k \in GoodKick : k = vaultKicks[v] /\ (k.active => k.kicker \in Account)
  BY <1>1, KickFields
<1>10. PICK x \in Nat :
         /\ CollateralReturns' = CollateralReturns + pay + x
         /\ NormFromRaw(x) \in Nat /\ NormFromRaw(x) <= b
         /\ CollateralScale = 1 => x = b
         /\ vaultKicks'[v].bond = 0
         /\ \A w \in Vault : w # v => vaultKicks'[w] = vaultKicks[w]
  <2>1. NoKick.bond = 0 /\ NormFromRaw(0) = 0
    BY RatesAssumption DEF NoKick, NormFromRaw
  <2>2. CASE ~k.active
    <3>1. vaultKicks' = vaultKicks /\ pendingReturns' = SettledReturns(v, S) /\ b = 0
      BY <1>1, <1>2, <1>3, <1>7, <1>9, <2>2 DEF BackstopMoves, IdleBonds
    <3>2. CollateralReturns' = CollateralReturns + Payments(v, S) + 0
      BY <1>1, <1>5, <3>1, SettledPaid
    <3>3. QED BY <1>6, <1>7, <2>1, <3>1, <3>2
  <2>3. CASE k.active
    <3>1. PICK raw \in Nat : /\ raw = RawFromNorm(b)
                             /\ NormFromRaw(raw) \in Nat /\ NormFromRaw(raw) <= b
                             /\ CollateralScale = 1 => raw = b
      <4>1. RawFromNorm(b) \in Nat
        BY RoundedDown
      <4>2. CollateralScale = 1 => RawFromNorm(b) = b
        BY RoundedDown, NormLinear
      <4>3. QED BY <4>1, <4>2, RoundedDown
    <3>2. /\ vaultKicks' = [vaultKicks EXCEPT ![v] = NoKick]
          /\ pendingReturns' = ResolvedReturnsOf(v, S)
      BY <1>2, <1>3, <1>9, <2>3 DEF BackstopMoves
    <3>3. pendingReturns' = [SettledReturns(v, S) EXCEPT ![k.kicker].collateral = @ + raw]
      BY <1>7, <1>9, <3>1, <3>2 DEF ResolvedReturnsOf
    <3>4. CollateralReturns' = CollateralReturns + Payments(v, S) + raw
      BY <1>1, <1>5, <1>9, <2>3, <3>3, SettledPaid
    <3>5. QED BY <1>1, <1>6, <2>1, <3>1, <3>2, <3>4
  <2>4. QED BY <2>2, <2>3
<1>11. /\ vaults'[v] = Q /\ vaults'[new] = P
       /\ \A w \in Vault : w # v /\ w # new => vaults'[w] = vaults[w]
  BY <1>1, <1>4
<1>12. /\ Holding(v) = t + b /\ Holding(v)' = 0
       /\ Holding(new) = n + nb /\ Holding(new)' = n + s + nb
       /\ \A w \in Vault : w # v /\ w # new => Holding(w)' = Holding(w)
  <2>1. vaultKicks'[new] = vaultKicks[new]
    BY <1>4, <1>10
  <2>2. Holding(v) = t + b /\ Holding(new) = n + nb
    BY <1>4, <1>7, <1>8 DEF Holding
  <2>3. Holding(v)' = 0
    BY <1>4, <1>10, <1>11 DEF Holding
  <2>4. Holding(new)' = n + s + nb
    BY <1>4, <1>7, <1>8, <1>11, <2>1 DEF Holding
  <2>5. \A w \in Vault : w # v /\ w # new => Holding(w)' = Holding(w)
    BY <1>10, <1>11 DEF Holding
  <2>6. QED BY <2>2, <2>3, <2>4, <2>5
<1>13. PICK lost \in Nat : lost = out + b
  OBVIOUS
<1>14. PICK z \in Nat : z = 0 /\ NormFromRaw(z) = 0
  BY RatesAssumption DEF NormFromRaw
<1>15. Holdings' + lost = Holdings + z
  <2>1. Holdings' + Holding(v) + Holding(new) = Holdings + Holding(v)' + Holding(new)'
    BY <1>1, <1>4, <1>12, HoldingsMoveTwo
  <2>2. PICK h \in Nat, i \in Nat : h = Holdings /\ i = Holdings'
    BY <1>1, HoldingsNat
  <2>3. i + (t + b) + (n + nb) = h + 0 + (n + s + nb) /\ s + out = t
    <3>1. i + Holding(v) + Holding(new) = h + Holding(v)' + Holding(new)'
      BY <2>1, <2>2
    <3>2. s + out = t
      BY <1>6, <1>8
    <3>3. QED BY <1>12, <3>1, <3>2
  <2>4. i + lost = h + z
    BY <1>13, <1>14, <2>3
  <2>5. QED BY <2>2, <2>4
<1>16. PICK paid \in Nat : paid = pay + x /\ NormFromRaw(paid) = NormFromRaw(pay) + NormFromRaw(x)
  BY NormLinear
<1>17. hubCollateral' + z = hubCollateral + z /\ CollateralReturns' + z = CollateralReturns + paid
  <2>1. CollateralReturns \in Nat /\ CollateralReturns' \in Nat
    BY <1>1, TotalsNat, PrimedTotals
  <2>2. QED BY <1>4, <1>10, <1>14, <1>16, <2>1
<1>18. NormFromRaw(z) + NormFromRaw(paid) + z <= NormFromRaw(z) + NormFromRaw(z) + lost
  <2>1. PICK np \in Nat, nx \in Nat : np = NormFromRaw(pay) /\ nx = NormFromRaw(x)
    BY <1>6, <1>10
  <2>2. np <= out /\ nx <= b
    BY <1>6, <1>10, <2>1
  <2>3. np + nx <= out + b
    BY <2>2
  <2>4. QED BY <1>13, <1>14, <1>16, <2>1, <2>3
<1>19. CollateralScale = 1 => z + paid + z = z + z + lost
  BY <1>6, <1>10, <1>13, <1>14, <1>16
<1>20. QED BY <1>1, <1>15, <1>17, <1>18, <1>19, Balanced

-----------------------------------------------------------------------------
(* The hub. *)

\* A settlement of a vault whose locks a backstop has dropped.
SettlesDropped ==
  \E v \in Vault \ Intact :
    \/ OpenAuction(v) \/ ResolveKick(v)
    \/ \E bidder \in Bidders : Bid(bidder, v)
    \/ \E new \in Backstoppers : BackstopVault(v, new)

\* Every other step is fair.
LEMMA NextFair ==
  ASSUME LockInv, IdleBonds, TypeInv', [Next]_vars, ~SettlesDropped
  PROVE  Fair
<1>1. TypeInv /\ LedgerInv
  BY DEF LockInv, LedgerInv, BurnListInv
<1>2. CASE VaultNext \/ MintNext \/ BurnNext
  BY <1>2, VaultNextFair, RequestsFair
<1>3. CASE AuctionNext
  <2>1. CASE \E kicker \in Kickers, v \in Vault : Kick(kicker, v) \/ Reauction(kicker, v)
    BY <1>1, <2>1, KickFair
  <2>2. CASE \E v \in Vault : \/ OpenAuction(v) \/ ResolveKick(v)
                              \/ \E bidder \in Bidders : Bid(bidder, v)
    <3>1. PICK v \in Vault : \/ OpenAuction(v) \/ ResolveKick(v)
                             \/ \E bidder \in Bidders : Bid(bidder, v)
      BY <2>2
    <3>2. v \in Intact
      BY <3>1 DEF SettlesDropped
    <3>3. QED BY <3>1, <3>2, AuctionStepFair
  <2>3. CASE \E v \in Vault, new \in Backstoppers : BackstopVault(v, new)
    <3>1. PICK v \in Vault, new \in Backstoppers : BackstopVault(v, new)
      BY <2>3
    <3>2. v \in Intact
      BY <3>1 DEF SettlesDropped
    <3>3. QED BY <3>1, <3>2, BackstopFair
  <2>4. QED BY <1>3, <2>1, <2>2, <2>3 DEF AuctionNext
<1>4. CASE TokenNext \/ Tick \/ UNCHANGED vars
  <2>1. UNCHANGED <<hubCollateral, vaultKicks, vaults, pendingReturns>>
    BY <1>4 DEF TokenNext, Transfer, Tick, vars, kickVars, hubVars
  <2>2. QED BY <1>1, <2>1, TotalsSame, NothingMoves
<1>5. QED BY <1>2, <1>3, <1>4 DEF Next


\* A kick starts, is opened, ends, or stays as it is.
LEMMA KicksMove ==
  ASSUME TypeInv, [Next]_vars, NEW v \in Vault
  PROVE  \/ vaultKicks'[v] = vaultKicks[v]
         \/ vaultKicks'[v] = NoKick
         \/ /\ ~vaultKicks[v].active /\ vaultKicks'[v].active /\ ~vaultKicks'[v].auctionOpened
         \/ OpenAuction(v) /\ vaultKicks'[v].active
<1>1. vaultKicks \in [Vault -> GoodKick]
  BY DEF TypeInv
<1>2. CASE VaultNext
  <2>1. CASE \E w \in Vault :
                \/ \E amount \in DepositAmounts : DepositCollateral(w, amount)
                \/ \E amount \in RepayAmounts : RepayDebt(w, amount)
    <3>1. PICK w \in Vault :
            \/ \E amount \in DepositAmounts : DepositCollateral(w, amount)
            \/ \E amount \in RepayAmounts : RepayDebt(w, amount)
      BY <2>1
    <3>2. UNCHANGED vaultKicks \/ ClearKick(w)
      BY <3>1 DEF DepositCollateral, RepayDebt
    <3>3. QED BY <1>1, <3>2 DEF ClearKick
  <2>2. CASE \E w \in Vault : CreateVault(w) \/ \E u \in Vault : CreateVaultEvicting(w, u)
    BY <2>2 DEF CreateVault, CreateVaultEvicting, kickVars
  <2>3. CASE \E w \in Vault :
                \/ DeactivateVault(w)
                \/ \E shares \in WithdrawAmounts : WithdrawCollateral(w, shares)
    BY <2>3 DEF DeactivateVault, WithdrawCollateral, kickVars
  <2>4. CASE \E w \in Vault :
                \/ \E threshold \in Thresholds : SetThreshold(w, threshold)
                \/ \E maxMint \in MaxMints : SetMaxMintWsxmr(w, maxMint)
                \/ \E deposit \in GriefingDeposits : SetMintGriefingDeposit(w, deposit)
                \/ \E mintFee \in MintFees, burnReward \in BurnRewards :
                     SetVaultMarketMetrics(w, mintFee, burnReward)
                \/ \E minBurn \in MinBurns : SetMinBurnAmount(w, minBurn)
                \/ \E blocks \in Timeouts : SetMintTimeoutBlocks(w, blocks)
                \/ \E blocks \in Timeouts : SetBurnTimeoutBlocks(w, blocks)
    <3>1. ConfigUnchanged
      BY <2>4 DEF SetThreshold, SetMaxMintWsxmr, SetMintGriefingDeposit, SetVaultMarketMetrics,
         SetMinBurnAmount, SetMintTimeoutBlocks, SetBurnTimeoutBlocks
    <3>2. QED BY <3>1 DEF ConfigUnchanged, kickVars
  <2>5. CASE \/ \E w \in Vault : \E minters \in Whitelists, whitelisted \in BOOLEAN :
                  SetMinterWhitelist(w, minters, whitelisted)
             \/ \E a \in Account : WithdrawCollateralReturns(a) \/ WithdrawEthReturns(a)
    <3>1. UNCHANGED vaultKicks
      BY <2>5 DEF SetMinterWhitelist, WithdrawCollateralReturns, WithdrawEthReturns, kickVars
    <3>2. QED BY <3>1
  <2>6. QED BY <1>2, <2>1, <2>2, <2>3, <2>4, <2>5 DEF VaultNext
<1>3. CASE MintNext \/ BurnNext \/ TokenNext \/ Tick \/ UNCHANGED vars
  <2>1. CASE MintNext
    <3>1. CASE \E r \in ReqId : MintAction(r)
      <4>1. MintUnchanged
        BY <3>1 DEF MintAction, ProvideLPKey, SetMintReady, RevealSecret, FinalizeMint,
           CancelMint, AbandonKeyProvidedMint, ClaimGriefingDeposit, ReclaimParkedDeposit,
           SweepUnclaimedExpiredMint
      <4>2. QED BY <4>1 DEF MintUnchanged, kickVars
    <3>2. CASE \E u \in Minters, recipient \in Recipients, w \in Vault,
                  amount \in MintAmounts, value \in EthValues :
                    InitiateMint(u, recipient, w, amount, value)
      BY <3>2 DEF InitiateMint, kickVars
    <3>3. QED BY <2>1, <3>1, <3>2 DEF MintNext, MintAction
  <2>2. CASE BurnNext
    <3>1. CASE \E r \in ReqId : BurnAction(r)
      <4>1. BurnUnchanged
        BY <3>1 DEF BurnAction, ProposeHash, ConfirmMoneroLock, RevealBurnSecret, SettleBurn,
           ClaimSlashedCollateral, ForceSettleBurn, AbortBurn, ResolveDeclinedProposal,
           ResolveAbandonedProposal, AbandonProposedBurn
      <4>2. QED BY <4>1 DEF BurnUnchanged, kickVars
    <3>2. CASE \E u \in Burners, w \in Vault, amount \in BurnAmounts : RequestBurn(u, w, amount)
      BY <3>2 DEF RequestBurn, BurnUnchanged, kickVars
    <3>3. QED BY <2>2, <3>1, <3>2 DEF BurnNext, BurnAction
  <2>3. CASE TokenNext \/ Tick \/ UNCHANGED vars
    BY <2>3 DEF TokenNext, Transfer, Tick, vars, kickVars
  <2>4. QED BY <1>3, <2>1, <2>2, <2>3
<1>4. CASE \E kicker \in Kickers, w \in Vault : Kick(kicker, w) \/ Reauction(kicker, w)
  <2>1. PICK kicker \in Kickers, w \in Vault : Kick(kicker, w) \/ Reauction(kicker, w)
    BY <1>4
  <2>2. PICK bond, end :
          vaultKicks' = [vaultKicks EXCEPT ![w] =
            [NoKick EXCEPT !.active = TRUE, !.kicker = kicker, !.bond = bond,
                           !.kickBlock = block, !.auctionEnd = end]]
    BY <2>1 DEF Kick, Reauction, StartKick
  <2>3. PICK k : k = [NoKick EXCEPT !.active = TRUE, !.kicker = kicker, !.bond = bond,
                                    !.kickBlock = block, !.auctionEnd = end]
    OBVIOUS
  <2>4. k.active /\ ~k.auctionOpened
    BY <2>3 DEF NoKick
  <2>5. ~vaultKicks[w].active
    BY <2>1 DEF Kick, Reauction
  <2>6. QED BY <1>1, <2>2, <2>3, <2>4, <2>5
<1>5. CASE \E w \in Vault : OpenAuction(w)
  <2>1. PICK w \in Vault : OpenAuction(w)
    BY <1>5
  <2>2. PICK k \in GoodKick : k = vaultKicks[w] /\ k.active
    BY <1>1, <2>1 DEF OpenAuction
  <2>3. PICK off : off = Offered(w)
    OBVIOUS
  <2>4. PICK j : j = [k EXCEPT !.auctionOpened = TRUE, !.offeredCollateral = off]
    OBVIOUS
  <2>5. j.active = k.active
    BY <2>4 DEF GoodKick, KickRecord
  <2>6. vaultKicks' = [vaultKicks EXCEPT ![w] = j]
    BY <1>1, <2>1, <2>2, <2>3, <2>4 DEF OpenAuction
  <2>7. QED BY <1>1, <2>1, <2>2, <2>5, <2>6
<1>6. CASE \/ \E w \in Vault : ResolveKick(w)
           \/ \E bidder \in Bidders, w \in Vault : Bid(bidder, w)
           \/ \E old \in Vault, new \in Backstoppers : BackstopVault(old, new)
  <2>1. UNCHANGED vaultKicks \/ \E w \in Vault : vaultKicks' = [vaultKicks EXCEPT ![w] = NoKick]
    BY <1>6 DEF ResolveKick, Bid, BackstopVault, BackstopFrozen, BackstopEnded, ClearKick
  <2>2. QED BY <1>1, <2>1
<1>7. QED BY <1>2, <1>3, <1>4, <1>5, <1>6 DEF Next, AuctionNext


\* The bond of a kick that has ended is not held any more.
LEMMA IdleBondsKept ==
  ASSUME TypeInv, IdleBonds, [Next]_vars
  PROVE  IdleBonds'
<1>1. NoKick.bond = 0
  BY DEF NoKick
<1>2. ASSUME NEW v \in Vault, ~vaultKicks'[v].active
      PROVE  vaultKicks'[v].bond = 0
  <2>1. vaultKicks'[v] = vaultKicks[v] \/ vaultKicks'[v] = NoKick
    BY <1>2, KicksMove
  <2>2. QED BY <1>1, <1>2, <2>1 DEF IdleBonds
<1>3. QED BY <1>2 DEF IdleBonds

\* What is owed is covered, whatever was rounded; and what is held is owed.
PaidUp == Solvent /\ Exact

\* A fair step leaves the hub as it was: able to pay.
LEMMA FairKeepsBalance ==
  ASSUME TypeInv, TypeInv', Fair, PaidUp
  PROVE  PaidUp'
<1>1. PICK h \in Nat, i \in Nat, x \in Nat, y \in Nat, r \in Nat, s \in Nat :
        /\ h = hubCollateral /\ i = hubCollateral'
        /\ x = Holdings /\ y = Holdings'
        /\ r = CollateralReturns /\ s = CollateralReturns'
  BY HoldingsNat, TotalsNat, PrimedTotals DEF TypeInv
<1>2. PICK nh \in Nat, ni \in Nat, nr \in Nat, ns \in Nat :
        nh = NormFromRaw(h) /\ ni = NormFromRaw(i) /\ nr = NormFromRaw(r) /\ ns = NormFromRaw(s)
  BY NormLinear
<1>3. Owed = x + nr /\ Owed' = y + ns
  BY <1>1, <1>2, OwedParts
<1>4. nh + (y + ns) <= ni + (x + nr) /\ nh >= x + nr
  BY <1>1, <1>2, <1>3 DEF Fair, PaidUp, Solvent
<1>5. ni >= y + ns
  BY <1>4
<1>6. CollateralScale = 1 => h + (y + ns) = i + (x + nr) /\ h = x + nr
  BY <1>1, <1>3 DEF Fair, PaidUp, Exact
<1>7. CollateralScale = 1 => i = y + ns
  BY <1>6
<1>8. QED BY <1>1, <1>2, <1>3, <1>5, <1>7 DEF PaidUp, Solvent, Exact

\* The inductive invariant: as long as every lock is accounted for, the hub is solvent.
SolvencyInv == LockInv /\ IdleBonds /\ HubSolvent /\ HubExact

\* Nothing is held at first, and nothing owed.
LEMMA InitSolvent == Init => SolvencyInv
<1> SUFFICES ASSUME Init PROVE SolvencyInv
  OBVIOUS
<1>1. LockInv /\ TypeInv
  BY InitLocks DEF LockInv, LedgerInv, BurnListInv
<1>2. IdleBonds
  BY DEF Init, IdleBonds, NoKick
<1>3. Holdings = 0
  <2>1. \A v \in Vault : Holding(v) = 0
    BY DEF Init, EmptyVault, NoKick, Holding
  <2>2. QED BY <1>1, <2>1, VaultNumbers, SumZero DEF Holdings
<1>4. CollateralReturns = 0
  <2>1. /\ NumVaults + NumUsers \in Nat /\ Account = 1..(NumVaults + NumUsers)
        /\ \A a \in Account : pendingReturns[a].collateral = 0
    BY SizesAssumption, AccountIndex DEF Init, NoReturns
  <2>2. \A i \in 1..(NumVaults + NumUsers) :
          [a \in Account |-> pendingReturns[a].collateral][i] = 0
    BY <2>1
  <2>3. QED BY <2>1, <2>2, SumZero DEF CollateralReturns, CollateralIn
<1>5. Owed = 0 /\ hubCollateral = 0
  BY <1>3, <1>4, OwedParts, RatesAssumption DEF Init, NormFromRaw
<1>6. NormFromRaw(0) = 0
  BY RatesAssumption DEF NormFromRaw
<1>7. PaidUp
  BY <1>5, <1>6 DEF PaidUp, Solvent, Exact
<1>8. QED BY <1>1, <1>2, <1>7 DEF SolvencyInv, HubSolvent, HubExact, PaidUp

\* A vault a backstop has emptied stays one.
LEMMA BackstoppedGrows ==
  ASSUME TypeInv, TypeInv', [Next]_vars
  PROVE  backstopped \subseteq backstopped'
<1>1. CASE VaultNext
  <2>1. CASE \E w \in Vault :
                \/ \E threshold \in Thresholds : SetThreshold(w, threshold)
                \/ \E maxMint \in MaxMints : SetMaxMintWsxmr(w, maxMint)
                \/ \E deposit \in GriefingDeposits : SetMintGriefingDeposit(w, deposit)
                \/ \E mintFee \in MintFees, burnReward \in BurnRewards :
                     SetVaultMarketMetrics(w, mintFee, burnReward)
                \/ \E minBurn \in MinBurns : SetMinBurnAmount(w, minBurn)
                \/ \E blocks \in Timeouts : SetMintTimeoutBlocks(w, blocks)
                \/ \E blocks \in Timeouts : SetBurnTimeoutBlocks(w, blocks)
    <3>1. ConfigUnchanged
      BY <2>1 DEF SetThreshold, SetMaxMintWsxmr, SetMintGriefingDeposit, SetVaultMarketMetrics,
         SetMinBurnAmount, SetMintTimeoutBlocks, SetBurnTimeoutBlocks
    <3>2. QED BY <3>1 DEF ConfigUnchanged
  <2>2. CASE \/ \E w \in Vault : \/ CreateVault(w)
                                 \/ DeactivateVault(w)
                                 \/ \E u \in Vault : CreateVaultEvicting(w, u)
             \/ \E w \in Vault : \/ \E amount \in DepositAmounts : DepositCollateral(w, amount)
                                 \/ \E shares \in WithdrawAmounts : WithdrawCollateral(w, shares)
             \/ \E w \in Vault : \E amount \in RepayAmounts : RepayDebt(w, amount)
    BY <2>2 DEF CreateVault, CreateVaultEvicting, DeactivateVault, DepositCollateral,
       WithdrawCollateral, RepayDebt
  <2>3. CASE \/ \E w \in Vault : \E minters \in Whitelists, whitelisted \in BOOLEAN :
                  SetMinterWhitelist(w, minters, whitelisted)
             \/ \E a \in Account : WithdrawCollateralReturns(a) \/ WithdrawEthReturns(a)
    <3>1. UNCHANGED backstopped
      BY <2>3 DEF SetMinterWhitelist, WithdrawCollateralReturns, WithdrawEthReturns
    <3>2. QED BY <3>1
  <2>4. QED BY <1>1, <2>1, <2>2, <2>3 DEF VaultNext
<1>2. CASE MintNext
  <2>1. CASE \E r \in ReqId : MintAction(r)
    <3>1. MintUnchanged
      BY <2>1 DEF MintAction, ProvideLPKey, SetMintReady, RevealSecret, FinalizeMint,
         CancelMint, AbandonKeyProvidedMint, ClaimGriefingDeposit, ReclaimParkedDeposit,
         SweepUnclaimedExpiredMint
    <3>2. QED BY <3>1 DEF MintUnchanged
  <2>2. CASE \E u \in Minters, recipient \in Recipients, w \in Vault,
                amount \in MintAmounts, value \in EthValues :
                  InitiateMint(u, recipient, w, amount, value)
    BY <2>2 DEF InitiateMint
  <2>3. QED BY <1>2, <2>1, <2>2 DEF MintNext, MintAction
<1>3. CASE BurnNext
  <2>1. CASE \E r \in ReqId : BurnAction(r)
    <3>1. BurnUnchanged
      BY <2>1 DEF BurnAction, ProposeHash, ConfirmMoneroLock, RevealBurnSecret, SettleBurn,
         ClaimSlashedCollateral, ForceSettleBurn, AbortBurn, ResolveDeclinedProposal,
         ResolveAbandonedProposal, AbandonProposedBurn
    <3>2. QED BY <3>1 DEF BurnUnchanged
  <2>2. CASE \E u \in Burners, w \in Vault, amount \in BurnAmounts : RequestBurn(u, w, amount)
    BY <2>2 DEF RequestBurn
  <2>3. QED BY <1>3, <2>1, <2>2 DEF BurnNext, BurnAction
<1>4. CASE AuctionNext
  <2>1. CASE \E v \in Vault, new \in Backstoppers : BackstopVault(v, new)
    BY <2>1, BackstopMade DEF BackstopMoves
  <2>2. CASE \/ \E kicker \in Kickers, v \in Vault : Kick(kicker, v) \/ Reauction(kicker, v)
             \/ \E v \in Vault : OpenAuction(v) \/ ResolveKick(v)
             \/ \E bidder \in Bidders, v \in Vault : Bid(bidder, v)
    BY <2>2 DEF Kick, Reauction, StartKick, OpenAuction, ResolveKick, Bid
  <2>3. QED BY <1>4, <2>1, <2>2 DEF AuctionNext
<1>5. CASE TokenNext \/ Tick \/ UNCHANGED vars
  BY <1>5 DEF TokenNext, Transfer, Tick, vars
<1>6. QED BY <1>1, <1>2, <1>3, <1>4, <1>5 DEF Next

\* Every step keeps the invariant.
LEMMA NextSolvent == SolvencyInv /\ [Next]_vars => SolvencyInv'
<1> SUFFICES ASSUME SolvencyInv, [Next]_vars PROVE SolvencyInv'
  OBVIOUS
<1>1. LockInv /\ IdleBonds /\ LockInv' /\ TypeInv /\ TypeInv'
  BY NextLocks DEF SolvencyInv, LockInv, LedgerInv, BurnListInv
<1>2. IdleBonds'
  BY <1>1, IdleBondsKept
<1>3. ASSUME backstopped' = {} PROVE PaidUp'
  <2>1. backstopped = {}
    BY <1>1, <1>3, BackstoppedGrows
  <2>2. ~SettlesDropped
    BY <2>1 DEF SettlesDropped, Intact
  <2>3. PaidUp
    BY <2>1 DEF SolvencyInv, HubSolvent, HubExact, PaidUp
  <2>4. QED BY <1>1, <2>2, <2>3, NextFair, FairKeepsBalance
<1>4. HubSolvent' /\ HubExact'
  BY <1>3 DEF HubSolvent, HubExact, PaidUp
<1>5. QED BY <1>1, <1>2, <1>4 DEF SolvencyInv

\* The inductive invariant holds in every state of the hub.
THEOREM SolvencyInvariant == Spec => []SolvencyInv
<1>1. Init => SolvencyInv
  BY InitSolvent
<1>2. SolvencyInv /\ [Next]_vars => SolvencyInv'
  BY NextSolvent
<1>3. QED BY <1>1, <1>2, PTL DEF Spec

\* The hub can pay what it owes, however the raw amounts were rounded, as long as no
\* backstop has dropped the locks of a vault.
THEOREM PaysWhatItOwes == Spec => []HubSolvent
<1>1. SolvencyInv => HubSolvent
  BY DEF SolvencyInv
<1>2. QED BY <1>1, SolvencyInvariant, PTL

\* ... and with a collateral of 18 decimals it holds exactly that.
THEOREM HoldsWhatItOwes == Spec => []HubExact
<1>1. SolvencyInv => HubExact
  BY DEF SolvencyInv
<1>2. QED BY <1>1, SolvencyInvariant, PTL

\* After a backstop too no step makes the hub owe more than it takes in, but a
\* settlement of the burns of a vault whose locks were dropped.
THEOREM OnlyDroppedLocksUnfair == Spec => [][~SettlesDropped => Fair]_vars
<1>1. SolvencyInv /\ SolvencyInv' /\ [Next]_vars => [~SettlesDropped => Fair]_vars
  <2> SUFFICES ASSUME SolvencyInv, SolvencyInv', [Next]_vars, ~SettlesDropped PROVE Fair
    OBVIOUS
  <2>1. LockInv /\ IdleBonds /\ TypeInv'
    BY DEF SolvencyInv, LockInv, LedgerInv, BurnListInv
  <2>2. QED BY <2>1, NextFair
<1>2. QED BY <1>1, SolvencyInvariant, PTL DEF Spec


-----------------------------------------------------------------------------
(* What a step may never do. *)

\* The terms of an auction of v that goes on, but for its offer.
TermsHold(v) ==
  /\ vaults'[v].debt <= vaults[v].debt
  /\ \/ FreeCollateral(vaults'[v]) >= FreeCollateral(vaults[v])
     \/ vaults[v].active /\ ~vaults'[v].active /\ vaults[v].debt = 0

\* A vault that stays as it is keeps them.
LEMMA SameKeepsTerms ==
  ASSUME TypeInv, NEW v \in Vault, vaults'[v] = vaults[v]
  PROVE  TermsHold(v)
<1>1. PICK V \in GoodVault : V = vaults[v]
  BY DEF TypeInv
<1>2. V.debt \in Nat /\ FreeCollateral(V) \in Nat
  BY VaultFields, PricesNat
<1>3. QED BY <1>1, <1>2 DEF TermsHold

\* So does one that gains collateral or loses debt.
LEMMA QuietKeepsTerms ==
  ASSUME TypeInv, TypeInv', NEW v \in Vault, Quiet(v), vaultKicks'[v].auctionOpened,
         vaults[v].active, vaults'[v].active
  PROVE  TermsHold(v)
<1>1. PICK V \in GoodVault, W \in GoodVault : V = vaults[v] /\ W = vaults'[v]
  BY DEF TypeInv
<1>2. W.lockedCollateral = V.lockedCollateral /\ W.active
  BY <1>1 DEF Quiet, SameHolds
<1>3. \/ W.debt <= V.debt /\ W.collateralShares >= V.collateralShares
      \/ W.registered /\ W.active /\ ~vaultKicks'[v].auctionOpened
      \/ ~W.active
  BY <1>1 DEF Quiet, Fares
<1>4. W.debt <= V.debt /\ W.collateralShares >= V.collateralShares
  BY <1>2, <1>3
<1>5. /\ V.lockedCollateral \in Nat /\ V.collateralShares \in Nat /\ W.collateralShares \in Nat
  BY VaultFields
<1>6. FreeCollateral(W) >= FreeCollateral(V)
  BY <1>2, <1>4, <1>5 DEF FreeCollateral, Monus
<1>7. QED BY <1>1, <1>4, <1>6 DEF TermsHold

\* No operation of an LP takes from an auction, but the eviction of a vault without debt.
LEMMA VaultKeepsTerms ==
  ASSUME LockInv, TypeInv', VaultNext, NEW v \in Vault,
         vaultKicks[v].auctionOpened, vaultKicks'[v].auctionOpened
  PROVE  TermsHold(v)
<1>1. LedgerInv /\ TypeInv /\ VaultTerms /\ Unregistered /\ vaults \in [Vault -> GoodVault]
  BY DEF LockInv, LockFacts, LedgerInv, LedgerFacts, BurnListInv, TypeInv
<1>2. vaultKicks[v].active /\ vaults[v].registered /\ Blocked(v)
  BY <1>1 DEF VaultTerms, Unregistered, Blocked
<1>3. CASE \E w \in Vault : CreateVault(w) \/ DeactivateVault(w)
  BY <1>1, <1>2, <1>3, SameKeepsTerms DEF CreateVault, DeactivateVault
<1>4. CASE \E w, u \in Vault : CreateVaultEvicting(w, u)
  <2>1. PICK w \in Vault, u \in Vault : CreateVaultEvicting(w, u)
    BY <1>4
  <2>2. w # v
    BY <1>2, <2>1 DEF CreateVaultEvicting
  <2>3. CASE u # v
    BY <1>1, <2>1, <2>2, <2>3, SameKeepsTerms DEF CreateVaultEvicting
  <2>4. CASE u = v
    <3>1. PICK V \in GoodVault : V = vaults[v]
      BY <1>1
    <3>2. PICK U : U = [V EXCEPT !.collateralShares = 0, !.active = FALSE]
      OBVIOUS
    <3>3. U.debt = V.debt /\ ~U.active
      BY <3>2 DEF GoodVault, VaultRecord
    <3>4. vaults'[v] = U
      BY <1>1, <2>1, <2>2, <2>4, <3>1, <3>2 DEF CreateVaultEvicting
    <3>5. V.active /\ V.debt = 0
      BY <2>1, <2>4, <3>1 DEF CreateVaultEvicting, IsVaultEvictable
    <3>6. QED BY <3>1, <3>3, <3>4, <3>5 DEF TermsHold
  <2>5. QED BY <2>3, <2>4
<1>5. CASE \E w \in Vault : \E shares \in WithdrawAmounts : WithdrawCollateral(w, shares)
  BY <1>1, <1>2, <1>5, SameKeepsTerms DEF WithdrawCollateral
<1>6. CASE \E w \in Vault :
        \/ \E amount \in DepositAmounts : DepositCollateral(w, amount)
        \/ \E amount \in RepayAmounts : RepayDebt(w, amount)
  <2>1. PICK w \in Vault : \/ \E amount \in DepositAmounts : DepositCollateral(w, amount)
                           \/ \E amount \in RepayAmounts : RepayDebt(w, amount)
    BY <1>6
  <2>2. Quiet(v)
    BY <1>1, <2>1, PaymentsQuiet
  <2>3. CASE w # v
    BY <1>1, <2>1, <2>3, SameKeepsTerms DEF DepositCollateral, RepayDebt
  <2>4. CASE w = v
    <3>1. PICK V \in GoodVault : V = vaults[v]
      BY <1>1
    <3>2. PICK c, d : \/ vaults' = [vaults EXCEPT ![v].collateralShares = c]
                      \/ vaults' = [vaults EXCEPT ![v].collateralShares = c, ![v].debt = d]
      BY <2>1, <2>4 DEF DepositCollateral, RepayDebt
    <3>3. \/ vaults'[v] = [V EXCEPT !.collateralShares = c]
          \/ vaults'[v] = [V EXCEPT !.collateralShares = c, !.debt = d]
      BY <1>1, <3>1, <3>2
    <3>4. V.active
      BY <2>1, <2>4, <3>1 DEF DepositCollateral, RepayDebt
    <3>5. vaults'[v].active
      BY <3>3, <3>4, ZenonT(60) DEF GoodVault, VaultRecord
    <3>6. QED BY <1>1, <2>2, <3>1, <3>4, <3>5, QuietKeepsTerms
  <2>5. QED BY <2>3, <2>4
<1>7. CASE \E w \in Vault :
        \/ \E x \in Thresholds : SetThreshold(w, x)
        \/ \E x \in MaxMints : SetMaxMintWsxmr(w, x)
        \/ \E x \in GriefingDeposits : SetMintGriefingDeposit(w, x)
        \/ \E x \in MinBurns : SetMinBurnAmount(w, x)
        \/ \E x \in Timeouts : SetMintTimeoutBlocks(w, x) \/ SetBurnTimeoutBlocks(w, x)
        \/ \E x \in MintFees, y \in BurnRewards : SetVaultMarketMetrics(w, x, y)
  <2>1. PICK w \in Vault :
          /\ vaults[w].active
          /\ \A u \in Vault : Quiet(u)
          /\ \E W : vaults' = [vaults EXCEPT ![w] = W] /\ KeepsHolds(vaults[w], W)
    <3>1. PICK w \in Vault :
            \/ \E x \in Thresholds : SetThreshold(w, x)
            \/ \E x \in MaxMints : SetMaxMintWsxmr(w, x)
            \/ \E x \in GriefingDeposits : SetMintGriefingDeposit(w, x)
            \/ \E x \in MinBurns : SetMinBurnAmount(w, x)
            \/ \E x \in Timeouts : SetMintTimeoutBlocks(w, x) \/ SetBurnTimeoutBlocks(w, x)
            \/ \E x \in MintFees, y \in BurnRewards : SetVaultMarketMetrics(w, x, y)
      BY <1>7
    <3>2. QED BY <1>1, <3>1, QuoteMade, QuotesQuiet
  <2>2. CASE w # v
    BY <1>1, <2>1, <2>2, SameKeepsTerms
  <2>3. CASE w = v
    <3>1. vaults[v].active /\ vaults'[v].active /\ Quiet(v)
      BY <1>1, <2>1, <2>3 DEF KeepsHolds
    <3>2. QED BY <1>1, <3>1, QuietKeepsTerms
  <2>4. QED BY <2>2, <2>3
<1>8. CASE \/ \E w \in Vault : \E minters \in Whitelists, whitelisted \in BOOLEAN :
                SetMinterWhitelist(w, minters, whitelisted)
           \/ \E a \in Account : WithdrawCollateralReturns(a) \/ WithdrawEthReturns(a)
  <2>1. UNCHANGED vaults
    BY <1>8 DEF SetMinterWhitelist, WithdrawCollateralReturns, WithdrawEthReturns
  <2>2. QED BY <1>1, <2>1, SameKeepsTerms
<1>9. QED BY <1>3, <1>4, <1>5, <1>6, <1>7, <1>8 DEF VaultNext


\* A mint keyed before the auction ends without minting, and frees what it held; a burn
\* gives back no more than it had locked.
LEMMA RequestsKeepTerms ==
  ASSUME LockInv, TypeInv', MintNext \/ BurnNext, NEW v \in Vault, vaultKicks[v].auctionOpened
  PROVE  TermsHold(v)
<1>1. /\ BurnListInv /\ AbandonedCancelled /\ TypeInv /\ VaultTerms /\ MintTerms
      /\ vaults \in [Vault -> GoodVault]
  BY DEF LockInv, LockFacts, LedgerInv, LedgerFacts, BurnListInv, TypeInv
<1>2. Blocked(v) /\ Stale(v)
  BY <1>1 DEF VaultTerms, Blocked, Stale
<1>3. CASE \E r \in ReqId : MintAction(r)
  <2>1. PICK r \in ReqId, m \in GoodMint, q \in GoodMint, V \in GoodVault, W \in GoodVault :
          MintStep(r, m, q, V, W) /\ MintBooks(m, q, V, W)
    BY <1>1, <1>3, MintActionBooks
  <2>2. /\ m = mintRequests[r] /\ m.status # "INVALID" /\ V = vaults[m.lpVault]
        /\ vaults' = [vaults EXCEPT ![m.lpVault] = W]
    BY <2>1 DEF MintStep
  <2>3. CASE m.lpVault # v
    BY <1>1, <2>2, <2>3, SameKeepsTerms
  <2>4. CASE m.lpVault = v
    <3>1. m.vaultMintNonce < vaults[v].mintNonce
      BY <1>1, <1>2, <2>2, <2>4 DEF MintTerms
    <3>2. ~NonceMatches(m)
      <4>1. PICK x \in Nat, y \in Nat : x = m.vaultMintNonce /\ y = V.mintNonce
        BY VaultFields, MintFields DEF GoodMint, MintRecord
      <4>2. QED BY <2>2, <2>4, <3>1, <4>1 DEF NonceMatches
    <3>3. W.debt >= V.debt /\ ~(W.debt > V.debt)
      BY <2>1, <3>2 DEF MintBooks, DebtBooks
    <3>4. FreeCollateral(W) >= FreeCollateral(V)
      BY <1>2, <2>1, <2>4, <3>2 DEF MintBooks, LockBooks
    <3>5. V.debt \in Nat /\ W.debt \in Nat
      BY VaultFields
    <3>6. V = vaults[v] /\ W = vaults'[v]
      BY <1>1, <2>2, <2>4
    <3>7. W.debt <= V.debt
      BY <3>3, <3>5
    <3>8. QED BY <3>4, <3>6, <3>7 DEF TermsHold
  <2>5. QED BY <2>3, <2>4
<1>4. CASE \E u \in Minters, recipient \in Recipients, w \in Vault,
              amount \in MintAmounts, value \in EthValues :
                InitiateMint(u, recipient, w, amount, value)
  BY <1>1, <1>4, SameKeepsTerms DEF InitiateMint
<1>5. CASE BurnNext
  <2>1. PICK r \in ReqId, b \in GoodBurn, c \in GoodBurn, V \in GoodVault, W \in GoodVault :
          BurnStep(r, b, c, V, W) /\ BurnBooks(r, b, c, V, W)
    <3>1. CASE \E r \in ReqId : BurnAction(r)
      BY <1>1, <3>1, BurnActionBooks
    <3>2. CASE \E u \in Burners, w \in Vault, amount \in BurnAmounts : RequestBurn(u, w, amount)
      BY <1>1, <3>2, RequestBurnBooks
    <3>3. QED BY <1>5, <3>1, <3>2 DEF BurnNext, BurnAction
  <2>2. V = vaults[c.lpVault] /\ vaults' = [vaults EXCEPT ![c.lpVault] = W]
    BY <2>1 DEF BurnStep
  <2>3. CASE c.lpVault # v
    BY <1>1, <2>2, <2>3, SameKeepsTerms
  <2>4. CASE c.lpVault = v
    <3>1. V = vaults[v] /\ W = vaults'[v]
      BY <1>1, <2>2, <2>4
    <3>2. FreeCollateral(W) >= FreeCollateral(V) /\ W.debt <= V.debt
      BY <1>2, <2>1, <2>4 DEF BurnBooks, BurnLockBooks, BurnDebtBooks
    <3>3. QED BY <3>1, <3>2 DEF TermsHold
  <2>5. QED BY <2>3, <2>4
<1>6. QED BY <1>3, <1>4, <1>5 DEF MintNext, MintAction

\* A second call finds nothing to settle.
LEMMA NothingToSettle ==
  ASSUME TypeInv, NEW v \in Vault, vaultKicks[v].auctionOpened, vaults'[v] = OpenedVault(v)
  PROVE  TermsHold(v)
<1>1. ToSettle(v) = {}
  BY DEF ToSettle
<1>2. PICK V \in GoodVault : V = vaults[v]
  BY DEF TypeInv
<1>3. PICK l \in Nat, a \in Nat : l = ReleasedLocks(v, {}) /\ a = AmountOf(Committed({}))
  BY SettlementSums
<1>4. Outflows({}) = 0
  <2>1. Committed({}) = {} /\ MaxRequests \in Nat
    BY SizesAssumption DEF Committed
  <2>2. \A i \in 1..MaxRequests :
          [j \in 1..MaxRequests |->
            IF j \in {} THEN [r \in ReqId |-> Outflow(burnRequests[r])][j] ELSE 0][i] = 0
    OBVIOUS
  <2>3. QED BY <2>1, <2>2, SumZero DEF Outflows, SumOn
<1>5. PICK O \in GoodVault : O = OpenedVault(v)
  BY OpenedVaultGood
<1>6. /\ O.lockedCollateral = Monus(V.lockedCollateral, l)
      /\ O.collateralShares = Monus(V.collateralShares, 0)
      /\ O.debt = Monus(V.debt, a)
  <2>1. PICK W : W = SettledVault(v, ToSettle(v))
    OBVIOUS
  <2>2. /\ W.lockedCollateral = Monus(V.lockedCollateral, ReleasedLocks(v, ToSettle(v)))
        /\ W.collateralShares = Monus(V.collateralShares, Outflows(ToSettle(v)))
        /\ W.debt = Monus(V.debt, AmountOf(Committed(ToSettle(v))))
    BY <1>2, <2>1, SettledFields
  <2>3. /\ W.lockedCollateral = Monus(V.lockedCollateral, l)
        /\ W.collateralShares = Monus(V.collateralShares, 0)
        /\ W.debt = Monus(V.debt, a)
    BY <1>1, <1>3, <1>4, <2>2
  <2>4. /\ O.lockedCollateral = W.lockedCollateral
        /\ O.collateralShares = W.collateralShares /\ O.debt = W.debt
    BY <1>2, <1>5, <2>1, OpenedFields
  <2>5. QED BY <2>3, <2>4
<1>7. V.lockedCollateral \in Nat /\ V.collateralShares \in Nat /\ V.debt \in Nat
  BY VaultFields
<1>8. O.lockedCollateral \in Nat /\ O.lockedCollateral <= V.lockedCollateral
  BY <1>6, <1>7 DEF Monus
<1>9. O.collateralShares = V.collateralShares /\ O.debt <= V.debt
  BY <1>6, <1>7 DEF Monus
<1>10. FreeCollateral(O) >= FreeCollateral(V)
  BY <1>7, <1>8, <1>9 DEF FreeCollateral, Monus
<1>11. QED BY <1>2, <1>5, <1>9, <1>10 DEF TermsHold

\* The steps of other auctions touch the vaults those are of; an auction that a step ends
\* is not one that goes on.
LEMMA AuctionsKeepTerms ==
  ASSUME LockInv, TypeInv', AuctionNext, NEW v \in Vault,
         vaultKicks[v].auctionOpened, vaultKicks'[v].auctionOpened
  PROVE  TermsHold(v)
<1>1. TypeInv /\ VaultTerms /\ vaults \in [Vault -> GoodVault] /\ vaultKicks \in [Vault -> GoodKick]
  BY DEF LockInv, LockFacts, LedgerInv, BurnListInv, TypeInv
<1>2. vaultKicks[v].active
  BY <1>1 DEF VaultTerms
<1>3. ~NoKick.auctionOpened
  BY DEF NoKick
<1>4. CASE \E kicker \in Kickers, w \in Vault : Kick(kicker, w) \/ Reauction(kicker, w)
  BY <1>1, <1>4, SameKeepsTerms DEF Kick, Reauction, StartKick
<1>5. CASE \E w \in Vault : OpenAuction(w)
  <2>1. PICK w \in Vault : OpenAuction(w)
    BY <1>5
  <2>2. vaults' = [vaults EXCEPT ![w] = OpenedVault(w)]
    BY <2>1 DEF OpenAuction
  <2>3. CASE w # v
    BY <1>1, <2>2, <2>3, SameKeepsTerms
  <2>4. CASE w = v
    BY <1>1, <2>2, <2>4, NothingToSettle
  <2>5. QED BY <2>3, <2>4
<1>6. CASE \/ \E w \in Vault : ResolveKick(w)
           \/ \E bidder \in Bidders, w \in Vault : Bid(bidder, w)
  <2>1. PICK w \in Vault : ResolveKick(w) \/ \E bidder \in Bidders : Bid(bidder, w)
    BY <1>6
  <2>2. w # v
    BY <1>1, <1>3, <2>1 DEF ResolveKick, Bid, ClearKick
  <2>3. vaults'[v] = vaults[v]
    BY <1>1, <2>1, <2>2 DEF ResolveKick, Bid, BidNothingOwed, BidWhole
  <2>4. QED BY <1>1, <2>3, SameKeepsTerms
<1>7. CASE \E old \in Vault, new \in Backstoppers : BackstopVault(old, new)
  <2>1. PICK old \in Vault, new \in Backstoppers, W \in GoodVault, N \in GoodVault,
             P \in GoodVault, Q \in GoodVault :
          BackstopMoves(old, new, W, N, P, Q)
    BY <1>1, <1>7, BackstopMade
  <2>2. old # v /\ new # v
    BY <1>1, <1>2, <1>3, <2>1 DEF BackstopMoves
  <2>3. vaults'[v] = vaults[v]
    BY <1>1, <2>1, <2>2 DEF BackstopMoves
  <2>4. QED BY <1>1, <2>3, SameKeepsTerms
<1>8. QED BY <1>4, <1>5, <1>6, <1>7 DEF AuctionNext

\* A bid is made on the terms the auction was opened with.
THEOREM TermsOfAuctionsKept == Spec => AuctionTermsKept
<1>1. LockInv /\ LockInv' /\ [Next]_vars =>
        [\A v \in Vault :
           (vaultKicks[v].auctionOpened /\ vaultKicks'[v].auctionOpened) =>
             /\ vaults'[v].debt <= vaults[v].debt
             /\ vaultKicks'[v].offeredCollateral = vaultKicks[v].offeredCollateral
             /\ \/ FreeCollateral(vaults'[v]) >= FreeCollateral(vaults[v])
                \/ vaults[v].active /\ ~vaults'[v].active /\ vaults[v].debt = 0]_vars
  <2> SUFFICES ASSUME LockInv, LockInv', [Next]_vars, NEW v \in Vault,
                      vaultKicks[v].auctionOpened, vaultKicks'[v].auctionOpened
               PROVE  /\ TermsHold(v)
                      /\ vaultKicks'[v].offeredCollateral = vaultKicks[v].offeredCollateral
    BY DEF TermsHold
  <2>1. TypeInv /\ TypeInv'
    BY DEF LockInv, LedgerInv, BurnListInv
  <2>2. TermsHold(v)
    <3>1. CASE TokenNext \/ Tick \/ UNCHANGED vars
      <4>1. UNCHANGED vaults
        BY <3>1 DEF TokenNext, Transfer, Tick, vars
      <4>2. QED BY <2>1, <4>1, SameKeepsTerms
    <3>2. QED BY <2>1, <3>1, VaultKeepsTerms, RequestsKeepTerms, AuctionsKeepTerms DEF Next
  <2>3. vaultKicks'[v].offeredCollateral = vaultKicks[v].offeredCollateral
    <3>1. ~NoKick.auctionOpened
      BY DEF NoKick
    <3>2. vaultKicks'[v] = vaultKicks[v] \/ OpenAuction(v)
      BY <2>1, <3>1, KicksMove
    <3>3. CASE OpenAuction(v)
      <4>1. PICK k, x : k \in GoodKick /\ k = vaultKicks[v] /\ x = Offered(v)
        BY <2>1 DEF TypeInv
      <4>2. x = k.offeredCollateral
        BY <4>1 DEF Offered
      <4>3. vaultKicks'[v] = [k EXCEPT !.auctionOpened = TRUE, !.offeredCollateral = x]
        BY <2>1, <3>3, <4>1 DEF OpenAuction, TypeInv
      <4>4. QED BY <4>1, <4>2, <4>3 DEF GoodKick, KickRecord
    <3>4. QED BY <3>2, <3>3
  <2>4. QED BY <2>2, <2>3
<1>2. QED BY <1>1, LockInvariant, PTL DEF Spec, AuctionTermsKept


\* Only the steps of a mint change a request, and each changes one.
LEMMA OneMintMoves ==
  ASSUME TypeInv, [Next]_vars, NEW r \in ReqId,
         mintRequests[r].status \in MintBonded, mintRequests'[r].status = "CANCELLED"
  PROVE  \/ FinalizeMint(r) \/ CancelMint(r) \/ AbandonKeyProvidedMint(r)
         \/ ClaimGriefingDeposit(r) \/ ReclaimParkedDeposit(r) \/ SweepUnclaimedExpiredMint(r)
<1>1. mintRequests \in [ReqId -> GoodMint] /\ "CANCELLED" \notin MintBonded
  BY DEF TypeInv, MintBonded, MintLive
<1>2. mintRequests'[r] # mintRequests[r]
  BY <1>1
<1>3. CASE VaultNext
  <2>1. CASE \E v \in Vault :
               \/ \E x \in Thresholds : SetThreshold(v, x)
               \/ \E x \in MaxMints : SetMaxMintWsxmr(v, x)
               \/ \E x \in GriefingDeposits : SetMintGriefingDeposit(v, x)
               \/ \E x \in MinBurns : SetMinBurnAmount(v, x)
               \/ \E x \in Timeouts : SetMintTimeoutBlocks(v, x) \/ SetBurnTimeoutBlocks(v, x)
               \/ \E x \in MintFees, y \in BurnRewards : SetVaultMarketMetrics(v, x, y)
    BY <1>2, <2>1 DEF SetThreshold, SetMaxMintWsxmr, SetMintGriefingDeposit, SetMinBurnAmount,
       SetMintTimeoutBlocks, SetBurnTimeoutBlocks, SetVaultMarketMetrics, ConfigUnchanged, mintVars
  <2>2. CASE \E v \in Vault : \/ CreateVault(v) \/ DeactivateVault(v)
                              \/ \E w \in Vault : CreateVaultEvicting(v, w)
    BY <1>2, <2>2 DEF CreateVault, DeactivateVault, CreateVaultEvicting, mintVars
  <2>3. CASE \E v \in Vault : \/ \E amount \in DepositAmounts : DepositCollateral(v, amount)
                              \/ \E shares \in WithdrawAmounts : WithdrawCollateral(v, shares)
                              \/ \E amount \in RepayAmounts : RepayDebt(v, amount)
    BY <1>2, <2>3 DEF DepositCollateral, WithdrawCollateral, RepayDebt, mintVars
  <2>4. CASE \/ \E v \in Vault : \E minters \in Whitelists, whitelisted \in BOOLEAN :
                  SetMinterWhitelist(v, minters, whitelisted)
             \/ \E a \in Account : WithdrawCollateralReturns(a) \/ WithdrawEthReturns(a)
    BY <1>2, <2>4 DEF SetMinterWhitelist, WithdrawCollateralReturns, WithdrawEthReturns, mintVars
  <2>5. QED BY <1>3, <2>1, <2>2, <2>3, <2>4 DEF VaultNext
<1>4. CASE BurnNext
  <2>1. CASE \E q \in ReqId : BurnAction(q)
    <3>1. BurnUnchanged
      BY <2>1 DEF BurnAction, ProposeHash, ConfirmMoneroLock, RevealBurnSecret, SettleBurn,
         ClaimSlashedCollateral, ForceSettleBurn, AbortBurn, ResolveDeclinedProposal,
         ResolveAbandonedProposal, AbandonProposedBurn
    <3>2. QED BY <1>2, <3>1 DEF BurnUnchanged, mintVars
  <2>2. CASE \E u \in Burners, w \in Vault, amount \in BurnAmounts : RequestBurn(u, w, amount)
    BY <1>2, <2>2 DEF RequestBurn, mintVars
  <2>3. QED BY <1>4, <2>1, <2>2 DEF BurnNext, BurnAction
<1>5. CASE AuctionNext
  <2>1. KickUnchanged
    BY <1>5 DEF AuctionNext, Kick, Reauction, OpenAuction, ResolveKick, Bid, BackstopVault
  <2>2. QED BY <1>2, <2>1 DEF KickUnchanged, mintVars
<1>6. CASE TokenNext \/ Tick \/ UNCHANGED vars
  BY <1>2, <1>6 DEF TokenNext, Transfer, Tick, vars, mintVars
<1>7. CASE MintNext
  <2>1. CASE \E u \in Minters, recipient \in Recipients, w \in Vault,
                amount \in MintAmounts, value \in EthValues :
                  InitiateMint(u, recipient, w, amount, value)
    <3>1. PICK id, q : mintRequests' = [mintRequests EXCEPT ![id] = q] /\ q.status = "PENDING"
      BY <2>1, MintRequested
    <3>2. QED BY <1>1, <1>2, <3>1
  <2>2. CASE \E q \in ReqId : MintAction(q)
    <3>1. PICK q \in ReqId : MintAction(q)
      BY <2>2
    <3>2. \A i \in ReqId : i # q => mintRequests'[i] = mintRequests[i]
      BY <1>1, <3>1 DEF MintAction, ProvideLPKey, SetMintReady, RevealSecret, FinalizeMint,
         CancelMint, CancelPendingMint, ExpireMint, FinalizeAfterAuction, FinalizeMinting,
         AbandonKeyProvidedMint, ClaimGriefingDeposit, ReclaimParkedDeposit,
         SweepUnclaimedExpiredMint, ReturnToInitiator
    <3>3. q = r
      BY <1>2, <3>2
    <3>4. PICK m \in GoodMint : m = mintRequests[r]
      BY <1>1
    <3>5. CASE ProvideLPKey(r)
      BY <3>5 DEF ProvideLPKey, MintBonded, MintLive
    <3>6. CASE SetMintReady(r)
      <4>1. PICK l, t : mintRequests'[r] = [m EXCEPT !.status = "READY", !.lockedCollateral = l,
                                                     !.timeout = t]
        BY <1>1, <3>4, <3>6 DEF SetMintReady
      <4>2. QED BY <4>1 DEF GoodMint, MintRecord
    <3>7. CASE RevealSecret(r)
      <4>1. mintRequests'[r] = [m EXCEPT !.status = "SECRET_REVEALED", !.userSecret = TRUE]
        BY <1>1, <3>4, <3>7 DEF RevealSecret
      <4>2. QED BY <4>1 DEF GoodMint, MintRecord
    <3>8. QED BY <3>1, <3>3, <3>5, <3>6, <3>7 DEF MintAction
  <2>3. QED BY <1>7, <2>1, <2>2 DEF MintNext, MintAction
<1>8. QED BY <1>3, <1>4, <1>5, <1>6, <1>7 DEF Next


\* A silent LP's bond is there to be paid, and paid in full.
LEMMA BondIsPaid ==
  ASSUME LockInv, TypeInv', NEW r \in ReqId, NEW m \in GoodMint, m = mintRequests[r],
         m.status \in MintBonded, m.lpVault \in Intact, NonceMatches(m), ReturnToInitiator(r)
  PROVE  Credited(m.initiator) = RawFromNorm(m.lockedCollateral)
<1>1. TypeInv /\ SoundVault(m.lpVault) /\ m.lpVault \in Vault
  BY DEF LockInv, LockFacts, LedgerInv, BurnListInv, Intact
<1>2. PICK V \in GoodVault : V = vaults[m.lpVault]
  BY <1>1 DEF TypeInv
<1>3. /\ V.lockedCollateral \in Nat /\ V.collateralShares \in Nat
      /\ m.lockedCollateral \in Nat /\ m.initiator \in Account
  BY <1>1, <1>2, VaultFields, MintFields DEF MintBonded, MintLive
<1>4. m.lockedCollateral <= V.collateralShares
  <2>1. /\ V.lockedCollateral = MintLocks(m.lpVault) + BurnLocks(m.lpVault)
        /\ V.lockedCollateral <= V.collateralShares
    BY <1>1, <1>2 DEF SoundVault
  <2>2. m.lockedCollateral <= MintLocks(m.lpVault)
    BY <1>1, MintShare
  <2>3. MintLocks(m.lpVault) \in Nat /\ BurnLocks(m.lpVault) \in Nat
    BY <1>1, HoldsNat
  <2>4. QED BY <1>3, <2>1, <2>2, <2>3
<1>5. Slashed(m) = m.lockedCollateral
  BY <1>2, <1>3, <1>4 DEF Slashed
<1>6. PICK p \in Returns, raw \in Nat :
        p = pendingReturns[m.initiator] /\ raw = RawFromNorm(m.lockedCollateral)
  BY <1>1, <1>3, PricesNat DEF TypeInv
<1>7. pendingReturns'[m.initiator].collateral = p.collateral + raw
  <2>1. pendingReturns' = [pendingReturns EXCEPT
          ![m.initiator].collateral = @ + raw, ![m.initiator].eth = @ + m.griefingDeposit]
    BY <1>5, <1>6 DEF ReturnToInitiator
  <2>2. pendingReturns'[m.initiator]
          = [p EXCEPT !.collateral = p.collateral + raw, !.eth = p.eth + m.griefingDeposit]
    BY <1>1, <1>3, <1>6, <2>1 DEF TypeInv, Returns
  <2>3. QED BY <2>2 DEF Returns
<1>8. p.collateral \in Nat
  BY DEF Returns
<1>9. QED BY <1>6, <1>7, <1>8 DEF Credited, Monus

\* Nobody's mint ends for nothing.
THEOREM KeyedMintsPaid == Spec => KeyedMintExit
<1>1. LockInv /\ LockInv' /\ [Next]_vars =>
        [\A r \in ReqId :
           (/\ mintRequests[r].status \in MintBonded
            /\ mintRequests[r].lpVault \in Intact
            /\ mintRequests'[r].status = "CANCELLED") =>
             \/ mintRequests'[r].lpSecret
             \/ ~NonceMatches(mintRequests[r])
             \/ Credited(mintRequests[r].initiator)
                  = RawFromNorm(mintRequests[r].lockedCollateral)]_vars
  <2> SUFFICES ASSUME LockInv, LockInv', [Next]_vars, NEW r \in ReqId,
                      mintRequests[r].status \in MintBonded,
                      mintRequests[r].lpVault \in Intact,
                      mintRequests'[r].status = "CANCELLED",
                      NonceMatches(mintRequests[r])
               PROVE  \/ mintRequests'[r].lpSecret
                      \/ Credited(mintRequests[r].initiator)
                           = RawFromNorm(mintRequests[r].lockedCollateral)
    OBVIOUS
  <2>1. TypeInv /\ TypeInv' /\ mintRequests \in [ReqId -> GoodMint]
    BY DEF LockInv, LedgerInv, BurnListInv, TypeInv
  <2>2. PICK m \in GoodMint : m = mintRequests[r]
    BY <2>1
  <2>3. CASE FinalizeMinting(r)
    <3>1. mintRequests'[r] = [m EXCEPT !.status = "COMPLETED"]
      BY <2>1, <2>2, <2>3 DEF FinalizeMinting
    <3>2. QED BY <3>1 DEF GoodMint, MintRecord
  <2>4. CASE FinalizeAfterAuction(r)
    BY <2>4 DEF FinalizeAfterAuction
  <2>5. CASE CancelPendingMint(r)
    BY <2>5 DEF CancelPendingMint, MintBonded, MintLive
  <2>6. CASE ExpireMint(r, "KEY_PROVIDED", "KEY_CANCELLED") \/ ExpireMint(r, "READY", "EXPIRED_READY")
    <3>1. PICK end : end = block + LpClaimWindow
      OBVIOUS
    <3>2. \/ mintRequests' = [mintRequests EXCEPT ![r].status = "KEY_CANCELLED", ![r].timeout = end]
          \/ mintRequests' = [mintRequests EXCEPT ![r].status = "EXPIRED_READY", ![r].timeout = end]
      BY <2>6, <3>1 DEF ExpireMint
    <3>3. \/ mintRequests'[r] = [m EXCEPT !.status = "KEY_CANCELLED", !.timeout = end]
          \/ mintRequests'[r] = [m EXCEPT !.status = "EXPIRED_READY", !.timeout = end]
      BY <2>1, <2>2, <3>2
    <3>4. QED BY <3>3 DEF GoodMint, MintRecord
  <2>7. CASE AbandonKeyProvidedMint(r) \/ ClaimGriefingDeposit(r)
    <3>1. CASE AbandonKeyProvidedMint(r)
      <4>1. PICK l : mintRequests'[r] = [m EXCEPT !.status = "CANCELLED", !.lpSecret = TRUE,
                                                  !.lockedCollateral = l]
        BY <2>1, <2>2, <3>1 DEF AbandonKeyProvidedMint
      <4>2. QED BY <4>1 DEF GoodMint, MintRecord
    <3>2. CASE ClaimGriefingDeposit(r)
      <4>1. mintRequests'[r] = [m EXCEPT !.status = "CANCELLED", !.lpSecret = TRUE]
        BY <2>1, <2>2, <3>2 DEF ClaimGriefingDeposit
      <4>2. QED BY <4>1 DEF GoodMint, MintRecord
    <3>3. QED BY <2>7, <3>1, <3>2
  <2>8. CASE ReclaimParkedDeposit(r) \/ SweepUnclaimedExpiredMint(r)
    <3>1. ReturnToInitiator(r)
      BY <2>8 DEF ReclaimParkedDeposit, SweepUnclaimedExpiredMint
    <3>2. Credited(m.initiator) = RawFromNorm(m.lockedCollateral)
      BY <2>1, <2>2, <3>1, BondIsPaid
    <3>3. QED BY <2>2, <3>2
  <2>9. QED
    BY <2>1, <2>3, <2>4, <2>5, <2>6, <2>7, <2>8, OneMintMoves DEF FinalizeMint, CancelMint
<1>2. QED BY <1>1, LockInvariant, PTL DEF Spec, KeyedMintExit

-----------------------------------------------------------------------------
(* What keeps a vault covered. *)

\* More debt at a higher threshold requires no less.
LEMMA RequiredMono ==
  ASSUME NEW x \in Nat, NEW y \in Nat, NEW t \in Nat, NEW s \in Nat, x <= y, t <= s
  PROVE  RequiredCollateral(x, t) <= RequiredCollateral(y, s)
<1>1. PICK a \in Nat, b \in Nat, c \in Nat : a = x * t /\ b = y * s /\ c = y * t
  BY MulNat
<1>2. a <= c /\ c <= b
  BY <1>1
<1>3. PICK w \in Nat \ {0} : w = WsxmrDecimals
  BY RatesAssumption
<1>4. PICK p \in Nat, q \in Nat : p = a \div w /\ q = b \div w
  BY <1>1, <1>3, DivNat
<1>5. w * p <= a /\ b < w * (q + 1)
  BY <1>1, <1>3, <1>4
<1>6. p <= q
  <2>1. SUFFICES ASSUME p >= q + 1 PROVE FALSE
    BY <1>4
  <2>2. w * p >= w * (q + 1)
    BY <1>3, <1>4, <2>1
  <2>3. w * p \in Nat /\ w * (q + 1) \in Nat
    BY <1>3, <1>4, MulNat
  <2>4. QED BY <1>1, <1>2, <1>5, <2>2, <2>3
<1>7. QED BY <1>1, <1>3, <1>4, <1>6 DEF RequiredCollateral

\* What a burn is paid at a threshold not above the vault's is released with its debt.
LEMMA ParReleased ==
  ASSUME NEW x \in Nat, NEW y \in Nat, NEW t \in Nat, NEW s \in Nat, s <= t
  PROVE  RequiredCollateral(x, t) + ParCollateral(y, s) <= RequiredCollateral(x + y, t)
<1>1. PICK a \in Nat, b \in Nat, c \in Nat : a = x * t /\ b = y * s /\ c = y * t
  BY MulNat
<1>2. b <= c /\ (x + y) * t = a + c
  BY <1>1
<1>3. PICK w \in Nat \ {0} : w = WsxmrDecimals
  BY RatesAssumption
<1>4. PICK p \in Nat, q \in Nat, z \in Nat :
        p = a \div w /\ q = b \div w /\ z = (a + c) \div w
  BY <1>1, <1>3, DivNat
<1>5. w * p <= a /\ w * q <= b /\ a + c < w * (z + 1)
  BY <1>1, <1>3, <1>4
<1>6. p + q <= z
  <2>1. SUFFICES ASSUME p + q >= z + 1 PROVE FALSE
    BY <1>4
  <2>2. w * (p + q) >= w * (z + 1) /\ w * (p + q) = w * p + w * q
    BY <1>3, <1>4, <2>1
  <2>3. w * p \in Nat /\ w * q \in Nat /\ w * (z + 1) \in Nat
    BY <1>3, <1>4, MulNat
  <2>4. QED BY <1>1, <1>2, <1>5, <2>2, <2>3
<1>7. QED BY <1>1, <1>2, <1>3, <1>4, <1>6 DEF RequiredCollateral, ParCollateral

\* A step that adds no obligation and takes nothing but what a bond frees.
LEMMA StaysCovered ==
  ASSUME TypeInv, NEW v \in Vault, Covered(v), NEW W \in GoodVault, W = vaults'[v],
         W.threshold <= vaults[v].threshold,
         W.debt + W.pendingDebt <= vaults[v].debt + vaults[v].pendingDebt,
         NEW L \in Nat, L = MintLocks(v)',
         vaults[v].collateralShares + L <= W.collateralShares + MintLocks(v)
  PROVE  Covered(v)'
<1>1. PICK V \in GoodVault, K \in Nat : V = vaults[v] /\ K = MintLocks(v)
  BY HoldsNat
<1>2. /\ V.collateralShares \in Nat /\ V.debt + V.pendingDebt \in Nat /\ V.threshold \in Nat
      /\ W.collateralShares \in Nat /\ W.debt + W.pendingDebt \in Nat /\ W.threshold \in Nat
  BY VaultFields
<1>3. PICK p \in Nat, q \in Nat :
        /\ p = RequiredCollateral(V.debt + V.pendingDebt, V.threshold)
        /\ q = RequiredCollateral(W.debt + W.pendingDebt, W.threshold)
  BY <1>2, PricesNat
<1>4. q <= p
  BY <1>1, <1>2, <1>3, RequiredMono
<1>5. V.collateralShares - K >= p
  BY <1>1, <1>3 DEF Covered
<1>6. W.collateralShares - L >= q
  BY <1>1, <1>2, <1>3, <1>4, <1>5
<1>7. QED BY <1>3, <1>6 DEF Covered

\* A step that leaves enough free collateral.
LEMMA FreeCovers ==
  ASSUME NEW v \in Vault, NEW W \in GoodVault, W = vaults'[v],
         NEW L \in Nat, L = MintLocks(v)',
         L <= W.lockedCollateral, W.lockedCollateral <= W.collateralShares,
         FreeCollateral(W) >= RequiredCollateral(W.debt + W.pendingDebt, W.threshold)
  PROVE  Covered(v)'
<1>1. /\ W.collateralShares \in Nat /\ W.lockedCollateral \in Nat
      /\ W.debt + W.pendingDebt \in Nat /\ W.threshold \in Nat
  BY VaultFields
<1>2. PICK q \in Nat : q = RequiredCollateral(W.debt + W.pendingDebt, W.threshold)
  BY <1>1, PricesNat
<1>3. FreeCollateral(W) = W.collateralShares - W.lockedCollateral
  BY <1>1 DEF FreeCollateral, Monus
<1>4. W.collateralShares - L >= q
  BY <1>1, <1>2, <1>3
<1>5. QED BY <1>2, <1>4 DEF Covered

\* A vault that stays as it is, with its mints.
LEMMA SameCovers ==
  ASSUME TypeInv, NEW v \in Vault, Covered(v), vaults'[v] = vaults[v],
         MintLocks(v)' = MintLocks(v)
  PROVE  Covered(v)'
BY DEF Covered

\* Nothing requires nothing.
LEMMA NothingRequired ==
  ASSUME NEW t \in Nat
  PROVE  RequiredCollateral(0, t) = 0
<1>1. 0 * t = 0 /\ WsxmrDecimals \in Nat \ {0}
  BY RatesAssumption
<1>2. QED BY <1>1 DEF RequiredCollateral

\* A vault that has bonded nothing has reserved nothing.
LEMMA NothingReserved ==
  ASSUME LockInv, NEW v \in Vault, MintLocks(v) = 0
  PROVE  vaults[v].pendingDebt = 0
<1>1. TypeInv /\ MintTerms /\ MintsExact
  BY DEF LockInv, LockFacts, LedgerInv, BurnListInv
<1>2. MintsOf(v, MintBonded) = {}
  BY <1>1, NothingKeyed
<1>3. MintsOf(v, MintLive) = {}
  BY <1>2 DEF MintsOf, MintBonded
<1>4. QED BY <1>1, <1>3, SizesAssumption, SumOnEmpty DEF MintsExact, Reserved

\* The operations of an LP: only a withdrawal takes collateral, and it looks at what is
\* left; who is evicted has no obligation.
LEMMA VaultCovers ==
  ASSUME LockInv, TypeInv', VaultNext, NEW v \in Intact, Covered(v),
         vaults'[v].threshold <= vaults[v].threshold
  PROVE  Covered(v)'
<1>1. /\ LedgerInv /\ TypeInv /\ VaultTerms /\ Unregistered /\ MintsExact /\ SoundVault(v)
      /\ v \in Vault /\ vaults \in [Vault -> GoodVault] /\ vaults' \in [Vault -> GoodVault]
      /\ vaultKicks \in [Vault -> GoodKick]
  BY DEF LockInv, LockFacts, LedgerInv, LedgerFacts, BurnListInv, TypeInv, Intact
<1>2. PICK V \in GoodVault, W \in GoodVault, K \in Nat :
        V = vaults[v] /\ W = vaults'[v] /\ K = MintLocks(v)
  BY <1>1, HoldsNat
<1>3. /\ V.collateralShares \in Nat /\ V.lockedCollateral \in Nat /\ V.debt \in Nat
      /\ V.pendingDebt \in Nat /\ V.threshold \in Nat /\ W.collateralShares \in Nat
      /\ K <= V.lockedCollateral /\ V.lockedCollateral <= V.collateralShares
  <2>1. V.lockedCollateral = K + BurnLocks(v) /\ BurnLocks(v) \in Nat
        /\ V.lockedCollateral <= V.collateralShares
    BY <1>1, <1>2, HoldsNat DEF SoundVault
  <2>2. QED BY <1>2, <2>1, VaultFields
<1>4. UNCHANGED mintRequests => MintLocks(v)' = K
  BY <1>2, HoldsSame
<1>5. ASSUME UNCHANGED mintRequests, W.debt <= V.debt, W.pendingDebt = V.pendingDebt,
             W.collateralShares >= V.collateralShares
      PROVE  Covered(v)'
  <2>1. W.debt \in Nat
    BY VaultFields
  <2>2. /\ W.debt + W.pendingDebt <= V.debt + V.pendingDebt
        /\ V.collateralShares + K <= W.collateralShares + K
    BY <1>2, <1>3, <1>5, <2>1
  <2>3. QED BY <1>1, <1>2, <1>4, <1>5, <2>2, StaysCovered
<1>6. ASSUME UNCHANGED mintRequests, vaults'[v] = vaults[v]
      PROVE  Covered(v)'
  BY <1>2, <1>4, <1>6, <1>1, SameCovers
<1>7. CASE \E w \in Vault : CreateVault(w) \/ DeactivateVault(w)
  <2>1. PICK w \in Vault : CreateVault(w) \/ DeactivateVault(w)
    BY <1>7
  <2>2. UNCHANGED mintRequests
    BY <2>1 DEF CreateVault, DeactivateVault, mintVars
  <2>3. CASE w # v
    BY <1>1, <1>6, <2>1, <2>2, <2>3 DEF CreateVault, DeactivateVault
  <2>4. CASE w = v /\ CreateVault(v)
    <3>1. V = EmptyVault /\ W = NewVault
      BY <1>1, <1>2, <2>4 DEF CreateVault, Unregistered
    <3>2. /\ V.debt = 0 /\ V.pendingDebt = 0 /\ V.collateralShares = 0
          /\ W.debt = 0 /\ W.pendingDebt = 0 /\ W.collateralShares = 0
      BY <3>1 DEF EmptyVault, NewVault
    <3>3. QED BY <1>5, <2>2, <3>2
  <2>5. CASE w = v /\ DeactivateVault(v)
    <3>1. W = [V EXCEPT !.active = FALSE]
      BY <1>1, <1>2, <2>5 DEF DeactivateVault
    <3>2. W.debt = V.debt /\ W.pendingDebt = V.pendingDebt
          /\ W.collateralShares = V.collateralShares
      BY <3>1 DEF GoodVault, VaultRecord
    <3>3. QED BY <1>3, <1>5, <2>2, <3>2
  <2>6. QED BY <2>1, <2>3, <2>4, <2>5
<1>8. CASE \E w, u \in Vault : CreateVaultEvicting(w, u)
  <2>1. PICK w \in Vault, u \in Vault : CreateVaultEvicting(w, u)
    BY <1>8
  <2>2. UNCHANGED mintRequests
    BY <2>1 DEF CreateVaultEvicting, mintVars
  <2>3. w # u
    BY <1>1, <2>1 DEF CreateVaultEvicting, IsVaultEvictable, Unregistered, EmptyVault
  <2>4. PICK N, E : N = NewVault /\ E = [vaults[u] EXCEPT !.collateralShares = 0, !.active = FALSE]
    OBVIOUS
  <2>5. /\ vaults'[w] = N /\ vaults'[u] = E
        /\ v # w /\ v # u => vaults'[v] = vaults[v]
    BY <1>1, <2>1, <2>3, <2>4 DEF CreateVaultEvicting
  <2>6. CASE v # w /\ v # u
    BY <1>6, <2>2, <2>5, <2>6
  <2>7. CASE v = w
    <3>1. V = EmptyVault /\ W = NewVault
      BY <1>1, <1>2, <2>1, <2>4, <2>5, <2>7 DEF CreateVaultEvicting, Unregistered
    <3>2. /\ V.debt = 0 /\ V.pendingDebt = 0 /\ V.collateralShares = 0
          /\ W.debt = 0 /\ W.pendingDebt = 0 /\ W.collateralShares = 0
      BY <3>1 DEF EmptyVault, NewVault
    <3>3. QED BY <1>5, <2>2, <3>2
  <2>8. CASE v = u
    <3>1. V.debt = 0 /\ V.lockedCollateral = 0
      BY <1>2, <2>1, <2>8 DEF CreateVaultEvicting, IsVaultEvictable
    <3>2. W = [V EXCEPT !.collateralShares = 0, !.active = FALSE]
      BY <1>2, <2>4, <2>5, <2>8
    <3>3. /\ W.debt = V.debt /\ W.pendingDebt = V.pendingDebt /\ W.threshold = V.threshold
          /\ W.lockedCollateral = V.lockedCollateral /\ W.collateralShares = 0
      BY <3>2 DEF GoodVault, VaultRecord
    <3>4. K = 0
      BY <1>2, <1>3, <3>1
    <3>5. V.pendingDebt = 0
      BY <1>1, <1>2, <3>4, NothingReserved
    <3>6. RequiredCollateral(0, V.threshold) = 0
      BY <1>3, NothingRequired
    <3>7. FreeCollateral(W) \in Nat
      BY PricesNat, VaultFields
    <3>8. FreeCollateral(W) >= RequiredCollateral(W.debt + W.pendingDebt, W.threshold)
      BY <3>1, <3>3, <3>5, <3>6, <3>7
    <3>9. QED BY <1>1, <1>2, <1>4, <2>2, <3>1, <3>3, <3>4, <3>8, FreeCovers
  <2>9. QED BY <2>6, <2>7, <2>8
<1>9. CASE \E w \in Vault : \E shares \in WithdrawAmounts : WithdrawCollateral(w, shares)
  <2>1. PICK w \in Vault, shares \in WithdrawAmounts : WithdrawCollateral(w, shares)
    BY <1>9
  <2>2. UNCHANGED mintRequests
    BY <2>1 DEF WithdrawCollateral, mintVars
  <2>3. CASE w # v
    BY <1>1, <1>6, <2>1, <2>2, <2>3 DEF WithdrawCollateral
  <2>4. CASE w = v
    <3>1. PICK out \in Nat : out = NormFromRaw(RawFromNorm(shares))
      BY AmountsAssumption, RawOfNorm
    <3>2. W = [V EXCEPT !.collateralShares = V.collateralShares - out]
      BY <1>1, <1>2, <2>1, <2>4, <3>1 DEF WithdrawCollateral
    <3>3. /\ W.debt = V.debt /\ W.pendingDebt = V.pendingDebt /\ W.threshold = V.threshold
          /\ W.lockedCollateral = V.lockedCollateral
          /\ W.collateralShares = V.collateralShares - out
      BY <3>2 DEF GoodVault, VaultRecord
    <3>4. /\ V.collateralShares - V.lockedCollateral >= out
          /\ V.debt + V.pendingDebt > 0 => CoverageOk(W, V.debt + V.pendingDebt)
      BY <1>2, <2>1, <2>4, <3>1, <3>2 DEF WithdrawCollateral
    <3>5. W.lockedCollateral <= W.collateralShares
      BY <1>3, <3>1, <3>3, <3>4
    <3>6. FreeCollateral(W) >= RequiredCollateral(W.debt + W.pendingDebt, W.threshold)
      <4>1. CASE V.debt + V.pendingDebt > 0
        BY <3>3, <3>4, <4>1 DEF CoverageOk
      <4>2. CASE V.debt + V.pendingDebt = 0
        <5>1. RequiredCollateral(0, V.threshold) = 0
          BY <1>3, NothingRequired
        <5>2. FreeCollateral(W) \in Nat
          BY PricesNat, VaultFields
        <5>3. QED BY <3>3, <4>2, <5>1, <5>2
      <4>3. QED BY <1>3, <4>1, <4>2
    <3>7. QED BY <1>1, <1>2, <1>3, <1>4, <2>2, <3>3, <3>5, <3>6, FreeCovers
  <2>5. QED BY <2>3, <2>4
<1>10. CASE \E w \in Vault :
        \/ \E amount \in DepositAmounts : DepositCollateral(w, amount)
        \/ \E amount \in RepayAmounts : RepayDebt(w, amount)
  <2>1. PICK w \in Vault : \/ \E amount \in DepositAmounts : DepositCollateral(w, amount)
                           \/ \E amount \in RepayAmounts : RepayDebt(w, amount)
    BY <1>10
  <2>2. UNCHANGED mintRequests
    BY <2>1 DEF DepositCollateral, RepayDebt, mintVars
  <2>3. CASE w # v
    BY <1>1, <1>6, <2>1, <2>2, <2>3 DEF DepositCollateral, RepayDebt
  <2>4. ASSUME NEW amount \in DepositAmounts, DepositCollateral(v, amount)
        PROVE  Covered(v)'
    <3>1. PICK bond \in Nat, got \in Nat : bond = vaultKicks[v].bond /\ got = NormFromRaw(amount)
      BY <1>1, KickFields, AmountsAssumption, PricesNat
    <3>2. PICK x \in Nat : vaults' = [vaults EXCEPT ![v].collateralShares = @ + x + got]
      BY <2>4, <3>1 DEF DepositCollateral
    <3>3. PICK c \in Nat : c = V.collateralShares + x + got
      BY <1>3
    <3>4. W = [V EXCEPT !.collateralShares = c]
      BY <1>1, <1>2, <3>2, <3>3
    <3>5. W.debt = V.debt /\ W.pendingDebt = V.pendingDebt /\ W.collateralShares = c
      BY <3>4 DEF GoodVault, VaultRecord
    <3>6. W.debt <= V.debt /\ W.collateralShares >= V.collateralShares
      BY <1>3, <3>3, <3>5
    <3>7. QED BY <1>5, <2>2, <3>5, <3>6
  <2>5. ASSUME NEW amount \in RepayAmounts, RepayDebt(v, amount)
        PROVE  Covered(v)'
    <3>1. PICK bond \in Nat, paid \in Nat :
            /\ bond = vaultKicks[v].bond
            /\ paid = Smaller(amount, V.debt) /\ paid <= V.debt
      BY <1>1, <1>3, KickFields, AmountsAssumption, MonusNat
    <3>2. PICK x \in Nat :
            vaults' = [vaults EXCEPT ![v].collateralShares = @ + x, ![v].debt = @ - paid]
      BY <1>2, <2>5, <3>1 DEF RepayDebt
    <3>3. PICK c \in Nat, d \in Nat : c = V.collateralShares + x /\ d = V.debt - paid
      BY <1>3, <3>1
    <3>4. PICK U : U = [V EXCEPT !.collateralShares = c]
      OBVIOUS
    <3>5. W = [U EXCEPT !.debt = d]
      BY <1>1, <1>2, <3>2, <3>3, <3>4 DEF GoodVault, VaultRecord
    <3>6. W.debt = d /\ W.pendingDebt = V.pendingDebt /\ W.collateralShares = c
      BY <3>4, <3>5 DEF GoodVault, VaultRecord
    <3>7. W.debt <= V.debt /\ W.collateralShares >= V.collateralShares
      BY <1>3, <3>1, <3>3, <3>6
    <3>8. QED BY <1>5, <2>2, <3>6, <3>7
  <2>6. QED BY <2>1, <2>3, <2>4, <2>5
<1>11. CASE \E w \in Vault :
        \/ \E x \in Thresholds : SetThreshold(w, x)
        \/ \E x \in MaxMints : SetMaxMintWsxmr(w, x)
        \/ \E x \in GriefingDeposits : SetMintGriefingDeposit(w, x)
        \/ \E x \in MinBurns : SetMinBurnAmount(w, x)
        \/ \E x \in Timeouts : SetMintTimeoutBlocks(w, x) \/ SetBurnTimeoutBlocks(w, x)
        \/ \E x \in MintFees, y \in BurnRewards : SetVaultMarketMetrics(w, x, y)
  <2>1. PICK w \in Vault :
          /\ ConfigUnchanged
          /\ \E U : /\ vaults' = [vaults EXCEPT ![w] = U] /\ KeepsHolds(vaults[w], U)
                    /\ U.debt = vaults[w].debt
                    /\ U.collateralShares = vaults[w].collateralShares
    BY <1>1, <1>11, QuoteMade
  <2>2. UNCHANGED mintRequests
    BY <2>1 DEF ConfigUnchanged, mintVars
  <2>3. CASE w # v
    BY <1>1, <1>6, <2>1, <2>2, <2>3
  <2>4. CASE w = v
    <3>1. W.debt = V.debt /\ W.pendingDebt = V.pendingDebt
          /\ W.collateralShares = V.collateralShares
      BY <1>1, <1>2, <2>1, <2>4 DEF KeepsHolds
    <3>2. QED BY <1>3, <1>5, <2>2, <3>1
  <2>5. QED BY <2>3, <2>4
<1>12. CASE \/ \E w \in Vault : \E minters \in Whitelists, whitelisted \in BOOLEAN :
                 SetMinterWhitelist(w, minters, whitelisted)
            \/ \E a \in Account : WithdrawCollateralReturns(a) \/ WithdrawEthReturns(a)
  <2>1. UNCHANGED <<vaults, mintRequests>>
    BY <1>12 DEF SetMinterWhitelist, WithdrawCollateralReturns, WithdrawEthReturns, mintVars
  <2>2. QED BY <1>1, <1>6, <2>1
<1>13. QED BY <1>7, <1>8, <1>9, <1>10, <1>11, <1>12 DEF VaultNext

\* A mint that keys, completes or ends takes what its vault can spare: the bond of a mint
\* still to be keyed is checked, and what a silent LP loses was bonded.
LEMMA MintCovers ==
  ASSUME LockInv, TypeInv', MintNext, NEW v \in Intact, Covered(v)
  PROVE  Covered(v)'
<1>1. /\ TypeInv /\ MintsFresh /\ SoundVault(v) /\ v \in Vault
      /\ vaults \in [Vault -> GoodVault] /\ vaults' \in [Vault -> GoodVault]
  BY DEF LockInv, LockFacts, LedgerInv, LedgerFacts, BurnListInv, TypeInv, Intact
<1>2. CASE \E u \in Minters, recipient \in Recipients, w \in Vault,
              amount \in MintAmounts, value \in EthValues :
                InitiateMint(u, recipient, w, amount, value)
  <2>1. PICK r, q :
          /\ r \in ReqId
          /\ mintRequests[r].status = "INVALID"
          /\ mintRequests' = [mintRequests EXCEPT ![r] = q]
          /\ q.status = "PENDING"
    BY <1>1, <1>2, MintRequested
  <2>2. PICK m : m = mintRequests[r]
    OBVIOUS
  <2>3. /\ MintLocks(v)' + Part(MintOf(m, v, MintBonded), m.lockedCollateral)
             = MintLocks(v) + Part(MintOf(q, v, MintBonded), q.lockedCollateral)
        /\ MintLocks(v) \in Nat /\ MintLocks(v)' \in Nat
    <3>1. /\ r \in ReqId /\ m = mintRequests[r]
          /\ mintRequests' = [mintRequests EXCEPT ![r] = q]
          /\ TypeInv /\ v \in Vault
      BY <1>1, <2>1, <2>2
    <3>2. QED BY <3>1, MintsMove DEF Part, MintOf
  <2>4. Part(MintOf(m, v, MintBonded), m.lockedCollateral) = 0
        /\ Part(MintOf(q, v, MintBonded), q.lockedCollateral) = 0
    BY <2>1, <2>2 DEF Part, MintOf, MintBonded, MintLive
  <2>5. MintLocks(v)' = MintLocks(v)
    BY <2>3, <2>4
  <2>6. vaults'[v] = vaults[v]
    BY <1>2 DEF InitiateMint
  <2>7. QED BY <1>1, <2>5, <2>6, SameCovers
<1>3. CASE \E r \in ReqId : MintAction(r)
  <2>1. PICK r \in ReqId, m \in GoodMint, q \in GoodMint, V \in GoodVault, W \in GoodVault :
          /\ MintStep(r, m, q, V, W) /\ MintBooks(m, q, V, W)
          /\ MintUnchanged
    BY <1>1, <1>3, MintActionBooks
  <2>2. /\ m = mintRequests[r] /\ m.status # "INVALID" /\ V = vaults[m.lpVault]
        /\ mintRequests' = [mintRequests EXCEPT ![r] = q]
        /\ vaults' = [vaults EXCEPT ![m.lpVault] = W]
        /\ q.lpVault = m.lpVault /\ W.threshold = V.threshold
    BY <2>1 DEF MintStep, SameMint, SameTerms
  <2>3. /\ MintLocks(v)' + Part(MintOf(m, v, MintBonded), m.lockedCollateral)
             = MintLocks(v) + Part(MintOf(q, v, MintBonded), q.lockedCollateral)
        /\ MintLocks(v) \in Nat /\ MintLocks(v)' \in Nat
    <3>1. /\ m = mintRequests[r] /\ mintRequests' = [mintRequests EXCEPT ![r] = q]
          /\ TypeInv /\ v \in Vault
      BY <1>1, <2>2
    <3>2. QED BY <3>1, MintsMove DEF Part, MintOf
  <2>4. CASE m.lpVault # v
    <3>1. Part(MintOf(m, v, MintBonded), m.lockedCollateral) = 0
          /\ Part(MintOf(q, v, MintBonded), q.lockedCollateral) = 0
      BY <2>2, <2>4 DEF Part, MintOf
    <3>2. MintLocks(v)' = MintLocks(v)
      BY <2>3, <3>1
    <3>3. vaults'[v] = vaults[v]
      BY <1>1, <2>2, <2>4
    <3>4. QED BY <1>1, <3>2, <3>3, SameCovers
  <2>5. CASE m.lpVault = v
    <3>1. V = vaults[v] /\ W = vaults'[v]
      BY <1>1, <2>2, <2>5
    <3>2. PICK x \in Nat, y \in Nat, K \in Nat, L \in Nat :
            /\ x = Part(m.status \in MintBonded, m.lockedCollateral)
            /\ y = Part(q.status \in MintBonded, q.lockedCollateral)
            /\ K = MintLocks(v) /\ L = MintLocks(v)'
            /\ L + x = K + y
      <4>1. m.lockedCollateral \in Nat /\ q.lockedCollateral \in Nat
        BY DEF GoodMint, MintRecord
      <4>2. /\ MintOf(m, v, MintBonded) <=> m.status \in MintBonded
            /\ MintOf(q, v, MintBonded) <=> q.status \in MintBonded
        BY <2>2, <2>5 DEF MintOf
      <4>3. /\ Part(m.status \in MintBonded, m.lockedCollateral) \in Nat
            /\ Part(q.status \in MintBonded, q.lockedCollateral) \in Nat
            /\ MintLocks(v)' + Part(m.status \in MintBonded, m.lockedCollateral)
                 = MintLocks(v) + Part(q.status \in MintBonded, q.lockedCollateral)
        BY <2>3, <4>1, <4>2 DEF Part
      <4>4. QED BY <2>3, <4>3
    <3>3. V.collateralShares \in Nat /\ V.threshold \in Nat /\ W.collateralShares \in Nat
      BY VaultFields
    <3>4. CostBooks(m, q, V, W)
      BY <2>1 DEF MintBooks
    <3>5. \/ /\ W.debt + W.pendingDebt <= V.debt + V.pendingDebt
             /\ V.collateralShares + y <= W.collateralShares + x
          \/ V.lockedCollateral <= V.collateralShares =>
               FreeCollateral(W) >= RequiredCollateral(W.debt + W.pendingDebt, W.threshold)
      BY <3>2, <3>4 DEF CostBooks
    <3>6. CASE /\ W.debt + W.pendingDebt <= V.debt + V.pendingDebt
               /\ V.collateralShares + y <= W.collateralShares + x
      <4>1. V.collateralShares + L <= W.collateralShares + K
        BY <3>2, <3>3, <3>6
      <4>2. W.threshold <= V.threshold
        BY <2>2, <3>3
      <4>3. QED BY <1>1, <3>1, <3>2, <3>6, <4>1, <4>2, StaysCovered
    <3>7. CASE V.lockedCollateral <= V.collateralShares =>
                 FreeCollateral(W) >= RequiredCollateral(W.debt + W.pendingDebt, W.threshold)
      <4>1. V.lockedCollateral <= V.collateralShares
        BY <1>1, <3>1 DEF SoundVault
      <4>2. UNCHANGED <<vaultKicks, vaultFrozen, backstopped, burnRequests>>
        BY <2>1 DEF MintUnchanged, kickVars, burnVars
      <4>3. SoundVault(v)'
        BY <2>1, <4>2, MintStepSound
      <4>4. /\ W.lockedCollateral = L + BurnLocks(v)'
            /\ W.lockedCollateral <= W.collateralShares
        BY <3>1, <3>2, <4>3 DEF SoundVault
      <4>5. BurnLocks(v)' = BurnLocks(v) /\ BurnLocks(v) \in Nat
        BY <1>1, <4>2, HoldsSame, HoldsNat
      <4>6. L <= W.lockedCollateral
        BY <3>2, <4>4, <4>5
      <4>7. QED BY <1>1, <3>1, <3>2, <3>7, <4>1, <4>4, <4>6, FreeCovers
    <3>8. QED BY <3>5, <3>6, <3>7
  <2>6. QED BY <2>4, <2>5
<1>4. QED BY <1>2, <1>3 DEF MintNext, MintAction

\* A slashed burn takes its par, at a threshold the vault has not gone below, and clears
\* the debt it is of.
LEMMA BurnCovers ==
  ASSUME LockInv, TypeInv', BurnNext, NEW v \in Intact, Covered(v), PricedIn(v)
  PROVE  Covered(v)'
<1>1. /\ BurnListInv /\ AbandonedCancelled /\ TypeInv /\ v \in Vault
      /\ vaults \in [Vault -> GoodVault] /\ vaults' \in [Vault -> GoodVault]
  BY DEF LockInv, LockFacts, LedgerInv, LedgerFacts, BurnListInv, TypeInv, Intact
<1>2. PICK r \in ReqId, b \in GoodBurn, c \in GoodBurn, V \in GoodVault, W \in GoodVault :
        BurnStep(r, b, c, V, W) /\ BurnBooks(r, b, c, V, W)
  <2>1. CASE \E r \in ReqId : BurnAction(r)
    BY <1>1, <2>1, BurnActionBooks
  <2>2. CASE \E u \in Burners, w \in Vault, amount \in BurnAmounts : RequestBurn(u, w, amount)
    BY <1>1, <2>2, RequestBurnBooks
  <2>3. QED BY <2>1, <2>2 DEF BurnNext, BurnAction
<1>3. UNCHANGED mintRequests
  <2>1. CASE \E q \in ReqId : BurnAction(q)
    <3>1. BurnUnchanged
      BY <1>1, <2>1, BurnActionBooks
    <3>2. QED BY <3>1 DEF BurnUnchanged, mintVars
  <2>2. CASE \E u \in Burners, w \in Vault, amount \in BurnAmounts : RequestBurn(u, w, amount)
    BY <2>2 DEF RequestBurn, mintVars
  <2>3. QED BY <2>1, <2>2 DEF BurnNext, BurnAction
<1>4. PICK K \in Nat : K = MintLocks(v) /\ MintLocks(v)' = K
  BY <1>1, <1>3, HoldsSame, HoldsNat
<1>5. /\ b = burnRequests[r] /\ V = vaults[c.lpVault] /\ vaults' = [vaults EXCEPT ![c.lpVault] = W]
      /\ W.threshold = V.threshold /\ W.pendingDebt = V.pendingDebt
      /\ b.status # "INVALID" => c.lpVault = b.lpVault
  BY <1>2 DEF BurnStep, SameTerms, SameBurn
<1>6. CASE c.lpVault # v
  BY <1>1, <1>4, <1>5, <1>6, SameCovers
<1>7. CASE c.lpVault = v
  <2>1. V = vaults[v] /\ W = vaults'[v]
    BY <1>1, <1>5, <1>7
  <2>2. /\ V.collateralShares \in Nat /\ V.threshold \in Nat /\ W.collateralShares \in Nat
        /\ V.debt \in Nat /\ W.debt \in Nat /\ V.pendingDebt \in Nat
    BY VaultFields
  <2>3. W.debt <= V.debt /\ BurnCostBooks(b, V, W)
    BY <1>2 DEF BurnBooks, BurnDebtBooks
  <2>4. CASE V.collateralShares = W.collateralShares
    <3>1. /\ V.collateralShares + K <= W.collateralShares + K
          /\ W.debt + W.pendingDebt <= V.debt + V.pendingDebt
          /\ W.threshold <= V.threshold
      BY <1>5, <2>2, <2>3, <2>4
    <3>2. QED BY <1>1, <1>4, <2>1, <3>1, StaysCovered
  <2>5. CASE /\ Active(b)
             /\ V.collateralShares
                  <= W.collateralShares + ParCollateral(b.wsxmrAmount, b.thresholdAtRequest)
             /\ b.wsxmrAmount <= V.debt => V.debt = W.debt + b.wsxmrAmount
    <3>1. r \in BurnsOf(v)
      BY <1>5, <1>7, <2>5 DEF Active, ActiveBurn, BurnsOf
    <3>2. PICK t \in Nat, a \in Nat :
            t = b.thresholdAtRequest /\ a = b.wsxmrAmount /\ t <= V.threshold /\ a <= V.debt
      <4>1. b.thresholdAtRequest <= V.threshold /\ b.wsxmrAmount <= V.debt
        BY <1>5, <2>1, <3>1 DEF PricedIn
      <4>2. b.thresholdAtRequest \in Nat /\ b.wsxmrAmount \in Nat
        BY <2>5, BurnFields DEF Active, ActiveBurn
      <4>3. QED BY <4>1, <4>2
    <3>3. PICK o \in Nat : o = W.debt + W.pendingDebt /\ V.debt + V.pendingDebt = o + a
      BY <1>5, <2>2, <2>5, <3>2
    <3>4. PICK p \in Nat, g \in Nat, f \in Nat :
            /\ p = RequiredCollateral(o, V.threshold) /\ g = ParCollateral(a, t)
            /\ f = RequiredCollateral(o + a, V.threshold)
      <4>1. PICK s \in Nat : s = o + a
        BY <3>2, <3>3
      <4>2. RequiredCollateral(o, V.threshold) \in Nat /\ ParCollateral(a, t) \in Nat
            /\ RequiredCollateral(s, V.threshold) \in Nat
        BY <2>2, <3>2, <3>3, PricesNat
      <4>3. QED BY <4>1, <4>2
    <3>5. p + g <= f
      BY <2>2, <3>2, <3>3, <3>4, ParReleased
    <3>6. V.collateralShares - K >= f
      BY <1>4, <2>1, <3>3, <3>4 DEF Covered
    <3>7. V.collateralShares <= W.collateralShares + g
      BY <2>5, <3>2, <3>4
    <3>8. W.collateralShares - K >= p
      BY <1>4, <2>2, <3>4, <3>5, <3>6, <3>7
    <3>9. QED BY <1>4, <1>5, <2>1, <3>3, <3>4, <3>8 DEF Covered
  <2>6. QED BY <2>3, <2>4, <2>5 DEF BurnCostBooks
<1>8. QED BY <1>6, <1>7

\* An auction that opens, or settles, is a new one; who absorbs a vault covers both.
LEMMA AuctionCovers ==
  ASSUME LockInv, TypeInv', AuctionNext, NEW v \in Intact, Covered(v),
         vaults'[v].liquidationNonce = vaults[v].liquidationNonce,
         ~vaultKicks[v].auctionOpened
  PROVE  Covered(v)'
<1>1. /\ TypeInv /\ SoundVault(v) /\ v \in Vault
      /\ vaults \in [Vault -> GoodVault] /\ vaults' \in [Vault -> GoodVault]
  BY DEF LockInv, LockFacts, LedgerInv, BurnListInv, TypeInv, Intact
<1>2. UNCHANGED mintRequests
  <2>1. KickUnchanged
    BY DEF AuctionNext, Kick, Reauction, OpenAuction, ResolveKick, Bid, BackstopVault
  <2>2. QED BY <2>1 DEF KickUnchanged, mintVars
<1>3. PICK K \in Nat : K = MintLocks(v) /\ MintLocks(v)' = K
  BY <1>1, <1>2, HoldsSame, HoldsNat
<1>4. vaults'[v] = vaults[v] => Covered(v)'
  BY <1>1, <1>3, SameCovers
<1>5. CASE \E kicker \in Kickers, w \in Vault : Kick(kicker, w) \/ Reauction(kicker, w)
  BY <1>1, <1>4, <1>5 DEF Kick, Reauction, StartKick
<1>6. CASE \E w \in Vault : \/ OpenAuction(w) \/ ResolveKick(w)
                            \/ \E bidder \in Bidders : Bid(bidder, w)
  <2>1. PICK w \in Vault : \/ OpenAuction(w) \/ ResolveKick(w)
                           \/ \E bidder \in Bidders : Bid(bidder, w)
    BY <1>6
  <2>2. \E U : /\ vaults' = [vaults EXCEPT ![w] = U]
              /\ U.liquidationNonce = OpenedVault(w).liquidationNonce
    <3>1. PICK O \in GoodVault : O = OpenedVault(w)
      BY <1>1, OpenedVaultGood
    <3>2. CASE OpenAuction(w) \/ ResolveKick(w)
      BY <3>2 DEF OpenAuction, ResolveKick
    <3>3. CASE \E bidder \in Bidders : Bid(bidder, w)
      <4>1. PICK c, d :
              \/ vaults' = [vaults EXCEPT ![w] = [O EXCEPT !.collateralShares = c]]
              \/ vaults' = [vaults EXCEPT ![w] = [O EXCEPT !.collateralShares = c, !.debt = d]]
        BY <3>1, <3>3 DEF Bid, BidNothingOwed, BidWhole
      <4>2. PICK U : /\ vaults' = [vaults EXCEPT ![w] = U]
                     /\ \/ U = [O EXCEPT !.collateralShares = c]
                        \/ U = [O EXCEPT !.collateralShares = c, !.debt = d]
        BY <4>1
      <4>3. U.liquidationNonce = O.liquidationNonce
        BY <4>2 DEF GoodVault, VaultRecord
      <4>4. QED BY <3>1, <4>2, <4>3
    <3>4. QED BY <2>1, <3>2, <3>3
  <2>3. CASE w # v
    BY <1>1, <1>4, <2>2, <2>3
  <2>4. CASE w = v
    <3>1. vaults'[v].liquidationNonce = OpenedVault(v).liquidationNonce
      BY <1>1, <2>2, <2>4
    <3>2. PICK V \in GoodVault : V = vaults[v]
      BY <1>1
    <3>3. OpenedVault(v).liquidationNonce = V.liquidationNonce + 1
      BY <1>1, <3>2, OpenedFields
    <3>4. PICK n \in Nat : n = V.liquidationNonce
      BY VaultFields
    <3>5. n = n + 1
      <4>1. vaults'[v].liquidationNonce = V.liquidationNonce
        BY <3>2
      <4>2. QED BY <3>1, <3>3, <3>4, <4>1
    <3>6. QED BY <3>5
  <2>5. QED BY <2>3, <2>4
<1>7. CASE \E old \in Vault, new \in Backstoppers : BackstopVault(old, new)
  <2>1. PICK old \in Vault, new \in Backstoppers, W \in GoodVault, N \in GoodVault,
             P \in GoodVault, Q \in GoodVault :
          BackstopMoves(old, new, W, N, P, Q)
    BY <1>1, <1>7, BackstopMade
  <2>2. /\ new \in Vault /\ new # old /\ N = vaults[new]
        /\ vaults' = [vaults EXCEPT ![new] = P, ![old] = Q]
        /\ Q.liquidationNonce > vaults[old].liquidationNonce
        /\ P.lockedCollateral = N.lockedCollateral
        /\ P.collateralShares = N.collateralShares + W.collateralShares
        /\ FreeCollateral(P) >= RequiredCollateral(P.debt + P.pendingDebt, P.threshold)
    BY <2>1 DEF BackstopMoves
  <2>3. /\ vaults'[new] = P /\ vaults'[old] = Q
        /\ v # new /\ v # old => vaults'[v] = vaults[v]
    BY <1>1, <2>2
  <2>4. CASE v # new /\ v # old
    BY <1>4, <2>3, <2>4
  <2>5. CASE v = old
    <3>1. PICK V \in GoodVault, n \in Nat :
            V = vaults[v] /\ n = V.liquidationNonce /\ n = Q.liquidationNonce
      BY <1>1, <2>3, <2>5, VaultFields
    <3>2. QED BY <2>2, <2>5, <3>1
  <2>6. CASE v = new
    <3>1. /\ N.lockedCollateral = K + BurnLocks(v) /\ BurnLocks(v) \in Nat
          /\ N.lockedCollateral <= N.collateralShares
      BY <1>1, <1>3, <2>2, <2>6, HoldsNat DEF SoundVault
    <3>2. /\ N.lockedCollateral \in Nat /\ N.collateralShares \in Nat
          /\ W.collateralShares \in Nat
      BY VaultFields
    <3>3. K <= P.lockedCollateral /\ P.lockedCollateral <= P.collateralShares
      BY <1>3, <2>2, <3>1, <3>2
    <3>4. QED BY <1>1, <1>3, <2>2, <2>3, <2>6, <3>3, FreeCovers
  <2>7. QED BY <2>4, <2>5, <2>6
<1>8. QED BY <1>5, <1>6, <1>7 DEF AuctionNext

\* Only its LP's threshold uncovers a covered vault.
THEOREM CoverageStays == Spec => CoverageKept
<1>1. LockInv /\ LockInv' /\ [Next]_vars =>
        [\A v \in Intact :
           (/\ Covered(v) /\ PricedIn(v)
            /\ vaults'[v].threshold <= vaults[v].threshold
            /\ vaults'[v].liquidationNonce = vaults[v].liquidationNonce
            /\ ~vaultKicks[v].auctionOpened) => Covered(v)']_vars
  <2> SUFFICES ASSUME LockInv, LockInv', [Next]_vars, NEW v \in Intact,
                      Covered(v), PricedIn(v),
                      vaults'[v].threshold <= vaults[v].threshold,
                      vaults'[v].liquidationNonce = vaults[v].liquidationNonce,
                      ~vaultKicks[v].auctionOpened
               PROVE  Covered(v)'
    OBVIOUS
  <2>1. TypeInv /\ TypeInv' /\ v \in Vault
    BY DEF LockInv, LedgerInv, BurnListInv, Intact
  <2>2. CASE TokenNext \/ Tick \/ UNCHANGED vars
    <3>1. UNCHANGED <<vaults, mintRequests>>
      BY <2>2 DEF TokenNext, Transfer, Tick, vars, mintVars
    <3>2. MintLocks(v)' = MintLocks(v)
      BY <3>1, HoldsSame
    <3>3. QED BY <2>1, <3>1, <3>2, SameCovers
  <2>3. QED BY <2>1, <2>2, VaultCovers, MintCovers, BurnCovers, AuctionCovers DEF Next
<1>2. QED BY <1>1, LockInvariant, PTL DEF Spec, CoverageKept
=============================================================================
