-------------------------------- MODULE CoLP --------------------------------
(***************************************************************************)
(* Co-LP positions (CoLPFacet.sol, wsXMRLiquidityRouter.sol): a user's     *)
(* wsXMR and a vault's idle collateral in one position of the pool.  The   *)
(* legs count towards the vault's coverage, and an auction unwinds them.   *)
(* Collateral is in whole units, the threshold is fixed, a vault's minted  *)
(* debt is one number, and kicks, bids and backstops do what they do in    *)
(* LiquidationAuctionFacet, without the kicker's bond.                     *)
(***************************************************************************)
EXTENDS Naturals, FiniteSetsExt

CONSTANTS CoVault, CoUser,
          Positions,                         \* the positions that live at once, their ids
          NoOne,
          Threshold, KeeperShare,            \* a keeper gets one KeeperShare-th
          MaxLeg, MaxReturns, MaxShares, MaxDebt   \* bound the instance

CoAccount == CoVault \cup CoUser

ASSUME CoLPAssumption ==
  /\ NoOne \notin CoAccount /\ CoVault \cap CoUser = {}
  /\ IsFiniteSet(CoAccount) /\ IsFiniteSet(Positions)
  /\ Threshold \in Nat /\ KeeperShare \in Nat \ {0}
  /\ MaxLeg \in Nat /\ MaxReturns \in Nat /\ MaxShares \in Nat /\ MaxDebt \in Nat

VARIABLES covault,    \* per vault: its collateral, debt, deployed legs, kick
          meta,       \* _positionMetadata
          held,       \* _vaultPositions and _userPositions
          pool,       \* what a position holds now, fees included
          returns,    \* pendingReturns
          hub         \* what the hub holds for these vaults and the returns

coLPVars == <<covault, meta, held, pool, returns, hub>>

NoPosition == [owner |-> NoOne, user |-> NoOne, coll |-> 0, ws |-> 0]
EmptyPool == [coll |-> 0, ws |-> 0, inRange |-> TRUE]
\* An id the pool has given to no live position.
FreshIds == LET unused == {t \in Positions : meta[t].owner = NoOne} IN
            IF unused = {} THEN {} ELSE {CHOOSE t \in unused : TRUE}
Live(v) == {t \in Positions : meta[t].owner = v}

FloorMinus(a, b) == IF a >= b THEN a - b ELSE 0
Free(V) == FloorMinus(V.shares, V.locked)
\* Mutant: a frozen vault is not blocked.
UnblockedFrozen(v) == covault[v].kick = "none"

\* vaultNotBlocked.
Unblocked(v) == covault[v].kick = "none" /\ ~covault[v].frozen
\* What the positions of S hold, and the legs noted for them.
Collateral(S) == SumFunctionOnSet([t \in Positions |-> pool[t].coll], S)
Wsxmr(S) == SumFunctionOnSet([t \in Positions |-> pool[t].ws], S)
CollateralLegs(S) == SumFunctionOnSet([t \in Positions |-> meta[t].coll], S)
WsxmrLegs(S) == SumFunctionOnSet([t \in Positions |-> meta[t].ws], S)

\* Backing and debt with the legs the vault has noted (_coverageOk and
\* _requireThresholdCoverage).
Covers(V) == Free(V) + V.deployedCollateral >= Threshold * FloorMinus(V.debt, V.deployedWsxmr)

-----------------------------------------------------------------------------
(* The pool. *)

\* mintConcentratedPosition: around the price both legs are used, one in full.
Consumed(c, w) == {p \in (1..c) \X (1..w) : p[1] = c \/ p[2] = w}

\* Trades, and the fees they leave, change what a position holds.  Out of its
\* range it is in one token, but for the fees.  What it is worth, c + w, stays
\* within a bound.
PriceMoves(t) ==
  /\ meta[t].owner # NoOne
  /\ \E c, w \in 0..MaxLeg, r \in BOOLEAN :
       /\ c + w \in 2..(MaxLeg + 1) /\ (r => c > 0 /\ w > 0)
       /\ pool' = [pool EXCEPT ![t] = [coll |-> c, ws |-> w, inRange |-> r]]
  /\ UNCHANGED <<covault, meta, held, returns, hub>>

-----------------------------------------------------------------------------
(* Positions. *)

\* Mutant: locked collateral is idle too.
IdleCollateralAll(V) == V.shares

IdleCollateral(V) == Free(V)

\* The position t of v and u with the legs <<c, w>>.
Opens(t, v, u, legs) ==
  /\ meta' = [meta EXCEPT ![t] = [owner |-> v, user |-> u, coll |-> legs[1], ws |-> legs[2]]]
  /\ pool' = [pool EXCEPT ![t] = [coll |-> legs[1], ws |-> legs[2], inRange |-> TRUE]]

\* The vault pays from its idle collateral, what the pool does not take comes
\* back: the collateral to the vault, the wsXMR to the user's returns.
UserOpenCoLP(u, v, t, c, w) ==
  LET V == covault[v] IN
  /\ Unblocked(v) /\ t \in FreshIds
  /\ IdleCollateral(V) >= c
  /\ \E legs \in Consumed(c, w) :
       LET opened == [V EXCEPT !.shares = @ - c + (c - legs[1]),
                               !.deployedCollateral = @ + legs[1],
                               !.deployedWsxmr = @ + legs[2]] IN
       /\ Covers(opened)
       /\ covault' = [covault EXCEPT ![v] = opened]
       /\ Opens(t, v, u, legs)
       /\ returns' = [returns EXCEPT ![u].ws = @ + (w - legs[2])]
       /\ hub' = [hub EXCEPT !.coll = @ - legs[1], !.ws = @ + (w - legs[2])]
       /\ held' = [held EXCEPT ![v] = @ \cup {t}, ![u] = @ \cup {t}]

\* The fees accrued: collateral to the vault's owner, wsXMR to the user.
CollectCoLPFees(t, c, w) ==
  /\ meta[t].owner # NoOne /\ c + w > 0
  /\ returns' = [returns EXCEPT ![meta[t].owner].coll = @ + c, ![meta[t].user].ws = @ + w]
  /\ hub' = [hub EXCEPT !.coll = @ + c, !.ws = @ + w]
  /\ UNCHANGED <<covault, meta, held, pool>>

\* The positions S closed: both noted legs of the vault go down.
WithoutLegs(V, S) ==
  [V EXCEPT !.deployedCollateral = FloorMinus(@, CollateralLegs(S)),
            !.deployedWsxmr = FloorMinus(@, WsxmrLegs(S))]

\* drainPosition of every position of S: what they hold comes to the hub, but for
\* what is paid out, the users' wsXMR is theirs, and the positions are gone from
\* metadata and arrays.
Drain(S, paid) ==
  /\ meta' = [t \in Positions |-> IF t \in S THEN NoPosition ELSE meta[t]]
  /\ pool' = [t \in Positions |-> IF t \in S THEN EmptyPool ELSE pool[t]]
  /\ held' = [a \in CoAccount |-> held[a] \ S]
  /\ returns' = [a \in CoAccount |->
                   [returns[a] EXCEPT !.ws = @ + Wsxmr({t \in S : meta[t].user = a})]]
  /\ hub' = [hub EXCEPT !.coll = @ + Collateral(S) - paid, !.ws = @ + Wsxmr(S)]

\* unwindCoLP, by the vault's owner or the user.
UnwindCoLP(t) ==
  LET v == meta[t].owner
      V == WithoutLegs(covault[v], {t}) IN
  /\ v # NoOne /\ Unblocked(v)
  /\ covault' = [covault EXCEPT ![v] = [V EXCEPT !.shares = @ + pool[t].coll]]
  /\ Drain({t}, 0)

\* The vault's owner at any time, anyone when the price has left the range.
MayRebalance(t, caller) ==
  Unblocked(meta[t].owner) /\ (caller = meta[t].owner \/ ~pool[t].inRange)

KeeperFee(t, caller) ==
  IF caller = meta[t].owner THEN 0 ELSE pool[t].coll \div KeeperShare

\* Both tokens left: a new position around the price, without a look at the coverage.
RebalanceInto(t, t2, caller) ==
  LET v == meta[t].owner
      u == meta[t].user
      V == WithoutLegs(covault[v], {t})
      c == pool[t].coll - KeeperFee(t, caller)
      w == pool[t].ws IN
  /\ meta[t].owner # NoOne /\ t2 \in FreshIds
  /\ MayRebalance(t, caller) /\ c > 0 /\ w > 0
  /\ \E legs \in Consumed(c, w) :
       /\ covault' = [covault EXCEPT ![v] =
            [V EXCEPT !.shares = @ + (c - legs[1]),
                      !.deployedCollateral = @ + legs[1],
                      !.deployedWsxmr = @ + legs[2]]]
       /\ meta' = [meta EXCEPT ![t] = NoPosition,
                     ![t2] = [owner |-> v, user |-> u, coll |-> legs[1], ws |-> legs[2]]]
       /\ pool' = [pool EXCEPT ![t] = EmptyPool,
                     ![t2] = [coll |-> legs[1], ws |-> legs[2], inRange |-> TRUE]]
       /\ returns' = [returns EXCEPT ![u].ws = @ + (w - legs[2])]
       /\ hub' = [hub EXCEPT !.coll = @ + (c - legs[1]), !.ws = @ + (w - legs[2])]
       /\ held' = [held EXCEPT ![v] = (@ \ {t}) \cup {t2}, ![u] = (@ \ {t}) \cup {t2}]

\* One token left: the position is closed.
RebalanceCloses(t, caller) ==
  LET v == meta[t].owner
      V == WithoutLegs(covault[v], {t})
      fee == KeeperFee(t, caller) IN
  /\ v # NoOne /\ MayRebalance(t, caller)
  /\ pool[t].coll = fee \/ pool[t].ws = 0
  /\ covault' = [covault EXCEPT ![v] = [V EXCEPT !.shares = @ + (pool[t].coll - fee)]]
  /\ Drain({t}, fee)

-----------------------------------------------------------------------------
(* The vault. *)

\* A deposit in the grace period of a kick cancels it.
DepositCollateral(v) ==
  /\ covault' = [covault EXCEPT ![v].shares = @ + 1,
                                ![v].kick = IF @ = "grace" THEN "none" ELSE @]
  /\ hub' = [hub EXCEPT !.coll = @ + 1]
  /\ UNCHANGED <<meta, held, pool, returns>>

WithdrawCollateral(v, amount) ==
  LET left == [covault[v] EXCEPT !.shares = @ - amount] IN
  /\ Unblocked(v) /\ Free(covault[v]) >= amount
  /\ covault[v].debt > 0 => Covers(left)
  /\ covault' = [covault EXCEPT ![v] = left]
  /\ hub' = [hub EXCEPT !.coll = @ - amount]
  /\ UNCHANGED <<meta, held, pool, returns>>

WithdrawReturns(a) ==
  /\ returns[a].coll + returns[a].ws > 0
  /\ \/ returns' = [returns EXCEPT ![a].coll = 0] /\ hub' = [hub EXCEPT !.coll = @ - returns[a].coll]
     \/ returns' = [returns EXCEPT ![a].ws = 0] /\ hub' = [hub EXCEPT !.ws = @ - returns[a].ws]
  /\ UNCHANGED <<covault, meta, held, pool>>

\* A mint, which only free collateral backs.
MintOne(v) ==
  /\ Unblocked(v) /\ Free(covault[v]) >= Threshold * (covault[v].debt + 1)
  /\ covault' = [covault EXCEPT ![v].debt = @ + 1]
  /\ UNCHANGED <<meta, held, pool, returns, hub>>

\* In the grace period any repayment cancels a kick, later one of the whole debt;
\* a frozen vault without debt is unfrozen.
RepayDebt(v, amount) ==
  LET V == covault[v] IN
  /\ 0 < amount /\ amount <= V.debt
  /\ V.kick \in {"late", "opened"} => amount = V.debt
  /\ covault' = [covault EXCEPT ![v] = [V EXCEPT !.debt = @ - amount, !.kick = "none",
                                                 !.frozen = @ /\ amount < V.debt]]
  /\ UNCHANGED <<meta, held, pool, returns, hub>>

-----------------------------------------------------------------------------
(* The auction. *)

\* kick, and once per vault reauction.
StartKick(v) ==
  LET V == covault[v] IN
  /\ V.kick = "none" /\ V.debt > 0 /\ (V.frozen => ~V.reauctioned)
  /\ covault' = [covault EXCEPT ![v].kick = "grace", ![v].frozen = FALSE,
                                ![v].reauctioned = @ \/ V.frozen]
  /\ UNCHANGED <<meta, held, pool, returns, hub>>

GraceEnds(v) ==
  /\ covault[v].kick = "grace" /\ covault' = [covault EXCEPT ![v].kick = "late"]
  /\ UNCHANGED <<meta, held, pool, returns, hub>>

\* The positions _ensureAuctionOpened unwinds.
ToUnwind(v) == IF covault[v].kick = "late" THEN held[v] ELSE {}

\* _unwindAllVaultPositions: the collateral comes back to the vault and its noted
\* leg goes down, the noted wsXMR leg stays.
OpenedCoVault(v) ==
  [covault[v] EXCEPT
     !.shares = @ + Collateral(ToUnwind(v)),
     !.deployedCollateral = FloorMinus(@, CollateralLegs(ToUnwind(v)))]

OpenAuction(v) ==
  /\ covault[v].kick = "late"
  /\ covault' = [covault EXCEPT ![v] = [OpenedCoVault(v) EXCEPT !.kick = "opened"]]
  /\ Drain(ToUnwind(v), 0)

\* The bidder pays the debt and gets a part of the free collateral.
Bid(v, part) ==
  /\ covault[v].kick \in {"late", "opened"} /\ part <= Free(OpenedCoVault(v))
  /\ covault' = [covault EXCEPT ![v] =
       [OpenedCoVault(v) EXCEPT !.shares = @ - part, !.debt = 0, !.kick = "none"]]
  /\ Drain(ToUnwind(v), part)

\* No bid: frozen.
ResolveKick(v) ==
  /\ covault[v].kick \in {"late", "opened"}
  /\ covault' = [covault EXCEPT ![v] = [OpenedCoVault(v) EXCEPT !.kick = "none", !.frozen = TRUE]]
  /\ Drain(ToUnwind(v), 0)

\* Another LP, outside the instance, takes over the debt and all the collateral;
\* the emptied vault forgets its collateral leg, and its lock.
BackstopVault(v) ==
  LET V == OpenedCoVault(v) IN
  /\ V.frozen \/ V.kick \in {"late", "opened"}
  /\ V.debt > 0
  /\ covault' = [covault EXCEPT ![v] = [V EXCEPT !.debt = 0, !.shares = 0, !.locked = 0,
                                                 !.deployedCollateral = 0, !.kick = "none",
                                                 !.frozen = FALSE]]
  /\ Drain(ToUnwind(v), V.shares)

-----------------------------------------------------------------------------
(* Specification. *)

\* What mints and burns in progress lock is fixed.
CoLPInit ==
  /\ covault \in [CoVault -> [shares : {2}, locked : {0, 1}, debt : {0}, deployedCollateral : {0},
                              deployedWsxmr : {0}, kick : {"none"}, frozen : {FALSE},
                              reauctioned : {FALSE}]]
  /\ meta = [t \in Positions |-> NoPosition] /\ pool = [t \in Positions |-> EmptyPool]
  /\ held = [a \in CoAccount |-> {}]
  /\ returns = [a \in CoAccount |-> [coll |-> 0, ws |-> 0]]
  /\ hub = [coll |-> SumFunction([v \in CoVault |-> covault[v].shares]), ws |-> 0]

\* The bounds of the instance.
InBounds ==
  /\ \A v \in CoVault :
       /\ covault'[v].shares <= MaxShares /\ covault'[v].debt <= MaxDebt
       /\ covault'[v].deployedWsxmr <= MaxLeg
  /\ \A a \in CoAccount : returns'[a].coll <= MaxReturns /\ returns'[a].ws <= MaxReturns

CoLPNext ==
  /\ \/ \E t \in Positions :
          \/ PriceMoves(t) \/ UnwindCoLP(t)
          \/ \E c, w \in 0..1 : CollectCoLPFees(t, c, w)
          \/ \E u \in CoUser, v \in CoVault, c, w \in 1..MaxLeg : UserOpenCoLP(u, v, t, c, w)
          \/ \E caller \in CoAccount :
               RebalanceCloses(t, caller) \/ \E t2 \in Positions : RebalanceInto(t, t2, caller)
     \/ \E v \in CoVault :
          \/ DepositCollateral(v) \/ MintOne(v) \/ StartKick(v) \/ GraceEnds(v)
          \/ OpenAuction(v) \/ ResolveKick(v) \/ BackstopVault(v)
          \/ \E amount \in 1..MaxShares : WithdrawCollateral(v, amount)
          \/ \E amount \in 1..MaxDebt : RepayDebt(v, amount)
          \/ \E part \in 0..MaxShares : Bid(v, part)
     \/ \E a \in CoAccount : WithdrawReturns(a)
  /\ InBounds

CoLPSpec == CoLPInit /\ [][CoLPNext]_coLPVars

-----------------------------------------------------------------------------
\* The ledgers of the co-LP side agree, whatever opens, moves, is rebalanced or
\* unwound in whatever order: the hub holds what vaults and returns sum up to,
\* the noted collateral leg is that of the live positions and the noted wsXMR leg
\* no less, each live position is listed once for its vault and once for its user,
\* and no position eats into locked collateral (CoLPFacet.sol:68-258).
PositionsAccounted ==
  /\ hub.coll = SumFunction([v \in CoVault |-> covault[v].shares])
                  + SumFunction([a \in CoAccount |-> returns[a].coll])
  /\ hub.ws = SumFunction([a \in CoAccount |-> returns[a].ws])
  /\ \A v \in CoVault :
       /\ held[v] = Live(v) /\ covault[v].shares >= covault[v].locked
       /\ covault[v].deployedCollateral = CollateralLegs(Live(v))
       /\ covault[v].deployedWsxmr >= WsxmrLegs(Live(v))
  /\ \A u \in CoUser : held[u] = {t \in Positions : meta[t].user = u}

\* Once its auction has opened, all a vault has is in its shares, until the
\* auction is over or its debt is gone: nothing opens, moves or comes back under
\* the offer (_ensureAuctionOpened, LiquidationAuctionFacet.sol:173-192).
NothingDeployedInAuction ==
  \A v \in CoVault : covault[v].kick = "opened" \/ covault[v].frozen => Live(v) = {}

\* VaultFacet.sol:139 says of a withdrawal that the vault "must still cover
\* debt+pendingDebt (net of deployed wsXMR legs)".  The legs of its live positions
\* must do so: the code nets the legs it has noted.
WithdrawalLeavesCovered ==
  [][\A v \in CoVault, amount \in 1..MaxShares :
       WithdrawCollateral(v, amount) =>
         Free(covault'[v]) + CollateralLegs(Live(v))
           >= Threshold * FloorMinus(covault[v].debt, WsxmrLegs(Live(v)))
    ]_coLPVars
=============================================================================
