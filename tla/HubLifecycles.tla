---------------------------- MODULE HubLifecycles ----------------------------
(***************************************************************************)
(* The hub implements the two lifecycles the off-chain programs rely on.   *)
(***************************************************************************)
EXTENDS MCHub

\* A request as the lifecycle sees it: the timeout counts while it is awaited.
MintSeen(r) ==
  LET m == mintRequests[r] IN
  [status |-> m.status, userSecret |-> m.userSecret, lpSecret |-> m.lpSecret,
   expired |-> /\ m.status \in {"PENDING", "KEY_PROVIDED", "READY", "KEY_CANCELLED",
                                "EXPIRED_READY"}
               /\ block >= m.timeout]

BurnSeen(r) ==
  LET b == burnRequests[r] IN
  [status |-> b.status, userSecret |-> b.userSecret, lpSecret |-> b.lpSecret,
   abandoned |-> r \in abandonedBurns,
   clock |-> IF b.status \notin ActiveBurn \/ block < b.deadline THEN "open"
             ELSE IF b.status = "COMMITTED" /\ block >= b.deadline + BurnFinalizeGrace
                  THEN "over" ELSE "late"]

\* The requests made since the start of the run; a warm start completes one mint.
NewRequest == {r \in ReqId : r > 1 \/ WarmDebt = 0}

MintsSeen == INSTANCE MintLifecycle WITH
  Mint <- NewRequest, mint <- [r \in NewRequest |-> MintSeen(r)]
BurnsSeen == INSTANCE BurnLifecycle WITH
  Burn <- ReqId, burn <- [r \in ReqId |-> BurnSeen(r)]

\* Whatever the order of the calls, kicks and blocks, every mint request moves
\* as the servers and the page expect (MintFacet.sol, every function): no status
\* comes back, a secret once public stays so, only an expired request is
\* cancelled and only a silent LP is slashed.
MintLifecycleKept == MintsSeen!MintLifecycleSpec

\* The same of every burn request (BurnFacet.sol), the auctions that settle burns
\* in flight (LiquidationAuctionFacet.sol, _settleInFlightBurns) included.
BurnLifecycleKept == BurnsSeen!BurnLifecycleSpec
=============================================================================
