------------------------------ MODULE WebCoLP -------------------------------
(***************************************************************************)
(* The page's co-LP tab (frontend/js/coLPFlow.js, main.js).  A position is *)
(* opened in steps, over a vault others use too.  The list comes from the   *)
(* hub, and when the hub cannot be read from a cache of the positions'     *)
(* events, which scans fill block by block: a failed scan is resumed, two  *)
(* may overlap, and the wallet's account may change while one runs.        *)
(* One event per block; a cache holds fewer than the 500 it keeps.         *)
(***************************************************************************)
EXTENDS Naturals, Sequences, FiniteSets

CONSTANTS WebAccount, LogScan,
          FirstAccount, NoAccount,
          Reorg,              \* the blocks a resumed scan reads again
          MaxEvents, MaxScanMishaps

ASSUME WebCoLPAssumption ==
  /\ NoAccount \notin WebAccount /\ FirstAccount \in WebAccount /\ Reorg \in Nat
  /\ MaxEvents \in Nat /\ MaxScanMishaps \in Nat

VARIABLES userPositions,  \* the hub's: per account, its live positions
          events,         \* the chain's events, one per block
          coFlow,         \* the step of the flow that opens a position
          userAddress,    \* the account of the co-LP flow, set when an action starts
          wallet,         \* the wallet's account
          cache,          \* per account: the events kept, the next block to scan
          scan,           \* per scan: its account, what it has, the block it reads next, its end
          crossed,        \* history: the caches a scan of another account saved
          scanMishaps

webCoLPVars == <<userPositions, events, coFlow, userAddress, wallet, cache,
                 scan, crossed, scanMishaps>>

NoScan == [me |-> NoAccount, kept |-> {}, next |-> 0, to |-> 0]
Block == 1..Len(events)
Token == 1..MaxEvents
NextToken == 1 + Cardinality({events[i].token : i \in Block})   \* ids are given in order
Mishap == scanMishaps < MaxScanMishaps /\ scanMishaps' = scanMishaps + 1

-----------------------------------------------------------------------------
(* The hub's positions and their events. *)

Emits(kind, token, old, user) ==
  /\ Len(events) < MaxEvents
  /\ events' = Append(events, [kind |-> kind, token |-> token, old |-> old, user |-> user])

\* userOpenCoLP: CoLPDeployed.
Deployed(a) ==
  /\ Emits("deployed", NextToken, NextToken, a)
  /\ userPositions' = [userPositions EXCEPT ![a] = @ \cup {NextToken}]

\* unwindCoLP, an auction, or a rebalance that leaves one token: CoLPUnwound.
Unwound(a, t) ==
  /\ t \in userPositions[a] /\ Emits("unwound", t, t, NoAccount)
  /\ userPositions' = [userPositions EXCEPT ![a] = @ \ {t}]
  /\ UNCHANGED <<coFlow, userAddress, wallet, cache, scan, crossed, scanMishaps>>

\* rebalanceCoLP: CoLPDeployed for the new position, and CoLPRebalanced.
Rebalanced(a, t) ==
  /\ t \in userPositions[a] /\ Emits("rebalanced", NextToken, t, a)
  /\ userPositions' = [userPositions EXCEPT ![a] = (@ \ {t}) \cup {NextToken}]
  /\ UNCHANGED <<coFlow, userAddress, wallet, cache, scan, crossed, scanMishaps>>

-----------------------------------------------------------------------------
(* The event cache. *)

\* Mutant: only the account's own events are kept.
KeepsOwn(a, i) == events[i].user = a

\* _serializeCoLPLog: an account's own deploys, and every unwind and rebalance.
Keeps(a, i) == events[i].kind # "deployed" \/ events[i].user = a

\* _scanCoLPEvents loads the cache of its account and scans up to the last block.
StartScan(s, a) ==
  scan' = [scan EXCEPT ![s] =
             [me |-> a, kept |-> cache[a].kept, to |-> Len(events),
              next |-> IF cache[a].next > Reorg THEN cache[a].next - Reorg ELSE 1]]

\* A chunk comes in: what is to be kept is added, and the whole is saved under the
\* key of the account the page has now.
ScanChunk(s) ==
  LET i == scan[s].next
      kept == scan[s].kept \cup {j \in {i} : Keeps(scan[s].me, j)} IN
  /\ scan[s].me # NoAccount /\ i <= scan[s].to
  /\ scan' = [scan EXCEPT ![s] = IF i = @.to THEN NoScan
                                 ELSE [@ EXCEPT !.kept = kept, !.next = i + 1]]
  /\ cache' = [cache EXCEPT ![userAddress] = [kept |-> kept, next |-> i + 1]]
  /\ crossed' = IF scan[s].me = userAddress THEN crossed ELSE crossed \cup {userAddress}
  /\ UNCHANGED <<userPositions, events, coFlow, userAddress, wallet, scanMishaps>>

\* getLogsChunked gives up on a chunk: what was saved stays.
ScanFails(s) ==
  /\ scan[s].me # NoAccount /\ Mishap /\ scan' = [scan EXCEPT ![s] = NoScan]
  /\ UNCHANGED <<userPositions, events, coFlow, userAddress, wallet, cache, crossed>>

\* Event i unwinds position t, or puts another in its place.
Ends(i, t) == \/ events[i].kind = "unwound" /\ events[i].token = t
              \/ events[i].kind = "rebalanced" /\ events[i].old = t

Rebalances(K) == {i \in K : events[i].kind = "rebalanced"}

\* rootOf: a walk back over the rebalances of K leads from position t to r, which
\* none of them made.  (Past twenty hops the code stops at an id on
\* the way, which the account has deployed just the same.)
Root(K, r, t) ==
  /\ \A i \in Rebalances(K) : events[i].token # r
  /\ \A S \in SUBSET {events[i].token : i \in K} :
       r \in S /\ (\A i \in Rebalances(K) : events[i].old \in S => events[i].token \in S) => t \in S

\* _buildActivePositions: how often position t is in the account's list.  It is
\* pushed for a CoLPDeployed of its own, which the hub emits for the position of a
\* rebalance too, and again when it is carried forward through a rebalance.
Listed(a, t) ==
  LET K == cache[a].kept
      deployed == {events[i].token : i \in {j \in K : events[j].user = a}}
      dead == \E i \in K : Ends(i, t)
      carried == /\ \E i \in Rebalances(K) : events[i].token = t
                 /\ \E r \in deployed : Root(K, r, t)
  IN  IF dead THEN 0 ELSE (IF t \in deployed THEN 1 ELSE 0) + (IF carried THEN 1 ELSE 0)

-----------------------------------------------------------------------------
(* The page. *)

\* handleRefreshCoLPPositions: the account is the wallet's, and a scan starts,
\* beside the list from the hub or for want of it.
Refresh(s) ==
  /\ scan[s].me = NoAccount /\ events # <<>>
  /\ userAddress' = wallet /\ StartScan(s, wallet)
  /\ UNCHANGED <<userPositions, events, coFlow, wallet, cache, crossed, scanMishaps>>

\* handleCoLPOpen: the capacity is looked at, too little ends it, and what the
\* account lets the hub spend already.
StartOpen ==
  /\ coFlow = "idle" /\ userAddress' = wallet
  /\ coFlow' \in {"approving", "opening"}
  /\ UNCHANGED <<userPositions, events, wallet, cache, scan, crossed, scanMishaps>>

\* The wallet approves, or refuses.
ApproveWsxmr ==
  /\ coFlow = "approving"
  /\ \/ coFlow' = "opening" /\ UNCHANGED scanMishaps
     \/ coFlow' = "idle" /\ Mishap
  /\ UNCHANGED <<userPositions, events, userAddress, wallet, cache, scan, crossed>>

\* The transaction of the account the wallet has now, or it reverts: others have
\* used the capacity, or that account has approved nothing.
SendOpen ==
  /\ coFlow = "opening" /\ coFlow' = "idle"
  /\ Deployed(wallet) \/ UNCHANGED <<userPositions, events>>
  /\ UNCHANGED <<userAddress, wallet, cache, scan, crossed, scanMishaps>>

\* handleCoLPUnwind, handleCoLPClaimFees, handleCoLPRebalance: before they send
\* what they send, the account is the wallet's.
ManagePosition ==
  /\ userAddress # wallet /\ userAddress' = wallet
  /\ UNCHANGED <<userPositions, events, coFlow, wallet, cache, scan, crossed, scanMishaps>>

\* accountsChanged: the page goes on, with what it runs.
SwitchAccount(a) ==
  /\ a # wallet /\ Mishap /\ wallet' = a
  /\ UNCHANGED <<userPositions, events, coFlow, userAddress, cache, scan, crossed>>

\* The page is closed and opened again.
ReloadTab ==
  /\ Mishap /\ scan' = [s \in LogScan |-> NoScan] /\ coFlow' = "idle"
  /\ UNCHANGED <<userPositions, events, userAddress, wallet, cache, crossed>>

WebCoLPInit ==
  /\ userPositions = [a \in WebAccount |-> {}] /\ events = <<>>
  /\ coFlow = "idle" /\ wallet = FirstAccount /\ userAddress = wallet
  /\ cache = [a \in WebAccount |-> [kept |-> {}, next |-> 0]]
  /\ scan = [s \in LogScan |-> NoScan]
  /\ crossed = {} /\ scanMishaps = 0

WebCoLPNext ==
  \/ \E a \in WebAccount :
       \/ SwitchAccount(a)
       \/ \E t \in Token : Unwound(a, t) \/ Rebalanced(a, t)
  \/ \E s \in LogScan : Refresh(s) \/ ScanChunk(s) \/ ScanFails(s)
  \/ StartOpen \/ ManagePosition \/ ApproveWsxmr \/ SendOpen \/ ReloadTab

-----------------------------------------------------------------------------
Made(t) == \E i \in Block : events[i].kind = "rebalanced" /\ events[i].token = t

\* A cache that has been scanned to the last block lists the account's positions and
\* no other, whatever scans failed, were resumed or overlapped, unless a scan of
\* another account was saved over it (_scanCoLPEvents).  A position that was opened
\* is listed once, and one that a rebalance made is listed twice: both loops of
\* _buildActivePositions find it, since the hub announces it as a deploy too.
CachedListExact ==
  \A a \in WebAccount \ crossed : cache[a].next > Len(events) /\ events # <<>> =>
    \A t \in Token : Listed(a, t) = IF t \notin userPositions[a] THEN 0
                                     ELSE IF Made(t) THEN 2 ELSE 1
=============================================================================
