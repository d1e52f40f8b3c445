----------------------------- MODULE DepositScan -----------------------------
(***************************************************************************)
(* The watch for deposits (lp-server-js/moneroWallet.js, pollForDeposit):  *)
(* each mint has a loop that asks the deposit wallet-rpc, which has one    *)
(* wallet open at a time, and scans the daemon's blocks behind a cursor.   *)
(* The loops run concurrently: serializeMint (server.js) is never called.  *)
(* All mints expect amounts within the tolerance of each other.  A loop is *)
(* cut where the code awaits.                                              *)
(***************************************************************************)
EXTENDS Naturals

CONSTANTS Watched,         \* the mints with a running loop; a wallet is named by its mint
          NoWallet,
          Overlap,         \* the blocks behind the cursor that are read again, 10
          Lookbacks,       \* how far before the start it reads: 40 blocks for a mint it keys, 1000
          MaxLag,          \* how far the daemon that serves blocks is behind the tip
          MaxTip, MaxScanFaults   \* bound the blocks and the failed calls

ASSUME ScanAssumption ==
  /\ NoWallet \notin Watched
  /\ {Overlap, MaxLag, MaxTip, MaxScanFaults} \subseteq Nat /\ MaxLag <= Overlap
  /\ Lookbacks \subseteq Nat

VARIABLES tip, minedAt,    \* Monero's height, and per mint that of its deposit, 0 for none
          rpcWallet,       \* the wallet open at the deposit wallet-rpc
          current,         \* _depositRpcCurrentWallet
          watch,           \* per mint: where its loop is, depositRpcOk, restoreHeight (from)
                           \* and the daemon cursor
          foundAt,         \* per mint: whose deposit its loop returned
          overlooked,      \* history: the mints whose deposit a scan passed over in a block
                           \* it asked for
          scanFaults

scanVars == <<tip, minedAt, rpcWallet, current, watch, foundAt, overlooked, scanFaults>>

Minus(a, b) == IF a >= b THEN a - b ELSE 0
ScanFault == scanFaults < MaxScanFaults /\ scanFaults' = scanFaults + 1
At(m, pc) == watch[m].pc = pc
Then(m, pc) == watch' = [watch EXCEPT ![m].pc = pc]
\* depositRpcOk = false: the daemon is all this loop asks from now on.
RpcLost(m) == watch' = [watch EXCEPT ![m].pc = "daemon", ![m].rpcOk = FALSE]
Returns(m, whose) == foundAt' = [foundAt EXCEPT ![m] = whose] /\ Then(m, "done")

\* A block is mined, with the deposits of some users.
NewBlock ==
  /\ tip < MaxTip /\ tip' = tip + 1
  /\ \E paying \in SUBSET {m \in Watched : minedAt[m] = 0} :
       minedAt' = [m \in Watched |-> IF m \in paying THEN tip + 1 ELSE minedAt[m]]
  /\ UNCHANGED <<rpcWallet, current, watch, foundAt, overlooked, scanFaults>>

\* processMint: from the daemon's height less the lookback, or from 0 if it is not told.
StartWatch(m) ==
  /\ At(m, "off")
  /\ \/ /\ \E lookback \in Lookbacks : LET from == Minus(tip, lookback) IN
             watch' = [watch EXCEPT ![m].pc = "turn", ![m].from = from, ![m].cursor = from]
        /\ UNCHANGED scanFaults
     \/ ScanFault /\ Then(m, "turn")
  /\ UNCHANGED <<tip, minedAt, rpcWallet, current, foundAt, overlooked>>

\* A turn of the loop.  Another loop's wallet is closed first.
Turn(m) ==
  /\ At(m, "turn")
  /\ Then(m, IF ~watch[m].rpcOk THEN "daemon"
             ELSE IF current = m THEN "refresh" ELSE "close")
  /\ UNCHANGED <<tip, minedAt, rpcWallet, current, foundAt, overlooked, scanFaults>>

CloseOther(m) ==
  /\ At(m, "close") /\ Then(m, "provision") /\ rpcWallet' = NoWallet
  /\ UNCHANGED <<tip, minedAt, current, foundAt, overlooked, scanFaults>>

\* generate_from_keys, or open_wallet if the file is there.  The name is noted
\* when the answer is in, a step later.
Provision(m) ==
  /\ At(m, "provision")
  /\ \/ Then(m, "note") /\ rpcWallet' = m /\ UNCHANGED scanFaults
     \/ ScanFault /\ RpcLost(m) /\ UNCHANGED rpcWallet
  /\ UNCHANGED <<tip, minedAt, current, foundAt, overlooked>>

NoteWallet(m) ==
  /\ At(m, "note") /\ Then(m, "refresh") /\ current' = m
  /\ UNCHANGED <<tip, minedAt, rpcWallet, foundAt, overlooked, scanFaults>>

\* refresh and get_transfers speak to whichever wallet is open by then.
RefreshOpen(m) ==
  /\ At(m, "refresh")
  /\ IF rpcWallet = NoWallet THEN RpcLost(m) ELSE Then(m, "transfers")
  /\ UNCHANGED <<tip, minedAt, rpcWallet, current, foundAt, overlooked, scanFaults>>

ReadTransfers(m) ==
  /\ At(m, "transfers")
  /\ \/ rpcWallet = NoWallet /\ RpcLost(m) /\ UNCHANGED foundAt
     \/ rpcWallet # NoWallet /\ minedAt[rpcWallet] # 0
        /\ minedAt[rpcWallet] >= watch[m].from /\ Returns(m, rpcWallet)
     \/ rpcWallet # NoWallet /\ Then(m, "daemon") /\ UNCHANGED foundAt   \* not synced yet
  /\ UNCHANGED <<tip, minedAt, rpcWallet, current, overlooked, scanFaults>>

Later(a, b) == IF a >= b THEN a ELSE b

\* Mutant: the scan resumes at the cursor.
ScanFromCursor(m) == Later(watch[m].from, watch[m].cursor)

ScanFrom(m) == Later(watch[m].from, Minus(watch[m].cursor, Overlap))

\* scanDepositViaDaemon, up to the height of another daemon.  Any error the daemon
\* puts in a reply reads as no transactions: the newest blocks it may not have yet
\* (served), but also a block or a batch of transactions it has and does not give.  A
\* payment of another amount to the address in a newer block ends the scan as well.  The
\* cursor moves over the whole range all the same; only a call that throws keeps it.
DaemonScan(m) ==
  /\ At(m, "daemon")
  /\ \/ /\ \E served \in Minus(tip, MaxLag) .. tip, read \in BOOLEAN :
             LET there == tip > ScanFrom(m) /\ minedAt[m] # 0
                          /\ minedAt[m] \in ScanFrom(m) .. served
             IN IF there /\ read
                THEN Returns(m, m) /\ UNCHANGED overlooked
                ELSE /\ watch' = [watch EXCEPT ![m].pc = "turn",
                                     ![m].cursor = IF tip > ScanFrom(m) THEN tip + 1 ELSE @]
                     /\ overlooked' = IF there THEN overlooked \cup {m} ELSE overlooked
                     /\ UNCHANGED foundAt
        /\ UNCHANGED scanFaults
     \/ ScanFault /\ Then(m, "turn") /\ UNCHANGED <<foundAt, overlooked>>
  /\ UNCHANGED <<tip, minedAt, rpcWallet, current>>

\* maxWaitMs is over.
WatchEnds(m) ==
  /\ At(m, "turn") /\ Then(m, "done")
  /\ UNCHANGED <<tip, minedAt, rpcWallet, current, foundAt, overlooked, scanFaults>>

ScanInit ==
  /\ tip = 0 /\ minedAt = [m \in Watched |-> 0]
  /\ rpcWallet = NoWallet /\ current = NoWallet
  /\ watch = [m \in Watched |-> [pc |-> "off", rpcOk |-> TRUE, from |-> 0, cursor |-> 0]]
  /\ foundAt = [m \in Watched |-> NoWallet] /\ overlooked = {} /\ scanFaults = 0

ScanNext ==
  \/ NewBlock
  \/ \E m \in Watched :
       \/ StartWatch(m) \/ Turn(m) \/ CloseOther(m) \/ Provision(m) \/ NoteWallet(m) \/ RefreshOpen(m)
       \/ ReadTransfers(m) \/ DaemonScan(m) \/ WatchEnds(m)

-----------------------------------------------------------------------------
\* A deposit in the lookback that the scan has left behind has been found, unless each
\* reply that should have shown it was an error read as empty, or showed another payment:
\* a daemon behind the tip, a call that throws and a late block hide none ("permanent
\* miss", pollForDeposit).  A deposit made before the lookback is never read.
DepositNotMissed ==
  \A m \in Watched :
    minedAt[m] # 0 /\ watch[m].from <= minedAt[m] /\ minedAt[m] < ScanFrom(m) /\ m \notin overlooked =>
      foundAt[m] # NoWallet
=============================================================================
