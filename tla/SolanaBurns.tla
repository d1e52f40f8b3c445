----------------------------- MODULE SolanaBurns -----------------------------
(***************************************************************************)
(* Burns on Solana: the program's burn requests, the LP node's pipeline    *)
(* (solana/lp-server/src/burnPipeline.js) and the user's page              *)
(* (solana/frontend/app.js), which confirms the lock by itself.  As for    *)
(* mints, the node acts on what a scan read and its transactions land late *)
(* or never.                                                               *)
(***************************************************************************)
EXTENDS Naturals, Sequences

CONSTANTS SolBurn, BurnKey,   \* the requests; a secret and its public key are one id, 0 is none
          MaxBurnNodeFaults   \* bounds restarts and calls that fail

ASSUME SolBurnAssumption == BurnKey \subseteq Nat \ {0} /\ MaxBurnNodeFaults \in Nat

VARIABLES
  solBurn,     \* the accounts: status, the LP's key, whether the deadline has passed
               \* (of a committed burn: and its grace)
  burnPaid,    \* per request and key of a shared address, the payouts sent
  timedOut,    \* the requests whose transfer ran into walletRpc's timeout, and sent
  burnTxs,     \* the node's transactions that may still land; whether a job waits for it
  burnScan,    \* what the tick's scan read and has not dispatched
  burnJob,     \* inFlight: per request, where process is
  burnFile,    \* lp-burn-secrets.json: the secret, whether a payout is recorded
  burnWallet,  \* the node's environment: is a Monero wallet configured?
  burnNodeFaults

solBurnVars == <<solBurn, burnPaid, timedOut, burnTxs, burnScan, burnJob, burnFile,
                 burnWallet, burnNodeFaults>>

NoBurn == [status |-> "none", key |-> 0, late |-> FALSE]
NoEntry == [key |-> 0, sent |-> FALSE]
\* A job: its place, the key it works with, whether its entry says the payout is sent.
BurnIdle == [pc |-> "idle", key |-> 0, sent |-> FALSE]

BurnStatus(b) == solBurn[b].status
BurnAt(b, pc) == burnJob[b].pc = pc
BurnStep(b, pc) == burnJob' = [burnJob EXCEPT ![b].pc = pc]
BurnFault == burnNodeFaults < MaxBurnNodeFaults /\ burnNodeFaults' = burnNodeFaults + 1
BurnTx(kind, b) ==
  burnTxs' = burnTxs \cup {[kind |-> kind, burn |-> b, key |-> burnJob[b].key, awaited |-> TRUE]}
BurnOrphans(which) == burnTxs' = {IF t.burn \in which THEN [t EXCEPT !.awaited = FALSE] ELSE t : t \in burnTxs}
BurnGoes(b, from, to) ==
  /\ BurnStatus(b) = from /\ solBurn' = [solBurn EXCEPT ![b].status = to, ![b].late = FALSE]

-----------------------------------------------------------------------------
\* The program (burn_flow.rs), as far as requests go, and its users

RequestSolBurn(b) == BurnGoes(b, "none", "requested")

BurnDeadline(b) ==
  /\ BurnStatus(b) \in {"requested", "proposed", "committed"} /\ ~solBurn[b].late
  /\ solBurn' = [solBurn EXCEPT ![b].late = TRUE]

\* abort_burn and force_settle_burn, by the user alone.
EndUnanswered(b) ==
  solBurn[b].late /\ (BurnGoes(b, "requested", "cancelled") \/ BurnGoes(b, "requested", "slashed"))

\* trackBurn: the page confirms as soon as it reads "proposed".
ConfirmSolLock(b) == BurnGoes(b, "proposed", "committed")

\* resolve_declined_proposal and claim_slashed_collateral take the user's secret
\* and do not store it.
UserSettles(b) ==
  solBurn[b].late /\ (BurnGoes(b, "proposed", "cancelled") \/ BurnGoes(b, "committed", "slashed"))

\* settle_burn_liquidation (auction.rs), before an auction of the vault.
LiquidationSettles(b) ==
  \/ BurnGoes(b, "requested", "cancelled") \/ BurnGoes(b, "proposed", "cancelled")
  \/ BurnGoes(b, "committed", "slashed")

UserOrProgram(b) ==
  /\ \/ RequestSolBurn(b) \/ BurnDeadline(b) \/ EndUnanswered(b) \/ ConfirmSolLock(b)
     \/ UserSettles(b) \/ LiquidationSettles(b)
  /\ UNCHANGED <<burnPaid, timedOut, burnTxs, burnScan, burnJob, burnFile, burnWallet, burnNodeFaults>>

\* What a transaction does if the program accepts it: propose_hash, finalize_burn,
\* abandon_proposed_burn.
BurnTxEffect(t) ==
  \/ /\ t.kind = "propose" /\ BurnStatus(t.burn) = "requested"
     /\ solBurn' = [solBurn EXCEPT ![t.burn] = [NoBurn EXCEPT !.status = "proposed", !.key = t.key]]
  \/ /\ t.kind = "finalize" /\ solBurn[t.burn].key = t.key
     /\ ~solBurn[t.burn].late /\ BurnGoes(t.burn, "committed", "completed")
  \/ t.kind = "abandon" /\ solBurn[t.burn].late /\ BurnGoes(t.burn, "proposed", "cancelled")

\* Mutant: a rejected proposal does not stop the payout.
PayRegardless(t, ok) == t.kind = "propose" /\ burnWallet /\ ~burnJob[t.burn].sent

\* propose goes on to sendXmr: rpcIx throws unless the transaction was accepted.
PayoutDue(t, ok) == ok /\ t.kind = "propose" /\ burnWallet /\ ~burnJob[t.burn].sent

\* A transaction lands, or is rejected or expires; the job that waits for it goes on.
LandBurnTx(t) ==
  /\ t \in burnTxs /\ burnTxs' = burnTxs \ {t}
  /\ \E ok \in BOOLEAN :
       /\ IF ok THEN BurnTxEffect(t) ELSE UNCHANGED solBurn
       /\ IF t.awaited THEN BurnStep(t.burn, IF PayoutDue(t, ok) THEN "pay" ELSE "idle") ELSE UNCHANGED burnJob
  /\ UNCHANGED <<burnPaid, timedOut, burnScan, burnFile, burnWallet, burnNodeFaults>>

-----------------------------------------------------------------------------
\* The node

ScanBurns ==
  /\ \E seen \in SUBSET {b \in SolBurn : BurnStatus(b) \notin {"none", "completed"}} :
       burnScan' = [b \in SolBurn |-> IF b \in seen THEN solBurn[b] ELSE NoBurn]
  /\ UNCHANGED <<solBurn, burnPaid, timedOut, burnTxs, burnJob, burnFile, burnWallet, burnNodeFaults>>

FreshBurnKeys == BurnKey \ ({burnFile[b].key : b \in SolBurn} \cup {solBurn[b].key : b \in SolBurn}
                            \cup {t.key : t \in burnTxs})

\* propose, to its first await: the secret is in the file before the transaction is sent.
StartProposal(b) ==
  \E k \in (IF burnFile[b].key # 0 THEN {burnFile[b].key} ELSE FreshBurnKeys) :
    /\ burnFile' = [burnFile EXCEPT ![b].key = k]
    /\ burnJob' = [burnJob EXCEPT ![b] = [pc |-> "propose", key |-> k, sent |-> burnFile[b].sent]]

\* The other stages: checkProposedDeadline and finalize.  sweepBack returns at once:
\* it reads the user's secret from the account, where the program never puts it.
StageOf(b, read) ==
  CASE read.status = "proposed" /\ read.late -> "abandon"
    [] read.status = "committed" /\ burnFile[b].key # 0 -> "finalize"
    [] OTHER -> "idle"

DispatchBurn(b) ==
  LET read == burnScan[b] IN
  /\ read.status # "none" /\ burnScan' = [burnScan EXCEPT ![b] = NoBurn]
  /\ \/ ~BurnAt(b, "idle") /\ UNCHANGED <<burnJob, burnFile>>
     \/ BurnAt(b, "idle") /\ read.status = "requested" /\ StartProposal(b)
     \/ /\ BurnAt(b, "idle") /\ read.status # "requested" /\ UNCHANGED burnFile
        /\ burnJob' = [burnJob EXCEPT ![b] = [BurnIdle EXCEPT !.pc = StageOf(b, read), !.key = burnFile[b].key]]
  /\ UNCHANGED <<solBurn, burnPaid, timedOut, burnTxs, burnWallet, burnNodeFaults>>

SendBurnTx(b) ==
  /\ \/ burnJob[b].pc \in {"propose", "abandon"} /\ BurnTx(burnJob[b].pc, b) /\ BurnStep(b, "wait")
     \/ BurnAt(b, "finalize") /\ BurnStatus(b) = "committed" /\ BurnTx("finalize", b) /\ BurnStep(b, "wait")
     \/ BurnAt(b, "finalize") /\ BurnStatus(b) # "committed" /\ BurnStep(b, "idle") /\ UNCHANGED burnTxs
  /\ UNCHANGED <<solBurn, burnPaid, timedOut, burnScan, burnFile, burnWallet, burnNodeFaults>>

\* confirm gives up: its transaction may land later.
GiveUpBurnTx(b) ==
  /\ BurnAt(b, "wait") /\ BurnFault /\ BurnStep(b, "idle") /\ BurnOrphans({b})
  /\ UNCHANGED <<solBurn, burnPaid, timedOut, burnScan, burnFile, burnWallet>>

\* walletRpc makes a call that times out again, three calls in all.
WalletCalls == 3

\* sendXmr: each call may send, those that time out too; the payout is recorded if the
\* last answers.  A failure is logged, "will retry next tick".
PayBurn(b) ==
  /\ BurnAt(b, "pay")
  /\ \E sends \in 0..WalletCalls, answered \in BOOLEAN :
       /\ answered => sends > 0
       /\ burnPaid' = [burnPaid EXCEPT ![b][burnJob[b].key] = @ + sends]
       /\ BurnStep(b, IF answered THEN "record" ELSE "idle")
       /\ \/ answered /\ sends = 1 /\ UNCHANGED <<timedOut, burnNodeFaults>>
          \/ sends = 0 /\ BurnFault /\ UNCHANGED timedOut
          \/ (answered => sends > 1) /\ sends > 0 /\ BurnFault /\ timedOut' = timedOut \cup {b}
  /\ UNCHANGED <<solBurn, burnTxs, burnScan, burnFile, burnWallet>>

RecordPayout(b) ==
  /\ BurnAt(b, "record") /\ BurnStep(b, "idle")
  /\ burnFile' = [burnFile EXCEPT ![b].sent = TRUE]
  /\ UNCHANGED <<solBurn, burnPaid, timedOut, burnTxs, burnScan, burnWallet, burnNodeFaults>>

\* A restart forgets what runs and keeps the file; the wallet may come or go with it.
RestartBurnNode ==
  /\ BurnFault /\ burnWallet' \in BOOLEAN
  /\ burnScan' = [b \in SolBurn |-> NoBurn] /\ burnJob' = [b \in SolBurn |-> BurnIdle]
  /\ BurnOrphans(SolBurn)
  /\ UNCHANGED <<solBurn, burnPaid, timedOut, burnFile>>

SolBurnInit ==
  /\ solBurn = [b \in SolBurn |-> NoBurn] /\ burnPaid = [b \in SolBurn |-> [k \in BurnKey |-> 0]]
  /\ timedOut = {}
  /\ burnTxs = {}
  /\ burnScan = [b \in SolBurn |-> NoBurn] /\ burnJob = [b \in SolBurn |-> BurnIdle]
  /\ burnFile = [b \in SolBurn |-> NoEntry] /\ burnWallet \in BOOLEAN /\ burnNodeFaults = 0

SolBurnNext ==
  \/ \E b \in SolBurn :
       \/ UserOrProgram(b) \/ DispatchBurn(b) \/ SendBurnTx(b) \/ GiveUpBurnTx(b)
       \/ PayBurn(b) \/ RecordPayout(b)
  \/ \E t \in burnTxs : LandBurnTx(t)
  \/ ScanBurns \/ RestartBurnNode

SolBurnSpec == SolBurnInit /\ [][SolBurnNext]_solBurnVars

-----------------------------------------------------------------------------
\* A burn is paid only to the address of the accepted proposal, whose secret the file
\* still has, and once, unless the transfer itself timed out and was called again: over
\* stale scans, restarts, failures and late transactions ("If the LP crashes after
\* sending XMR, the persisted secret is the only path to recover", burnPipeline.js).
SolPaidOnce ==
  \A b \in SolBurn, k \in BurnKey :
    burnPaid[b][k] > 0 =>
      /\ k = solBurn[b].key /\ k = burnFile[b].key
      /\ burnPaid[b][k] <= IF b \in timedOut THEN WalletCalls ELSE 1

\* "No Monero wallet -- cannot send payout; user will not confirm", "XMR send
\* failed -- will retry next tick" (burnPipeline.js): a burn completes only when its
\* payout was sent.
CompletedIsPaid ==
  \A b \in SolBurn : BurnStatus(b) = "completed" => \E k \in BurnKey : burnPaid[b][k] > 0
=============================================================================
