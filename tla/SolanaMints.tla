----------------------------- MODULE SolanaMints -----------------------------
(***************************************************************************)
(* Mints on Solana: the program's mint requests, the LP node's pipeline    *)
(* (solana/lp-server/src/mintPipeline.js) and cranks (cranks.js), and the  *)
(* user's page (solana/frontend/app.js).  The node learns of requests by   *)
(* scanning accounts, so that it acts on what it read some time ago.       *)
(* A transaction lands later, or never; the program checks it then.        *)
(***************************************************************************)
EXTENDS Naturals

CONSTANTS SolMint, SolKey,    \* the requests; a secret and its public key are one id, 0 is none
          MaxMintNodeFaults   \* bounds restarts and calls that fail

ASSUME SolMintAssumption == SolKey \subseteq Nat \ {0} /\ MaxMintNodeFaults \in Nat

VARIABLES
  solMint,     \* the accounts: status, the LP's key, whether the timeout has passed, whether
               \* the commitment binds the user's key
  deposited,   \* the requests the user has paid the Monero for
  mintSwept,   \* the requests whose deposit the LP has collected
  mintTxs,     \* the node's transactions that may still land; whether a job waits for it
  mintScan,    \* what the tick's scan read and has not dispatched
  mintJob,     \* inFlight: per request, where process is
  lpSecrets,   \* lp-secrets.json: per request, the secret
  mintMode,    \* the node's environment: "wallet", "skip" (SKIP_DEPOSIT_VERIFICATION), "none"
  mintNodeFaults

solMintVars == <<solMint, deposited, mintSwept, mintTxs, mintScan, mintJob,
                 lpSecrets, mintMode, mintNodeFaults>>
accountVars == <<solMint, deposited>>
nodeVars == <<mintScan, mintJob, lpSecrets, mintMode>>

SolMintActive == {"pending", "keyProvided", "ready", "secretRevealed"}
NoRequest == [status |-> "none", key |-> 0, late |-> FALSE, bound |-> TRUE]
Resting == [pc |-> "idle", key |-> 0]

MintNodeFault == mintNodeFaults < MaxMintNodeFaults /\ mintNodeFaults' = mintNodeFaults + 1
Becomes(m, s, late) == solMint' = [solMint EXCEPT ![m].status = s, ![m].late = late]
SolStatus(m) == solMint[m].status
Step(m, pc) == mintJob' = [mintJob EXCEPT ![m].pc = pc]
JobAt(m, pc) == mintJob[m].pc = pc
Broadcast(kind, m) ==
  mintTxs' = mintTxs \cup {[kind |-> kind, mint |-> m, key |-> mintJob[m].key, awaited |-> TRUE]}
Orphaned(which) == mintTxs' = {IF t.mint \in which THEN [t EXCEPT !.awaited = FALSE] ELSE t : t \in mintTxs}

-----------------------------------------------------------------------------
\* The program (mint_flow.rs), as far as requests go.

\* initiate_mint, by the page; the commitment may not fit the user's key.
InitiateSolMint(m) ==
  /\ SolStatus(m) = "none"
  /\ \E b \in BOOLEAN : solMint' = [solMint EXCEPT ![m] = [NoRequest EXCEPT !.status = "pending", !.bound = b]]
  /\ UNCHANGED <<deposited, mintSwept, mintTxs, nodeVars, mintNodeFaults>>

SolTimeout(m) ==
  /\ SolStatus(m) \in SolMintActive \cup {"keyCancelled", "expiredReady"} /\ ~solMint[m].late
  /\ Becomes(m, SolStatus(m), TRUE)
  /\ UNCHANGED <<deposited, mintSwept, mintTxs, nodeVars, mintNodeFaults>>

\* cancel_mint, by anybody: a revealed mint is completed instead.
CancelledStatus == [pending |-> "cancelled", keyProvided |-> "keyCancelled",
                    ready |-> "expiredReady", secretRevealed |-> "completed"]

CancelSolMint(m) ==
  /\ SolStatus(m) \in SolMintActive /\ solMint[m].late
  /\ Becomes(m, CancelledStatus[SolStatus(m)], FALSE)
  /\ UNCHANGED <<deposited, mintSwept, mintTxs, nodeVars, mintNodeFaults>>

\* reclaim_parked_deposit, by the user, and sweep_unclaimed_expired_mint, by the crank.
CloseSolMint(m) ==
  /\ SolStatus(m) \in {"keyCancelled", "expiredReady"} /\ solMint[m].late
  /\ Becomes(m, "cancelled", FALSE)
  /\ UNCHANGED <<deposited, mintSwept, mintTxs, nodeVars, mintNodeFaults>>

\* The page shows the deposit address when the key is there, and reveals the
\* secret when the request is ready.  finalize_mint is open to anybody.
PayDeposit(m) ==
  /\ SolStatus(m) = "keyProvided" /\ m \notin deposited /\ deposited' = deposited \cup {m}
  /\ UNCHANGED <<solMint, mintSwept, mintTxs, nodeVars, mintNodeFaults>>

RevealSolSecret(m) ==
  /\ SolStatus(m) = "ready" /\ Becomes(m, "secretRevealed", solMint[m].late)
  /\ UNCHANGED <<deposited, mintSwept, mintTxs, nodeVars, mintNodeFaults>>

FinalizeByOther(m) ==
  /\ SolStatus(m) = "secretRevealed" /\ Becomes(m, "completed", FALSE)
  /\ UNCHANGED <<deposited, mintSwept, mintTxs, nodeVars, mintNodeFaults>>

\* What provide_lp_key, set_mint_ready and finalize_mint require, and their result.
TxAccepted(t) ==
  LET m == t.mint IN
  \/ t.kind = "provide" /\ SolStatus(m) = "pending" /\ ~solMint[m].late
  \/ t.kind = "ready" /\ SolStatus(m) = "keyProvided" /\ ~solMint[m].late
  \/ t.kind = "finalize" /\ SolStatus(m) = "secretRevealed"

TxResult == [provide |-> "keyProvided", ready |-> "ready", finalize |-> "completed"]
AfterTx == [provide |-> "scan", ready |-> "idle", finalize |-> "sweep"]

\* A transaction lands, or is rejected or expires; the job that waits for it goes on.
LandMintTx(t) ==
  /\ t \in mintTxs /\ mintTxs' = mintTxs \ {t}
  /\ \E ok \in {FALSE, TxAccepted(t)} :
       /\ solMint' = IF ~ok THEN solMint ELSE
            [solMint EXCEPT ![t.mint].status = TxResult[t.kind], ![t.mint].late = FALSE,
                            ![t.mint].key = IF t.kind = "provide" THEN t.key ELSE @]
       /\ IF t.awaited THEN Step(t.mint, IF ok THEN AfterTx[t.kind] ELSE "idle") ELSE UNCHANGED mintJob
  /\ UNCHANGED <<deposited, mintSwept, mintScan, lpSecrets, mintMode, mintNodeFaults>>

-----------------------------------------------------------------------------
\* The node

\* scanMintRequests; a request can be missed when the RPC fails.
ScanMints ==
  /\ \E seen \in SUBSET {m \in SolMint : SolStatus(m) \in SolMintActive} :
       mintScan' = [m \in SolMint |-> IF m \in seen THEN solMint[m] ELSE NoRequest]
  /\ UNCHANGED <<accountVars, mintSwept, mintTxs, mintJob, lpSecrets, mintMode, mintNodeFaults>>

FreshSecrets == SolKey \ ({lpSecrets[m] : m \in SolMint} \cup {solMint[m].key : m \in SolMint}
                          \cup {t.key : t \in mintTxs})

\* Mutant: the secret is written once the key is confirmed.
SaveAfterConfirm(m, k) == UNCHANGED lpSecrets

\* store.set, before provide_lp_key is sent.
SaveSecret(m, k) == lpSecrets' = [lpSecrets EXCEPT ![m] = k]

\* provideKeys: the secret of the file or a fresh one.  (The test of the key on the
\* chain decides nothing here: a request read as pending has none.)
ProvideKeys(m, read) ==
  /\ read.status = "pending"
  /\ \/ ~read.bound /\ UNCHANGED <<mintJob, lpSecrets>>
     \/ /\ read.bound
        /\ \E k \in (IF lpSecrets[m] # 0 THEN {lpSecrets[m]} ELSE FreshSecrets) :
             SaveSecret(m, k) /\ mintJob' = [mintJob EXCEPT ![m] = [pc |-> "provide", key |-> k]]

\* tick and maybeProcess: what the scan read is processed if no call for the
\* request is under way.
DispatchMint(m) ==
  LET read == mintScan[m] IN
  /\ read.status # "none" /\ mintScan' = [mintScan EXCEPT ![m] = NoRequest]
  /\ \/ ~JobAt(m, "idle") /\ UNCHANGED <<mintJob, lpSecrets>>
     \/ JobAt(m, "idle") /\ ProvideKeys(m, read)
     \/ JobAt(m, "idle") /\ read.status = "keyProvided" /\ Step(m, "scan") /\ UNCHANGED lpSecrets
     \/ JobAt(m, "idle") /\ read.status = "ready" /\ UNCHANGED <<mintJob, lpSecrets>>
     \/ JobAt(m, "idle") /\ read.status = "secretRevealed" /\ Step(m, "finalize") /\ UNCHANGED lpSecrets
  /\ UNCHANGED <<accountVars, mintSwept, mintTxs, mintMode, mintNodeFaults>>

SendMintTx(m) ==
  /\ \/ /\ JobAt(m, "provide") /\ Broadcast("provide", m) /\ Step(m, "wait")
     \/ /\ JobAt(m, "setReady") /\ SolStatus(m) = "keyProvided" /\ Broadcast("ready", m) /\ Step(m, "wait")
     \/ /\ JobAt(m, "setReady") /\ SolStatus(m) # "keyProvided" /\ Step(m, "idle") /\ UNCHANGED mintTxs
     \/ /\ JobAt(m, "finalize") /\ SolStatus(m) = "secretRevealed" /\ Broadcast("finalize", m) /\ Step(m, "wait")
     \/ /\ JobAt(m, "finalize") /\ SolStatus(m) # "secretRevealed" /\ Step(m, "sweep") /\ UNCHANGED mintTxs
  /\ UNCHANGED <<accountVars, mintSwept, mintScan, lpSecrets, mintMode, mintNodeFaults>>

\* confirm gives up: its transaction may land later.
GiveUpMintTx(m) ==
  /\ JobAt(m, "wait") /\ MintNodeFault /\ Step(m, "idle") /\ Orphaned({m})
  /\ UNCHANGED <<accountVars, mintSwept, mintScan, lpSecrets, mintMode>>

\* awaitDepositAndReady.  shouldAbort is async, so the loop of pollForDeposit sees
\* a promise, which is true, and stops before it has looked: with a wallet the
\* scan always fails.
ScanOutcome(m) == IF mintMode = "skip" THEN "setReady" ELSE "idle"

ScanDeposit(m) ==
  /\ JobAt(m, "scan")
  /\ Step(m, IF lpSecrets[m] # 0 THEN ScanOutcome(m) ELSE "idle")
  /\ UNCHANGED <<accountVars, mintSwept, mintTxs, mintScan, lpSecrets, mintMode, mintNodeFaults>>

\* sweepMintDeposit, tried once: the next scan no longer returns the request.
SweepSolMint(m) ==
  /\ JobAt(m, "sweep") /\ Step(m, "idle")
  /\ \/ /\ mintMode = "wallet" /\ m \in deposited /\ lpSecrets[m] # 0
        /\ mintSwept' = mintSwept \cup {m} /\ UNCHANGED mintNodeFaults
     \/ /\ ~(mintMode = "wallet" /\ m \in deposited /\ lpSecrets[m] # 0)
        /\ UNCHANGED <<mintSwept, mintNodeFaults>>
     \/ MintNodeFault /\ UNCHANGED mintSwept
  /\ UNCHANGED <<accountVars, mintTxs, mintScan, lpSecrets, mintMode>>

\* cranks.js: a keyed mint that was cancelled is abandoned, which publishes the
\* LP's secret.  The other cranks are the program's calls above.
AbandonKeyed(m) ==
  /\ SolStatus(m) = "keyCancelled" /\ ~solMint[m].late
  /\ lpSecrets[m] # 0 /\ lpSecrets[m] = solMint[m].key
  /\ Becomes(m, "cancelled", FALSE)
  /\ UNCHANGED <<deposited, mintSwept, mintTxs, nodeVars, mintNodeFaults>>

\* A restart forgets what runs, keeps the file, and may change the environment.
RestartMintNode ==
  /\ MintNodeFault /\ mintMode' \in {"wallet", "skip", "none"}
  /\ mintScan' = [m \in SolMint |-> NoRequest] /\ mintJob' = [m \in SolMint |-> Resting]
  /\ Orphaned(SolMint)
  /\ UNCHANGED <<accountVars, mintSwept, lpSecrets>>

SolMintInit ==
  /\ solMint = [m \in SolMint |-> NoRequest]
  /\ deposited = {} /\ mintSwept = {} /\ mintTxs = {}
  /\ mintScan = [m \in SolMint |-> NoRequest] /\ mintJob = [m \in SolMint |-> Resting]
  /\ lpSecrets = [m \in SolMint |-> 0]
  /\ mintMode \in {"wallet", "skip", "none"} /\ mintNodeFaults = 0

MintNodeSteps(m) ==
  DispatchMint(m) \/ SendMintTx(m) \/ GiveUpMintTx(m) \/ ScanDeposit(m) \/ SweepSolMint(m)

SolMintNext ==
  \/ \E m \in SolMint :
       \/ InitiateSolMint(m) \/ SolTimeout(m) \/ CancelSolMint(m) \/ CloseSolMint(m) \/ PayDeposit(m)
       \/ RevealSolSecret(m) \/ FinalizeByOther(m) \/ AbandonKeyed(m) \/ MintNodeSteps(m)
  \/ \E t \in mintTxs : LandMintTx(t)
  \/ ScanMints \/ RestartMintNode

SolMintSpec == SolMintInit /\ [][SolMintNext]_solMintVars

-----------------------------------------------------------------------------
\* The key on the chain is that of the secret in the file, over restarts, timed
\* out confirmations and late transactions: "never generate a second secret for
\* the same request" (mintPipeline.js).
ChainKeyIsSaved ==
  \A m \in SolMint : solMint[m].key # 0 => lpSecrets[m] = solMint[m].key
=============================================================================
