------------------------------- MODULE LpMints -------------------------------
(***************************************************************************)
(* The mint pipeline of the LP server (lp-server-js/server.js) on one      *)
(* chain: runs of processMint started by events, the recovery of a start,  *)
(* timers, periodic jobs and the operator, all over one map of entries and *)
(* one secrets file, against the hub's promise MintLifecycle.              *)
(*                                                                         *)
(* A secret, its public key and the address they make are one key id; 0 is *)
(* none.  A run is cut where the code awaits.  Transactions wait in txs    *)
(* and are mined in any order: NonceManager has their nonces.              *)
(***************************************************************************)
EXTENDS MintLifecycle, FiniteSets

CONSTANTS Key, Run,                \* bound the ids in use and the concurrent runs
          RetryMax,                \* MINT_RETRY_MAX
          PeriodicMax,             \* the 3 periodic retries
          MaxTroubles              \* bounds crashes, failed calls, lost events and
                                   \* the operator's calls, taken together

ASSUME LpMintsAssumption ==
  /\ Key \subseteq Nat \ {0}
  /\ {RetryMax, PeriodicMax, MaxTroubles} \subseteq Nat

VARIABLES
  posted, paid, swept,  \* per mint: key on chain, key the user paid to, the LP has the XMR
  ripe,                 \* the mints whose deposit has its ten confirmations
  given,                \* fixed: whether the wallet's URL is set, the mints whose commitment
                        \* binds the user's key, and those whose address can be computed
  txs,                  \* the server's transactions nobody mined yet
  unseen,               \* events since lastCheckedBlock
  phase, todo,          \* where startChain is, and what the phase has left
  entry, run, timers,   \* pendingMints, the pending calls of processMint, retry timeouts
  disk, snapshot,       \* the secrets file, and the copy a startup phase works on
  count                 \* the troubles so far

chainVars == <<mint, posted, paid, ripe, swept, given, txs>>
serverVars == <<phase, todo, entry, run, timers, snapshot>>
mintVars == <<chainVars, unseen, serverVars, disk, count>>

Keyed == {"KEY_PROVIDED", "READY", "SECRET_REVEALED", "KEY_CANCELLED", "EXPIRED_READY"}

NoEntry == [tracked |-> FALSE, known |-> FALSE, processing |-> FALSE, keyPosted |-> FALSE,
            error |-> FALSE, finalizing |-> FALSE, sweeping |-> FALSE, swept |-> FALSE,
            secret |-> 0, retries |-> 0]
NewEntry == [NoEntry EXCEPT !.tracked = TRUE, !.known = TRUE, !.processing = TRUE]
NoFile == [secret |-> 0, swept |-> FALSE, unrecoverable |-> FALSE]
Idle == [pc |-> "idle", mint |-> CHOOSE m \in Mint : TRUE, key |-> 0, secret |-> 0,
         status |-> "UNKNOWN", known |-> FALSE, by |-> "none", attempt |-> 0]

Up == phase # "down"
Free == {i \in Run : run[i].pc = "idle"}
FreeRun == CHOOSE i \in Free : TRUE
FreshKeys == Key \ (UNION {{posted[m], paid[m], entry[m].secret, disk[m].secret,
                            snapshot[m].secret} : m \in Mint}
                    \cup UNION {{run[i].key, run[i].secret} : i \in Run}
                    \cup {t.key : t \in txs})
FreshKey == CHOOSE k \in FreshKeys : \A l \in FreshKeys : k <= l

Trouble(kind) ==
  /\ count.crashes + count.faults + count.refusals + count.unsaved + count.drops + count.calls
       < MaxTroubles
  /\ count' = [count EXCEPT ![kind] = @ + 1]
Fault == Trouble("faults")   \* a call to a node or the wallet fails
Refused == Trouble("refusals")   \* the hub refuses a transaction for the vault's sake

Enter(m, e) == entry' = [entry EXCEPT ![m] = e]
Goes(i, r) == run' = [run EXCEPT ![i] = r]

\* The events a move of m makes the poller see.
Seen(m) ==
  unseen' = unseen \cup
    (CASE mint'[m].status = mint[m].status -> {}
       [] mint'[m].status = "PENDING" -> {<<"initiated", m>>}
       [] mint'[m].status = "COMPLETED" -> {<<"finalized", m>>}
       [] mint'[m].status = "CANCELLED" -> {<<"cancelled", m>>}
       [] mint'[m].status = "KEY_CANCELLED" -> {<<"keyCancelled", m>>}
       [] OTHER -> {})

\* The entry of run r's mint as the run leaves it.
Noted(r) == [entry[r.mint] EXCEPT !.tracked = TRUE, !.known = r.known, !.secret = r.secret]

-----------------------------------------------------------------------------
\* processMint

\* A run starts: with fresh keys, or with the keys on the chain.  It keeps the
\* entry it found, and puts it back into the map whenever it notes something.
StartRun(m, fresh, by, attempt) ==
  /\ Free # {}
  /\ fresh => FreshKeys # {}
  /\ LET k == IF fresh THEN FreshKey ELSE posted[m] IN
     Goes(FreeRun, [pc |-> "status", mint |-> m, key |-> k, secret |-> IF fresh THEN k ELSE 0,
                    status |-> "UNKNOWN", by |-> by, attempt |-> attempt,
                    known |-> by \in {"event", "recovery"} \/ entry[m].known])

\* The status is read, then the posted keys or the binding: three tries each
\* way, and a status that could not be read passes for one without checks.
ReadStatus(i) ==
  LET r == run[i]
      m == r.mint
      s == mint[m].status IN
  /\ r.pc = "status"
  /\ \/ /\ s \in MintEnded
        /\ Goes(i, Idle) /\ Enter(m, NoEntry) /\ UNCHANGED count
     \/ /\ s \in Keyed
        /\ Goes(i, [r EXCEPT !.pc = "secret", !.status = s, !.key = posted[m]])
        /\ UNCHANGED <<entry, count>>
     \/ /\ s = "PENDING" /\ m \in given.binds
        /\ Goes(i, [r EXCEPT !.pc = "secret", !.status = s]) /\ UNCHANGED <<entry, count>>
     \/ /\ s = "PENDING" /\ m \notin given.binds
        /\ Goes(i, Idle)
        /\ Enter(m, [entry[m] EXCEPT !.tracked = TRUE, !.error = TRUE, !.processing = FALSE])
        /\ UNCHANGED count
     \/ Fault /\ Goes(i, [r EXCEPT !.pc = "secret"]) /\ UNCHANGED entry
  /\ UNCHANGED <<chainVars, unseen, phase, todo, timers, snapshot, disk>>

\* The secret given, else the one on disk, else a fresh one: into the entry and,
\* if the file can be written, onto the disk before anything is sent.
TakeSecret(i) ==
  LET r == run[i]
      m == r.mint IN
  /\ r.pc = "secret"
  /\ \E k \in (IF r.secret # 0 THEN {r.secret}
               ELSE IF disk[m].secret # 0 THEN {disk[m].secret}
               ELSE IF FreshKeys # {} THEN {FreshKey} ELSE {}) :
       /\ Goes(i, [r EXCEPT !.secret = k, !.pc = IF r.status \in Keyed THEN "posted" ELSE "send"])
       /\ Enter(m, Noted([r EXCEPT !.secret = k]))
       /\ \/ disk' = [disk EXCEPT ![m].secret = k] /\ UNCHANGED count
          \/ Trouble("unsaved") /\ UNCHANGED disk
  /\ UNCHANGED <<chainVars, unseen, phase, todo, timers, snapshot>>

\* provideLPKey is broadcast; a broadcast that fails or times out throws,
\* whether or not the transaction is on its way.
SendKey(i) ==
  LET r == run[i]
      t == [kind |-> "provide", mint |-> r.mint, key |-> r.key, run |-> i] IN
  /\ r.pc = "send"
  /\ \/ txs' = txs \cup {t} /\ Goes(i, [r EXCEPT !.pc = "wait"]) /\ UNCHANGED count
     \/ txs' = txs \cup {t} /\ Goes(i, [r EXCEPT !.pc = "throw"]) /\ Fault
     \/ UNCHANGED txs /\ Goes(i, [r EXCEPT !.pc = "throw"]) /\ Fault
  /\ UNCHANGED <<mint, posted, paid, ripe, swept, given, unseen, phase, todo, entry, timers,
                 snapshot, disk>>

\* A transaction is mined, and does what the hub lets it do: it is refused for its
\* request's status and time, or for what the vault is in: too little collateral, a
\* kick, a freeze, a mint nonce that moved on.
Mine(t) ==
  LET m == t.mint
      waits == [provide |-> "wait", ready |-> "readywait"][t.kind]
      Receipt(ok) == run' = [i \in Run |->
        IF /\ i = t.run /\ run[i].mint = m /\ run[i].pc = waits
           /\ t.kind = "ready" \/ run[i].key = t.key
        THEN IF ~ok THEN [run[i] EXCEPT !.pc = "throw"]
             ELSE IF t.kind = "ready" THEN Idle ELSE [run[i] EXCEPT !.pc = "mined"]
        ELSE run[i]] IN
  /\ t \in txs
  /\ txs' = txs \ {t}
  /\ \/ /\ t.kind = "provide" /\ ProvideKey(m)
        /\ posted' = [posted EXCEPT ![m] = t.key] /\ Receipt(TRUE) /\ UNCHANGED count
     \/ t.kind = "ready" /\ MarkReady(m) /\ Receipt(TRUE) /\ UNCHANGED <<posted, count>>
     \/ /\ mint[m].expired \/ mint[m].status # (IF t.kind = "provide" THEN "PENDING"
                                                ELSE "KEY_PROVIDED")
        /\ Receipt(FALSE) /\ UNCHANGED <<mint, posted, count>>
     \/ Refused /\ Receipt(FALSE) /\ UNCHANGED <<mint, posted>>
  /\ UNCHANGED <<paid, ripe, swept, given, unseen, phase, todo, entry, timers, snapshot, disk>>

\* No receipt within 120 seconds: the run throws, the transaction stays.
AwaitTimeout(i) ==
  /\ run[i].pc \in {"wait", "mined"}
  /\ Fault
  /\ Goes(i, [run[i] EXCEPT !.pc = "throw"])
  /\ UNCHANGED <<chainVars, unseen, phase, todo, entry, timers, snapshot, disk>>

\* A wallet is configured, and the deposit address can be computed.
Verifiable(m) == given.wallet /\ m \in given.addressed

\* The keys are on the chain.  The deposit is scanned only where the amount is known,
\* there is a wallet and an address, and the secret is that of the key; otherwise the
\* run goes on unverified.
Posted(i) ==
  LET r == run[i]
      m == r.mint IN
  /\ r.pc \in {"mined", "posted"}
  /\ Enter(m, [Noted(r) EXCEPT !.keyPosted = TRUE])
  /\ Goes(i, [r EXCEPT !.pc =
       IF r.known /\ Verifiable(m) /\ r.secret = r.key
       THEN "scan" ELSE "finalize"])
  /\ UNCHANGED <<chainVars, unseen, phase, todo, timers, snapshot, disk, count>>

ScanFinds(i) ==
  /\ run[i].pc = "scan" /\ paid[run[i].mint] = run[i].key
  /\ Goes(i, [run[i] EXCEPT !.pc = "finalize"])
  /\ UNCHANGED <<chainVars, unseen, phase, todo, entry, timers, snapshot, disk, count>>

\* Mutant: a scan that found nothing goes on to set the mint ready.
ScanGivesUpReady(i) ==
  /\ run[i].pc = "scan" /\ paid[run[i].mint] # run[i].key
  /\ Goes(i, [run[i] EXCEPT !.pc = "finalize"])
  /\ UNCHANGED <<chainVars, unseen, phase, todo, entry, timers, snapshot, disk, count>>

\* Two hours without the deposit, or a wallet that fails: the run returns, and
\* `processing' stays set.
ScanGivesUp(i) ==
  LET m == run[i].mint IN
  /\ run[i].pc = "scan"
  /\ \/ paid[m] # run[i].key /\ UNCHANGED count
     \/ Fault
  /\ Goes(i, Idle) /\ Enter(m, [Noted(run[i]) EXCEPT !.error = TRUE])
  /\ UNCHANGED <<chainVars, unseen, phase, todo, timers, snapshot, disk>>

\* finalizeMint: once per entry, whatever becomes of the transaction.
Finalize(i) ==
  LET r == run[i]
      m == r.mint IN
  /\ r.pc = "finalize"
  /\ IF entry[m].finalizing THEN Goes(i, Idle) /\ UNCHANGED <<entry, disk, count>>
     ELSE /\ Goes(i, [r EXCEPT !.pc = "ready"])
          /\ Enter(m, [Noted(r) EXCEPT !.finalizing = TRUE])
          /\ \/ disk' = [disk EXCEPT ![m].secret = r.secret] /\ UNCHANGED count
             \/ Trouble("unsaved") /\ UNCHANGED disk
  /\ UNCHANGED <<chainVars, unseen, phase, todo, timers, snapshot>>

SendReady(i) ==
  LET r == run[i] IN
  /\ r.pc = "ready"
  /\ \/ /\ txs' = txs \cup {[kind |-> "ready", mint |-> r.mint, key |-> 0, run |-> i]}
        /\ Goes(i, [r EXCEPT !.pc = "readywait"]) /\ UNCHANGED count
     \/ UNCHANGED txs /\ Goes(i, [r EXCEPT !.pc = "throw"]) /\ Fault
  /\ UNCHANGED <<mint, posted, paid, ripe, swept, given, unseen, phase, todo, entry, timers,
                 snapshot, disk>>

-----------------------------------------------------------------------------
\* Failures and retries

\* Mutant: only the recovery and the timer schedule a retry.
ReschedulesLate(r) ==
  r.by = "recovery" \/ (r.by = "timer" /\ ~entry[r.mint].keyPosted /\ r.attempt < RetryMax)

\* Which callers of processMint try again in a minute.
Reschedules(r) ==
  \/ r.by = "recovery"
  \/ r.by = "event" /\ ~entry[r.mint].keyPosted
  \/ r.by = "timer" /\ ~entry[r.mint].keyPosted /\ r.attempt < RetryMax

\* What each caller of processMint does with an exception.
Throw(i) ==
  LET r == run[i]
      m == r.mint
      e == entry[m]
      next == IF r.by = "timer" THEN r.attempt + 1 ELSE 1 IN
  /\ r.pc = "throw"
  /\ Goes(i, Idle)
  /\ IF r.by = "manual" THEN UNCHANGED entry
     ELSE Enter(m, [e EXCEPT !.tracked = TRUE, !.error = TRUE, !.processing = FALSE])
  /\ timers' = IF Reschedules(r) THEN timers \cup {<<m, next>>} ELSE timers
  /\ UNCHANGED <<chainVars, unseen, phase, todo, snapshot, disk, count>>

\* scheduleMintProcessRetry: one minute later.  A reading of the request that fails
\* is a failed attempt too.
TimerFires(m, n) ==
  LET e == entry[m]
      s == mint[m].status
      due == e.tracked /\ ~e.processing /\ ~e.keyPosted
      rest == timers \ {<<m, n>>} IN
  /\ <<m, n>> \in timers
  /\ \/ /\ ~due /\ timers' = rest /\ UNCHANGED <<entry, run, count>>
     \/ /\ due /\ timers' = rest /\ Enter(m, [e EXCEPT !.processing = TRUE])
        /\ IF s \in {"PENDING", "KEY_PROVIDED"}
           THEN StartRun(m, s = "PENDING", "timer", n)
           ELSE UNCHANGED run
        /\ UNCHANGED count
     \/ /\ due /\ Fault /\ Enter(m, [e EXCEPT !.error = TRUE])
        /\ timers' = rest \cup (IF n < RetryMax THEN {<<m, n + 1>>} ELSE {})
        /\ UNCHANGED run
  /\ UNCHANGED <<chainVars, unseen, phase, todo, snapshot, disk>>

\* startPeriodicJobs, every five minutes: a failed mint that is keyed.
PeriodicRetry(m) ==
  LET e == entry[m]
      s == mint[m].status IN
  /\ phase = "ready" /\ e.tracked /\ e.error /\ ~e.processing /\ e.retries < PeriodicMax
  /\ \/ /\ s = "KEY_PROVIDED"
        /\ Enter(m, [e EXCEPT !.retries = @ + 1, !.processing = TRUE, !.error = FALSE])
        /\ StartRun(m, FALSE, "periodic", 0)
     \/ s \in MintEnded /\ Enter(m, NoEntry) /\ UNCHANGED run
  /\ UNCHANGED <<chainVars, unseen, phase, todo, timers, snapshot, disk, count>>

-----------------------------------------------------------------------------
\* The event poller

\* A request's own event comes first, in a poll as on the chain.
Polled(kind, m) ==
  /\ Up /\ <<kind, m>> \in unseen
  /\ kind # "initiated" => <<"initiated", m>> \notin unseen
  /\ unseen' = unseen \ {<<kind, m>>}

SeeInitiated(m) ==
  /\ Polled("initiated", m)
  /\ IF entry[m].processing \/ entry[m].keyPosted THEN UNCHANGED <<entry, run>>
     ELSE /\ Enter(m, NewEntry)
          /\ StartRun(m, TRUE, "event", 0)
  /\ UNCHANGED <<chainVars, phase, todo, timers, snapshot, disk, count>>

\* Mutant: a mint whose run has not returned is not swept.
SeeFinalizedIdle(m) ==
  /\ Polled("finalized", m)
  /\ IF entry[m].tracked /\ ~entry[m].processing
     THEN Enter(m, [entry[m] EXCEPT !.sweeping = TRUE]) ELSE UNCHANGED entry
  /\ UNCHANGED <<chainVars, phase, todo, run, timers, snapshot, disk, count>>

SeeFinalized(m) ==
  /\ Polled("finalized", m)
  /\ IF entry[m].tracked /\ ~entry[m].swept THEN Enter(m, [entry[m] EXCEPT !.sweeping = TRUE])
     ELSE UNCHANGED entry
  /\ UNCHANGED <<chainVars, phase, todo, run, timers, snapshot, disk, count>>

\* The sweep the event started.  One that finds nothing, finds the deposit without
\* its confirmations, or fails, may be tried again at the next such event (server.js
\* says: on next poll); there is none.
Sweep(m) ==
  LET e == entry[m]
      there == given.wallet /\ m \in ripe /\ paid[m] = e.secret IN
  /\ e.sweeping /\ e.secret # 0
  /\ \/ /\ there
        /\ Enter(m, [e EXCEPT !.swept = TRUE, !.sweeping = FALSE])
        /\ disk' = [disk EXCEPT ![m].swept = (disk[m].secret # 0)]
        /\ swept' = [swept EXCEPT ![m] = TRUE] /\ UNCHANGED count
     \/ /\ Enter(m, [e EXCEPT !.sweeping = FALSE]) /\ UNCHANGED <<disk, swept>>
        /\ IF there THEN Fault ELSE UNCHANGED count
  /\ UNCHANGED <<mint, posted, paid, ripe, given, txs, unseen, phase, todo, run, timers, snapshot>>

SeeCancelled(m) ==
  /\ Polled("cancelled", m)
  /\ Enter(m, NoEntry)
  /\ UNCHANGED <<chainVars, phase, todo, run, timers, snapshot, disk, count>>

\* The parked deposit is claimed with the secret of the file, which the hub
\* takes only if it is the one of the key it has.
SeeKeyCancelled(m) ==
  /\ Up /\ <<"keyCancelled", m>> \in unseen /\ <<"initiated", m>> \notin unseen
  /\ \/ /\ disk[m].secret = posted[m] /\ mint[m].status = "KEY_CANCELLED" /\ PublishLpSecret(m)
        /\ unseen' = (unseen \ {<<"keyCancelled", m>>}) \cup {<<"cancelled", m>>}
        /\ Enter(m, NoEntry) /\ UNCHANGED count
     \/ /\ unseen' = unseen \ {<<"keyCancelled", m>>}
        /\ UNCHANGED <<mint, entry>>
        /\ IF /\ disk[m].secret = posted[m] /\ InTime(m) /\ mint[m].status = "KEY_CANCELLED"
           THEN Fault ELSE UNCHANGED count
  /\ UNCHANGED <<posted, paid, ripe, swept, given, txs, phase, todo, run, timers, snapshot, disk>>

\* queryFilterChunked gives up after its retries.
MintQueryFails == Trouble("drops")

\* A query of these events fails and the poll goes on: the events are never seen.
LoseEvents(kind) ==
  /\ Up /\ kind \in {"finalized", "cancelled", "keyCancelled"}
  /\ \E m \in Mint : <<kind, m>> \in unseen
  /\ MintQueryFails
  /\ unseen' = {e \in unseen : e[1] # kind}
  /\ UNCHANGED <<chainVars, serverVars, disk>>

-----------------------------------------------------------------------------
\* startChain: the poller starts first, then the three phases, one mint at a time

Requested == {m \in Mint : mint[m].status # "INVALID"}

Crash ==
  /\ Up /\ Trouble("crashes")
  /\ phase' = "down" /\ todo' = {} /\ timers' = {}
  /\ entry' = [m \in Mint |-> NoEntry] /\ run' = [i \in Run |-> Idle]
  /\ snapshot' = [m \in Mint |-> NoFile]
  /\ UNCHANGED <<chainVars, unseen, disk>>

Start ==
  /\ phase = "down"
  /\ phase' = "recover" /\ todo' = Requested /\ unseen' = {} /\ snapshot' = disk
  /\ UNCHANGED <<chainVars, entry, run, timers, disk, count>>

\* startupRecoverMints, one mint; what fails here waits for the next restart.
Recover(m) ==
  LET s == mint[m].status
      e == mint[m].expired
      KnownSecret == snapshot[m].secret # 0 /\ snapshot[m].secret = posted[m]
      Acts == \/ KnownSecret /\ <<s, e>> \in {<<"KEY_CANCELLED", FALSE>>, <<"KEY_PROVIDED", TRUE>>}
              \/ s = "READY" /\ e
      Process == s = "PENDING" \/ (s = "KEY_PROVIDED" /\ ~e) IN
  /\ phase = "recover" /\ m \in todo /\ todo' = todo \ {m}
  /\ \/ /\ Acts /\ (IF s = "READY" THEN CancelExpired(m) ELSE PublishLpSecret(m))
        /\ Seen(m) /\ UNCHANGED <<entry, run, count>>
     \/ /\ Process
        /\ Enter(m, [NewEntry EXCEPT !.keyPosted = (s = "KEY_PROVIDED")])
        /\ StartRun(m, s = "PENDING", "recovery", 0)
        /\ UNCHANGED <<mint, unseen, count>>
     \/ /\ IF Acts \/ Process THEN Trouble("drops") ELSE UNCHANGED count
        /\ UNCHANGED <<mint, unseen, entry, run>>
  /\ UNCHANGED <<posted, paid, ripe, swept, given, txs, phase, timers, snapshot, disk>>

\* startupResolveStale, one mint: cancel what timed out.
Resolve(m) ==
  /\ phase = "resolve" /\ m \in todo /\ todo' = todo \ {m}
  /\ IF mint[m].status \in {"PENDING", "KEY_PROVIDED", "READY"} /\ mint[m].expired
     THEN \/ CancelExpired(m) /\ Seen(m) /\ UNCHANGED count
          \/ Fault /\ UNCHANGED <<mint, unseen>>
     ELSE UNCHANGED <<mint, unseen, count>>
  /\ UNCHANGED <<posted, paid, ripe, swept, given, txs, phase, entry, run, timers, snapshot, disk>>

\* startupSweepFinalizedMints, one mint of the copy of the file.
BootSweep(m) ==
  LET f == snapshot[m]
      Retry == Enter(m, [NoEntry EXCEPT !.tracked = TRUE, !.secret = f.secret]) IN
  /\ phase = "sweep" /\ m \in todo /\ todo' = todo \ {m}
  /\ \/ /\ f.swept \/ f.unrecoverable \/ mint[m].status \notin MintEnded
        /\ UNCHANGED <<entry, swept, snapshot, count>>
     \/ /\ ~f.swept /\ ~f.unrecoverable /\ mint[m].status = "CANCELLED"
        /\ snapshot' = [snapshot EXCEPT ![m].swept = TRUE]
        /\ UNCHANGED <<entry, swept, count>>
     \/ /\ ~f.swept /\ ~f.unrecoverable /\ mint[m].status = "COMPLETED"
        /\ \/ /\ f.secret # posted[m]
              /\ snapshot' = [snapshot EXCEPT ![m].unrecoverable = TRUE]
              /\ UNCHANGED <<entry, swept, count>>
           \/ /\ f.secret = posted[m] /\ paid[m] = f.secret /\ given.wallet /\ m \in ripe
              /\ snapshot' = [snapshot EXCEPT ![m].swept = TRUE]
              /\ swept' = [swept EXCEPT ![m] = TRUE] /\ UNCHANGED <<entry, count>>
           \/ /\ f.secret = posted[m]
              /\ paid[m] # f.secret \/ ~given.wallet \/ m \notin ripe
              /\ Retry /\ UNCHANGED <<swept, snapshot, count>>
     \/ ~f.swept /\ ~f.unrecoverable /\ Fault /\ Retry /\ UNCHANGED <<swept, snapshot>>
  /\ UNCHANGED <<mint, posted, paid, ripe, given, txs, unseen, phase, run, timers, disk>>

\* A phase has nothing left.  The sweep works on the file as it was when the
\* phase began, and ends by writing that copy back over the whole file.
NextPhase ==
  LET file == {m \in Mint : disk[m].secret # 0} IN
  /\ todo = {}
  /\ \/ /\ phase = "recover" /\ phase' = "resolve" /\ todo' = Requested
        /\ UNCHANGED <<snapshot, disk>>
     \/ /\ phase = "resolve" /\ file # {}
        /\ phase' = "sweep" /\ todo' = file /\ snapshot' = disk /\ UNCHANGED disk
     \/ /\ phase = "resolve" /\ file = {}
        /\ phase' = "ready" /\ UNCHANGED <<todo, snapshot, disk>>
     \/ /\ phase = "sweep" /\ phase' = "ready" /\ disk' = snapshot
        /\ snapshot' = [m \in Mint |-> NoFile] /\ UNCHANGED todo
  /\ UNCHANGED <<chainVars, unseen, entry, run, timers, count>>

-----------------------------------------------------------------------------
\* The operator's routes

Operator(r) == Up /\ Free # {} /\ Trouble("calls") /\ Goes(FreeRun, r)

\* POST /mint/key: keys somebody else made, processed without their secret.
PostKey(m) ==
  /\ mint[m].status # "INVALID" /\ FreshKeys # {}
  /\ Operator([Idle EXCEPT !.pc = "status", !.mint = m, !.key = FreshKey, !.by = "manual",
                          !.known = entry[m].known])
  /\ UNCHANGED <<chainVars, unseen, phase, todo, entry, timers, snapshot, disk>>

\* POST /mint/scan: the posted keys, and an entry if there was none.
PostScan(m) ==
  /\ mint[m].status \notin MintEnded /\ posted[m] # 0
  /\ Operator([Idle EXCEPT !.pc = "status", !.mint = m, !.key = posted[m], !.by = "manual",
                          !.known = entry[m].tracked => entry[m].known])
  /\ Enter(m, IF entry[m].tracked THEN [entry[m] EXCEPT !.keyPosted = TRUE]
              ELSE [NewEntry EXCEPT !.processing = FALSE, !.keyPosted = TRUE])
  /\ UNCHANGED <<chainVars, unseen, phase, todo, timers, snapshot, disk>>

-----------------------------------------------------------------------------
\* Everybody else

\* The page shows the address of the keys on the chain.
Pay(m) ==
  /\ mint[m].status = "KEY_PROVIDED" /\ paid[m] = 0
  /\ paid' = [paid EXCEPT ![m] = posted[m]]
  /\ UNCHANGED <<mint, posted, ripe, swept, given, txs, unseen, serverVars, disk, count>>

\* Ten blocks later the wallet can spend what was paid.
Ripen(m) ==
  /\ paid[m] # 0 /\ m \notin ripe
  /\ ripe' = ripe \cup {m}
  /\ UNCHANGED <<mint, posted, paid, swept, given, txs, unseen, serverVars, disk, count>>

Others(m) ==
  /\ \/ RequestMint(m) \/ RevealMint(m) \/ CompleteMint(m) \/ VoidMint(m)
     \/ CancelExpired(m) \/ ReclaimMint(m) \/ ExpireMints({m})
  /\ Seen(m)
  /\ UNCHANGED <<posted, paid, ripe, swept, given, txs, serverVars, disk, count>>

LpMintsInit ==
  /\ MintInit
  /\ posted = [m \in Mint |-> 0] /\ paid = [m \in Mint |-> 0] /\ swept = [m \in Mint |-> FALSE]
  /\ given \in {g \in [wallet : BOOLEAN, binds : SUBSET Mint, addressed : SUBSET Mint] :
                  g.binds \subseteq g.addressed}
  /\ ripe = {} /\ txs = {} /\ unseen = {}
  /\ phase = "ready" /\ todo = {} /\ timers = {}
  /\ entry = [m \in Mint |-> NoEntry] /\ run = [i \in Run |-> Idle]
  /\ disk = [m \in Mint |-> NoFile] /\ snapshot = [m \in Mint |-> NoFile]
  /\ count = [crashes |-> 0, faults |-> 0, unsaved |-> 0, drops |-> 0, calls |-> 0,
               refusals |-> 0]

RunSteps(i) ==
  \/ ReadStatus(i) \/ TakeSecret(i) \/ SendKey(i) \/ AwaitTimeout(i) \/ Posted(i)
  \/ ScanFinds(i) \/ ScanGivesUp(i) \/ Finalize(i) \/ SendReady(i) \/ Throw(i)

ServerSteps(m) ==
  \/ \E n \in 1 .. RetryMax : TimerFires(m, n)
  \/ PeriodicRetry(m) \/ SeeInitiated(m) \/ SeeFinalized(m) \/ Sweep(m)
  \/ SeeCancelled(m) \/ SeeKeyCancelled(m) \/ Recover(m) \/ Resolve(m) \/ BootSweep(m)

LpMintsNext ==
  \/ \E i \in Run : RunSteps(i)
  \/ \E m \in Mint : ServerSteps(m) \/ PostKey(m) \/ PostScan(m) \/ Pay(m) \/ Ripen(m) \/ Others(m)
  \/ \E t \in txs : Mine(t)
  \/ \E kind \in {"finalized", "cancelled", "keyCancelled"} : LoseEvents(kind)
  \/ Crash \/ Start \/ NextPhase

\* Node runs what is due and polls every 15 seconds; miners mine.  Nobody else
\* owes anything, and no crash, fault or call of the operator is owed.
LpMintsFairness ==
  /\ \A i \in Run : WF_mintVars(RunSteps(i))
  /\ \A m \in Mint : WF_mintVars(ServerSteps(m))
  /\ WF_mintVars(\E t \in txs : Mine(t)) /\ WF_mintVars(Start \/ NextPhase)

LpMintsSpec == LpMintsInit /\ [][LpMintsNext]_mintVars /\ LpMintsFairness

-----------------------------------------------------------------------------
\* Properties

\* In a server that was not restarted and can write its file, the file has the
\* secret of every key on the chain: a retry of a request that reads as pending
\* takes its keys for never posted (server.js:754).
SecretKept ==
  count.crashes + count.unsaved + count.calls = 0 =>
    \A m \in Mint : posted[m] # 0 => disk[m].secret = posted[m]

\* Every request is keyed, refused or runs out of time, over crashes and restarts, a
\* file that cannot be written, and as many failed calls, lost receipts and refusals of
\* the hub as there are retries; one more and the server gives up (server.js, the
\* recovery and scheduleMintProcessRetry).
RequestsAnswered ==
  \A m \in Mint :
    (m \in given.binds /\ mint[m].status = "PENDING") ~>
      \/ mint[m].status # "PENDING" \/ mint[m].expired
      \/ count.drops + count.calls > 0 \/ count.faults + count.refusals > RetryMax

\* Where a wallet is configured and no call fails, the deposit of a completed mint whose
\* secret was kept ends in the LP's wallet, if it has its confirmations when the server
\* starts, or when the poller of a server that never was restarted sees the completion
\* (server.js, startupSweepFinalizedMints and the poller's sweep).
CompletedIsSwept ==
  \A m \in Mint :
    (/\ mint[m].status = "COMPLETED" /\ m \in ripe /\ paid[m] = disk[m].secret
     /\ phase = "down" \/ (count.crashes = 0 /\ <<"finalized", m>> \in unseen)) ~>
      \/ swept[m] \/ ~given.wallet
      \/ count.faults + count.unsaved + count.drops + count.calls > 0
=============================================================================
