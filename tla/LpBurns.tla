------------------------------- MODULE LpBurns -------------------------------
(***************************************************************************)
(* The burn pipeline of the LP server (lp-server-js/burnHandler.js and the *)
(* stale-burn job of server.js) against the promise BurnLifecycle: the     *)
(* proposal, the XMR the LP sends to the shared address, the finalization, *)
(* and the sweeps of what a user declined or slashed.                      *)
(*                                                                         *)
(* A secret and its hash are one id, 0 is none.  Each asynchronous call is *)
(* a job, cut where it awaits; a sent transaction waits in txs.            *)
(***************************************************************************)
EXTENDS BurnLifecycle, FiniteSets

CONSTANTS Secret, Job,        \* bound the ids in use and the concurrent calls
          SendRetryMax,       \* XMR_SEND_MAX_ATTEMPTS
          FinalizeRetryMax,   \* the 3 finalizations of the recoveries
          MaxBurnTroubles     \* bounds crashes, failures and the operator's calls

ASSUME LpBurnsAssumption ==
  /\ Secret \subseteq Nat \ {0}
  /\ {SendRetryMax, FinalizeRetryMax, MaxBurnTroubles} \subseteq Nat

VARIABLES
  auto,                 \* AUTO_PROCESS_BURNS, which no step changes
  hash, sent, back,     \* per burn: the hash proposed, the times XMR was sent, swept back
  burnTxs,              \* transactions nobody mined yet
  burnEvents,           \* events since lastCheckedBlock
  running, recovery,    \* the server is up; where its startupRecoverBurns is
  overtaken,            \* history: the burns with an event handled while the recovery read them
  burnEntry, job,       \* the BurnState objects of pendingBurns, the calls under way
  sendTimer,            \* attempts of scheduleXmrSendRetry waiting for their 30 seconds
  burnFile,             \* the burn secrets file
  trouble

burnChain == <<burn, hash, sent, back, burnTxs>>
burnServer == <<running, recovery, overtaken, burnEntry, job, sendTimer>>
burnVars == <<burnChain, burnEvents, burnServer, burnFile, trouble>>

\* A burn has two objects at most in a life of the server: the one of its event and
\* the recovery's, which takes its place in pendingBurns.  A call keeps its own.
BurnState == Burn \X {"event", "recovery"}

NoBurnEntry == [tracked |-> FALSE, known |-> FALSE, state |-> "none", secret |-> 0,
                sent |-> FALSE, tries |-> 0]
NoSaved == [secret |-> 0, sent |-> FALSE, tries |-> 0]
NoJob == [pc |-> "idle", tx |-> "none", burn |-> CHOOSE b \in Burn : TRUE, secret |-> 0,
          entry |-> "event", by |-> "none", attempt |-> 0]
NoRecovery == [phase |-> "scan", left |-> {}, burn |-> NoJob.burn, status |-> "none"]

Current(b) == <<b, IF burnEntry[<<b, "recovery">>].tracked THEN "recovery" ELSE "event">>
Tracked(b) == burnEntry[Current(b)].tracked
Held(j) == <<job[j].burn, job[j].entry>>

FreeJobs == {j \in Job : job[j].pc = "idle"}
FreshSecrets == Secret \ (UNION {{hash[b], burnFile[b].secret} : b \in Burn}
                          \cup {burnEntry[o].secret : o \in BurnState}
                          \cup {job[j].secret : j \in Job} \cup {t.secret : t \in burnTxs})
FreshSecret == CHOOSE s \in FreshSecrets : \A t \in FreshSecrets : s <= t

BurnTrouble(kind) ==
  /\ trouble.crashes + trouble.faults + trouble.unsure + trouble.unsaved + trouble.calls
       < MaxBurnTroubles
  /\ trouble' = [trouble EXCEPT ![kind] = @ + 1]

Works(j, pc) == job' = [job EXCEPT ![j].pc = pc]
Sends(j, tx, secret) == job' = [job EXCEPT ![j] = [@ EXCEPT !.pc = "send", !.tx = tx, !.secret = secret]]
Ends(j) == job' = [job EXCEPT ![j] = NoJob]
Begin(pc, o, by, attempt) ==
  /\ FreeJobs # {}
  /\ job' = [job EXCEPT ![CHOOSE j \in FreeJobs : TRUE] =
               [NoJob EXCEPT !.pc = pc, !.burn = o[1], !.entry = o[2], !.by = by,
                  !.attempt = attempt]]
SetEntry(o, e) == burnEntry' = [burnEntry EXCEPT ![o] = e]
InState(o, state) == SetEntry(o, [burnEntry[o] EXCEPT !.state = state])

\* updateBurnSecretState: only an entry that is in the file changes.
Save(b, f) == burnFile' = [burnFile EXCEPT ![b] = IF @.secret = 0 THEN @ ELSE f]

\* A call fails and ends.  The failed finalization of a recovery is counted.
Fails(j) ==
  LET r == job[j]
      e == burnEntry[Held(j)] IN
  /\ Ends(j)
  /\ IF r.by = "recovery" /\ r.tx # "propose"
     THEN /\ SetEntry(Held(j), [e EXCEPT !.tries = @ + 1])
          /\ Save(r.burn, [burnFile[r.burn] EXCEPT !.tries = e.tries + 1])
     ELSE UNCHANGED <<burnFile, burnEntry>>

\* The events a step of the chain makes, for the next poll.
Emits(b) ==
  burnEvents' = burnEvents \cup
    (LET new == burn'[b]
         old == burn[b] IN
     (IF new.status = old.status THEN {}
      ELSE CASE new.status = "REQUESTED" -> {<<"requested", b>>}
             [] new.status = "COMMITTED" -> {<<"committed", b>>}
             [] new.status = "COMPLETED" -> {<<"finalized", b>>}
             [] new.status = "SLASHED" -> {<<"slashed", b>>}
             [] new.status = "CANCELLED" -> {<<"cancelled", b>>}
             [] OTHER -> {})
     \cup (IF new.status = "CANCELLED" /\ new.userSecret # old.userSecret
           THEN {<<"declined", b>>} ELSE {}))

-----------------------------------------------------------------------------
\* processPropose

\* A fresh secret of a burn that is still requested, kept in memory only.
TakeBurnSecret(j) ==
  LET e == burnEntry[Held(j)] IN
  /\ job[j].pc = "propose"
  /\ IF e.state # "requested" \/ ~e.known THEN Ends(j) /\ UNCHANGED burnEntry
     ELSE /\ FreshSecrets # {}
          /\ Sends(j, "propose", FreshSecret)
          /\ SetEntry(Held(j), [e EXCEPT !.secret = FreshSecret])
  /\ UNCHANGED <<burnChain, burnEvents, running, recovery, overtaken, sendTimer, burnFile, trouble>>

\* proposeHash, revealBurnSecret or settleBurn is sent.  A call that fails ends
\* the job, its transaction on the way or not.
Send(j) ==
  LET r == job[j]
      t == [kind |-> r.tx, burn |-> r.burn, secret |-> r.secret, job |-> j] IN
  /\ r.pc = "send"
  /\ \/ burnTxs' = burnTxs \cup {t} /\ Works(j, "sent") /\ UNCHANGED <<burnFile, burnEntry, trouble>>
     \/ BurnTrouble("faults") /\ burnTxs' \in {burnTxs, burnTxs \cup {t}} /\ Fails(j)
  /\ UNCHANGED <<burn, hash, sent, back, burnEvents, running, recovery, overtaken, sendTimer>>

\* Mutant: the status of the receipt is not looked at.
JobAfterUnchecked(t, taken) == Works(t.job, "mined") /\ UNCHANGED <<burnFile, burnEntry>>

JobAfter(t, taken) ==
  IF taken THEN Works(t.job, "mined") /\ UNCHANGED <<burnFile, burnEntry>> ELSE Fails(t.job)

\* A transaction is mined; one the hub refuses ends the job that waits for it.
MineBurnTx(t) ==
  LET b == t.burn
      Taken == CASE t.kind = "propose" -> burn[b].status = "REQUESTED" /\ Open(b)
                 [] t.kind = "reveal" -> /\ t.secret = hash[b] /\ burn[b].status = "COMMITTED"
                                         /\ ~Over(b) /\ ~burn[b].lpSecret
                 [] OTHER -> burn[b].status = "COMMITTED" /\ burn[b].lpSecret
      Waits == /\ job[t.job].pc = "sent"
               /\ <<job[t.job].tx, job[t.job].burn, job[t.job].secret>> = <<t.kind, b, t.secret>> IN
  /\ t \in burnTxs /\ burnTxs' = burnTxs \ {t}
  /\ IF Taken THEN CASE t.kind = "propose" -> ProposeHash(b)
                     [] t.kind = "reveal" -> RevealBurn(b)
                     [] OTHER -> FinalizeBurn(b)
     ELSE UNCHANGED burn
  /\ hash' = IF Taken /\ t.kind = "propose" THEN [hash EXCEPT ![b] = t.secret] ELSE hash
  /\ IF Waits THEN JobAfter(t, Taken) ELSE UNCHANGED <<job, burnFile, burnEntry>>
  /\ Emits(b)
  /\ UNCHANGED <<sent, back, running, recovery, overtaken, sendTimer, trouble>>

\* Mutant: the secret stays in memory.
ProposedUnsaved(j) ==
  /\ job[j].pc = "mined" /\ job[j].tx = "propose"
  /\ InState(Held(j), "proposed") /\ Works(j, "send xmr")
  /\ UNCHANGED <<burnChain, burnEvents, running, recovery, overtaken, sendTimer, burnFile, trouble>>

\* The proposal is confirmed: only now the secret goes to the file.
Proposed(j) ==
  LET e == burnEntry[Held(j)] IN
  /\ job[j].pc = "mined" /\ job[j].tx = "propose"
  /\ InState(Held(j), "proposed")
  /\ \/ /\ burnFile' = [burnFile EXCEPT ![job[j].burn] =
                          [secret |-> e.secret, sent |-> e.sent, tries |-> 0]]
        /\ UNCHANGED trouble
     \/ BurnTrouble("unsaved") /\ UNCHANGED burnFile
  /\ Works(j, "send xmr")
  /\ UNCHANGED <<burnChain, burnEvents, running, recovery, overtaken, sendTimer>>

-----------------------------------------------------------------------------
\* The XMR

\* A call that times out may have sent.  walletRpc makes it again at once, so that
\* one transfer may send the XMR twice.
TransferTimesOut(b, n) ==
  BurnTrouble("unsure") /\ sent' = [sent EXCEPT ![b] = @ + n]

\* The wallet sends, or fails.
SendXmr(j) ==
  LET b == job[j].burn IN
  /\ job[j].pc = "send xmr"
  /\ \/ sent' = [sent EXCEPT ![b] = @ + 1] /\ Works(j, "xmr sent") /\ UNCHANGED trouble
     \/ BurnTrouble("faults") /\ UNCHANGED sent /\ Works(j, "xmr failed")
     \/ TransferTimesOut(b, 1) /\ Works(j, "xmr failed")
     \/ TransferTimesOut(b, 2) /\ Works(j, "xmr sent")
  /\ UNCHANGED <<burn, hash, back, burnTxs, burnEvents, running, recovery, overtaken, burnEntry,
                 sendTimer, burnFile>>

RecordXmr(j) ==
  LET b == job[j].burn IN
  /\ job[j].pc = "xmr sent"
  /\ Ends(j)
  /\ SetEntry(Held(j), [burnEntry[Held(j)] EXCEPT !.sent = TRUE])
  /\ Save(b, [burnFile[b] EXCEPT !.sent = TRUE])
  /\ UNCHANGED <<burnChain, burnEvents, running, recovery, overtaken, sendTimer, trouble>>

\* After a proposal only the errors that pass by themselves are retried; after a
\* restart, or a retry that failed, all are.
XmrFailed(j) ==
  LET r == job[j]
      e == burnEntry[Held(j)]
      Retries == CASE r.by = "recovery" -> {TRUE}
                   [] r.by = "timer" -> {e.state = "proposed" /\ ~e.sent /\ r.attempt < SendRetryMax}
                   [] OTHER -> BOOLEAN IN
  /\ r.pc = "xmr failed"
  /\ Ends(j)
  /\ \E again \in Retries :
       sendTimer' = IF again
                    THEN sendTimer \cup
                           {<<r.burn, r.entry, IF r.by = "timer" THEN r.attempt + 1 ELSE 1>>}
                    ELSE sendTimer
  /\ UNCHANGED <<burnChain, burnEvents, running, recovery, overtaken, burnEntry, burnFile, trouble>>

SendTimerFires(b, k, n) ==
  /\ <<b, k, n>> \in sendTimer
  /\ sendTimer' = sendTimer \ {<<b, k, n>>}
  /\ IF burnEntry[<<b, k>>].state = "proposed" /\ ~burnEntry[<<b, k>>].sent
     THEN Begin("send xmr", <<b, k>>, "timer", n) ELSE UNCHANGED job
  /\ UNCHANGED <<burnChain, burnEvents, running, recovery, overtaken, burnEntry, burnFile, trouble>>

-----------------------------------------------------------------------------
\* processFinalize: the chain says whether the secret is out already

CheckRevealed(j) ==
  LET r == job[j]
      e == burnEntry[Held(j)] IN
  /\ r.pc = "finalize"
  /\ IF e.state \notin {"proposed", "committed", "revealed"} \/ e.secret = 0 THEN Fails(j)
     ELSE /\ Sends(j, IF burn[r.burn].lpSecret THEN "settle" ELSE "reveal", e.secret)
          /\ UNCHANGED <<burnEntry, burnFile>>
  /\ UNCHANGED <<burnChain, burnEvents, running, recovery, overtaken, sendTimer, trouble>>

Revealed(j) ==
  /\ job[j].pc = "mined" /\ job[j].tx = "reveal"
  /\ InState(Held(j), "revealed") /\ Sends(j, "settle", job[j].secret)
  /\ UNCHANGED <<burnChain, burnEvents, running, recovery, overtaken, sendTimer, burnFile, trouble>>

Settled(j) ==
  /\ job[j].pc = "mined" /\ job[j].tx = "settle"
  /\ InState(Held(j), "finalized") /\ Ends(j)
  /\ UNCHANGED <<burnChain, burnEvents, running, recovery, overtaken, sendTimer, burnFile, trouble>>

-----------------------------------------------------------------------------
\* The event poller: a query whose retries fail repeats the whole pass at the
\* next poll

BurnQueryFails == BurnTrouble("faults")

PolledBurn(kind, b) ==
  /\ running
  /\ <<kind, b>> \in burnEvents
  /\ kind # "requested" => <<"requested", b>> \notin burnEvents
  /\ \/ burnEvents' = burnEvents \ {<<kind, b>>} /\ UNCHANGED trouble
     \/ BurnQueryFails /\ UNCHANGED burnEvents
  /\ overtaken' = IF recovery.burn = b /\ recovery.status # "none" THEN overtaken \cup {b}
                  ELSE overtaken

HandleRequest(b) ==
  /\ PolledBurn("requested", b)
  /\ IF Tracked(b) THEN UNCHANGED <<burnEntry, job>>
     ELSE /\ SetEntry(Current(b), [NoBurnEntry EXCEPT !.tracked = TRUE, !.known = TRUE,
                                     !.state = "requested"])
          /\ IF auto THEN Begin("propose", Current(b), "event", 0) ELSE UNCHANGED job
  /\ UNCHANGED <<burnChain, running, recovery, sendTimer, burnFile>>

HandleCommitted(b) ==
  /\ PolledBurn("committed", b)
  /\ IF Tracked(b) THEN InState(Current(b), "committed") ELSE UNCHANGED burnEntry
  /\ IF Tracked(b) /\ auto THEN Begin("finalize", Current(b), "event", 0) ELSE UNCHANGED job
  /\ UNCHANGED <<burnChain, running, recovery, sendTimer, burnFile>>

\* BurnFinalized, BurnCancelled and BurnAborted.
HandleEnded(b) ==
  /\ \E kind \in {"finalized", "cancelled"} :
       PolledBurn(kind, b) /\ InState(Current(b), IF Tracked(b) THEN kind ELSE "none")
  /\ UNCHANGED <<burnChain, running, recovery, job, sendTimer, burnFile>>

KnownSecret(o) == IF burnEntry[o].tracked THEN burnEntry[o].secret ELSE burnFile[o[1]].secret

\* BurnProposalDeclined, and BurnSlashed with the user's secret: both halves of
\* the shared key are known, from memory or, of a burn not in memory, from the file.
HandleSwept(b) ==
  LET e == burnEntry[Current(b)]
      sweeps == burn[b].userSecret /\ KnownSecret(Current(b)) # 0 IN
  /\ PolledBurn("declined", b) \/ PolledBurn("slashed", b)
  /\ InState(Current(b), IF sweeps /\ e.tracked THEN "swept" ELSE e.state)
  /\ IF sweeps THEN Begin("sweep", Current(b), "event", 1) ELSE UNCHANGED job
  /\ UNCHANGED <<burnChain, running, recovery, sendTimer, burnFile>>

\* The sweep, and the one retry of a sweep that found nothing to spend yet.
SweepShared(j) ==
  LET r == job[j]
      b == r.burn
      mine == KnownSecret(Held(j)) IN
  /\ r.pc = "sweep"
  /\ \/ /\ sent[b] > 0 /\ mine = hash[b]
        /\ back' = [back EXCEPT ![b] = TRUE] /\ Ends(j) /\ UNCHANGED trouble
     \/ /\ IF sent[b] > 0 /\ mine = hash[b] THEN BurnTrouble("faults") ELSE UNCHANGED trouble
        /\ IF r.attempt = 1 THEN job' = [job EXCEPT ![j].attempt = 2] ELSE Ends(j)
        /\ UNCHANGED back
  /\ UNCHANGED <<burn, hash, sent, burnTxs, burnEvents, running, recovery, overtaken, burnEntry,
                 sendTimer, burnFile>>

Recovered == recovery.phase = "scan" /\ recovery.left = {} /\ recovery.status = "none"

\* The stale-burn job: an unanswered proposal is given up after its deadline.
AbandonStale(b) ==
  /\ running /\ Recovered /\ burnEntry[Current(b)].state = "proposed"
  /\ burn[b].status = "PROPOSED" /\ ~Open(b)
  /\ \/ AbandonProposed(b) /\ InState(Current(b), "abandoned") /\ Emits(b) /\ UNCHANGED trouble
     \/ BurnTrouble("faults") /\ InState(Current(b), "stale") /\ UNCHANGED <<burn, burnEvents>>
  /\ UNCHANGED <<hash, sent, back, burnTxs, running, recovery, overtaken, job, sendTimer, burnFile>>

-----------------------------------------------------------------------------
\* Restart and recovery

CrashBurns ==
  /\ running /\ BurnTrouble("crashes")
  /\ running' = FALSE /\ recovery' = NoRecovery /\ overtaken' = {} /\ sendTimer' = {}
  /\ burnEntry' = [o \in BurnState |-> NoBurnEntry] /\ job' = [j \in Job |-> NoJob]
  /\ UNCHANGED <<burnChain, burnEvents, burnFile>>

StartBurns ==
  /\ ~running /\ running' = TRUE /\ burnEvents' = {}
  /\ recovery' = [NoRecovery EXCEPT !.phase = "files",
                                    !.left = {b \in Burn : burnFile[b].secret # 0}]
  /\ UNCHANGED <<burnChain, overtaken, burnEntry, job, sendTimer, burnFile, trouble>>

\* startupRecoverBurns goes through the file it loaded, then through the requests
\* on the chain; a query that fails ends it.  The poller and the calls run meanwhile.
ScanRequests ==
  /\ running /\ recovery.phase = "files" /\ recovery.left = {} /\ recovery.status = "none"
  /\ \/ /\ recovery' = [NoRecovery EXCEPT !.left = {b \in Burn : burn[b].status # "INVALID"}]
        /\ UNCHANGED trouble
     \/ BurnTrouble("faults") /\ recovery' = NoRecovery
  /\ UNCHANGED <<burnChain, burnEvents, running, overtaken, burnEntry, job, sendTimer, burnFile>>

\* The status of one burn is asked for.  The scan passes over what is in
\* pendingBurns now, and what was in the file.
AskStatus(b) ==
  LET seen == recovery.phase = "scan" /\ (Tracked(b) \/ burnFile[b].secret # 0) IN
  /\ b \in recovery.left /\ recovery.status = "none"
  /\ recovery' = IF seen THEN [recovery EXCEPT !.left = @ \ {b}]
                 ELSE [recovery EXCEPT !.left = @ \ {b}, !.burn = b, !.status = "asked"]
  /\ UNCHANGED <<burnChain, burnEvents, running, overtaken, burnEntry, job, sendTimer, burnFile,
                 trouble>>

\* The answer is made; ended burns, and answers that do not come, are skipped.
AnswerStatus ==
  LET s == burn[recovery.burn].status IN
  /\ recovery.status = "asked"
  /\ \/ /\ recovery' = [recovery EXCEPT !.status = IF s \in BurnEnded THEN "none" ELSE s]
        /\ UNCHANGED trouble
     \/ BurnTrouble("faults") /\ recovery' = [recovery EXCEPT !.status = "none"]
  /\ UNCHANGED <<burnChain, burnEvents, running, overtaken, burnEntry, job, sendTimer, burnFile>>

\* Mutant: a committed burn waits for its event.
RecoveryTaskLate ==
  CASE recovery.status = "REQUESTED" /\ auto -> "propose"
    [] recovery.status = "PROPOSED" /\ recovery.phase = "files"
       /\ ~burnFile[recovery.burn].sent -> "send xmr"
    [] OTHER -> "none"

\* What the recovery starts: the XMR the file does not know of is sent even when
\* burns are not processed automatically.
RecoveryTask ==
  LET f == burnFile[recovery.burn]
      s == recovery.status
      files == recovery.phase = "files" IN
  CASE s = "REQUESTED" /\ auto -> "propose"
    [] s = "PROPOSED" /\ files /\ ~f.sent -> "send xmr"
    [] s = "COMMITTED" /\ files /\ auto /\ f.tries < FinalizeRetryMax -> "finalize"
    [] OTHER -> "none"

\* A new object takes the burn's place in pendingBurns, in the state of the answer,
\* whatever happened since: nothing is read again after the await.
Rehydrate ==
  LET b == recovery.burn
      s == recovery.status
      f == IF recovery.phase = "files" THEN burnFile[b] ELSE NoSaved IN
  /\ s \notin {"none", "asked"}
  /\ recovery' = [recovery EXCEPT !.burn = NoJob.burn, !.status = "none"]
  /\ SetEntry(<<b, "recovery">>,
       [NoBurnEntry EXCEPT !.tracked = TRUE, !.known = (recovery.phase = "scan"),
          !.secret = f.secret, !.sent = f.sent, !.tries = f.tries,
          !.state = CASE s = "REQUESTED" -> "requested" [] s = "PROPOSED" -> "proposed"
                      [] OTHER -> "committed"])
  /\ IF RecoveryTask = "none" THEN UNCHANGED job
     ELSE Begin(RecoveryTask, <<b, "recovery">>, "recovery", 0)
  /\ UNCHANGED <<burnChain, burnEvents, running, overtaken, sendTimer, burnFile, trouble>>

\* POST /burn/propose and /burn/finalize.
OperateBurn(b) ==
  /\ running /\ Tracked(b) /\ BurnTrouble("calls")
  /\ \E pc \in {"propose", "finalize"} : Begin(pc, Current(b), "manual", 0)
  /\ UNCHANGED <<burnChain, burnEvents, running, recovery, overtaken, burnEntry, sendTimer, burnFile>>

\* POST /burn/slash and /burn/resolve-declined, with the user's secret.
OperatorEnds(b) ==
  /\ running /\ BurnTrouble("calls")
  /\ \/ ClaimSlashed(b) /\ (IF Tracked(b) THEN InState(Current(b), "slashed") ELSE UNCHANGED burnEntry)
     \/ ResolveDeclined(b) /\ UNCHANGED burnEntry
  /\ Emits(b)
  /\ UNCHANGED <<hash, sent, back, burnTxs, running, recovery, overtaken, job, sendTimer, burnFile>>

\* processPastBurns.js, beside the server: a proposal of a secret nobody saves.
ProposePast(b) ==
  /\ BurnTrouble("calls") /\ FreshSecrets # {}
  /\ ProposeHash(b) /\ hash' = [hash EXCEPT ![b] = FreshSecret] /\ Emits(b)
  /\ UNCHANGED <<sent, back, burnTxs, burnServer, burnFile>>

-----------------------------------------------------------------------------
\* The user, the auctions and the clock.  The page commits to what it has seen.

OthersBurn(b) ==
  /\ \/ RequestBurn(b) \/ ConfirmLock(b) \/ ClaimSlashed(b) \/ ForceSettle(b) \/ AbortBurn(b)
     \/ ResolveDeclined(b) \/ SettleByAuction({b}) \/ PassDeadlines({b})
  /\ Emits(b)
  /\ UNCHANGED <<hash, sent, back, burnTxs, burnServer, burnFile, trouble>>

LpBurnsInit ==
  /\ BurnInit
  /\ hash = [b \in Burn |-> 0] /\ sent = [b \in Burn |-> 0] /\ back = [b \in Burn |-> FALSE]
  /\ auto \in BOOLEAN /\ burnTxs = {} /\ burnEvents = {}
  /\ running = TRUE /\ recovery = NoRecovery /\ overtaken = {} /\ sendTimer = {}
  /\ burnEntry = [o \in BurnState |-> NoBurnEntry] /\ job = [j \in Job |-> NoJob]
  /\ burnFile = [b \in Burn |-> NoSaved]
  /\ trouble = [crashes |-> 0, faults |-> 0, unsure |-> 0, unsaved |-> 0, calls |-> 0]

JobSteps(j) ==
  \/ TakeBurnSecret(j) \/ Send(j) \/ Proposed(j) \/ SendXmr(j) \/ RecordXmr(j) \/ XmrFailed(j)
  \/ CheckRevealed(j) \/ Revealed(j) \/ Settled(j) \/ SweepShared(j)

BurnServerSteps(b) ==
  \/ HandleRequest(b) \/ HandleCommitted(b) \/ HandleEnded(b) \/ HandleSwept(b)
  \/ AbandonStale(b) \/ AskStatus(b)
  \/ \E k \in {"event", "recovery"}, n \in 1 .. SendRetryMax : SendTimerFires(b, k, n)

RecoverySteps == ScanRequests \/ AnswerStatus \/ Rehydrate

LpBurnsNext ==
  \/ \E j \in Job : JobSteps(j)
  \/ \E b \in Burn : BurnServerSteps(b) \/ OperateBurn(b) \/ OperatorEnds(b) \/ ProposePast(b)
       \/ OthersBurn(b)
  \/ \E t \in burnTxs : MineBurnTx(t)
  \/ RecoverySteps \/ CrashBurns \/ StartBurns

\* The same scheduling as the mints': Node runs what is due, miners mine.
LpBurnsFairness ==
  /\ \A j \in Job : WF_burnVars(JobSteps(j))
  /\ \A b \in Burn : WF_burnVars(BurnServerSteps(b))
  /\ WF_burnVars(StartBurns \/ RecoverySteps)
  /\ WF_burnVars(\E t \in burnTxs : MineBurnTx(t))

LpBurnsSpec ==
  LpBurnsInit /\ [][LpBurnsNext /\ UNCHANGED auto]_<<auto, burnVars>> /\ LpBurnsFairness

-----------------------------------------------------------------------------
\* Properties

\* XMR goes only to the shared address of the hash on the chain, with the LP's
\* half of its key on the disk, whatever crashes and failures come between the
\* proposal and the send; only a file that cannot be written or an operator's
\* second proposal undoes it (burnHandler.js, processPropose steps 4 to 6).
PaidSecretKept ==
  trouble.unsaved + trouble.calls = 0 =>
    \A b \in Burn : sent[b] > 0 => hash[b] # 0 /\ burnFile[b].secret = hash[b]

\* The LP pays a burn twice only after a crash or a wallet call whose outcome it
\* did not learn: no retry, recovery or operator call repeats a recorded payment
\* (burnHandler.js, scheduleXmrSendRetry and startupRecoverBurns).
PaidOnce == \A b \in Burn : trouble.crashes + trouble.unsure = 0 => sent[b] <= 1

\* While no call fails, the secret of a commitment, if it is on the disk and burns are
\* processed automatically, is public before the LP can be slashed, or the grace ends first:
\* over crashes and restarts.  Except for a burn with an event that came while the
\* restarted server was reading the burn's status: the recovery overwrites what the
\* event did (burnHandler.js, handleBurnCommitted and startupRecoverBurns).
\* Settling may be left to others: a restart that races its own pending reveal does
\* not settle.
CommittedIsRevealed ==
  \A b \in Burn :
    (auto /\ burn[b].status = "COMMITTED" /\ burnFile[b].secret = hash[b]) ~>
      \/ burn[b].lpSecret \/ burn[b].status \in BurnEnded \/ Over(b) \/ b \in overtaken
      \/ trouble.faults + trouble.calls > 0
=============================================================================
