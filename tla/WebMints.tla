------------------------------ MODULE WebMints ------------------------------
(***************************************************************************)
(* The web client's mints (frontend/js/mintFlow.js, mintFlowTimers.js and  *)
(* the swap list of main.js).  A page may have several flows at work, each *)
(* cut where it awaits; starting or resuming another one does not stop the *)
(* loops of the first.  A flow that is resumed takes its place.            *)
(***************************************************************************)
EXTENDS WebStorage

VARIABLES mintFlow,   \* per mint: where its flow is, its agent, the key it is to send
                      \* or to restore, the key in the deposit address it shows, the
                      \* state it is resumed from, the timer of its deadline
          webMint,    \* per mint on the hub: its status, the user's key, the timeout
          paidTo      \* per mint: the key in the address the user paid to

webMintVars == <<mintFlow, webMint, paidTo>>

IdleMint == [pc |-> "idle", agent |-> Nobody, key |-> Nobody, addr |-> Nobody, from |-> "none", timer |-> "off"]
MintAt(m, pc) == mintFlow[m].pc = pc
MintTo(m, pc) == mintFlow' = [mintFlow EXCEPT ![m].pc = pc]
MintOver(m) == mintFlow' = [mintFlow EXCEPT ![m] = [IdleMint EXCEPT !.pc = "over"]]
MintAgent(m) == agents[mintFlow[m].agent]
MintFlows == UNCHANGED <<history, agents, agentInstance, seeds, lostSeeds, pageFaults>>
DeadMint == {"CANCELLED", "EXPIRED_READY", "KEY_CANCELLED"}

\* start: getQuote and initializeAgent up to the signature.
StartMint(m) ==
  /\ MintAt(m, "idle") /\ webMint[m].status = "none"
  /\ records' = UpdateLatest([kind |-> "mint", state |-> "init"])
  /\ ResetThenNewAgent(m)
  /\ mintFlow' = [mintFlow EXCEPT ![m] = [@ EXCEPT !.pc = "signing", !.agent = m, !.key = m]]
  /\ UNCHANGED <<seeds, history, lostSeeds, pageFaults, webMint, paidTo>>

\* Mutant: the request is sent while the signature is awaited.
MintMaySendAtOnce(m) == mintFlow[m].pc \in {"signing", "sending"}

MintMaySend(m) == MintAt(m, "sending")

\* The seed is stored, or not, and the request is sent with the agent's key.
SignMintSeed(m) ==
  /\ MintAt(m, "signing") /\ StoreSeed(m)
  /\ records' = UpdateLatest([key |-> m, state |-> "evm-init"])
  /\ mintFlow' = [mintFlow EXCEPT ![m].pc = "sending", ![m].key = MintAgent(m).key]
  /\ UNCHANGED <<agents, agentInstance, history, webMint, paidTo>>

\* initiateMint is mined, whether or not the page is still there.
InitiateMined(m) ==
  /\ MintMaySend(m) \/ MintAt(m, "left")
  /\ webMint' = [webMint EXCEPT ![m] = [status |-> "PENDING", key |-> mintFlow[m].key, late |-> FALSE]]
  /\ mintFlow' = [mintFlow EXCEPT ![m] = IF @.pc = "left" THEN IdleMint
                                          ELSE [@ EXCEPT !.pc = "receipt", !.key = Nobody]]
  /\ UNCHANGED <<storageVars, paidTo>>

\* The transaction is refused, or the check before it fails.
InitiateFails(m) ==
  /\ MintAt(m, "sending") \/ MintAt(m, "left")
  /\ MintOver(m) /\ UNCHANGED <<storageVars, webMint, paidTo>>

\* The entry is filed under the request with what the agent has by now.
MintReceipt(m) ==
  /\ MintAt(m, "receipt")
  /\ mintFlow' = [mintFlow EXCEPT ![m].pc = "key", ![m].timer = "on"]
  /\ records' = AddOrUpdate(records,
       [id |-> m, kind |-> "mint", state |-> "awaiting-lp-key", key |-> MintAgent(m).key,
        claim |-> IF MintAgent(m).secret THEN MintAgent(m).key ELSE Nobody])
  /\ UNCHANGED <<webMint, paidTo>> /\ MintFlows

\* notifyLP: the LP's key is on the hub, or the mint has timed out.
LpKeySeen(m) ==
  /\ MintAt(m, "key") /\ UNCHANGED <<webMint, paidTo>> /\ MintFlows
  /\ \/ /\ ~webMint[m].late /\ webMint[m].status # "PENDING"
        /\ mintFlow' = [mintFlow EXCEPT ![m].pc = "deposit", ![m].addr = MintAgent(m).key]
        /\ records' = UpdateOf(m, [state |-> "deposit", addr |-> MintAgent(m).key])
     \/ /\ webMint[m].late /\ MintTo(m, "expired")
        /\ records' = UpdateOf(m, [state |-> "expired"])

\* The user pays to the address the page shows.
UserPays(m) ==
  /\ MintAt(m, "deposit") /\ mintFlow[m].addr # Nobody /\ paidTo[m] = Nobody
  /\ paidTo' = [paidTo EXCEPT ![m] = mintFlow[m].addr]
  /\ UNCHANGED <<storageVars, mintFlow, webMint>>

\* waitForLPReady.  The user says that the XMR is sent, or the wait finds the mint
\* past it; the deadline's timer is started unless it has been.
ConfirmSent(m) ==
  /\ MintAt(m, "deposit")
  /\ records' = UpdateOf(m, [state |-> "lp-verifying"])
  /\ mintFlow' = [mintFlow EXCEPT ![m].timer = IF @ = "off" THEN "on" ELSE @]
  /\ UNCHANGED <<webMint, paidTo>> /\ MintFlows

\* The claim button, the end of the mint, or half an hour without either.
ReadySeen(m) ==
  /\ MintAt(m, "deposit") /\ webMint[m].status = "READY"
  /\ MintTo(m, "claim") /\ records' = UpdateOf(m, [state |-> "lp-ready"])
  /\ UNCHANGED <<webMint, paidTo>> /\ MintFlows

MintEndSeen(m) ==
  /\ MintAt(m, "deposit") /\ webMint[m].status \in DeadMint
  /\ MintTo(m, "expired") /\ records' = UpdateOf(m, [state |-> "expired"])
  /\ UNCHANGED <<webMint, paidTo>> /\ MintFlows

MintGivesUp(m) ==
  /\ MintAt(m, "deposit") /\ PageFault /\ MintOver(m)
  /\ UNCHANGED <<records, seeds, agents, agentInstance, history, lostSeeds, webMint, paidTo>>

\* complete: every entry of the list is dropped.
CompleteMint(m) ==
  MintOver(m) /\ records' = ClearActiveSwap

\* finalize: reveal, then finalizeMint.  The hub takes the secret of its key only.
Claim(m) ==
  LET Fails == /\ MintOver(m)
               /\ records' = UpdateOf(m, [state |-> "lp-ready"]) IN
  /\ MintAt(m, "claim") /\ UNCHANGED paidTo /\ MintFlows
  /\ \/ /\ webMint[m].status \in {"READY", "SECRET_REVEALED"}
        /\ webMint[m].status = "READY" => MintAgent(m) = [key |-> webMint[m].key, secret |-> TRUE]
        /\ \/ webMint' = [webMint EXCEPT ![m].status = "COMPLETED"] /\ CompleteMint(m)
           \/ webMint' = [webMint EXCEPT ![m].status = "SECRET_REVEALED"] /\ Fails
     \/ webMint[m].status = "COMPLETED" /\ CompleteMint(m) /\ UNCHANGED webMint
     \/ Fails /\ UNCHANGED webMint

-----------------------------------------------------------------------------
(* Ways to cancel.  The loops they leave running are left out: all they do is file  *)
(* again, as expired, a request that is dead.                                      *)

UserSecret(m) ==
  IF mintFlow[m].agent # Nobody /\ MintAgent(m).secret THEN MintAgent(m).key
  ELSE IF Filed(m) # {} THEN Record(m).claim ELSE Nobody

Cancellable(m) == webMint[m].late /\ webMint[m].status \in {"PENDING", "KEY_PROVIDED", "READY"}

HubCancels(m) ==
  webMint' = [webMint EXCEPT ![m].status = CASE @ = "PENDING" -> "CANCELLED"
                                             [] @ = "KEY_PROVIDED" -> "KEY_CANCELLED"
                                             [] @ = "READY" -> "EXPIRED_READY"]

\* The window of the LP's claim is over, and the deposit goes back to the user.
HubReturns(m) ==
  /\ webMint[m].status \in {"KEY_CANCELLED", "EXPIRED_READY"}
  /\ webMint' = [webMint EXCEPT ![m].status = "CANCELLED"]

\* handleCancelMint, while the page has the flow.
MintCancelButton(m) == mintFlow[m].pc \in {"key", "deposit", "claim", "expired"}

\* The two handlers of the cancel button: cancelMint, which a started flow sets up ...
CancelMint(m) ==
  /\ MintCancelButton(m)
  /\ Cancellable(m) /\ UserSecret(m) # Nobody /\ HubCancels(m)
  /\ records' = RemoveActiveSwap(m)
  /\ MintOver(m)
  /\ UNCHANGED paidTo /\ MintFlows

\* ... and cancel, the page's own, which drops every entry of the list.
Cancel(m) ==
  /\ MintCancelButton(m)
  /\ \/ Cancellable(m) /\ UserSecret(m) # Nobody /\ HubCancels(m)
     \/ HubReturns(m)
     \/ webMint[m].status \in {"CANCELLED", "SECRET_REVEALED", "COMPLETED"} /\ UNCHANGED webMint
  /\ records' = ClearActiveSwap
  /\ MintOver(m)
  /\ UNCHANGED paidTo /\ MintFlows

\* The timer of the deadline offers a refund, except for a mint with a key: there it
\* stops, and is not started again ("keep ticking").
TimerTick(m) ==
  /\ mintFlow[m].timer = "on" /\ webMint[m].late
  /\ mintFlow' = [mintFlow EXCEPT ![m].timer =
       IF webMint[m].status \in DeadMint \cup {"PENDING"} THEN "refund" ELSE "stopped"]
  /\ UNCHANGED <<storageVars, webMint, paidTo>>

\* The refund it offers: cancelMint knows the agent's secret only, and every entry
\* is dropped.
RefundButton(m) ==
  /\ mintFlow[m].timer = "refund"
  /\ \/ Cancellable(m) /\ MintAgent(m).secret /\ HubCancels(m)
     \/ webMint[m].status = "EXPIRED_READY" /\ HubReturns(m)
     \/ webMint[m].status \in {"CANCELLED", "COMPLETED"} /\ UNCHANGED webMint
  /\ records' = ClearActiveSwap
  /\ MintOver(m)
  /\ UNCHANGED paidTo /\ MintFlows

-----------------------------------------------------------------------------
(* The list of swaps. *)

\* resume, for an entry with a key whose seed is stored: it works with the entry as
\* it was.  An expired mint is dropped from the list and resumed nevertheless.
ResumeMint(m) ==
  /\ Filed(m) # {} /\ Record(m).kind = "mint" /\ mintFlow[m].pc \in {"idle", "over", "expired"}
  /\ Decrypts(Record(m).key) /\ Record(m).state # "init"
  /\ UNCHANGED <<seeds, agents, history, lostSeeds, pageFaults, webMint, paidTo>>
  /\ records' = IF webMint[m].status \in DeadMint \cup {"COMPLETED"} THEN RemoveActiveSwap(m) ELSE records
  /\ IF webMint[m].status \in {"CANCELLED", "KEY_CANCELLED", "COMPLETED"}
     THEN MintOver(m) /\ UNCHANGED agentInstance
     ELSE /\ agentInstance' = Agent(m)
          /\ mintFlow' = [mintFlow EXCEPT ![m] = [pc |-> "loading", agent |-> Agent(m),
                            key |-> Record(m).key, addr |-> Record(m).addr, from |-> Record(m).state, timer |-> "off"]]

GoesOn(m, pc, addr) ==
  mintFlow' = [mintFlow EXCEPT ![m] = [@ EXCEPT !.pc = pc, !.key = Nobody, !.addr = addr,
                                !.from = "none", !.timer = IF pc = "key" THEN "on" ELSE "off"]]

\* In "lp-verifying" the address is derived anew from the LP's keys on the hub.
ResumedVerifying(m) ==
  GoesOn(m, "deposit", mintFlow[m].key) /\ records' = UpdateOf(m, [addr |-> mintFlow[m].key])

\* The seed is decrypted into the agent and the flow goes on where the entry said.
\* In "deposit" the saved address is shown; in "lp-ready" a secret that is revealed
\* counts as the end, and a mint that is not ready is shown its address.  Other
\* states cannot be resumed.
Resumed(m) ==
  LET flow == mintFlow[m]
      status == webMint[m].status
      Revealed == status \in {"SECRET_REVEALED", "COMPLETED"} IN
  /\ MintAt(m, "loading") /\ LoadSeed(flow.agent, flow.key)
  /\ CASE flow.from = "lp-ready" /\ status = "READY" ->
            GoesOn(m, "claim", flow.addr) /\ UNCHANGED records
       [] flow.from = "lp-ready" /\ Revealed -> MintOver(m) /\ records' = RemoveActiveSwap(m)
       [] flow.from = "lp-verifying" -> ResumedVerifying(m)
       [] flow.from \in {"evm-init", "awaiting-lp-key"} ->
            GoesOn(m, "key", flow.addr) /\ UNCHANGED records
       [] flow.from = "deposit" \/ (flow.from = "lp-ready" /\ status # "READY" /\ ~Revealed) ->
            LET addr == IF flow.addr # Nobody THEN flow.addr ELSE flow.key IN
            GoesOn(m, "deposit", addr) /\ records' = UpdateOf(m, [state |-> "deposit", addr |-> addr])
       [] OTHER -> MintOver(m) /\ UNCHANGED records
  /\ UNCHANGED <<agentInstance, seeds, history, lostSeeds, pageFaults, webMint, paidTo>>

-----------------------------------------------------------------------------
(* The hub and the LP. *)

ChainMint(m, from, to) ==
  /\ webMint[m].status = from /\ webMint' = [webMint EXCEPT ![m].status = to]
  /\ UNCHANGED <<storageVars, mintFlow, paidTo>>

\* The LP posts its key; with the deposit at the address of the user's key, READY.
LpActs(m) ==
  /\ ~webMint[m].late
  /\ \/ ChainMint(m, "PENDING", "KEY_PROVIDED")
     \/ paidTo[m] # Nobody /\ paidTo[m] = webMint[m].key /\ ChainMint(m, "KEY_PROVIDED", "READY")

\* The LP finalizes what was revealed, and anybody cancels what timed out.
Crank(m) ==
  \/ ChainMint(m, "SECRET_REVEALED", "COMPLETED")
  \/ /\ webMint[m].late
     /\ \/ ChainMint(m, "PENDING", "CANCELLED") \/ ChainMint(m, "KEY_PROVIDED", "KEY_CANCELLED")
        \/ ChainMint(m, "READY", "EXPIRED_READY")

MintTimesOut(m) ==
  /\ webMint[m].status \in {"PENDING", "KEY_PROVIDED", "READY"} /\ ~webMint[m].late
  /\ webMint' = [webMint EXCEPT ![m].late = TRUE]
  /\ UNCHANGED <<storageVars, mintFlow, paidTo>>

WebMintInit ==
  /\ mintFlow = [m \in WebMint |-> IdleMint]
  /\ webMint = [m \in WebMint |-> [status |-> "none", key |-> Nobody, late |-> FALSE]]
  /\ paidTo = [m \in WebMint |-> Nobody]

WebMintNext ==
  \E m \in WebMint :
    \/ StartMint(m) \/ SignMintSeed(m) \/ MintReceipt(m)
    \/ LpKeySeen(m) \/ UserPays(m) \/ ReadySeen(m) \/ MintEndSeen(m) \/ Claim(m)
    \/ ConfirmSent(m) \/ MintGivesUp(m) \/ CancelMint(m) \/ Cancel(m) \/ TimerTick(m) \/ RefundButton(m)
    \/ ResumeMint(m) \/ Resumed(m)

WebMintChain ==
  \E m \in WebMint :
    InitiateMined(m) \/ InitiateFails(m) \/ LpActs(m) \/ Crank(m) \/ MintTimesOut(m)

-----------------------------------------------------------------------------
\* The address a page asks the user to pay to is that of the mint's key on the
\* hub: "The agent is a singleton — reset between swaps to prevent state
\* pollution" (phantomAgent.js).
DepositAddressIsOwn ==
  \A m \in WebMint : mintFlow[m].addr # Nobody => mintFlow[m].addr = webMint[m].key
=============================================================================
