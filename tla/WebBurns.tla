------------------------------ MODULE WebBurns ------------------------------
(***************************************************************************)
(* The web client's burns (frontend/js/burnFlow.js).  Each burn has a key  *)
(* set of its own, derived from the agent's seed and a nonce; it is stored *)
(* per request once the receipt is in.  A key set is named by its seed and *)
(* its burn.                                                               *)
(***************************************************************************)
EXTENDS WebStorage

VARIABLES burnFlow,   \* per burn: where its flow is, its agent, its key set
          keySets,    \* per burn: the stored key set
          webBurn     \* per burn on the hub: its status, the user's key, the deadline,
                      \* whether the LP proposed it, whether it abandoned it

webBurnVars == <<burnFlow, keySets, webBurn>>

NoKeySet == <<Nobody, Nobody>>
IdleBurn == [pc |-> "idle", agent |-> Nobody, keySet |-> NoKeySet]
BurnFlowAt(b, pc) == burnFlow[b].pc = pc
BurnTo(b, pc) == burnFlow' = [burnFlow EXCEPT ![b].pc = pc]
BurnOver(b) == burnFlow' = [burnFlow EXCEPT ![b] = [IdleBurn EXCEPT !.pc = "over"]]
BurnFlows == UNCHANGED <<agents, agentInstance, seeds, lostSeeds, pageFaults>>
BurnChain == UNCHANGED <<keySets, webBurn>>

\* handleStartBurn: a flow of its own.
StartsBurn(b) == BurnFlowAt(b, "idle") /\ webBurn[b].status = "none"

\* start: initializeAgent up to the signature.  The agent is not reset: whoever
\* holds it has this burn's keys from now on.
StartBurn(b) ==
  /\ StartsBurn(b)
  /\ records' = UpdateLatest([kind |-> "burn", state |-> "init"])
  /\ agentInstance' = Agent(b) /\ LoadSeed(Agent(b), b)
  /\ burnFlow' = [burnFlow EXCEPT ![b].pc = "signing", ![b].agent = Agent(b)]
  /\ UNCHANGED <<seeds, history, lostSeeds, pageFaults>> /\ BurnChain

\* The key set is derived from the seed the agent holds by then.
SignBurnSeed(b) ==
  LET seed == agents[burnFlow[b].agent].key IN
  /\ BurnFlowAt(b, "signing") /\ StoreSeed(b)
  /\ records' = UpdateLatest([key |-> b, state |-> "evm-request"])
  /\ burnFlow' = [burnFlow EXCEPT ![b].pc = "sending", ![b].keySet = <<seed, b>>]
  /\ UNCHANGED <<agents, agentInstance, history>> /\ BurnChain

\* requestBurn is mined, whether or not the page is still there.
RequestMined(b) ==
  /\ BurnFlowAt(b, "sending") \/ BurnFlowAt(b, "left")
  /\ webBurn' = [webBurn EXCEPT ![b].status = "REQUESTED", ![b].key = burnFlow[b].keySet]
  /\ burnFlow' = [burnFlow EXCEPT ![b] = IF @.pc = "left" THEN IdleBurn ELSE [@ EXCEPT !.pc = "receipt"]]
  /\ UNCHANGED <<storageVars, keySets>>

RequestFails(b) ==
  /\ BurnFlowAt(b, "sending") \/ BurnFlowAt(b, "left")
  /\ BurnOver(b) /\ UNCHANGED storageVars /\ BurnChain

\* Mutant: the key set filed is made from what the agent holds by now.
FiledFromAgent(b) == <<agents[burnFlow[b].agent].key, b>>

FiledKeySet(b) == burnFlow[b].keySet

BurnReceipt(b) ==
  /\ BurnFlowAt(b, "receipt") /\ BurnTo(b, "propose")
  /\ keySets' = [keySets EXCEPT ![b] = FiledKeySet(b)]
  /\ records' = UpdateOf(b, [state |-> "lp-propose"])
  /\ UNCHANGED <<history, webBurn>> /\ BurnFlows

\* waitForLPProposal: any status from PROPOSED on will do.
ProposalSeen(b) ==
  /\ BurnFlowAt(b, "propose") /\ webBurn[b].status \notin {"none", "REQUESTED"} /\ webBurn[b].keyed
  /\ BurnTo(b, "confirm") /\ records' = UpdateOf(b, [state |-> "confirm-lock"])
  /\ UNCHANGED history /\ BurnFlows /\ BurnChain

\* confirmMoneroLock: the page confirms once its scan finds the payment in full,
\* the user's button does it anyhow.  What the scan finds is left out.
\* waitForLPFinalize, which comes next, names no request: its state goes to the most
\* recent entry, whichever swap that is.
Finalizing == [state |-> "lp-finalize"]
Confirm(b) ==
  /\ BurnFlowAt(b, "confirm") /\ webBurn[b].status = "PROPOSED" /\ ~webBurn[b].late
  /\ webBurn' = [webBurn EXCEPT ![b].status = "COMMITTED"]
  /\ BurnTo(b, "finalize") /\ records' = LatestOf(UpdateOf(b, Finalizing), Finalizing)
  /\ UNCHANGED <<history, keySets>> /\ BurnFlows

EndBurn(b) == BurnOver(b) /\ records' = ClearActiveSwap

\* waitForLPFinalize: an event of the last blocks, the watcher, or the status.
LpSecretSeen(b) == BurnFlowAt(b, "finalize") /\ webBurn[b].status = "COMPLETED"

\* sweepXMR: the keys are shown and every entry of the list is dropped.
FinalizedSeen(b) ==
  /\ LpSecretSeen(b) /\ EndBurn(b)
  /\ history' = history \cup {b} /\ BurnFlows /\ BurnChain

\* handleCancelBurn asks first, and says what the status makes of it.
BurnCancelButton(b) == burnFlow[b].pc \in {"propose", "confirm", "finalize"}

\* cancel, and the offers when a wait runs out: the exit the status has, which the
\* hub grants after the deadline.
CancelBurn(b) ==
  /\ BurnCancelButton(b)
  /\ \/ /\ webBurn[b].status \in {"REQUESTED", "PROPOSED", "COMMITTED"} /\ webBurn[b].late
        /\ webBurn[b].status = "REQUESTED" \/ burnFlow[b].keySet = webBurn[b].key
        /\ webBurn' = [webBurn EXCEPT ![b].status =
                         IF @ = "COMMITTED" THEN "SLASHED" ELSE "CANCELLED"]
     \/ /\ webBurn[b].abandoned /\ burnFlow[b].keySet = webBurn[b].key
        /\ webBurn' = [webBurn EXCEPT ![b].abandoned = FALSE]
     \/ /\ webBurn[b].status \in {"COMPLETED", "SLASHED", "CANCELLED"} /\ ~webBurn[b].abandoned
        /\ UNCHANGED webBurn
  /\ EndBurn(b) /\ UNCHANGED <<history, keySets>> /\ BurnFlows

\* A wait of half an hour is over, or a step failed: the entry stays.
BurnGivesUp(b) ==
  /\ burnFlow[b].pc \in {"propose", "finalize"} /\ PageFault /\ BurnOver(b)
  /\ UNCHANGED <<records, seeds, agents, agentInstance, history, lostSeeds>> /\ BurnChain

-----------------------------------------------------------------------------
\* The key derived from a stored seed is the one the hub has.
SeedMatches(b, seed) == webBurn[b].key = <<seed, b>>

\* Where the flow goes on.  A state that is another flow's cannot be resumed.
ResumesAt(state) ==
  CASE state = "confirm-lock" -> "confirm"
    [] state \in {"lp-finalize", "sweeping"} -> "finalize"
    [] state \in {"evm-request", "lp-propose"} -> "propose"
    [] OTHER -> "over"

\* burnFlow.resume: the stored key set if it is the hub's, otherwise the one derived
\* from the first stored seed that fits; the agent is left with that seed.  One that is
\* to wait for the LP's secret writes its state as in Confirm.
ResumeFlow(b) ==
  LET pc == ResumesAt(Record(b).state)
      Goes(keySet) ==
        /\ burnFlow' = [burnFlow EXCEPT ![b] =
             IF pc = "over" THEN [IdleBurn EXCEPT !.pc = "over"]
             ELSE [pc |-> pc, agent |-> Agent(b), keySet |-> keySet]]
        /\ agentInstance' = Agent(b) IN
  /\ \/ /\ keySets[b] # NoKeySet /\ keySets[b] = webBurn[b].key
        /\ Goes(keySets[b]) /\ UNCHANGED <<keySets, agents>>
     \/ /\ keySets[b] = NoKeySet \/ keySets[b] # webBurn[b].key
        /\ \E seed \in WebRequest :
             /\ Decrypts(seed) /\ SeedMatches(b, seed) /\ Goes(<<seed, b>>) /\ LoadSeed(Agent(b), seed)
             /\ keySets' = [keySets EXCEPT ![b] = <<seed, b>>]
  /\ records' = IF Record(b).state = "lp-finalize" THEN UpdateLatest(Finalizing) ELSE records
  /\ UNCHANGED <<seeds, history, lostSeeds, pageFaults, webBurn>>

Resumable(b) ==
  /\ Filed(b) # {} /\ Record(b).kind = "burn" /\ Record(b).state # "init"
  /\ burnFlow[b].pc \in {"idle", "over"}

\* handleResumeSwap, the button of the list, looks at the hub first: a burn that is
\* over by its status is filed and dropped.
ResumeBurn(b) ==
  /\ Resumable(b)
  /\ \/ webBurn[b].status \in {"REQUESTED", "PROPOSED", "COMMITTED"} /\ ResumeFlow(b)
     \/ /\ webBurn[b].status \in {"COMPLETED", "CANCELLED", "SLASHED"}
        /\ history' = history \cup {b} /\ records' = RemoveActiveSwap(b)
        /\ UNCHANGED burnFlow /\ BurnFlows /\ BurnChain

\* autoResumeSwap, when a wallet connects: the most recent entry, if it has a key.
AutoResumeBurn(b) ==
  /\ Resumable(b) /\ records[Len(records)].id = b /\ Record(b).key # Nobody
  /\ ResumeFlow(b)

-----------------------------------------------------------------------------
(* The hub and the LP. *)

LpAnswers(b) ==
  LET B == webBurn[b] IN
  /\ \/ /\ B.status = "REQUESTED" /\ ~B.late
        /\ webBurn' = [webBurn EXCEPT ![b].status = "PROPOSED", ![b].keyed = TRUE]
     \/ B.status = "COMMITTED" /\ webBurn' = [webBurn EXCEPT ![b].status = "COMPLETED"]
     \/ /\ B.status = "PROPOSED" /\ B.late
        /\ webBurn' = [webBurn EXCEPT ![b].status = "CANCELLED", ![b].abandoned = TRUE]
  /\ UNCHANGED <<storageVars, burnFlow, keySets>>

BurnTimesOut(b) ==
  /\ webBurn[b].status \in {"REQUESTED", "PROPOSED", "COMMITTED"} /\ ~webBurn[b].late
  /\ webBurn' = [webBurn EXCEPT ![b].late = TRUE]
  /\ UNCHANGED <<storageVars, burnFlow, keySets>>

WebBurnInit ==
  /\ burnFlow = [b \in WebBurn |-> IdleBurn] /\ keySets = [b \in WebBurn |-> NoKeySet]
  /\ webBurn = [b \in WebBurn |-> [status |-> "none", key |-> NoKeySet, late |-> FALSE,
                                   keyed |-> FALSE, abandoned |-> FALSE]]

WebBurnNext ==
  \E b \in WebBurn :
    \/ StartBurn(b) \/ SignBurnSeed(b) \/ BurnReceipt(b)
    \/ ProposalSeen(b) \/ Confirm(b) \/ FinalizedSeen(b) \/ CancelBurn(b) \/ BurnGivesUp(b) \/ ResumeBurn(b)
    \/ AutoResumeBurn(b)

WebBurnChain ==
  \E b \in WebBurn : RequestMined(b) \/ RequestFails(b) \/ LpAnswers(b) \/ BurnTimesOut(b)

-----------------------------------------------------------------------------
\* Whatever other flows do to the agent they share, over reloads and resumes, a
\* burn's stored key set, and the one its flow works with, is that of its key on
\* the hub ("seed loss must not strand a burn", burnFlow.js).
BurnKeysOwn ==
  \A b \in WebBurn :
    /\ keySets[b] \in {NoKeySet, webBurn[b].key}
    /\ burnFlow[b].pc \in {"propose", "confirm", "finalize"} => burnFlow[b].keySet = webBurn[b].key
    /\ webBurn[b].status \in {"COMMITTED", "COMPLETED"} => keySets[b] # NoKeySet
=============================================================================
