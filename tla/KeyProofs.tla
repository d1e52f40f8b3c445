----------------------------- MODULE KeyProofs -----------------------------
(***************************************************************************)
(* The keys at the endpoints of a swap: those a page of the web client     *)
(* stores for its mints and burns, and the bytes, scalars and points the   *)
(* two sides of one swap make of each other's.                             *)
(***************************************************************************)
EXTENDS Endpoints, TLAPS

-----------------------------------------------------------------------------
(* The web client: the seeds of its mints and the key sets of its burns.      *)

WebName == WebRequest \cup {Nobody}
KeyPairs == WebName \X WebName
MintPc == {"idle", "signing", "sending", "left", "receipt", "key", "deposit", "claim", "expired",
           "loading", "over"}
MintTimer == {"off", "on", "refund", "stopped"}
MintStatus == {"none", "PENDING", "KEY_PROVIDED", "READY", "SECRET_REVEALED", "COMPLETED",
               "KEY_CANCELLED", "EXPIRED_READY", "CANCELLED"}
BurnPc == {"idle", "signing", "sending", "left", "receipt", "propose", "confirm", "finalize", "over"}
WebBurnStatus == {"none", "REQUESTED", "PROPOSED", "COMMITTED", "COMPLETED", "SLASHED", "CANCELLED"}

\* The address and the state of an entry of the list are whatever was filed.
MintFlowTypes(A, F) ==
  mintFlow \in [WebMint -> [pc : MintPc, agent : WebName, key : WebName, addr : A, from : F,
                            timer : MintTimer]]
BurnFlowTypes == burnFlow \in [WebBurn -> [pc : BurnPc, agent : WebName, keySet : KeyPairs]]
WebBurnTypes ==
  webBurn \in [WebBurn -> [status : WebBurnStatus, key : KeyPairs, late : BOOLEAN, keyed : BOOLEAN,
                           abandoned : BOOLEAN]]

WebTypes ==
  /\ \E A, F : MintFlowTypes(A, F)
  /\ BurnFlowTypes /\ WebBurnTypes
  /\ webMint \in [WebMint -> [status : MintStatus, key : WebName, late : BOOLEAN]]
  /\ keySets \in [WebBurn -> KeyPairs]
  /\ agents \in [WebRequest -> [key : WebName, secret : BOOLEAN]] /\ agentInstance \in WebName
  /\ seeds \subseteq WebRequest /\ lostSeeds \subseteq WebRequest

\* The seeds somebody has, or had the chance to sign for, but for those of a mint
\* that is still at its own signature.
KnownBut(m) == seeds \cup lostSeeds \cup (Signing \ {m}) \cup {Nobody}
Known == seeds \cup lostSeeds \cup Signing \cup {Nobody}

MintOk(m) ==
  /\ mintFlow[m].pc \in {"sending", "left"} => mintFlow[m].key \in KnownBut(m)
  /\ webMint[m].key \in KnownBut(m)
  /\ mintFlow[m].pc = "loading" => mintFlow[m].key \in seeds
  /\ mintFlow[m].pc = "signing" => mintFlow[m].agent \in WebRequest
  /\ mintFlow[m].pc \in {"idle", "signing"} => mintFlow[m].timer = "off"

\* A key set of burn b is of a seed and b, which tells it from none at all.
KeysOf(b) == {<<x, b>> : x \in WebName}

BurnOk(b) ==
  /\ burnFlow[b].pc = "signing" => burnFlow[b].agent \in WebRequest
  /\ burnFlow[b].pc \in {"signing", "sending", "left"} => webBurn[b].status = "none"
  /\ burnFlow[b].pc \in {"sending", "left"} => burnFlow[b].keySet \in KeysOf(b)
  /\ burnFlow[b].pc \in {"receipt", "propose", "confirm", "finalize"} =>
       burnFlow[b].keySet = webBurn[b].key /\ webBurn[b].status # "none"
  /\ burnFlow[b].pc \in {"propose", "confirm", "finalize"} => keySets[b] # NoKeySet
  /\ webBurn[b].status = "none" => webBurn[b].key = NoKeySet /\ keySets[b] = NoKeySet
  /\ webBurn[b].status # "none" => webBurn[b].key \in KeysOf(b)
  /\ keySets[b] \in {NoKeySet, webBurn[b].key}
  /\ webBurn[b].status \in {"COMMITTED", "COMPLETED"} => keySets[b] # NoKeySet

WebKeys ==
  /\ \A f \in WebRequest : agents[f].key \in Known
  /\ \A m \in WebMint : MintOk(m)
  /\ \A b \in WebBurn : BurnOk(b)

WebInv == WebTypes /\ WebKeys

LEMMA WebNames == Nobody \in WebName /\ WebRequest \subseteq WebName /\ NoKeySet \in KeyPairs
                  /\ (\A m \in WebMint : m \in WebRequest /\ m \notin WebBurn)
                  /\ (\A b \in WebBurn : b \in WebRequest /\ b \notin WebMint)
                  /\ (\A b \in WebBurn : NoKeySet \notin KeysOf(b) /\ KeysOf(b) \subseteq KeyPairs)
<1>1. Nobody \notin WebBurn
  BY WebAssumption DEF WebRequest
<1>2. QED BY <1>1, WebAssumption DEF WebName, KeyPairs, NoKeySet, KeysOf, WebRequest

LEMMA MintFlowWiden ==
  ASSUME NEW A, NEW F, MintFlowTypes(A, F), NEW x, NEW y
  PROVE  MintFlowTypes(A \cup {x}, F \cup {y})
BY DEF MintFlowTypes

\* What one step makes of the flow of a mint.
LEMMA MintFlowSet ==
  ASSUME NEW A, NEW F, MintFlowTypes(A, F), NEW m \in WebMint, NEW pc \in MintPc,
         NEW agent \in WebName, NEW key \in WebName, NEW addr, NEW from, NEW timer \in MintTimer,
         mintFlow' = [mintFlow EXCEPT ![m] = [pc |-> pc, agent |-> agent, key |-> key,
                                              addr |-> addr, from |-> from, timer |-> timer]]
  PROVE  /\ \E B, G : MintFlowTypes(B, G)'
         /\ mintFlow'[m].pc = pc /\ mintFlow'[m].agent = agent /\ mintFlow'[m].key = key
         /\ mintFlow'[m].timer = timer
         /\ \A n \in WebMint : n # m => mintFlow'[n] = mintFlow[n]
<1>1. MintFlowTypes(A \cup {addr}, F \cup {from})
  BY MintFlowWiden
<1>2. PICK B : B = A \cup {addr} OBVIOUS
<1>3. PICK G : G = F \cup {from} OBVIOUS
<1>4. PICK r : r = [pc |-> pc, agent |-> agent, key |-> key, addr |-> addr, from |-> from,
                    timer |-> timer] OBVIOUS
<1>5. r \in [pc : MintPc, agent : WebName, key : WebName, addr : B, from : G, timer : MintTimer]
  BY <1>2, <1>3, <1>4
<1>6. mintFlow' = [mintFlow EXCEPT ![m] = r]
  BY <1>4
<1>7. mintFlow \in [WebMint -> [pc : MintPc, agent : WebName, key : WebName, addr : B, from : G,
                                timer : MintTimer]]
  BY <1>1, <1>2, <1>3 DEF MintFlowTypes
<1>8. mintFlow' \in [WebMint -> [pc : MintPc, agent : WebName, key : WebName, addr : B, from : G,
                                timer : MintTimer]]
  BY <1>5, <1>6, <1>7
<1>9. MintFlowTypes(B, G)'
  BY <1>8 DEF MintFlowTypes
<1>10. mintFlow'[m] = r /\ \A n \in WebMint : n # m => mintFlow'[n] = mintFlow[n]
  BY <1>6, <1>7
<1>11. QED BY <1>4, <1>9, <1>10

\* A step of one mint's flow: the fields it sets, the others kept.
MintFlowTo(m, pc, agent, key, timer) ==
  /\ \E B, G : MintFlowTypes(B, G)'
  /\ mintFlow'[m].pc = pc /\ mintFlow'[m].agent = agent /\ mintFlow'[m].key = key
  /\ mintFlow'[m].timer = timer
  /\ \A n \in WebMint : n # m => mintFlow'[n] = mintFlow[n]

LEMMA MintOverSets ==
  ASSUME WebTypes, NEW m \in WebMint, MintOver(m)
  PROVE  MintFlowTo(m, "over", Nobody, Nobody, "off")
<1>1. PICK A, F : MintFlowTypes(A, F)
  BY DEF WebTypes
<1>2. PICK r : r = [IdleMint EXCEPT !.pc = "over"]
  OBVIOUS
<1>3. r = [pc |-> "over", agent |-> Nobody, key |-> Nobody, addr |-> Nobody, from |-> "none",
           timer |-> "off"]
  BY <1>2 DEF IdleMint
<1>4. mintFlow' = [mintFlow EXCEPT ![m] = r]
  BY <1>2 DEF MintOver
<1>5. mintFlow' = [mintFlow EXCEPT ![m] = [pc |-> "over", agent |-> Nobody, key |-> Nobody,
                                           addr |-> Nobody, from |-> "none", timer |-> "off"]]
  BY <1>3, <1>4
<1>6. "over" \in MintPc /\ "off" \in MintTimer
  BY DEF MintPc, MintTimer
<1>7. Nobody \in WebName
  BY WebNames
<1>8. QED BY <1>1, <1>5, <1>6, <1>7, MintFlowSet DEF MintFlowTo

LEMMA MintToSets ==
  ASSUME WebTypes, NEW m \in WebMint, NEW pc \in MintPc, MintTo(m, pc)
  PROVE  MintFlowTo(m, pc, mintFlow[m].agent, mintFlow[m].key, mintFlow[m].timer)
<1>1. PICK A, F : MintFlowTypes(A, F)
  BY DEF WebTypes
<1>2. PICK r : r = mintFlow[m] OBVIOUS
<1>3. r \in [pc : MintPc, agent : WebName, key : WebName, addr : A, from : F, timer : MintTimer]
  BY <1>1, <1>2 DEF MintFlowTypes
<1>4. PICK q : q = [r EXCEPT !.pc = pc] OBVIOUS
<1>5. q = [pc |-> pc, agent |-> r.agent, key |-> r.key, addr |-> r.addr, from |-> r.from,
           timer |-> r.timer]
  BY <1>3, <1>4
<1>6. mintFlow' = [mintFlow EXCEPT ![m] = q]
  BY <1>1, <1>2, <1>4 DEF MintTo, MintFlowTypes
<1>7. mintFlow' = [mintFlow EXCEPT ![m] = [pc |-> pc, agent |-> r.agent,
                     key |-> r.key, addr |-> r.addr, from |-> r.from, timer |-> r.timer]]
  BY <1>5, <1>6
<1>8. r.agent \in WebName /\ r.key \in WebName /\ r.timer \in MintTimer
  BY <1>3
<1>9. MintFlowTo(m, pc, r.agent, r.key, r.timer)
  BY <1>1, <1>7, <1>8, MintFlowSet DEF MintFlowTo
<1>10. QED BY <1>2, <1>9


\* What a step may do to a mint, and to the seeds.
SeedsKept ==
  /\ seeds \subseteq seeds' /\ lostSeeds \subseteq lostSeeds'
  /\ \A r \in Signing : r \in Signing' \/ r \in seeds' \/ r \in lostSeeds'

MintMoves(m) ==
  /\ mintFlow'[m].pc \in {"sending", "left"} =>
       (\/ mintFlow[m].pc \in {"sending", "left"} /\ mintFlow'[m].key = mintFlow[m].key
        \/ m \notin Signing' /\ mintFlow'[m].key \in Known')
  /\ \/ webMint'[m].key = webMint[m].key
     \/ mintFlow[m].pc \in {"sending", "left"} /\ webMint'[m].key = mintFlow[m].key
  /\ mintFlow'[m].pc = "loading" => mintFlow'[m].key \in seeds'
  /\ mintFlow'[m].pc = "signing" => mintFlow'[m].agent \in WebRequest
  /\ mintFlow'[m].pc \in {"idle", "signing"} => mintFlow'[m].timer = "off"

AgentMoves(f) ==
  agents'[f].key = agents[f].key \/ agents'[f].key \in Known'

LEMMA KnownGrows ==
  ASSUME SeedsKept
  PROVE  /\ \A x \in Known : x \in Known'
         /\ \A m : \A x \in KnownBut(m) : x \in KnownBut(m)'
<1>1. PICK sd : sd = seeds' OBVIOUS
<1>2. PICK ls : ls = lostSeeds' OBVIOUS
<1>3. PICK sg : sg = Signing' OBVIOUS
<1>4. /\ seeds \subseteq sd /\ lostSeeds \subseteq ls
      /\ \A r \in Signing : r \in sg \/ r \in sd \/ r \in ls
  BY <1>1, <1>2, <1>3 DEF SeedsKept
<1>5. Known' = sd \cup ls \cup sg \cup {Nobody}
  BY <1>1, <1>2, <1>3 DEF Known
<1>6. \A x \in Known : x \in Known'
  BY <1>4, <1>5 DEF Known
<1>7. ASSUME NEW m PROVE \A x \in KnownBut(m) : x \in KnownBut(m)'
  <2>1. KnownBut(m)' = sd \cup ls \cup (sg \ {m}) \cup {Nobody}
    BY <1>1, <1>2, <1>3 DEF KnownBut
  <2>2. QED BY <1>4, <2>1 DEF KnownBut
<1>8. QED BY <1>6, <1>7

LEMMA WebMintMoves ==
  ASSUME WebInv, SeedsKept, NEW m \in WebMint, MintMoves(m)
  PROVE  MintOk(m)'
<1>1. MintOk(m)
  BY DEF WebInv, WebKeys
<1>2. PICK F : F = mintFlow[m] OBVIOUS
<1>3. PICK G : G = mintFlow'[m] OBVIOUS
<1>4. PICK w : w = webMint'[m].key OBVIOUS
<1>5. PICK K : K = KnownBut(m)' OBVIOUS
<1>6. \A x \in KnownBut(m) : x \in K
  BY <1>5, KnownGrows
<1>7. G.pc \in {"sending", "left"} => G.key \in K
  <2>1. CASE F.pc \in {"sending", "left"} /\ G.key = F.key
    BY <1>1, <1>2, <1>6, <2>1 DEF MintOk
  <2>2. CASE m \notin Signing' /\ G.key \in Known'
    <3>1. Known' = seeds' \cup lostSeeds' \cup Signing' \cup {Nobody}
      BY DEF Known
    <3>2. K = seeds' \cup lostSeeds' \cup (Signing' \ {m}) \cup {Nobody}
      BY <1>5 DEF KnownBut
    <3>3. QED BY <2>2, <3>1, <3>2
  <2>3. QED BY <1>2, <1>3, <2>1, <2>2 DEF MintMoves
<1>8. w \in K
  BY <1>1, <1>2, <1>4, <1>6 DEF MintOk, MintMoves
<1>9. QED BY <1>3, <1>4, <1>5, <1>7, <1>8 DEF MintOk, MintMoves

LEMMA WebAgentMoves ==
  ASSUME WebInv, SeedsKept, NEW f \in WebRequest, AgentMoves(f)
  PROVE  (agents[f].key \in Known)'
<1>1. agents[f].key \in Known
  BY DEF WebInv, WebKeys
<1>2. QED BY <1>1, KnownGrows DEF AgentMoves

LEMMA WebMoves ==
  ASSUME WebInv, SeedsKept, WebTypes', \A m \in WebMint : MintMoves(m),
         \A f \in WebRequest : AgentMoves(f), \A b \in WebBurn : BurnOk(b)'
  PROVE  WebInv'
<1>1. \A m \in WebMint : MintOk(m)'
  BY WebMintMoves
<1>2. \A f \in WebRequest : (agents[f].key \in Known)'
  BY WebAgentMoves
<1>3. QED BY <1>1, <1>2 DEF WebInv, WebKeys

\* Mints and burns a step leaves alone.
LEMMA MintStays ==
  ASSUME WebInv, SeedsKept, NEW m \in WebMint, mintFlow'[m] = mintFlow[m],
         webMint'[m].key = webMint[m].key
  PROVE  MintMoves(m)
<1>1. MintOk(m) /\ seeds \subseteq seeds'
  BY DEF WebInv, WebKeys, SeedsKept
<1>2. QED BY <1>1 DEF MintOk, MintMoves

LEMMA BurnStays ==
  ASSUME WebInv, NEW b \in WebBurn, burnFlow'[b] = burnFlow[b],
         keySets'[b] = keySets[b], webBurn'[b].status = webBurn[b].status,
         webBurn'[b].key = webBurn[b].key
  PROVE  BurnOk(b)'
<1>1. BurnOk(b)
  BY DEF WebInv, WebKeys
<1>2. QED BY <1>1 DEF BurnOk

LEMMA SigningIs ==
  /\ Signing = {m \in WebMint : mintFlow[m].pc = "signing"}
                 \cup {b \in WebBurn : burnFlow[b].pc = "signing"}
  /\ Signing' = {m \in WebMint : mintFlow'[m].pc = "signing"}
                 \cup {b \in WebBurn : burnFlow'[b].pc = "signing"}
BY DEF Signing, MintAt, BurnFlowAt

\* A step of a mint's flow, and of nothing else that counts.
LEMMA MintFlowSteps ==
  ASSUME WebInv, NEW m \in WebMint, NEW pc, NEW agent, NEW key, NEW timer,
         MintFlowTo(m, pc, agent, key, timer), mintFlow[m].pc # "signing",
         pc \notin {"sending", "left", "signing", "idle"}, pc = "loading" => key \in seeds,
         webMint' \in [WebMint -> [status : MintStatus, key : WebName, late : BOOLEAN]],
         \A n \in WebMint : webMint'[n].key = webMint[n].key,
         UNCHANGED <<seeds, lostSeeds, webBurnVars>>,
         agents' \in [WebRequest -> [key : WebName, secret : BOOLEAN]], agentInstance' \in WebName,
         \A f \in WebRequest : AgentMoves(f)
  PROVE  WebInv'
<1>1. SeedsKept
  <2>1. \A r \in Signing : r \in Signing'
    BY SigningIs, WebNames DEF MintFlowTo, webBurnVars
  <2>2. QED BY <2>1 DEF SeedsKept
<1>2. ASSUME NEW n \in WebMint PROVE MintMoves(n)
  <2>1. CASE n = m
    BY <2>1 DEF MintFlowTo, MintMoves
  <2>2. CASE n # m
    BY <1>1, <2>2, MintStays DEF MintFlowTo
  <2>3. QED BY <2>1, <2>2
<1>3. ASSUME NEW b \in WebBurn PROVE BurnOk(b)'
  BY BurnStays DEF webBurnVars
<1>4. WebTypes'
  BY DEF WebInv, WebTypes, MintFlowTo, webBurnVars, BurnFlowTypes, WebBurnTypes
<1>5. QED BY <1>1, <1>2, <1>3, <1>4, WebMoves


MintsOnHub ==
  /\ webMint' \in [WebMint -> [status : MintStatus, key : WebName, late : BOOLEAN]]
  /\ \A n \in WebMint : webMint'[n].key = webMint[n].key

LEMMA WebMintTo ==
  ASSUME WebTypes, NEW m \in WebMint, NEW s \in MintStatus,
         webMint' = [webMint EXCEPT ![m].status = s]
  PROVE  MintsOnHub
BY DEF WebTypes, MintsOnHub

LEMMA WebMintKept ==
  ASSUME WebTypes, UNCHANGED webMint
  PROVE  MintsOnHub
BY DEF WebTypes, MintsOnHub

LEMMA HubCancelSteps ==
  ASSUME WebTypes, NEW m \in WebMint, Cancellable(m), HubCancels(m)
  PROVE  MintsOnHub
<1>1. PICK s : s = CASE webMint[m].status = "PENDING" -> "CANCELLED"
                     [] webMint[m].status = "KEY_PROVIDED" -> "KEY_CANCELLED"
                     [] webMint[m].status = "READY" -> "EXPIRED_READY"
  OBVIOUS
<1>2. s \in MintStatus
  BY <1>1 DEF Cancellable, MintStatus
<1>3. webMint' = [webMint EXCEPT ![m].status = s]
  BY <1>1 DEF HubCancels, WebTypes
<1>4. QED BY <1>2, <1>3, WebMintTo

LEMMA HubReturnSteps ==
  ASSUME WebTypes, NEW m \in WebMint, HubReturns(m)
  PROVE  MintsOnHub
<1>1. "CANCELLED" \in MintStatus
  BY DEF MintStatus
<1>2. QED BY <1>1, WebMintTo DEF HubReturns

AgentsMove ==
  /\ agents' \in [WebRequest -> [key : WebName, secret : BOOLEAN]]
  /\ \A f \in WebRequest : AgentMoves(f)

LEMMA AgentsKept ==
  ASSUME WebTypes, UNCHANGED agents
  PROVE  AgentsMove
BY DEF WebTypes, AgentsMove, AgentMoves

LEMMA SeedLoads ==
  ASSUME WebTypes, NEW a, NEW seed \in WebRequest, LoadSeed(a, seed), seed \in Known'
  PROVE  AgentsMove
<1>1. PICK t \in BOOLEAN : t = TRUE OBVIOUS
<1>2. PICK r : r = [key |-> seed, secret |-> t] OBVIOUS
<1>3. r \in [key : WebName, secret : BOOLEAN] /\ r.key = seed
  BY <1>1, <1>2, WebNames
<1>4. agents' = [agents EXCEPT ![a] = r]
  BY <1>1, <1>2 DEF LoadSeed
<1>5. agents' \in [WebRequest -> [key : WebName, secret : BOOLEAN]]
  BY <1>3, <1>4 DEF WebTypes
<1>6. ASSUME NEW f \in WebRequest PROVE AgentMoves(f)
  <2>1. agents'[f] = agents[f] \/ agents'[f] = r
    BY <1>4 DEF WebTypes
  <2>2. QED BY <1>3, <2>1 DEF AgentMoves
<1>7. QED BY <1>5, <1>6 DEF AgentsMove

LEMMA AgentNamed ==
  ASSUME WebTypes, NEW f \in WebRequest
  PROVE  Agent(f) \in WebRequest
BY DEF WebTypes, Agent, WebName

\* The steps of a mint's flow, with the storage but for the list unchanged.
LEMMA MintPartSteps ==
  ASSUME WebInv, NEW m \in WebMint, NEW pc, NEW agent, NEW key, NEW timer,
         MintFlowTo(m, pc, agent, key, timer), mintFlow[m].pc # "signing",
         pc \notin {"sending", "left", "signing", "idle"}, pc = "loading" => key \in seeds,
         MintsOnHub, UNCHANGED <<seeds, lostSeeds, agents, agentInstance, webBurnVars>>
  PROVE  WebInv'
<1>1. WebTypes
  BY DEF WebInv
<1>2. AgentsMove /\ agentInstance' \in WebName
  BY <1>1, AgentsKept DEF WebTypes
<1>3. QED BY <1>2, MintFlowSteps DEF MintsOnHub, AgentsMove

LEMMA MintSigningKeepsOff ==
  ASSUME WebInv, NEW m \in WebMint, mintFlow[m].timer \in {"on", "refund"}
  PROVE  mintFlow[m].pc # "signing" /\ mintFlow[m].pc # "idle"
<1>1. MintOk(m)
  BY DEF WebInv, WebKeys
<1>2. QED BY <1>1 DEF MintOk

LEMMA CancelMintWeb ==
  ASSUME WebInv, NEW m \in WebMint, CancelMint(m) \/ Cancel(m) \/ RefundButton(m),
         UNCHANGED webBurnVars
  PROVE  WebInv'
<1>1. WebTypes
  BY DEF WebInv
<1>2. MintOver(m) /\ UNCHANGED <<seeds, lostSeeds, agents, agentInstance>>
  BY DEF CancelMint, Cancel, RefundButton, MintFlows
<1>3. MintsOnHub
  BY <1>1, HubCancelSteps, HubReturnSteps, WebMintKept DEF CancelMint, Cancel, RefundButton
<1>4. mintFlow[m].pc # "signing"
  BY MintSigningKeepsOff DEF CancelMint, Cancel, RefundButton, MintCancelButton
<1>5. QED BY <1>1, <1>2, <1>3, <1>4, MintOverSets, MintPartSteps

LEMMA ClaimWeb ==
  ASSUME WebInv, NEW m \in WebMint, Claim(m), UNCHANGED webBurnVars
  PROVE  WebInv'
<1>1. WebTypes
  BY DEF WebInv
<1>2. MintOver(m) /\ UNCHANGED <<seeds, lostSeeds, agents, agentInstance>>
  BY DEF Claim, CompleteMint, MintFlows
<1>3. mintFlow[m].pc # "signing"
  BY DEF Claim, MintAt
<1>4. "COMPLETED" \in MintStatus /\ "SECRET_REVEALED" \in MintStatus
  BY DEF MintStatus
<1>5. MintsOnHub
  BY <1>1, <1>4, WebMintTo, WebMintKept DEF Claim
<1>6. QED BY <1>1, <1>2, <1>3, <1>5, MintOverSets, MintPartSteps

LEMMA MintEndsWeb ==
  ASSUME WebInv, NEW m \in WebMint, MintGivesUp(m) \/ InitiateFails(m), UNCHANGED webBurnVars
  PROVE  WebInv'
<1>1. WebTypes
  BY DEF WebInv
<1>2. MintOver(m) /\ UNCHANGED <<seeds, lostSeeds, agents, agentInstance, webMint>>
  BY DEF MintGivesUp, InitiateFails, storageVars
<1>3. mintFlow[m].pc # "signing"
  BY DEF MintGivesUp, InitiateFails, MintAt
<1>4. QED BY <1>1, <1>2, <1>3, WebMintKept, MintOverSets, MintPartSteps

LEMMA MintEndSeenWeb ==
  ASSUME WebInv, NEW m \in WebMint, ReadySeen(m) \/ MintEndSeen(m), UNCHANGED webBurnVars
  PROVE  WebInv'
<1>1. WebTypes
  BY DEF WebInv
<1>2. UNCHANGED <<seeds, lostSeeds, agents, agentInstance, webMint>> /\ mintFlow[m].pc # "signing"
  BY DEF ReadySeen, MintEndSeen, MintAt, MintFlows
<1>3. MintTo(m, "claim") \/ MintTo(m, "expired")
  BY DEF ReadySeen, MintEndSeen
<1>4. "claim" \in MintPc /\ "expired" \in MintPc
  BY DEF MintPc
<1>5. PICK pc \in {"claim", "expired"} : MintFlowTo(m, pc, mintFlow[m].agent, mintFlow[m].key, mintFlow[m].timer)
  BY <1>1, <1>3, <1>4, MintToSets
<1>6. QED BY <1>1, <1>2, <1>5, WebMintKept, MintPartSteps


\* A record of a flow, with the fields that a step sets.
MintRecord(q, r, pc, addr, timer) ==
  q = [pc |-> pc, agent |-> r.agent, key |-> r.key, addr |-> addr, from |-> r.from,
       timer |-> timer]

LEMMA MintFlowPut ==
  ASSUME NEW A, NEW F, MintFlowTypes(A, F), NEW m \in WebMint, NEW pc \in MintPc,
         NEW agent \in WebName, NEW key \in WebName, NEW addr, NEW from, NEW timer \in MintTimer,
         NEW q, q = [pc |-> pc, agent |-> agent, key |-> key, addr |-> addr, from |-> from,
                     timer |-> timer],
         mintFlow' = [mintFlow EXCEPT ![m] = q]
  PROVE  MintFlowTo(m, pc, agent, key, timer)
<1>1. MintFlowTypes(A \cup {addr}, F \cup {from})
  BY MintFlowWiden
<1>2. PICK B : B = A \cup {addr} OBVIOUS
<1>3. PICK G : G = F \cup {from} OBVIOUS
<1>4. q \in [pc : MintPc, agent : WebName, key : WebName, addr : B, from : G, timer : MintTimer]
  BY <1>2, <1>3
<1>5. mintFlow \in [WebMint -> [pc : MintPc, agent : WebName, key : WebName, addr : B, from : G,
                                timer : MintTimer]]
  BY <1>1, <1>2, <1>3 DEF MintFlowTypes
<1>6. mintFlow' \in [WebMint -> [pc : MintPc, agent : WebName, key : WebName, addr : B, from : G,
                                timer : MintTimer]]
  BY <1>4, <1>5
<1>7. MintFlowTypes(B, G)'
  BY <1>6 DEF MintFlowTypes
<1>8. mintFlow'[m] = q /\ \A n \in WebMint : n # m => mintFlow'[n] = mintFlow[n]
  BY <1>5
<1>9. QED BY <1>7, <1>8 DEF MintFlowTo

LEMMA MintFlowEdit ==
  ASSUME WebTypes, NEW m \in WebMint, NEW pc \in MintPc, NEW addr, NEW timer \in MintTimer,
         NEW q, MintRecord(q, mintFlow[m], pc, addr, timer),
         mintFlow' = [mintFlow EXCEPT ![m] = q]
  PROVE  MintFlowTo(m, pc, mintFlow[m].agent, mintFlow[m].key, timer)
<1>1. PICK A, F : MintFlowTypes(A, F)
  BY DEF WebTypes
<1>2. PICK r : r = mintFlow[m] OBVIOUS
<1>3. r.agent \in WebName /\ r.key \in WebName
  BY <1>1, <1>2 DEF MintFlowTypes
<1>4. PICK a \in WebName : a = r.agent
  BY <1>3
<1>5. PICK k \in WebName : k = r.key
  BY <1>3
<1>6. PICK fr : fr = r.from OBVIOUS
<1>7. q = [pc |-> pc, agent |-> a, key |-> k, addr |-> addr, from |-> fr, timer |-> timer]
  BY <1>2, <1>4, <1>5, <1>6 DEF MintRecord
<1>8. MintFlowTo(m, pc, a, k, timer)
  BY <1>1, <1>7, MintFlowPut
<1>9. QED BY <1>2, <1>4, <1>5, <1>8

LEMMA MintFieldEdits ==
  ASSUME WebTypes, NEW m \in WebMint, NEW pc \in MintPc, NEW addr, NEW timer \in MintTimer
  PROVE  /\ mintFlow' = [mintFlow EXCEPT ![m].pc = pc, ![m].timer = timer] =>
              MintFlowTo(m, pc, mintFlow[m].agent, mintFlow[m].key, timer)
         /\ mintFlow' = [mintFlow EXCEPT ![m].pc = pc, ![m].addr = addr] =>
              MintFlowTo(m, pc, mintFlow[m].agent, mintFlow[m].key, mintFlow[m].timer)
         /\ mintFlow' = [mintFlow EXCEPT ![m].timer = timer] =>
              MintFlowTo(m, mintFlow[m].pc, mintFlow[m].agent, mintFlow[m].key, timer)
<1>1. PICK A, F : MintFlowTypes(A, F)
  BY DEF WebTypes
<1>2. PICK r : r = mintFlow[m] OBVIOUS
<1>3. r \in [pc : MintPc, agent : WebName, key : WebName, addr : A, from : F, timer : MintTimer]
  BY <1>1, <1>2 DEF MintFlowTypes
<1>4. ASSUME mintFlow' = [mintFlow EXCEPT ![m].pc = pc, ![m].timer = timer]
      PROVE  MintFlowTo(m, pc, mintFlow[m].agent, mintFlow[m].key, timer)
  <2>1. PICK p : p = [r EXCEPT !.pc = pc] OBVIOUS
  <2>2. PICK q : q = [p EXCEPT !.timer = timer] OBVIOUS
  <2>3. p = [pc |-> pc, agent |-> r.agent, key |-> r.key, addr |-> r.addr, from |-> r.from,
             timer |-> r.timer]
    BY <1>3, <2>1
  <2>4. MintRecord(q, r, pc, r.addr, timer)
    BY <2>2, <2>3 DEF MintRecord
  <2>5. mintFlow' = [mintFlow EXCEPT ![m] = q]
    BY <1>1, <1>2, <1>4, <2>1, <2>2 DEF MintFlowTypes
  <2>6. QED BY <1>2, <2>4, <2>5, MintFlowEdit
<1>5. ASSUME mintFlow' = [mintFlow EXCEPT ![m].pc = pc, ![m].addr = addr]
      PROVE  MintFlowTo(m, pc, mintFlow[m].agent, mintFlow[m].key, mintFlow[m].timer)
  <2>1. PICK p : p = [r EXCEPT !.pc = pc] OBVIOUS
  <2>2. PICK q : q = [p EXCEPT !.addr = addr] OBVIOUS
  <2>3. p = [pc |-> pc, agent |-> r.agent, key |-> r.key, addr |-> r.addr, from |-> r.from,
             timer |-> r.timer]
    BY <1>3, <2>1
  <2>4. MintRecord(q, r, pc, addr, r.timer)
    BY <2>2, <2>3 DEF MintRecord
  <2>5. mintFlow' = [mintFlow EXCEPT ![m] = q]
    BY <1>1, <1>2, <1>5, <2>1, <2>2 DEF MintFlowTypes
  <2>6. r.timer \in MintTimer
    BY <1>3
  <2>7. QED BY <1>2, <2>4, <2>5, <2>6, MintFlowEdit
<1>6. ASSUME mintFlow' = [mintFlow EXCEPT ![m].timer = timer]
      PROVE  MintFlowTo(m, mintFlow[m].pc, mintFlow[m].agent, mintFlow[m].key, timer)
  <2>1. PICK q : q = [r EXCEPT !.timer = timer] OBVIOUS
  <2>2. MintRecord(q, r, r.pc, r.addr, timer)
    BY <1>3, <2>1 DEF MintRecord
  <2>3. mintFlow' = [mintFlow EXCEPT ![m] = q]
    BY <1>1, <1>2, <1>6, <2>1 DEF MintFlowTypes
  <2>4. r.pc \in MintPc
    BY <1>3
  <2>5. QED BY <1>2, <2>2, <2>3, <2>4, MintFlowEdit
<1>7. QED BY <1>4, <1>5, <1>6

LEMMA MintReceiptWeb ==
  ASSUME WebInv, NEW m \in WebMint, MintReceipt(m), UNCHANGED webBurnVars
  PROVE  WebInv'
<1>1. WebTypes
  BY DEF WebInv
<1>2. UNCHANGED <<seeds, lostSeeds, agents, agentInstance, webMint>> /\ mintFlow[m].pc # "signing"
  BY DEF MintReceipt, MintAt, MintFlows
<1>3. "key" \in MintPc /\ "on" \in MintTimer
  BY DEF MintPc, MintTimer
<1>4. MintFlowTo(m, "key", mintFlow[m].agent, mintFlow[m].key, "on")
  BY <1>1, <1>3, MintFieldEdits DEF MintReceipt
<1>5. QED BY <1>1, <1>2, <1>4, WebMintKept, MintPartSteps

LEMMA LpKeySeenWeb ==
  ASSUME WebInv, NEW m \in WebMint, LpKeySeen(m), UNCHANGED webBurnVars
  PROVE  WebInv'
<1>1. WebTypes
  BY DEF WebInv
<1>2. UNCHANGED <<seeds, lostSeeds, agents, agentInstance, webMint>> /\ mintFlow[m].pc # "signing"
  BY DEF LpKeySeen, MintAt, MintFlows
<1>3. "deposit" \in MintPc /\ "expired" \in MintPc /\ "off" \in MintTimer
  BY DEF MintPc, MintTimer
<1>4. PICK x : x = MintAgent(m).key OBVIOUS
<1>5. \/ mintFlow' = [mintFlow EXCEPT ![m].pc = "deposit", ![m].addr = x]
      \/ MintTo(m, "expired")
  BY <1>4 DEF LpKeySeen
<1>6. PICK pc \in {"deposit", "expired"} :
        MintFlowTo(m, pc, mintFlow[m].agent, mintFlow[m].key, mintFlow[m].timer)
  BY <1>1, <1>3, <1>5, MintFieldEdits, MintToSets
<1>7. QED BY <1>1, <1>2, <1>6, WebMintKept, MintPartSteps

LEMMA MintTimerWeb ==
  ASSUME WebInv, NEW m \in WebMint, ConfirmSent(m) \/ TimerTick(m), UNCHANGED webBurnVars
  PROVE  WebInv'
<1>1. WebTypes /\ MintOk(m)
  BY DEF WebInv, WebKeys
<1>2. UNCHANGED <<seeds, lostSeeds, agents, agentInstance, webMint>>
  BY DEF ConfirmSent, TimerTick, storageVars, MintFlows
<1>3. mintFlow[m].pc # "signing" /\ mintFlow[m].pc # "idle"
  BY MintSigningKeepsOff DEF ConfirmSent, TimerTick, MintAt
<1>4. PICK A, F : MintFlowTypes(A, F)
  BY <1>1 DEF WebTypes
<1>5. PICK t \in MintTimer : mintFlow' = [mintFlow EXCEPT ![m].timer = t]
  <2>1. CASE ConfirmSent(m)
    <3>1. PICK t : t = IF mintFlow[m].timer = "off" THEN "on" ELSE mintFlow[m].timer OBVIOUS
    <3>2. t \in MintTimer
      BY <1>4, <3>1 DEF MintFlowTypes, MintTimer
    <3>3. QED BY <2>1, <1>4, <3>1, <3>2 DEF ConfirmSent, MintFlowTypes
  <2>2. CASE TimerTick(m)
    BY <2>2 DEF TimerTick, MintTimer
  <2>3. QED BY <2>1, <2>2
<1>6. mintFlow[m].pc \in MintPc
  BY <1>4 DEF MintFlowTypes
<1>7. MintFlowTo(m, mintFlow[m].pc, mintFlow[m].agent, mintFlow[m].key, t)
  BY <1>1, <1>5, <1>6, MintFieldEdits
<1>8. ASSUME NEW n \in WebMint PROVE MintMoves(n)
  <2>1. SeedsKept
    <3>1. \A r \in Signing : r \in Signing'
      BY <1>7, SigningIs, WebNames DEF MintFlowTo, webBurnVars
    <3>2. QED BY <1>2, <3>1 DEF SeedsKept
  <2>2. CASE n # m
    BY <1>2, <1>7, <2>1, <2>2, MintStays DEF MintFlowTo
  <2>3. CASE n = m
    <3>1. MintMoves(m)
      BY <1>1, <1>2, <1>3, <1>7 DEF MintFlowTo, MintMoves, MintOk
    <3>2. QED BY <2>3, <3>1
  <2>4. QED BY <2>2, <2>3
<1>9. SeedsKept
  <2>1. \A r \in Signing : r \in Signing'
    BY <1>7, SigningIs, WebNames DEF MintFlowTo, webBurnVars
  <2>2. QED BY <1>2, <2>1 DEF SeedsKept
<1>10. \A f \in WebRequest : AgentMoves(f)
  BY <1>1, <1>2, AgentsKept DEF AgentsMove
<1>11. ASSUME NEW b \in WebBurn PROVE BurnOk(b)'
  BY BurnStays DEF webBurnVars
<1>12. WebTypes'
  BY <1>1, <1>2, <1>7 DEF WebTypes, MintFlowTo, webBurnVars, BurnFlowTypes, WebBurnTypes
<1>13. QED BY <1>8, <1>9, <1>10, <1>11, <1>12, WebMoves


LEMMA GoesOnSets ==
  ASSUME WebTypes, NEW m \in WebMint, NEW pc \in MintPc, NEW addr, GoesOn(m, pc, addr)
  PROVE  \E t \in MintTimer : MintFlowTo(m, pc, mintFlow[m].agent, Nobody, t)
<1>1. PICK A, F : MintFlowTypes(A, F)
  BY DEF WebTypes
<1>2. PICK r : r = mintFlow[m] OBVIOUS
<1>3. r \in [pc : MintPc, agent : WebName, key : WebName, addr : A, from : F, timer : MintTimer]
  BY <1>1, <1>2 DEF MintFlowTypes
<1>4. PICK t \in MintTimer : t = IF pc = "key" THEN "on" ELSE "off"
  BY DEF MintTimer
<1>5. PICK n : n = "none" OBVIOUS
<1>6. PICK q : q = [r EXCEPT !.pc = pc, !.key = Nobody, !.addr = addr, !.from = n, !.timer = t]
  OBVIOUS
<1>7. q = [pc |-> pc, agent |-> r.agent, key |-> Nobody, addr |-> addr, from |-> n, timer |-> t]
  BY <1>3, <1>6
<1>8. mintFlow' = [mintFlow EXCEPT ![m] = q]
  BY <1>1, <1>2, <1>4, <1>5, <1>6 DEF GoesOn, MintFlowTypes
<1>9. PICK a \in WebName : a = r.agent
  BY <1>3
<1>10. q = [pc |-> pc, agent |-> a, key |-> Nobody, addr |-> addr, from |-> n, timer |-> t]
  BY <1>7, <1>9
<1>11. MintFlowTo(m, pc, a, Nobody, t)
  BY <1>1, <1>8, <1>10, WebNames, MintFlowPut
<1>12. QED BY <1>2, <1>9, <1>11

LEMMA ResumedGoes ==
  ASSUME WebTypes, NEW m \in WebMint, Resumed(m)
  PROVE  \E pc \in {"claim", "key", "deposit", "over"}, a \in WebName, t \in MintTimer :
           MintFlowTo(m, pc, a, Nobody, t)
<1>1. \/ MintOver(m)
      \/ \E pc \in {"claim", "key", "deposit"} : \E addr : GoesOn(m, pc, addr)
  <2>1. CASE mintFlow[m].from = "lp-verifying"
    <3>1. GoesOn(m, "deposit", mintFlow[m].key)
      BY <2>1 DEF Resumed, ResumedVerifying
    <3>2. QED BY <3>1
  <2>2. CASE mintFlow[m].from # "lp-verifying"
    BY <2>2 DEF Resumed
  <2>3. QED BY <2>1, <2>2
<1>2. ASSUME NEW pc \in {"claim", "key", "deposit"}, NEW addr, GoesOn(m, pc, addr)
      PROVE  \E t \in MintTimer : MintFlowTo(m, pc, mintFlow[m].agent, Nobody, t)
  <2>1. pc \in MintPc
    BY DEF MintPc
  <2>2. QED BY <1>2, <2>1, GoesOnSets
<1>5. mintFlow[m].agent \in WebName
  BY DEF WebTypes, MintFlowTypes
<1>3. CASE MintOver(m)
  <2>1. MintFlowTo(m, "over", Nobody, Nobody, "off") /\ "off" \in MintTimer
    BY <1>3, MintOverSets DEF MintTimer
  <2>2. QED BY <2>1, WebNames
<1>6. CASE \E pc \in {"claim", "key", "deposit"} : \E addr : GoesOn(m, pc, addr)
  <2>1. PICK pc \in {"claim", "key", "deposit"} : \E addr : GoesOn(m, pc, addr)
    BY <1>6
  <2>2. PICK t \in MintTimer : MintFlowTo(m, pc, mintFlow[m].agent, Nobody, t)
    BY <1>2, <2>1
  <2>3. QED BY <1>5, <2>2
<1>7. QED BY <1>1, <1>3, <1>6

LEMMA ResumedWeb ==
  ASSUME WebInv, NEW m \in WebMint, Resumed(m), UNCHANGED webBurnVars
  PROVE  WebInv'
<1>1. WebTypes /\ MintOk(m)
  BY DEF WebInv, WebKeys
<1>2. /\ UNCHANGED <<seeds, lostSeeds, agentInstance, webMint>> /\ mintFlow[m].pc = "loading"
      /\ LoadSeed(mintFlow[m].agent, mintFlow[m].key)
  BY DEF Resumed, MintAt
<1>3. PICK pc \in {"claim", "key", "deposit", "over"}, a \in WebName, t \in MintTimer :
        MintFlowTo(m, pc, a, Nobody, t)
  BY <1>1, ResumedGoes
<1>4. mintFlow[m].key \in seeds
  BY <1>1, <1>2 DEF MintOk
<1>5. mintFlow[m].key \in WebRequest /\ mintFlow[m].key \in Known'
  BY <1>1, <1>2, <1>4 DEF WebTypes, Known
<1>6. AgentsMove
  BY <1>1, <1>2, <1>5, SeedLoads
<1>7. MintsOnHub /\ agentInstance' \in WebName
  BY <1>1, <1>2, WebMintKept DEF WebTypes
<1>8. QED BY <1>2, <1>3, <1>6, <1>7, MintFlowSteps DEF MintsOnHub, AgentsMove

LEMMA ResumeMintWeb ==
  ASSUME WebInv, NEW m \in WebMint, ResumeMint(m), UNCHANGED webBurnVars
  PROVE  WebInv'
<1>1. WebTypes
  BY DEF WebInv
<1>2. /\ UNCHANGED <<seeds, lostSeeds, agents, webMint>> /\ mintFlow[m].pc # "signing"
      /\ Record(m).key \in seeds
  BY DEF ResumeMint, Decrypts
<1>3. AgentsMove /\ MintsOnHub
  BY <1>1, <1>2, AgentsKept, WebMintKept
<1>4. CASE MintOver(m) /\ UNCHANGED agentInstance
  BY <1>1, <1>2, <1>3, <1>4, MintOverSets, MintPartSteps
<1>5. CASE /\ agentInstance' = Agent(m)
           /\ mintFlow' = [mintFlow EXCEPT ![m] = [pc |-> "loading", agent |-> Agent(m),
                key |-> Record(m).key, addr |-> Record(m).addr, from |-> Record(m).state, timer |-> "off"]]
  <2>1. PICK A, F : MintFlowTypes(A, F)
    BY <1>1 DEF WebTypes
  <2>2. PICK a \in WebName : a = Agent(m) /\ a \in WebRequest
    BY <1>1, WebNames, AgentNamed
  <2>3. PICK k \in WebName : k = Record(m).key
    BY <1>1, <1>2, WebNames DEF WebTypes
  <2>4. PICK ad : ad = Record(m).addr OBVIOUS
  <2>5. PICK fr : fr = Record(m).state OBVIOUS
  <2>6. PICK pc \in MintPc : pc = "loading"
    BY DEF MintPc
  <2>7. PICK t \in MintTimer : t = "off"
    BY DEF MintTimer
  <2>8. PICK q : q = [pc |-> pc, agent |-> a, key |-> k, addr |-> ad, from |-> fr, timer |-> t]
    OBVIOUS
  <2>9. mintFlow' = [mintFlow EXCEPT ![m] = q]
    BY <1>5, <2>2, <2>3, <2>4, <2>5, <2>6, <2>7, <2>8
  <2>10. MintFlowTo(m, pc, a, k, t)
    BY <2>1, <2>8, <2>9, MintFlowPut
  <2>11. agentInstance' \in WebName /\ k \in seeds
    BY <1>2, <1>5, <2>2, <2>3
  <2>12. pc \notin {"sending", "left", "signing", "idle"}
    BY <2>6
  <2>13. QED BY <1>2, <1>3, <2>10, <2>11, <2>12, MintFlowSteps DEF MintsOnHub, AgentsMove
<1>6. QED BY <1>4, <1>5 DEF ResumeMint

LEMMA HubMintWeb ==
  ASSUME WebInv, NEW m \in WebMint, UserPays(m) \/ LpActs(m) \/ Crank(m) \/ MintTimesOut(m),
         UNCHANGED webBurnVars
  PROVE  WebInv'
<1>1. WebTypes
  BY DEF WebInv
<1>2. UNCHANGED <<seeds, lostSeeds, agents, agentInstance, mintFlow>>
  BY DEF UserPays, LpActs, Crank, MintTimesOut, ChainMint, storageVars
<1>3. MintsOnHub
  <2>1. CASE UserPays(m)
    BY <1>1, <2>1, WebMintKept DEF UserPays
  <2>2. CASE LpActs(m) \/ Crank(m)
    <3>1. PICK s \in MintStatus : webMint' = [webMint EXCEPT ![m].status = s]
      BY <2>2 DEF LpActs, Crank, ChainMint, MintStatus
    <3>2. QED BY <1>1, <3>1, WebMintTo
  <2>3. CASE MintTimesOut(m)
    <3>1. PICK t \in BOOLEAN : t = TRUE OBVIOUS
    <3>2. webMint' = [webMint EXCEPT ![m].late = t]
      BY <2>3, <3>1 DEF MintTimesOut
    <3>3. QED BY <1>1, <3>2 DEF WebTypes, MintsOnHub
  <2>4. QED BY <2>1, <2>2, <2>3
<1>4. SeedsKept
  <2>1. \A r \in Signing : r \in Signing'
    BY <1>2, SigningIs DEF webBurnVars
  <2>2. QED BY <1>2, <2>1 DEF SeedsKept
<1>5. ASSUME NEW n \in WebMint PROVE MintMoves(n)
  BY <1>2, <1>3, <1>4, MintStays DEF MintsOnHub
<1>6. \A f \in WebRequest : AgentMoves(f)
  BY <1>1, <1>2, AgentsKept DEF AgentsMove
<1>7. ASSUME NEW b \in WebBurn PROVE BurnOk(b)'
  BY BurnStays DEF webBurnVars
<1>8. WebTypes'
  BY <1>1, <1>2, <1>3 DEF WebTypes, MintsOnHub, webBurnVars, BurnFlowTypes, WebBurnTypes, MintFlowTypes
<1>9. QED BY <1>4, <1>5, <1>6, <1>7, <1>8, WebMoves


LEMMA AgentResets ==
  ASSUME WebTypes, NEW m \in WebRequest, ResetThenNewAgent(m), m \in Known'
  PROVE  AgentsMove /\ agentInstance' \in WebName
<1>1. PICK t \in BOOLEAN : t = TRUE OBVIOUS
<1>2. PICK u \in BOOLEAN : u = FALSE OBVIOUS
<1>3. PICK r : r = [key |-> m, secret |-> t] OBVIOUS
<1>4. r \in [key : WebName, secret : BOOLEAN] /\ r.key = m
  BY <1>1, <1>3, WebNames
<1>5. ASSUME NEW f \in WebRequest
      PROVE  agents'[f] \in [key : WebName, secret : BOOLEAN] /\ AgentMoves(f)
  <2>1. agents[f] \in [key : WebName, secret : BOOLEAN]
    BY DEF WebTypes
  <2>2. PICK q : q = [agents[f] EXCEPT !.secret = u] OBVIOUS
  <2>3. q \in [key : WebName, secret : BOOLEAN] /\ q.key = agents[f].key
    BY <1>2, <2>1, <2>2
  <2>4. agents'[f] = r \/ agents'[f] = q \/ agents'[f] = agents[f]
    BY <1>1, <1>2, <1>3, <2>2 DEF ResetThenNewAgent
  <2>5. QED BY <1>4, <2>1, <2>3, <2>4 DEF AgentMoves
<1>6. PICK ag : ag = agents' OBVIOUS
<1>7. ag = [f \in WebRequest |-> ag[f]]
  BY <1>6 DEF ResetThenNewAgent
<1>8. ag \in [WebRequest -> [key : WebName, secret : BOOLEAN]]
  BY <1>5, <1>6, <1>7
<1>9. QED BY <1>5, <1>6, <1>8, WebNames DEF AgentsMove, ResetThenNewAgent

LEMMA StartMintWeb ==
  ASSUME WebInv, NEW m \in WebMint, StartMint(m), UNCHANGED webBurnVars
  PROVE  WebInv'
<1>1. WebTypes /\ MintOk(m)
  BY DEF WebInv, WebKeys
<1>2. UNCHANGED <<seeds, lostSeeds, webMint>> /\ mintFlow[m].pc = "idle" /\ ResetThenNewAgent(m)
  BY DEF StartMint, MintAt
<1>3. PICK A, F : MintFlowTypes(A, F)
  BY <1>1 DEF WebTypes
<1>4. PICK r : r = mintFlow[m] OBVIOUS
<1>5. r \in [pc : MintPc, agent : WebName, key : WebName, addr : A, from : F, timer : MintTimer]
      /\ r.timer = "off"
  BY <1>1, <1>2, <1>3, <1>4 DEF MintFlowTypes, MintOk
<1>6. PICK pc \in MintPc : pc = "signing"
  BY DEF MintPc
<1>7. PICK a \in WebName : a = m
  BY WebNames
<1>8. PICK q : q = [r EXCEPT !.pc = pc, !.agent = a, !.key = a] OBVIOUS
<1>9. PICK ad : ad = r.addr OBVIOUS
<1>10. PICK fr : fr = r.from OBVIOUS
<1>11. PICK t \in MintTimer : t = r.timer
  BY <1>5
<1>12. q = [pc |-> pc, agent |-> a, key |-> a, addr |-> ad, from |-> fr, timer |-> t]
  BY <1>5, <1>8, <1>9, <1>10, <1>11
<1>13. mintFlow' = [mintFlow EXCEPT ![m] = q]
  BY <1>3, <1>4, <1>6, <1>7, <1>8 DEF StartMint, MintFlowTypes
<1>14. MintFlowTo(m, pc, a, a, t)
  BY <1>3, <1>12, <1>13, MintFlowPut
<1>15. m \in WebRequest
  BY WebNames
<1>16. m \in Signing'
  BY <1>6, <1>14, SigningIs DEF MintFlowTo
<1>17. AgentsMove /\ agentInstance' \in WebName
  <2>1. m \in Known'
    BY <1>16 DEF Known
  <2>2. QED BY <1>1, <1>2, <1>15, <2>1, AgentResets
<1>18. SeedsKept
  <2>1. \A s \in Signing : s \in Signing'
    BY <1>2, <1>14, SigningIs, WebNames DEF MintFlowTo, webBurnVars
  <2>2. QED BY <1>2, <2>1 DEF SeedsKept
<1>19. ASSUME NEW n \in WebMint PROVE MintMoves(n)
  <2>1. CASE n = m
    <3>1. MintMoves(m)
      BY <1>2, <1>5, <1>6, <1>7, <1>11, <1>14, <1>15 DEF MintFlowTo, MintMoves
    <3>2. QED BY <2>1, <3>1
  <2>2. CASE n # m
    BY <1>2, <1>14, <1>18, <2>2, MintStays DEF MintFlowTo
  <2>3. QED BY <2>1, <2>2
<1>20. ASSUME NEW b \in WebBurn PROVE BurnOk(b)'
  BY BurnStays DEF webBurnVars
<1>21. WebTypes'
  BY <1>1, <1>2, <1>14, <1>17 DEF WebTypes, MintFlowTo, webBurnVars, BurnFlowTypes, WebBurnTypes, AgentsMove
<1>22. QED BY <1>17, <1>18, <1>19, <1>20, <1>21, WebMoves DEF AgentsMove

LEMMA SeedStored ==
  ASSUME WebTypes, NEW s \in WebRequest, StoreSeed(s)
  PROVE  /\ seeds \subseteq seeds' /\ lostSeeds \subseteq lostSeeds'
         /\ seeds' \subseteq WebRequest /\ lostSeeds' \subseteq WebRequest
         /\ s \in seeds' \/ s \in lostSeeds'
BY DEF WebTypes, StoreSeed

LEMMA SignMintWeb ==
  ASSUME WebInv, NEW m \in WebMint, SignMintSeed(m), UNCHANGED webBurnVars
  PROVE  WebInv'
<1>1. WebTypes /\ MintOk(m)
  BY DEF WebInv, WebKeys
<1>2. UNCHANGED <<agents, agentInstance, webMint>> /\ mintFlow[m].pc = "signing" /\ StoreSeed(m)
  BY DEF SignMintSeed, MintAt
<1>3. PICK A, F : MintFlowTypes(A, F)
  BY <1>1 DEF WebTypes
<1>4. PICK r : r = mintFlow[m] OBVIOUS
<1>5. r \in [pc : MintPc, agent : WebName, key : WebName, addr : A, from : F, timer : MintTimer]
      /\ r.agent \in WebRequest
  BY <1>1, <1>2, <1>3, <1>4 DEF MintFlowTypes, MintOk
<1>6. PICK pc \in MintPc : pc = "sending"
  BY DEF MintPc
<1>7. PICK k \in WebName : k = agents[r.agent].key /\ k \in Known
  BY <1>1, <1>5 DEF WebTypes, WebInv, WebKeys
<1>8. PICK p : p = [r EXCEPT !.pc = pc] OBVIOUS
<1>9. p = [pc |-> pc, agent |-> r.agent, key |-> r.key, addr |-> r.addr, from |-> r.from,
           timer |-> r.timer]
  BY <1>5, <1>8
<1>10. PICK q : q = [p EXCEPT !.key = k] OBVIOUS
<1>11. PICK ad : ad = r.addr OBVIOUS
<1>12. PICK fr : fr = r.from OBVIOUS
<1>13. PICK t \in MintTimer : t = r.timer
  BY <1>5
<1>14. PICK a \in WebName : a = r.agent
  BY <1>5
<1>15. q = [pc |-> pc, agent |-> a, key |-> k, addr |-> ad, from |-> fr, timer |-> t]
  BY <1>9, <1>10, <1>11, <1>12, <1>13, <1>14
<1>16. mintFlow' = [mintFlow EXCEPT ![m] = q]
  <2>1. mintFlow' = [mintFlow EXCEPT ![m].pc = pc, ![m].key = k]
    BY <1>4, <1>6, <1>7 DEF SignMintSeed, MintAgent
  <2>2. QED BY <1>3, <1>4, <1>8, <1>10, <2>1 DEF MintFlowTypes
<1>17. MintFlowTo(m, pc, a, k, t)
  BY <1>3, <1>15, <1>16, MintFlowPut
<1>18. m \in WebRequest
  BY WebNames
<1>19. /\ seeds \subseteq seeds' /\ lostSeeds \subseteq lostSeeds'
       /\ seeds' \subseteq WebRequest /\ lostSeeds' \subseteq WebRequest
       /\ m \in seeds' \/ m \in lostSeeds'
  BY <1>1, <1>2, <1>18, SeedStored
<1>20. SeedsKept
  <2>1. \A s \in Signing : s = m \/ s \in Signing'
    BY <1>2, <1>17, SigningIs, WebNames DEF MintFlowTo, webBurnVars
  <2>2. QED BY <1>19, <2>1 DEF SeedsKept
<1>21. m \notin Signing'
  BY <1>6, <1>17, SigningIs, WebNames DEF MintFlowTo
<1>22. ASSUME NEW n \in WebMint PROVE MintMoves(n)
  <2>1. CASE n = m
    <3>1. k \in Known'
      BY <1>7, <1>20, KnownGrows
    <3>2. MintMoves(m)
      BY <1>2, <1>6, <1>17, <1>21, <3>1 DEF MintFlowTo, MintMoves
    <3>3. QED BY <2>1, <3>2
  <2>2. CASE n # m
    BY <1>2, <1>17, <1>20, <2>2, MintStays DEF MintFlowTo
  <2>3. QED BY <2>1, <2>2
<1>23. ASSUME NEW b \in WebBurn PROVE BurnOk(b)'
  BY BurnStays DEF webBurnVars
<1>24. WebTypes'
  BY <1>1, <1>2, <1>17, <1>19 DEF WebTypes, MintFlowTo, webBurnVars, BurnFlowTypes, WebBurnTypes
<1>25. \A f \in WebRequest : AgentMoves(f)
  BY <1>1, <1>2, AgentsKept DEF AgentsMove
<1>26. QED BY <1>20, <1>22, <1>23, <1>24, <1>25, WebMoves

LEMMA InitiateMinedWeb ==
  ASSUME WebInv, NEW m \in WebMint, InitiateMined(m), UNCHANGED webBurnVars
  PROVE  WebInv'
<1>1. WebTypes
  BY DEF WebInv
<1>2. /\ UNCHANGED <<seeds, lostSeeds, agents, agentInstance>>
      /\ mintFlow[m].pc \in {"sending", "left"}
  BY DEF InitiateMined, MintMaySend, MintAt, storageVars
<1>3. PICK A, F : MintFlowTypes(A, F)
  BY <1>1 DEF WebTypes
<1>4. PICK r : r = mintFlow[m] OBVIOUS
<1>5. r \in [pc : MintPc, agent : WebName, key : WebName, addr : A, from : F, timer : MintTimer]
  BY <1>1, <1>3, <1>4 DEF MintFlowTypes
<1>6. PICK pc \in MintPc : pc = "receipt"
  BY DEF MintPc
<1>7. PICK q : q = IF r.pc = "left" THEN IdleMint ELSE [r EXCEPT !.pc = pc, !.key = Nobody] OBVIOUS
<1>8. mintFlow' = [mintFlow EXCEPT ![m] = q]
  BY <1>3, <1>4, <1>6, <1>7 DEF InitiateMined, MintFlowTypes
<1>9. \/ MintFlowTo(m, "idle", Nobody, Nobody, "off")
      \/ MintFlowTo(m, "receipt", r.agent, Nobody, r.timer)
  <2>1. CASE r.pc = "left"
    <3>1. PICK i \in MintPc : i = "idle"
      BY DEF MintPc
    <3>2. PICK o \in MintTimer : o = "off"
      BY DEF MintTimer
    <3>3. PICK n : n = "none" OBVIOUS
    <3>4. q = [pc |-> i, agent |-> Nobody, key |-> Nobody, addr |-> Nobody, from |-> n, timer |-> o]
      BY <1>7, <2>1, <3>1, <3>2, <3>3 DEF IdleMint
    <3>5. MintFlowTo(m, i, Nobody, Nobody, o)
      BY <1>3, <1>8, <3>4, WebNames, MintFlowPut
    <3>6. QED BY <3>1, <3>2, <3>5
  <2>2. CASE r.pc # "left"
    <3>1. PICK ad : ad = r.addr OBVIOUS
    <3>2. PICK fr : fr = r.from OBVIOUS
    <3>3. PICK t \in MintTimer : t = r.timer
      BY <1>5
    <3>4. PICK a \in WebName : a = r.agent
      BY <1>5
    <3>5. q = [pc |-> pc, agent |-> a, key |-> Nobody, addr |-> ad, from |-> fr, timer |-> t]
      BY <1>5, <1>7, <2>2, <3>1, <3>2, <3>3, <3>4
    <3>6. MintFlowTo(m, pc, a, Nobody, t)
      BY <1>3, <1>8, <3>5, WebNames, MintFlowPut
    <3>7. QED BY <1>6, <3>3, <3>4, <3>6
  <2>3. QED BY <2>1, <2>2
<1>10. SeedsKept
  <2>1. \A s \in Signing : s \in Signing'
    BY <1>2, <1>9, SigningIs, WebNames DEF MintFlowTo, webBurnVars
  <2>2. QED BY <1>2, <2>1 DEF SeedsKept
<1>11. /\ webMint' \in [WebMint -> [status : MintStatus, key : WebName, late : BOOLEAN]]
       /\ webMint'[m].key = r.key
       /\ \A n \in WebMint : n # m => webMint'[n] = webMint[n]
  <2>1. PICK s \in MintStatus : s = "PENDING"
    BY DEF MintStatus
  <2>2. PICK l \in BOOLEAN : l = FALSE OBVIOUS
  <2>3. PICK w : w = [status |-> s, key |-> r.key, late |-> l] OBVIOUS
  <2>4. w \in [status : MintStatus, key : WebName, late : BOOLEAN] /\ w.key = r.key
    BY <1>5, <2>3
  <2>5. webMint' = [webMint EXCEPT ![m] = w]
    BY <1>4, <2>1, <2>2, <2>3 DEF InitiateMined
  <2>6. QED BY <1>1, <2>4, <2>5 DEF WebTypes
<1>12. ASSUME NEW n \in WebMint PROVE MintMoves(n)
  <2>1. CASE n = m
    <3>1. MintMoves(m)
      BY <1>2, <1>4, <1>9, <1>11 DEF MintFlowTo, MintMoves
    <3>2. QED BY <2>1, <3>1
  <2>2. CASE n # m
    <3>1. mintFlow'[n] = mintFlow[n] /\ webMint'[n].key = webMint[n].key
      BY <1>9, <1>11, <2>2 DEF MintFlowTo
    <3>2. QED BY <1>10, <3>1, MintStays
  <2>3. QED BY <2>1, <2>2
<1>13. ASSUME NEW b \in WebBurn PROVE BurnOk(b)'
  BY BurnStays DEF webBurnVars
<1>14. WebTypes'
  <2>1. \E B, G : MintFlowTypes(B, G)'
    BY <1>9 DEF MintFlowTo
  <2>2. QED BY <1>1, <1>2, <1>11, <2>1 DEF WebTypes, webBurnVars, BurnFlowTypes, WebBurnTypes
<1>15. \A f \in WebRequest : AgentMoves(f)
  BY <1>1, <1>2, AgentsKept DEF AgentsMove
<1>16. QED BY <1>10, <1>12, <1>13, <1>14, <1>15, WebMoves


\* A step of one burn's flow.
BurnFlowRec == [pc : BurnPc, agent : WebName, keySet : KeyPairs]

BurnFlowTo(b, r) ==
  /\ burnFlow' \in [WebBurn -> BurnFlowRec]
  /\ burnFlow'[b] = r
  /\ \A c \in WebBurn : c # b => burnFlow'[c] = burnFlow[c]

LEMMA BurnFlowPut ==
  ASSUME WebTypes, NEW b \in WebBurn, NEW r \in BurnFlowRec, burnFlow' = [burnFlow EXCEPT ![b] = r]
  PROVE  BurnFlowTo(b, r)
BY DEF WebTypes, BurnFlowTypes, BurnFlowRec, BurnFlowTo

LEMMA BurnToSets ==
  ASSUME WebTypes, NEW b \in WebBurn, NEW pc \in BurnPc, BurnTo(b, pc)
  PROVE  \E r \in BurnFlowRec :
           BurnFlowTo(b, r) /\ r.pc = pc /\ r.agent = burnFlow[b].agent /\ r.keySet = burnFlow[b].keySet
<1>1. PICK q : q = burnFlow[b] OBVIOUS
<1>2. q \in BurnFlowRec
  BY <1>1 DEF WebTypes, BurnFlowTypes, BurnFlowRec
<1>3. PICK r : r = [q EXCEPT !.pc = pc] OBVIOUS
<1>4. r \in BurnFlowRec /\ r.pc = pc /\ r.agent = q.agent /\ r.keySet = q.keySet
  BY <1>2, <1>3 DEF BurnFlowRec
<1>5. burnFlow' = [burnFlow EXCEPT ![b] = r]
  BY <1>1, <1>3 DEF BurnTo, WebTypes, BurnFlowTypes
<1>6. QED BY <1>1, <1>4, <1>5, BurnFlowPut

LEMMA BurnOverSets ==
  ASSUME WebTypes, NEW b \in WebBurn, BurnOver(b)
  PROVE  \E r \in BurnFlowRec : BurnFlowTo(b, r) /\ r.pc = "over"
<1>1. PICK pc \in BurnPc : pc = "over"
  BY DEF BurnPc
<1>2. PICK r : r = [IdleBurn EXCEPT !.pc = pc] OBVIOUS
<1>3. r = [pc |-> pc, agent |-> Nobody, keySet |-> NoKeySet]
  BY <1>2 DEF IdleBurn
<1>4. r \in BurnFlowRec /\ r.pc = pc
  BY <1>3, WebNames DEF BurnFlowRec
<1>5. burnFlow' = [burnFlow EXCEPT ![b] = r]
  BY <1>1, <1>2 DEF BurnOver
<1>6. QED BY <1>1, <1>4, <1>5, BurnFlowPut

\* A step of the status of one burn on the hub.
BurnsOnHub(b) ==
  /\ WebBurnTypes'
  /\ webBurn'[b].key = webBurn[b].key
  /\ \A c \in WebBurn : c # b => webBurn'[c] = webBurn[c]

LEMMA WebBurnTo ==
  ASSUME WebTypes, NEW b \in WebBurn
  PROVE  /\ \A s \in WebBurnStatus : webBurn' = [webBurn EXCEPT ![b].status = s] =>
              BurnsOnHub(b) /\ webBurn'[b].status = s
         /\ \A s \in WebBurnStatus, t \in BOOLEAN :
              webBurn' = [webBurn EXCEPT ![b].status = s, ![b].keyed = t] =>
                BurnsOnHub(b) /\ webBurn'[b].status = s
         /\ \A s \in WebBurnStatus, t \in BOOLEAN :
              webBurn' = [webBurn EXCEPT ![b].status = s, ![b].abandoned = t] =>
                BurnsOnHub(b) /\ webBurn'[b].status = s
         /\ \A t \in BOOLEAN : webBurn' = [webBurn EXCEPT ![b].late = t] =>
              BurnsOnHub(b) /\ webBurn'[b].status = webBurn[b].status
         /\ \A t \in BOOLEAN : webBurn' = [webBurn EXCEPT ![b].abandoned = t] =>
              BurnsOnHub(b) /\ webBurn'[b].status = webBurn[b].status
<1>1. WebBurnTypes
  BY DEF WebTypes
<1>2. PICK r : r = webBurn[b] OBVIOUS
<1>3. r \in [status : WebBurnStatus, key : KeyPairs, late : BOOLEAN, keyed : BOOLEAN,
             abandoned : BOOLEAN]
  BY <1>1, <1>2 DEF WebBurnTypes
<1>4. ASSUME NEW q \in [status : WebBurnStatus, key : KeyPairs, late : BOOLEAN, keyed : BOOLEAN,
                        abandoned : BOOLEAN],
             q.key = r.key, webBurn' = [webBurn EXCEPT ![b] = q]
      PROVE  BurnsOnHub(b) /\ webBurn'[b] = q
  BY <1>1, <1>2, <1>4 DEF BurnsOnHub, WebBurnTypes
<1>5. ASSUME NEW s \in WebBurnStatus, webBurn' = [webBurn EXCEPT ![b].status = s]
      PROVE  BurnsOnHub(b) /\ webBurn'[b].status = s
  <2>1. PICK q : q = [r EXCEPT !.status = s] OBVIOUS
  <2>2. q \in [status : WebBurnStatus, key : KeyPairs, late : BOOLEAN, keyed : BOOLEAN,
               abandoned : BOOLEAN] /\ q.key = r.key /\ q.status = s
    BY <1>3, <2>1
  <2>3. webBurn' = [webBurn EXCEPT ![b] = q]
    BY <1>2, <1>5, <2>1
  <2>4. QED BY <1>4, <2>2, <2>3
<1>6. ASSUME NEW s \in WebBurnStatus, NEW t \in BOOLEAN,
             webBurn' = [webBurn EXCEPT ![b].status = s, ![b].keyed = t]
      PROVE  BurnsOnHub(b) /\ webBurn'[b].status = s
  <2>1. PICK p : p = [r EXCEPT !.status = s] OBVIOUS
  <2>2. PICK q : q = [p EXCEPT !.keyed = t] OBVIOUS
  <2>3. p \in [status : WebBurnStatus, key : KeyPairs, late : BOOLEAN, keyed : BOOLEAN,
               abandoned : BOOLEAN] /\ p.key = r.key /\ p.status = s
    BY <1>3, <2>1
  <2>4. q \in [status : WebBurnStatus, key : KeyPairs, late : BOOLEAN, keyed : BOOLEAN,
               abandoned : BOOLEAN] /\ q.key = r.key /\ q.status = s
    BY <2>2, <2>3
  <2>5. webBurn' = [webBurn EXCEPT ![b] = q]
    BY <1>1, <1>2, <1>6, <2>1, <2>2 DEF WebBurnTypes
  <2>6. QED BY <1>4, <2>4, <2>5
<1>7. ASSUME NEW s \in WebBurnStatus, NEW t \in BOOLEAN,
             webBurn' = [webBurn EXCEPT ![b].status = s, ![b].abandoned = t]
      PROVE  BurnsOnHub(b) /\ webBurn'[b].status = s
  <2>1. PICK p : p = [r EXCEPT !.status = s] OBVIOUS
  <2>2. PICK q : q = [p EXCEPT !.abandoned = t] OBVIOUS
  <2>3. p \in [status : WebBurnStatus, key : KeyPairs, late : BOOLEAN, keyed : BOOLEAN,
               abandoned : BOOLEAN] /\ p.key = r.key /\ p.status = s
    BY <1>3, <2>1
  <2>4. q \in [status : WebBurnStatus, key : KeyPairs, late : BOOLEAN, keyed : BOOLEAN,
               abandoned : BOOLEAN] /\ q.key = r.key /\ q.status = s
    BY <2>2, <2>3
  <2>5. webBurn' = [webBurn EXCEPT ![b] = q]
    BY <1>1, <1>2, <1>7, <2>1, <2>2 DEF WebBurnTypes
  <2>6. QED BY <1>4, <2>4, <2>5
<1>8. ASSUME NEW t \in BOOLEAN, webBurn' = [webBurn EXCEPT ![b].late = t]
      PROVE  BurnsOnHub(b) /\ webBurn'[b].status = webBurn[b].status
  <2>1. PICK q : q = [r EXCEPT !.late = t] OBVIOUS
  <2>2. q \in [status : WebBurnStatus, key : KeyPairs, late : BOOLEAN, keyed : BOOLEAN,
               abandoned : BOOLEAN] /\ q.key = r.key /\ q.status = r.status
    BY <1>3, <2>1
  <2>3. webBurn' = [webBurn EXCEPT ![b] = q]
    BY <1>2, <1>8, <2>1
  <2>4. QED BY <1>2, <1>4, <2>2, <2>3
<1>9. ASSUME NEW t \in BOOLEAN, webBurn' = [webBurn EXCEPT ![b].abandoned = t]
      PROVE  BurnsOnHub(b) /\ webBurn'[b].status = webBurn[b].status
  <2>1. PICK q : q = [r EXCEPT !.abandoned = t] OBVIOUS
  <2>2. q \in [status : WebBurnStatus, key : KeyPairs, late : BOOLEAN, keyed : BOOLEAN,
               abandoned : BOOLEAN] /\ q.key = r.key /\ q.status = r.status
    BY <1>3, <2>1
  <2>3. webBurn' = [webBurn EXCEPT ![b] = q]
    BY <1>2, <1>9, <2>1
  <2>4. QED BY <1>2, <1>4, <2>2, <2>3
<1>10. QED BY <1>5, <1>6, <1>7, <1>8, <1>9

LEMMA WebBurnKept ==
  ASSUME WebTypes, NEW b \in WebBurn, UNCHANGED webBurn
  PROVE  BurnsOnHub(b) /\ webBurn'[b].status = webBurn[b].status
BY DEF WebTypes, WebBurnTypes, BurnsOnHub

\* The steps of burn b, but for the one that draws its keys.
LEMMA BurnSteps ==
  ASSUME WebInv, NEW b \in WebBurn, NEW r \in BurnFlowRec, BurnFlowTo(b, r),
         burnFlow[b].pc # "signing", BurnsOnHub(b),
         keySets' \in [WebBurn -> KeyPairs], \A c \in WebBurn : c # b => keySets'[c] = keySets[c],
         UNCHANGED <<seeds, lostSeeds, webMintVars>>, AgentsMove, agentInstance' \in WebName,
         BurnOk(b)'
  PROVE  WebInv'
<1>1. SeedsKept
  <2>1. \A s \in Signing : s \in Signing'
    BY SigningIs, WebNames DEF BurnFlowTo, webMintVars
  <2>2. QED BY <2>1 DEF SeedsKept
<1>2. ASSUME NEW m \in WebMint PROVE MintMoves(m)
  BY <1>1, MintStays DEF webMintVars
<1>3. ASSUME NEW c \in WebBurn PROVE BurnOk(c)'
  <2>1. CASE c = b
    BY <2>1
  <2>2. CASE c # b
    BY <2>2, BurnStays DEF BurnFlowTo, BurnsOnHub
  <2>3. QED BY <2>1, <2>2
<1>4. WebTypes'
  BY DEF WebInv, WebTypes, BurnFlowTo, webMintVars, BurnFlowTypes, BurnFlowRec, BurnsOnHub, AgentsMove,
         MintFlowTypes
<1>5. QED BY <1>1, <1>2, <1>3, <1>4, WebMoves DEF AgentsMove


LEMMA StartBurnWeb ==
  ASSUME WebInv, NEW b \in WebBurn, StartBurn(b), UNCHANGED webMintVars
  PROVE  WebInv'
<1>1. WebTypes /\ BurnOk(b)
  BY DEF WebInv, WebKeys
<1>2. /\ UNCHANGED <<seeds, lostSeeds, keySets, webBurn>> /\ burnFlow[b].pc = "idle"
      /\ webBurn[b].status = "none" /\ agentInstance' = Agent(b) /\ LoadSeed(Agent(b), b)
  BY DEF StartBurn, StartsBurn, BurnFlowAt, BurnChain
<1>3. PICK r : r = burnFlow[b] OBVIOUS
<1>4. r \in BurnFlowRec
  BY <1>1, <1>3 DEF WebTypes, BurnFlowTypes, BurnFlowRec
<1>5. PICK pc \in BurnPc : pc = "signing"
  BY DEF BurnPc
<1>6. PICK a \in WebName : a = Agent(b) /\ a \in WebRequest
  BY <1>1, WebNames, AgentNamed
<1>7. PICK p : p = [r EXCEPT !.pc = pc] OBVIOUS
<1>8. PICK q : q = [p EXCEPT !.agent = a] OBVIOUS
<1>9. p \in BurnFlowRec /\ p.pc = pc
  BY <1>4, <1>7 DEF BurnFlowRec
<1>10. q \in BurnFlowRec /\ q.pc = pc /\ q.agent = a
  BY <1>8, <1>9 DEF BurnFlowRec
<1>11. burnFlow' = [burnFlow EXCEPT ![b] = q]
  <2>1. burnFlow' = [burnFlow EXCEPT ![b].pc = pc, ![b].agent = a]
    BY <1>5, <1>6 DEF StartBurn
  <2>2. QED BY <1>1, <1>3, <1>7, <1>8, <2>1 DEF WebTypes, BurnFlowTypes
<1>12. BurnFlowTo(b, q)
  BY <1>1, <1>10, <1>11, BurnFlowPut
<1>13. b \in WebRequest /\ b \in Known'
  <2>1. b \in Signing'
    BY <1>5, <1>10, <1>12, SigningIs DEF BurnFlowTo
  <2>2. QED BY <2>1, WebNames DEF Known
<1>14. AgentsMove
  BY <1>1, <1>2, <1>13, SeedLoads
<1>15. BurnOk(b)'
  BY <1>1, <1>2, <1>5, <1>6, <1>10, <1>12 DEF BurnFlowTo, BurnOk
<1>16. BurnsOnHub(b) /\ keySets' \in [WebBurn -> KeyPairs] /\ agentInstance' \in WebName
       /\ \A c \in WebBurn : c # b => keySets'[c] = keySets[c]
  BY <1>1, <1>2, <1>6, WebBurnKept DEF WebTypes
<1>17. burnFlow[b].pc # "signing"
  BY <1>2
<1>18. QED BY <1>2, <1>10, <1>12, <1>14, <1>15, <1>16, <1>17, BurnSteps

LEMMA SignBurnWeb ==
  ASSUME WebInv, NEW b \in WebBurn, SignBurnSeed(b), UNCHANGED webMintVars
  PROVE  WebInv'
<1>1. WebTypes /\ BurnOk(b)
  BY DEF WebInv, WebKeys
<1>2. /\ UNCHANGED <<agents, agentInstance, keySets, webBurn>> /\ burnFlow[b].pc = "signing"
      /\ StoreSeed(b)
  BY DEF SignBurnSeed, BurnFlowAt, BurnChain
<1>3. PICK r : r = burnFlow[b] OBVIOUS
<1>4. r \in BurnFlowRec /\ r.agent \in WebRequest
  BY <1>1, <1>2, <1>3 DEF WebTypes, BurnFlowTypes, BurnFlowRec, BurnOk
<1>5. PICK pc \in BurnPc : pc = "sending"
  BY DEF BurnPc
<1>6. PICK seed \in WebName : seed = agents[r.agent].key
  BY <1>1, <1>4 DEF WebTypes
<1>7. PICK k \in KeysOf(b) : k = <<seed, b>>
  BY DEF KeysOf
<1>8. PICK p : p = [r EXCEPT !.pc = pc] OBVIOUS
<1>9. PICK q : q = [p EXCEPT !.keySet = k] OBVIOUS
<1>10. p \in BurnFlowRec /\ p.pc = pc
  BY <1>4, <1>8 DEF BurnFlowRec
<1>11. q \in BurnFlowRec /\ q.pc = pc /\ q.keySet = k
  <2>1. k \in KeyPairs
    BY WebNames
  <2>2. QED BY <1>9, <1>10, <2>1 DEF BurnFlowRec
<1>12. burnFlow' = [burnFlow EXCEPT ![b] = q]
  <2>1. burnFlow' = [burnFlow EXCEPT ![b].pc = pc, ![b].keySet = k]
    BY <1>3, <1>5, <1>6, <1>7 DEF SignBurnSeed
  <2>2. QED BY <1>1, <1>3, <1>8, <1>9, <2>1 DEF WebTypes, BurnFlowTypes
<1>13. BurnFlowTo(b, q)
  BY <1>1, <1>11, <1>12, BurnFlowPut
<1>14. b \in WebRequest
  BY WebNames
<1>15. /\ seeds \subseteq seeds' /\ lostSeeds \subseteq lostSeeds'
       /\ seeds' \subseteq WebRequest /\ lostSeeds' \subseteq WebRequest
       /\ b \in seeds' \/ b \in lostSeeds'
  BY <1>1, <1>2, <1>14, SeedStored
<1>16. SeedsKept
  <2>1. \A s \in Signing : s = b \/ s \in Signing'
    BY <1>2, <1>13, SigningIs, WebNames DEF BurnFlowTo, webMintVars
  <2>2. QED BY <1>15, <2>1 DEF SeedsKept
<1>17. ASSUME NEW m \in WebMint PROVE MintMoves(m)
  BY <1>16, MintStays DEF webMintVars
<1>18. ASSUME NEW c \in WebBurn PROVE BurnOk(c)'
  <2>1. CASE c = b
    <3>1. BurnOk(b)'
      BY <1>1, <1>2, <1>5, <1>7, <1>11, <1>13 DEF BurnFlowTo, BurnOk
    <3>2. QED BY <2>1, <3>1
  <2>2. CASE c # b
    BY <1>2, <1>13, <2>2, BurnStays DEF BurnFlowTo
  <2>3. QED BY <2>1, <2>2
<1>19. WebTypes'
  BY <1>1, <1>2, <1>13, <1>15 DEF WebTypes, BurnFlowTo, webMintVars, BurnFlowTypes, BurnFlowRec,
     MintFlowTypes, WebBurnTypes
<1>20. \A f \in WebRequest : AgentMoves(f)
  BY <1>1, <1>2, AgentsKept DEF AgentsMove
<1>21. QED BY <1>16, <1>17, <1>18, <1>19, <1>20, WebMoves

LEMMA RequestMinedWeb ==
  ASSUME WebInv, NEW b \in WebBurn, RequestMined(b), UNCHANGED webMintVars
  PROVE  WebInv'
<1>1. WebTypes /\ BurnOk(b)
  BY DEF WebInv, WebKeys
<1>2. /\ UNCHANGED <<seeds, lostSeeds, agents, agentInstance, keySets>>
      /\ burnFlow[b].pc \in {"sending", "left"}
  BY DEF RequestMined, BurnFlowAt, storageVars
<1>3. PICK r : r = burnFlow[b] OBVIOUS
<1>4. r \in BurnFlowRec /\ r.keySet \in KeysOf(b)
  BY <1>1, <1>2, <1>3 DEF WebTypes, BurnFlowTypes, BurnFlowRec, BurnOk
<1>5. PICK pc \in BurnPc : pc = "receipt"
  BY DEF BurnPc
<1>6. PICK i \in BurnPc : i = "idle"
  BY DEF BurnPc
<1>7. PICK p : p = [r EXCEPT !.pc = pc] OBVIOUS
<1>8. p \in BurnFlowRec /\ p.pc = pc /\ p.keySet = r.keySet
  BY <1>4, <1>7 DEF BurnFlowRec
<1>9. IdleBurn \in BurnFlowRec /\ IdleBurn.pc = i
  BY <1>6, WebNames DEF IdleBurn, BurnFlowRec
<1>10. PICK q \in BurnFlowRec : /\ q = IF r.pc = "left" THEN IdleBurn ELSE p
                                /\ \/ q.pc = "idle"
                                   \/ q.pc = "receipt" /\ q.keySet = r.keySet
  BY <1>5, <1>6, <1>8, <1>9
<1>11. burnFlow' = [burnFlow EXCEPT ![b] = q]
  BY <1>1, <1>3, <1>5, <1>7, <1>10 DEF RequestMined, WebTypes, BurnFlowTypes
<1>12. BurnFlowTo(b, q)
  BY <1>1, <1>11, BurnFlowPut
<1>13. /\ WebBurnTypes' /\ webBurn'[b].status = "REQUESTED" /\ webBurn'[b].key = r.keySet
       /\ \A c \in WebBurn : c # b => webBurn'[c] = webBurn[c]
  <2>1. PICK s \in WebBurnStatus : s = "REQUESTED"
    BY DEF WebBurnStatus
  <2>2. PICK w : w = webBurn[b] OBVIOUS
  <2>3. w \in [status : WebBurnStatus, key : KeyPairs, late : BOOLEAN, keyed : BOOLEAN,
               abandoned : BOOLEAN]
    BY <1>1, <2>2 DEF WebTypes, WebBurnTypes
  <2>4. PICK v : v = [w EXCEPT !.status = s] OBVIOUS
  <2>5. PICK u : u = [v EXCEPT !.key = r.keySet] OBVIOUS
  <2>6. v \in [status : WebBurnStatus, key : KeyPairs, late : BOOLEAN, keyed : BOOLEAN,
               abandoned : BOOLEAN] /\ v.status = s
    BY <2>3, <2>4
  <2>7. r.keySet \in KeyPairs
    BY <1>4 DEF BurnFlowRec
  <2>8. u \in [status : WebBurnStatus, key : KeyPairs, late : BOOLEAN, keyed : BOOLEAN,
               abandoned : BOOLEAN] /\ u.status = s /\ u.key = r.keySet
    BY <2>5, <2>6, <2>7
  <2>9. webBurn' = [webBurn EXCEPT ![b] = u]
    BY <1>1, <1>3, <2>1, <2>2, <2>4, <2>5 DEF RequestMined, WebTypes, WebBurnTypes
  <2>10. QED BY <1>1, <2>1, <2>8, <2>9 DEF WebTypes, WebBurnTypes
<1>14. BurnOk(b)'
  BY <1>1, <1>2, <1>3, <1>4, <1>10, <1>12, <1>13 DEF BurnFlowTo, BurnOk
<1>15. SeedsKept
  <2>1. \A s \in Signing : s \in Signing'
    BY <1>2, <1>12, SigningIs, WebNames DEF BurnFlowTo, webMintVars
  <2>2. QED BY <1>2, <2>1 DEF SeedsKept
<1>16. ASSUME NEW m \in WebMint PROVE MintMoves(m)
  BY <1>15, MintStays DEF webMintVars
<1>17. ASSUME NEW c \in WebBurn PROVE BurnOk(c)'
  <2>1. CASE c = b
    BY <1>14, <2>1
  <2>2. CASE c # b
    BY <1>2, <1>12, <1>13, <2>2, BurnStays DEF BurnFlowTo
  <2>3. QED BY <2>1, <2>2
<1>18. WebTypes'
  BY <1>1, <1>2, <1>12, <1>13 DEF WebTypes, BurnFlowTo, webMintVars, BurnFlowTypes, BurnFlowRec,
     MintFlowTypes
<1>19. \A f \in WebRequest : AgentMoves(f)
  BY <1>1, <1>2, AgentsKept DEF AgentsMove
<1>20. QED BY <1>15, <1>16, <1>17, <1>18, <1>19, WebMoves

LEMMA BurnReceiptWeb ==
  ASSUME WebInv, NEW b \in WebBurn, BurnReceipt(b), UNCHANGED webMintVars
  PROVE  WebInv'
<1>1. WebTypes /\ BurnOk(b)
  BY DEF WebInv, WebKeys
<1>2. /\ UNCHANGED <<seeds, lostSeeds, agents, agentInstance, webBurn>>
      /\ burnFlow[b].pc = "receipt" /\ BurnTo(b, "propose")
      /\ keySets' = [keySets EXCEPT ![b] = burnFlow[b].keySet]
  BY DEF BurnReceipt, BurnFlowAt, BurnFlows, FiledKeySet
<1>3. "propose" \in BurnPc
  BY DEF BurnPc
<1>4. PICK r \in BurnFlowRec : BurnFlowTo(b, r) /\ r.pc = "propose" /\ r.keySet = burnFlow[b].keySet
  BY <1>1, <1>2, <1>3, BurnToSets
<1>5. burnFlow[b].keySet \in KeyPairs
  BY <1>1 DEF WebTypes, BurnFlowTypes
<1>6. /\ keySets' \in [WebBurn -> KeyPairs] /\ keySets'[b] = burnFlow[b].keySet
      /\ \A c \in WebBurn : c # b => keySets'[c] = keySets[c]
  BY <1>1, <1>2, <1>5 DEF WebTypes
<1>7. BurnOk(b)'
  <2>1. /\ burnFlow[b].keySet = webBurn[b].key /\ webBurn[b].status # "none"
        /\ webBurn[b].key \in KeysOf(b)
    BY <1>1, <1>2 DEF BurnOk
  <2>2. webBurn[b].key # NoKeySet
    BY <2>1, WebNames
  <2>3. QED BY <1>2, <1>4, <1>6, <2>1, <2>2 DEF BurnFlowTo, BurnOk
<1>8. AgentsMove /\ agentInstance' \in WebName /\ BurnsOnHub(b) /\ burnFlow[b].pc # "signing"
  BY <1>1, <1>2, AgentsKept, WebBurnKept DEF WebTypes
<1>9. QED BY <1>2, <1>4, <1>6, <1>7, <1>8, BurnSteps


\* The flow of burn b ends, whatever its status on the hub becomes.
LEMMA BurnEnds ==
  ASSUME WebInv, NEW b \in WebBurn, BurnOver(b), burnFlow[b].pc # "signing",
         BurnsOnHub(b), UNCHANGED <<seeds, lostSeeds, agents, agentInstance, keySets, webMintVars>>,
         webBurn'[b].status # webBurn[b].status =>
           webBurn[b].status # "none" /\ webBurn'[b].status \in {"SLASHED", "CANCELLED"}
  PROVE  WebInv'
<1>1. WebTypes /\ BurnOk(b)
  BY DEF WebInv, WebKeys
<1>2. PICK r \in BurnFlowRec : BurnFlowTo(b, r) /\ r.pc = "over"
  BY <1>1, BurnOverSets
<1>3. BurnOk(b)'
  BY <1>1, <1>2 DEF BurnFlowTo, BurnsOnHub, BurnOk
<1>4. /\ AgentsMove /\ agentInstance' \in WebName /\ keySets' \in [WebBurn -> KeyPairs]
      /\ \A c \in WebBurn : c # b => keySets'[c] = keySets[c]
  BY <1>1, AgentsKept DEF WebTypes
<1>5. QED BY <1>2, <1>3, <1>4, BurnSteps

LEMMA BurnEndWeb ==
  ASSUME WebInv, NEW b \in WebBurn, RequestFails(b) \/ FinalizedSeen(b) \/ BurnGivesUp(b),
         UNCHANGED webMintVars
  PROVE  WebInv'
<1>1. WebTypes
  BY DEF WebInv
<1>2. /\ BurnOver(b) /\ burnFlow[b].pc # "signing"
      /\ UNCHANGED <<seeds, lostSeeds, agents, agentInstance, keySets, webBurn>>
  BY DEF RequestFails, FinalizedSeen, BurnGivesUp, BurnFlowAt, LpSecretSeen, EndBurn, BurnFlows,
         BurnChain, storageVars
<1>3. BurnsOnHub(b) /\ webBurn'[b].status = webBurn[b].status
  BY <1>1, <1>2, WebBurnKept
<1>4. QED BY <1>2, <1>3, BurnEnds

LEMMA CancelBurnWeb ==
  ASSUME WebInv, NEW b \in WebBurn, CancelBurn(b), UNCHANGED webMintVars
  PROVE  WebInv'
<1>1. WebTypes /\ BurnOk(b)
  BY DEF WebInv, WebKeys
<1>2. /\ BurnOver(b) /\ burnFlow[b].pc \in {"propose", "confirm", "finalize"}
      /\ UNCHANGED <<seeds, lostSeeds, agents, agentInstance, keySets>>
  BY DEF CancelBurn, BurnCancelButton, EndBurn, BurnFlows
<1>3. webBurn[b].status # "none"
  BY <1>1, <1>2 DEF BurnOk
<1>4. /\ BurnsOnHub(b)
      /\ webBurn'[b].status = webBurn[b].status \/ webBurn'[b].status \in {"SLASHED", "CANCELLED"}
  <2>1. CASE webBurn' = [webBurn EXCEPT ![b].status = IF @ = "COMMITTED" THEN "SLASHED" ELSE "CANCELLED"]
    <3>1. PICK s : s = IF webBurn[b].status = "COMMITTED" THEN "SLASHED" ELSE "CANCELLED"
      OBVIOUS
    <3>2. s \in WebBurnStatus /\ s \in {"SLASHED", "CANCELLED"}
      BY <3>1 DEF WebBurnStatus
    <3>3. webBurn' = [webBurn EXCEPT ![b].status = s]
      BY <1>1, <2>1, <3>1 DEF WebTypes, WebBurnTypes
    <3>4. QED BY <1>1, <3>2, <3>3, WebBurnTo
  <2>2. CASE webBurn' = [webBurn EXCEPT ![b].abandoned = FALSE]
    <3>1. PICK f \in BOOLEAN : f = FALSE OBVIOUS
    <3>2. webBurn' = [webBurn EXCEPT ![b].abandoned = f]
      BY <2>2, <3>1
    <3>3. QED BY <1>1, <3>2, WebBurnTo
  <2>3. CASE UNCHANGED webBurn
    BY <1>1, <2>3, WebBurnKept
  <2>4. QED BY <2>1, <2>2, <2>3 DEF CancelBurn
<1>5. QED BY <1>2, <1>3, <1>4, BurnEnds

LEMMA BurnGoesWeb ==
  ASSUME WebInv, NEW b \in WebBurn, ProposalSeen(b) \/ Confirm(b), UNCHANGED webMintVars
  PROVE  WebInv'
<1>1. WebTypes /\ BurnOk(b)
  BY DEF WebInv, WebKeys
<1>2. /\ UNCHANGED <<seeds, lostSeeds, agents, agentInstance, keySets>>
      /\ burnFlow[b].pc \in {"propose", "confirm"}
      /\ BurnTo(b, "confirm") \/ BurnTo(b, "finalize")
  BY DEF ProposalSeen, Confirm, BurnFlowAt, BurnFlows, BurnChain
<1>3. "confirm" \in BurnPc /\ "finalize" \in BurnPc
  BY DEF BurnPc
<1>4. PICK r \in BurnFlowRec : /\ BurnFlowTo(b, r) /\ r.pc \in {"confirm", "finalize"}
                               /\ r.keySet = burnFlow[b].keySet
  BY <1>1, <1>2, <1>3, BurnToSets
<1>5. /\ BurnsOnHub(b)
      /\ \/ webBurn'[b].status = webBurn[b].status
         \/ webBurn[b].status = "PROPOSED" /\ webBurn'[b].status = "COMMITTED"
  <2>1. CASE ProposalSeen(b)
    BY <1>1, <2>1, WebBurnKept DEF ProposalSeen, BurnChain
  <2>2. CASE Confirm(b)
    <3>1. "COMMITTED" \in WebBurnStatus
      BY DEF WebBurnStatus
    <3>2. QED BY <1>1, <2>2, <3>1, WebBurnTo DEF Confirm
  <2>3. QED BY <2>1, <2>2
<1>6. BurnOk(b)'
  BY <1>1, <1>2, <1>4, <1>5 DEF BurnFlowTo, BurnsOnHub, BurnOk
<1>7. /\ AgentsMove /\ agentInstance' \in WebName /\ keySets' \in [WebBurn -> KeyPairs]
      /\ \A c \in WebBurn : c # b => keySets'[c] = keySets[c]
  BY <1>1, <1>2, AgentsKept DEF WebTypes
<1>8. burnFlow[b].pc # "signing"
  BY <1>2
<1>9. QED BY <1>2, <1>4, <1>5, <1>6, <1>7, <1>8, BurnSteps

\* Where a burn is resumed with key set k.
BurnResumes(b, k) ==
  burnFlow' = [burnFlow EXCEPT ![b] =
    IF ResumesAt(Record(b).state) = "over" THEN [IdleBurn EXCEPT !.pc = "over"]
    ELSE [pc |-> ResumesAt(Record(b).state), agent |-> Agent(b), keySet |-> k]]

LEMMA BurnResumeSets ==
  ASSUME WebTypes, NEW b \in WebBurn, NEW k \in KeyPairs, BurnResumes(b, k)
  PROVE  \E r \in BurnFlowRec :
           /\ BurnFlowTo(b, r)
           /\ \/ r.pc = "over"
              \/ r.pc \in {"confirm", "finalize", "propose"} /\ r.keySet = k
<1>1. PICK pc : pc = ResumesAt(Record(b).state) OBVIOUS
<1>2. pc \in {"over", "confirm", "finalize", "propose"}
  BY <1>1 DEF ResumesAt
<1>3. PICK a \in WebName : a = Agent(b)
  BY AgentNamed, WebNames
<1>4. CASE pc = "over"
  <2>1. BurnOver(b)
    BY <1>1, <1>4 DEF BurnResumes, BurnOver
  <2>2. QED BY <2>1, BurnOverSets
<1>5. CASE pc # "over"
  <2>1. pc \in BurnPc
    BY <1>2 DEF BurnPc
  <2>2. PICK r : r = [pc |-> pc, agent |-> a, keySet |-> k] OBVIOUS
  <2>3. r \in BurnFlowRec /\ r.pc = pc /\ r.keySet = k
    BY <2>1, <2>2 DEF BurnFlowRec
  <2>4. burnFlow' = [burnFlow EXCEPT ![b] = r]
    BY <1>1, <1>3, <1>5, <2>2 DEF BurnResumes
  <2>5. QED BY <1>2, <1>5, <2>3, <2>4, BurnFlowPut
<1>6. QED BY <1>4, <1>5

LEMMA ResumeFlowWeb ==
  ASSUME WebInv, NEW b \in WebBurn, ResumeFlow(b), burnFlow[b].pc \in {"idle", "over"},
         UNCHANGED webMintVars
  PROVE  WebInv'
<1>1. WebTypes /\ BurnOk(b)
  BY DEF WebInv, WebKeys
<1>2. UNCHANGED <<seeds, lostSeeds, webBurn>>
  BY DEF ResumeFlow
<1>3. PICK k \in KeyPairs : /\ k = webBurn[b].key /\ k # NoKeySet
                            /\ BurnResumes(b, k) /\ agentInstance' = Agent(b)
                            /\ keySets' = [keySets EXCEPT ![b] = k] /\ AgentsMove
  <2>1. CASE /\ keySets[b] # NoKeySet /\ keySets[b] = webBurn[b].key
             /\ BurnResumes(b, keySets[b]) /\ agentInstance' = Agent(b) /\ UNCHANGED <<keySets, agents>>
    <3>1. keySets[b] \in KeyPairs /\ keySets' = [keySets EXCEPT ![b] = keySets[b]]
      BY <1>1, <2>1 DEF WebTypes
    <3>2. AgentsMove
      BY <1>1, <2>1, AgentsKept
    <3>3. QED BY <2>1, <3>1, <3>2
  <2>2. CASE \E seed \in WebRequest :
               /\ Decrypts(seed) /\ SeedMatches(b, seed) /\ BurnResumes(b, <<seed, b>>)
               /\ agentInstance' = Agent(b) /\ LoadSeed(Agent(b), seed)
               /\ keySets' = [keySets EXCEPT ![b] = <<seed, b>>]
    <3>1. PICK seed \in WebRequest :
            /\ Decrypts(seed) /\ SeedMatches(b, seed) /\ BurnResumes(b, <<seed, b>>)
            /\ agentInstance' = Agent(b) /\ LoadSeed(Agent(b), seed)
            /\ keySets' = [keySets EXCEPT ![b] = <<seed, b>>]
      BY <2>2
    <3>2. seed \in Known'
      BY <1>2, <3>1 DEF Decrypts, Known
    <3>3. AgentsMove
      BY <1>1, <3>1, <3>2, SeedLoads
    <3>4. PICK k \in KeysOf(b) : k = <<seed, b>>
      BY WebNames DEF KeysOf
    <3>5. k \in KeyPairs /\ k # NoKeySet
      BY WebNames
    <3>6. k = webBurn[b].key
      BY <3>1, <3>4 DEF SeedMatches
    <3>7. QED BY <3>1, <3>3, <3>4, <3>5, <3>6
  <2>3. QED BY <2>1, <2>2 DEF ResumeFlow, BurnResumes
<1>4. PICK r \in BurnFlowRec : /\ BurnFlowTo(b, r)
                               /\ \/ r.pc = "over"
                                  \/ r.pc \in {"confirm", "finalize", "propose"} /\ r.keySet = k
  BY <1>1, <1>3, BurnResumeSets
<1>5. /\ keySets' \in [WebBurn -> KeyPairs] /\ keySets'[b] = k
      /\ \A c \in WebBurn : c # b => keySets'[c] = keySets[c]
  BY <1>1, <1>3 DEF WebTypes
<1>6. BurnsOnHub(b) /\ webBurn'[b].status = webBurn[b].status
  BY <1>1, <1>2, WebBurnKept
<1>7. BurnOk(b)'
  <2>1. webBurn[b].status # "none"
    BY <1>1, <1>3 DEF BurnOk
  <2>2. QED BY <1>1, <1>3, <1>4, <1>5, <1>6, <2>1 DEF BurnFlowTo, BurnsOnHub, BurnOk
<1>8. agentInstance' \in WebName /\ burnFlow[b].pc # "signing"
  BY <1>1, <1>3, AgentNamed, WebNames
<1>9. QED BY <1>2, <1>3, <1>4, <1>5, <1>6, <1>7, <1>8, BurnSteps


LEMMA HubBurnWeb ==
  ASSUME WebInv, NEW b \in WebBurn, LpAnswers(b) \/ BurnTimesOut(b), UNCHANGED webMintVars
  PROVE  WebInv'
<1>1. WebTypes /\ BurnOk(b)
  BY DEF WebInv, WebKeys
<1>2. UNCHANGED <<seeds, lostSeeds, agents, agentInstance, burnFlow, keySets>>
  BY DEF LpAnswers, BurnTimesOut, storageVars
<1>3. /\ BurnsOnHub(b)
      /\ \/ webBurn'[b].status = webBurn[b].status
         \/ webBurn[b].status # "none" /\ webBurn'[b].status \in {"PROPOSED", "CANCELLED"}
         \/ webBurn[b].status = "COMMITTED" /\ webBurn'[b].status = "COMPLETED"
  <2>1. PICK t \in BOOLEAN : t = TRUE OBVIOUS
  <2>2. "PROPOSED" \in WebBurnStatus /\ "COMPLETED" \in WebBurnStatus /\ "CANCELLED" \in WebBurnStatus
    BY DEF WebBurnStatus
  <2>3. CASE webBurn[b].status = "REQUESTED"
             /\ webBurn' = [webBurn EXCEPT ![b].status = "PROPOSED", ![b].keyed = TRUE]
    <3>1. webBurn' = [webBurn EXCEPT ![b].status = "PROPOSED", ![b].keyed = t]
      BY <2>1, <2>3
    <3>2. QED BY <1>1, <2>2, <2>3, <3>1, WebBurnTo
  <2>4. CASE webBurn[b].status = "COMMITTED" /\ webBurn' = [webBurn EXCEPT ![b].status = "COMPLETED"]
    BY <1>1, <2>2, <2>4, WebBurnTo
  <2>5. CASE webBurn[b].status = "PROPOSED"
             /\ webBurn' = [webBurn EXCEPT ![b].status = "CANCELLED", ![b].abandoned = TRUE]
    <3>1. webBurn' = [webBurn EXCEPT ![b].status = "CANCELLED", ![b].abandoned = t]
      BY <2>1, <2>5
    <3>2. QED BY <1>1, <2>2, <2>5, <3>1, WebBurnTo
  <2>6. CASE webBurn' = [webBurn EXCEPT ![b].late = TRUE]
    <3>1. webBurn' = [webBurn EXCEPT ![b].late = t]
      BY <2>1, <2>6
    <3>2. QED BY <1>1, <3>1, WebBurnTo
  <2>7. QED BY <2>3, <2>4, <2>5, <2>6 DEF LpAnswers, BurnTimesOut
<1>4. BurnOk(b)'
  <2>1. webBurn'[b].status # "none" => webBurn[b].status # "none"
    BY <1>3
  <2>2. webBurn'[b].status = "none" => webBurn[b].status = "none"
    BY <1>3
  <2>3. webBurn'[b].status \in {"COMMITTED", "COMPLETED"} => webBurn[b].status \in {"COMMITTED", "COMPLETED"}
    BY <1>3
  <2>4. QED BY <1>1, <1>2, <1>3, <2>1, <2>2, <2>3 DEF BurnsOnHub, BurnOk
<1>5. SeedsKept
  <2>1. \A s \in Signing : s \in Signing'
    BY <1>2, SigningIs DEF webMintVars
  <2>2. QED BY <1>2, <2>1 DEF SeedsKept
<1>6. ASSUME NEW m \in WebMint PROVE MintMoves(m)
  BY <1>5, MintStays DEF webMintVars
<1>7. ASSUME NEW c \in WebBurn PROVE BurnOk(c)'
  <2>1. CASE c = b
    BY <1>4, <2>1
  <2>2. CASE c # b
    BY <1>2, <1>3, <2>2, BurnStays DEF BurnsOnHub
  <2>3. QED BY <2>1, <2>2
<1>8. WebTypes'
  BY <1>1, <1>2, <1>3 DEF WebTypes, webMintVars, BurnFlowTypes, BurnsOnHub, MintFlowTypes
<1>9. \A f \in WebRequest : AgentMoves(f)
  BY <1>1, <1>2, AgentsKept DEF AgentsMove
<1>10. QED BY <1>5, <1>6, <1>7, <1>8, <1>9, WebMoves

LEMMA WebQuiet ==
  ASSUME WebInv, UNCHANGED <<seeds, lostSeeds, agents, agentInstance, webMintVars, webBurnVars>>
  PROVE  WebInv'
<1>1. SeedsKept
  <2>1. \A s \in Signing : s \in Signing'
    BY SigningIs DEF webMintVars, webBurnVars
  <2>2. QED BY <2>1 DEF SeedsKept
<1>2. ASSUME NEW m \in WebMint PROVE MintMoves(m)
  BY <1>1, MintStays DEF webMintVars
<1>3. ASSUME NEW c \in WebBurn PROVE BurnOk(c)'
  BY BurnStays DEF webBurnVars
<1>4. WebTypes'
  BY DEF WebInv, WebTypes, webMintVars, webBurnVars, BurnFlowTypes, WebBurnTypes, MintFlowTypes
<1>5. \A f \in WebRequest : AgentMoves(f)
  BY DEF AgentMoves
<1>6. QED BY <1>1, <1>2, <1>3, <1>4, <1>5, WebMoves

LEMMA ReloadWeb ==
  ASSUME WebInv, Reload
  PROVE  WebInv'
<1>1. WebTypes
  BY DEF WebInv
<1>2. /\ UNCHANGED <<seeds, webMint, keySets, webBurn>> /\ lostSeeds' = lostSeeds \cup Signing
      /\ agents' = [f \in WebRequest |-> NoAgent] /\ agentInstance' = Nobody
  BY DEF Reload
<1>3. PICK A, F : MintFlowTypes(A, F)
  BY <1>1 DEF WebTypes
<1>4. SeedsKept
  BY <1>2 DEF SeedsKept
<1>5. PICK B : B = A \cup {Nobody} OBVIOUS
<1>6. PICK G : G = F \cup {"none"} OBVIOUS
<1>7. PICK lft \in MintPc : lft = "left"
  BY DEF MintPc
<1>8. PICK blft \in BurnPc : blft = "left"
  BY DEF BurnPc
<1>9. ASSUME NEW m \in WebMint
      PROVE  /\ mintFlow'[m] \in [pc : MintPc, agent : WebName, key : WebName, addr : B, from : G,
                                  timer : MintTimer]
             /\ \/ mintFlow'[m].pc = "idle" /\ mintFlow'[m].timer = "off"
                \/ /\ mintFlow'[m].pc = "left" /\ mintFlow[m].pc \in {"sending", "left"}
                   /\ mintFlow'[m].key = mintFlow[m].key
  <2>1. PICK r : r = mintFlow[m] OBVIOUS
  <2>2. r \in [pc : MintPc, agent : WebName, key : WebName, addr : B, from : G, timer : MintTimer]
    BY <1>3, <1>5, <1>6, <2>1 DEF MintFlowTypes
  <2>3. PICK q : q = [r EXCEPT !.pc = lft] OBVIOUS
  <2>4. /\ q \in [pc : MintPc, agent : WebName, key : WebName, addr : B, from : G, timer : MintTimer]
        /\ q.pc = "left" /\ q.key = r.key
    BY <1>7, <2>2, <2>3
  <2>5. /\ IdleMint \in [pc : MintPc, agent : WebName, key : WebName, addr : B, from : G,
                         timer : MintTimer]
        /\ IdleMint.pc = "idle" /\ IdleMint.timer = "off"
    <3>1. "idle" \in MintPc /\ "off" \in MintTimer
      BY DEF MintPc, MintTimer
    <3>2. PICK n \in G : n = "none"
      BY <1>6
    <3>3. QED BY <1>5, <3>1, <3>2, WebNames DEF IdleMint
  <2>6. mintFlow'[m] = IF r.pc \in {"sending", "left"} THEN q ELSE IdleMint
    BY <1>7, <2>1, <2>3 DEF Reload
  <2>7. QED BY <2>1, <2>4, <2>5, <2>6
<1>10. MintFlowTypes(B, G)'
  <2>1. PICK mf : mf = mintFlow' OBVIOUS
  <2>2. mf = [m \in WebMint |-> mf[m]]
    BY <2>1 DEF Reload
  <2>3. mf \in [WebMint -> [pc : MintPc, agent : WebName, key : WebName, addr : B, from : G,
                            timer : MintTimer]]
    BY <1>9, <2>1, <2>2
  <2>4. QED BY <2>1, <2>3 DEF MintFlowTypes
<1>11. ASSUME NEW b \in WebBurn
       PROVE  /\ burnFlow'[b] \in BurnFlowRec
              /\ \/ burnFlow'[b].pc = "idle"
                 \/ /\ burnFlow'[b].pc = "left" /\ burnFlow[b].pc \in {"sending", "left"}
                    /\ burnFlow'[b].keySet = burnFlow[b].keySet
  <2>1. PICK r : r = burnFlow[b] OBVIOUS
  <2>2. r \in BurnFlowRec
    BY <1>1, <2>1 DEF WebTypes, BurnFlowTypes, BurnFlowRec
  <2>3. PICK q : q = [r EXCEPT !.pc = blft] OBVIOUS
  <2>4. q \in BurnFlowRec /\ q.pc = "left" /\ q.keySet = r.keySet
    BY <1>8, <2>2, <2>3 DEF BurnFlowRec
  <2>5. IdleBurn \in BurnFlowRec /\ IdleBurn.pc = "idle"
    <3>1. "idle" \in BurnPc
      BY DEF BurnPc
    <3>2. QED BY <3>1, WebNames DEF IdleBurn, BurnFlowRec
  <2>6. burnFlow'[b] = IF r.pc \in {"sending", "left"} THEN q ELSE IdleBurn
    BY <1>8, <2>1, <2>3 DEF Reload
  <2>7. QED BY <2>1, <2>4, <2>5, <2>6
<1>12. BurnFlowTypes'
  <2>1. PICK bf : bf = burnFlow' OBVIOUS
  <2>2. bf = [b \in WebBurn |-> bf[b]]
    BY <2>1 DEF Reload
  <2>3. bf \in [WebBurn -> BurnFlowRec]
    BY <1>11, <2>1, <2>2
  <2>4. QED BY <2>1, <2>3 DEF BurnFlowTypes, BurnFlowRec
<1>13. agents' \in [WebRequest -> [key : WebName, secret : BOOLEAN]]
       /\ \A f \in WebRequest : agents'[f].key = Nobody
  <2>1. NoAgent \in [key : WebName, secret : BOOLEAN] /\ NoAgent.key = Nobody
    <3>1. PICK u \in BOOLEAN : u = FALSE OBVIOUS
    <3>2. NoAgent = [key |-> Nobody, secret |-> u]
      BY <3>1 DEF NoAgent
    <3>3. QED BY <3>2, WebNames
  <2>2. QED BY <1>2, <2>1
<1>14. ASSUME NEW f \in WebRequest PROVE AgentMoves(f)
  BY <1>13 DEF AgentMoves, Known
<1>15. ASSUME NEW m \in WebMint PROVE MintMoves(m)
  BY <1>2, <1>9 DEF MintMoves
<1>16. ASSUME NEW b \in WebBurn PROVE BurnOk(b)'
  <2>1. BurnOk(b)
    BY DEF WebInv, WebKeys
  <2>2. QED BY <1>2, <1>11, <2>1 DEF BurnOk
<1>17. WebTypes'
  <2>1. Signing \subseteq WebRequest
    BY SigningIs, WebNames
  <2>2. QED BY <1>1, <1>2, <1>10, <1>12, <1>13, <2>1, WebNames DEF WebTypes, WebBurnTypes
<1>18. QED BY <1>4, <1>14, <1>15, <1>16, <1>17, WebMoves


LEMMA WebListSteps ==
  ASSUME WebInv, Connect \/ (\E r \in WebRequest : FeedSees(r) \/ ClearSwap(r)) \/ ResolveSwap
  PROVE  WebInv'
<1>1. UNCHANGED <<seeds, lostSeeds, agents, agentInstance, webMintVars, webBurnVars>>
  BY DEF Connect, FeedSees, ClearSwap, ResolveSwap
<1>2. QED BY <1>1, WebQuiet

LEMMA WebMintSteps ==
  ASSUME WebInv, WebMintNext \/ WebMintChain, UNCHANGED webBurnVars
  PROVE  WebInv'
<1>1. PICK m \in WebMint :
        \/ StartMint(m) \/ SignMintSeed(m) \/ MintReceipt(m) \/ LpKeySeen(m) \/ UserPays(m)
        \/ ReadySeen(m) \/ MintEndSeen(m) \/ Claim(m) \/ ConfirmSent(m) \/ MintGivesUp(m)
        \/ CancelMint(m) \/ Cancel(m) \/ TimerTick(m) \/ RefundButton(m) \/ ResumeMint(m)
        \/ Resumed(m) \/ InitiateMined(m) \/ InitiateFails(m) \/ LpActs(m) \/ Crank(m)
        \/ MintTimesOut(m)
  BY DEF WebMintNext, WebMintChain
<1>2. CASE StartMint(m) \/ SignMintSeed(m) \/ MintReceipt(m) \/ LpKeySeen(m) \/ UserPays(m)
  BY <1>2, StartMintWeb, SignMintWeb, MintReceiptWeb, LpKeySeenWeb, HubMintWeb
<1>3. CASE ReadySeen(m) \/ MintEndSeen(m) \/ Claim(m) \/ ConfirmSent(m) \/ MintGivesUp(m)
  BY <1>3, MintEndSeenWeb, ClaimWeb, MintTimerWeb, MintEndsWeb
<1>4. CASE CancelMint(m) \/ Cancel(m) \/ TimerTick(m) \/ RefundButton(m) \/ ResumeMint(m)
  BY <1>4, CancelMintWeb, MintTimerWeb, ResumeMintWeb
<1>5. CASE Resumed(m) \/ InitiateMined(m) \/ InitiateFails(m) \/ LpActs(m) \/ Crank(m)
           \/ MintTimesOut(m)
  BY <1>5, ResumedWeb, InitiateMinedWeb, MintEndsWeb, HubMintWeb
<1>6. QED BY <1>1, <1>2, <1>3, <1>4, <1>5

LEMMA ResumeBurnWeb ==
  ASSUME WebInv, NEW b \in WebBurn, ResumeBurn(b) \/ AutoResumeBurn(b), UNCHANGED webMintVars
  PROVE  WebInv'
<1>1. burnFlow[b].pc \in {"idle", "over"}
  BY DEF ResumeBurn, AutoResumeBurn, Resumable
<1>2. CASE ResumeFlow(b)
  BY <1>1, <1>2, ResumeFlowWeb
<1>3. CASE UNCHANGED burnFlow /\ BurnFlows /\ BurnChain
  <2>1. UNCHANGED <<seeds, lostSeeds, agents, agentInstance, webMintVars, webBurnVars>>
    BY <1>3 DEF BurnFlows, BurnChain, webBurnVars
  <2>2. QED BY <2>1, WebQuiet
<1>4. QED BY <1>2, <1>3 DEF ResumeBurn, AutoResumeBurn

LEMMA WebBurnSteps ==
  ASSUME WebInv, WebBurnNext \/ WebBurnChain, UNCHANGED webMintVars
  PROVE  WebInv'
<1>1. PICK b \in WebBurn :
        \/ StartBurn(b) \/ SignBurnSeed(b) \/ BurnReceipt(b) \/ ProposalSeen(b) \/ Confirm(b)
        \/ FinalizedSeen(b) \/ CancelBurn(b) \/ BurnGivesUp(b) \/ ResumeBurn(b) \/ AutoResumeBurn(b)
        \/ RequestMined(b) \/ RequestFails(b) \/ LpAnswers(b) \/ BurnTimesOut(b)
  BY DEF WebBurnNext, WebBurnChain
<1>2. CASE StartBurn(b) \/ SignBurnSeed(b) \/ BurnReceipt(b) \/ ProposalSeen(b) \/ Confirm(b)
  BY <1>2, StartBurnWeb, SignBurnWeb, BurnReceiptWeb, BurnGoesWeb
<1>3. CASE FinalizedSeen(b) \/ CancelBurn(b) \/ BurnGivesUp(b) \/ ResumeBurn(b) \/ AutoResumeBurn(b)
  BY <1>3, BurnEndWeb, CancelBurnWeb, ResumeBurnWeb
<1>4. CASE RequestMined(b) \/ RequestFails(b) \/ LpAnswers(b) \/ BurnTimesOut(b)
  BY <1>4, RequestMinedWeb, BurnEndWeb, HubBurnWeb
<1>5. QED BY <1>1, <1>2, <1>3, <1>4

LEMMA WebNextInv ==
  ASSUME WebInv, WebNext
  PROVE  WebInv'
<1>1. \/ Reload \/ Connect \/ (\E r \in WebRequest : FeedSees(r)) \/ WebStep
  BY DEF WebNext
<1>2. CASE WebStep
  <2>1. \/ (WebMintNext \/ WebMintChain) /\ UNCHANGED webBurnVars
        \/ (WebBurnNext \/ WebBurnChain) /\ UNCHANGED webMintVars
        \/ ResolveSwap \/ \E r \in WebRequest : ClearSwap(r)
    BY <1>2 DEF WebStep
  <2>2. QED BY <2>1, WebMintSteps, WebBurnSteps, WebListSteps
<1>3. QED BY <1>1, <1>2, ReloadWeb, WebListSteps

LEMMA WebInitInv ==
  ASSUME WebInit
  PROVE  WebInv
<1>1. "idle" \in MintPc /\ "off" \in MintTimer /\ "idle" \in BurnPc /\ "none" \in MintStatus
      /\ "none" \in WebBurnStatus
  BY DEF MintPc, MintTimer, BurnPc, MintStatus, WebBurnStatus
<1>2. PICK A : A = {Nobody} OBVIOUS
<1>3. PICK n \in {"none"} : n = "none" OBVIOUS
<1>4. PICK u \in BOOLEAN : u = FALSE OBVIOUS
<1>5. MintFlowTypes(A, {n})
  <2>1. IdleMint \in [pc : MintPc, agent : WebName, key : WebName, addr : A, from : {n},
                      timer : MintTimer]
    BY <1>1, <1>2, <1>3, WebNames DEF IdleMint
  <2>2. QED BY <2>1 DEF WebInit, WebMintInit, MintFlowTypes
<1>6. \A m \in WebMint : mintFlow[m].pc = "idle" /\ mintFlow[m].timer = "off"
  BY DEF WebInit, WebMintInit, IdleMint
<1>7. /\ webMint \in [WebMint -> [status : MintStatus, key : WebName, late : BOOLEAN]]
      /\ \A m \in WebMint : webMint[m].key = Nobody
  <2>1. PICK s \in MintStatus : s = "none"
    BY <1>1
  <2>2. PICK w : w = [status |-> s, key |-> Nobody, late |-> u] OBVIOUS
  <2>3. w \in [status : MintStatus, key : WebName, late : BOOLEAN] /\ w.key = Nobody
    BY <2>2, WebNames
  <2>4. webMint = [m \in WebMint |-> w]
    BY <1>4, <2>1, <2>2 DEF WebInit, WebMintInit
  <2>5. QED BY <2>3, <2>4
<1>8. BurnFlowTypes /\ \A b \in WebBurn : burnFlow[b].pc = "idle"
  <2>1. IdleBurn \in [pc : BurnPc, agent : WebName, keySet : KeyPairs] /\ IdleBurn.pc = "idle"
    BY <1>1, WebNames DEF IdleBurn
  <2>2. QED BY <2>1 DEF WebInit, WebBurnInit, BurnFlowTypes
<1>9. /\ WebBurnTypes
      /\ \A b \in WebBurn : webBurn[b].status = "none" /\ webBurn[b].key = NoKeySet
  <2>1. PICK s \in WebBurnStatus : s = "none"
    BY <1>1
  <2>2. PICK w : w = [status |-> s, key |-> NoKeySet, late |-> u, keyed |-> u, abandoned |-> u]
    OBVIOUS
  <2>3. w \in [status : WebBurnStatus, key : KeyPairs, late : BOOLEAN, keyed : BOOLEAN,
               abandoned : BOOLEAN] /\ w.status = s /\ w.key = NoKeySet
    BY <2>2, WebNames
  <2>4. webBurn = [b \in WebBurn |-> w]
    BY <1>4, <2>1, <2>2 DEF WebInit, WebBurnInit
  <2>5. QED BY <2>1, <2>3, <2>4 DEF WebBurnTypes
<1>10. keySets \in [WebBurn -> KeyPairs] /\ \A b \in WebBurn : keySets[b] = NoKeySet
  BY WebNames DEF WebInit, WebBurnInit
<1>11. /\ agents \in [WebRequest -> [key : WebName, secret : BOOLEAN]]
       /\ \A f \in WebRequest : agents[f].key = Nobody
  <2>1. NoAgent = [key |-> Nobody, secret |-> u]
    BY <1>4 DEF NoAgent
  <2>2. NoAgent \in [key : WebName, secret : BOOLEAN] /\ NoAgent.key = Nobody
    BY <2>1, WebNames
  <2>3. QED BY <2>2 DEF WebInit, StorageInit
<1>12. agentInstance \in WebName /\ seeds \subseteq WebRequest /\ lostSeeds \subseteq WebRequest
  BY WebNames DEF WebInit, StorageInit
<1>13. WebTypes
  BY <1>5, <1>7, <1>8, <1>9, <1>10, <1>11, <1>12 DEF WebTypes
<1>14. WebKeys
  BY <1>6, <1>7, <1>8, <1>9, <1>10, <1>11 DEF WebKeys, MintOk, BurnOk, Known, KnownBut
<1>15. QED BY <1>13, <1>14 DEF WebInv

LEMMA WebSpecInv == EndpointsSpec => []WebInv
<1>1. EndpointsInit => WebInv
  BY WebInitInv DEF EndpointsInit
<1>2. WebInv /\ [EndpointsNext]_<<part, solWalletVars, scanVars, solMintVars, solBurnVars,
        webVars, keyVars, pageScanVars, coLPVars, webCoLPVars>> => WebInv'
  <2>1. ASSUME WebInv, UNCHANGED webVars PROVE WebInv'
    BY <2>1, WebQuiet DEF webVars, storageVars
  <2>2. QED
    BY <2>1, WebNextInv DEF EndpointsNext, walletPart, solWalletPart, scanPart, solMintPart,
       solBurnPart, webPart, keyPart, pageScanPart, coLPPart, webCoLPPart
<1>3. QED BY <1>1, <1>2, PTL DEF EndpointsSpec

\* Every mint on the hub carries a key whose seed the page stored, or asked to store
\* (initializeAgent, mintFlow.js).
THEOREM MintKeysAreStored == EndpointsSpec => []MintKeyStored
<1>1. WebInv => MintKeyStored
  BY DEF WebInv, WebKeys, MintOk, KnownBut, MintKeyStored
<1>2. QED BY <1>1, WebSpecInv, PTL

\* The key set of a burn, filed or at work, is that of its key on the hub, whatever the
\* flows it shares the agent with did in between (burnFlow.js).
THEOREM BurnKeysAreOwn == EndpointsSpec => []BurnKeysOwn
<1>1. WebInv => BurnKeysOwn
  BY DEF WebInv, WebKeys, BurnOk, BurnKeysOwn
<1>2. QED BY <1>1, WebSpecInv, PTL


-----------------------------------------------------------------------------
(* The keys of a swap.                                                         *)

LEMMA ModRange ==
  ASSUME NEW n \in Int, NEW m \in Nat \ {0}
  PROVE  n % m \in 0..(m - 1) /\ n \div m \in Int /\ n = m * (n \div m) + (n % m)
OBVIOUS

LEMMA ModSmall ==
  ASSUME NEW m \in Nat \ {0}, NEW n \in 0..(m - 1)
  PROVE  n % m = n
OBVIOUS

\* Multiplication is monotone.
LEMMA TimesLess ==
  ASSUME NEW m \in Nat \ {0}, NEW a \in Int, NEW b \in Int, a < b
  PROVE  m * a + m <= m * b
<1>1. PICK d \in Nat : b = a + 1 + d
  <2>1. b - a - 1 \in Nat OBVIOUS
  <2>2. b = a + 1 + (b - a - 1) OBVIOUS
  <2>3. QED BY <2>1, <2>2
<1>2. m * b = m * a + m + m * d
  BY <1>1
<1>3. m * d \in Nat
  OBVIOUS
<1>4. m * a \in Int OBVIOUS
<1>5. QED BY <1>2, <1>3, <1>4

LEMMA ModUnique ==
  ASSUME NEW m \in Nat \ {0}, NEW q \in Int, NEW r \in 0..(m - 1), NEW n \in Int, n = m * q + r
  PROVE  n % m = r
<1>1. PICK s \in Int : s = n \div m
  BY ModRange
<1>2. PICK t \in 0..(m - 1) : t = n % m
  BY ModRange
<1>3. n = m * s + t
  BY <1>1, <1>2, ModRange
<1>4. PICK x \in Int : x = m * q OBVIOUS
<1>5. PICK y \in Int : y = m * s OBVIOUS
<1>6. x + r = y + t
  BY <1>3, <1>4, <1>5
<1>7. ~(q < s)
  <2>1. SUFFICES ASSUME q < s PROVE FALSE
    OBVIOUS
  <2>2. x + m <= y
    BY <1>4, <1>5, <2>1, TimesLess
  <2>3. QED BY <1>6, <2>2
<1>8. ~(s < q)
  <2>1. SUFFICES ASSUME s < q PROVE FALSE
    OBVIOUS
  <2>2. y + m <= x
    BY <1>4, <1>5, <2>1, TimesLess
  <2>3. QED BY <1>6, <2>2
<1>9. q = s
  BY <1>7, <1>8
<1>10. QED BY <1>2, <1>4, <1>5, <1>6, <1>9

LEMMA ModAdd ==
  ASSUME NEW a \in Int, NEW b \in Int, NEW m \in Nat \ {0}
  PROVE  (a + (b % m)) % m = (a + b) % m
<1>1. PICK q \in Int : q = b \div m
  BY ModRange
<1>2. PICK r \in Int : r = b % m
  BY ModRange
<1>3. b = m * q + r
  BY <1>1, <1>2, ModRange
<1>4. PICK x \in Int : x = a + r OBVIOUS
<1>5. PICK s \in Int : s = x \div m
  BY ModRange
<1>6. PICK t \in 0..(m - 1) : t = x % m
  BY ModRange
<1>7. x = m * s + t
  BY <1>5, <1>6, ModRange
<1>8. a + b = m * (q + s) + t
  BY <1>3, <1>4, <1>7
<1>9. PICK u \in Int : u = q + s OBVIOUS
<1>10. PICK n \in Int : n = a + b OBVIOUS
<1>11. n = m * u + t
  BY <1>8, <1>9, <1>10
<1>12. n % m = t
  BY <1>11, ModUnique
<1>13. QED BY <1>2, <1>4, <1>6, <1>10, <1>12

\* The digits of a number, and back.
LEMMA DigitsRead ==
  ASSUME NEW n \in Nat
  PROVE  /\ BE(AsBE(n)) = n /\ LE(toLeHex(n)) = n /\ LE(reverseHexBytes(AsBE(n))) = n
         /\ n < Base * Base => AsBE(n) \in Bytes /\ toLeHex(n) \in Bytes
<1>1. Base \in Nat \ {0}
  BY KeyAssumption
<1>2. PICK q \in Int : q = n \div Base
  BY <1>1, ModRange
<1>3. PICK r \in 0..(Base - 1) : r = n % Base
  BY <1>1, ModRange
<1>4. n = Base * q + r
  BY <1>1, <1>2, <1>3, ModRange
<1>5. q \in Nat
  <2>1. SUFFICES ASSUME q < 0 PROVE FALSE
    OBVIOUS
  <2>2. Base * q + Base <= Base * 0
    BY <1>1, <2>1, TimesLess
  <2>3. QED BY <1>1, <1>4, <2>2
<1>6. ASSUME n < Base * Base PROVE q \in 0..(Base - 1)
  <2>1. SUFFICES ASSUME Base - 1 < q PROVE FALSE
    BY <1>1, <1>5
  <2>2. Base * (Base - 1) + Base <= Base * q
    BY <1>1, <2>1, TimesLess
  <2>3. Base * (Base - 1) + Base = Base * Base
    BY <1>1
  <2>4. QED BY <1>1, <1>4, <1>6, <2>2, <2>3
<1>7. AsBE(n) = <<q, r>> /\ toLeHex(n) = <<r, q>>
  BY <1>2, <1>3 DEF AsBE, toLeHex, reverseHexBytes
<1>8. BE(AsBE(n)) = n /\ LE(toLeHex(n)) = n /\ LE(reverseHexBytes(AsBE(n))) = n
  BY <1>4, <1>7 DEF BE, LE, reverseHexBytes
<1>9. ASSUME n < Base * Base PROVE AsBE(n) \in Bytes /\ toLeHex(n) \in Bytes
  BY <1>6, <1>7, <1>9 DEF Bytes
<1>10. QED BY <1>8, <1>9

LEMMA BytesRead ==
  ASSUME NEW b \in Bytes
  PROVE  BE(b) \in Nat /\ LE(b) \in Nat /\ b # <<>>
<1>1. PICK x \in 0..(Base - 1), y \in 0..(Base - 1) : b = <<x, y>>
  BY DEF Bytes
<1>2. BE(b) = Base * x + y /\ LE(b) = Base * y + x
  BY <1>1 DEF BE, LE, reverseHexBytes
<1>3. Base \in Nat /\ x \in Nat /\ y \in Nat
  BY KeyAssumption
<1>4. BE(b) \in Nat /\ LE(b) \in Nat
  BY <1>2, <1>3
<1>5. b # <<>>
  <2>1. Len(b) = 2
    BY <1>1
  <2>2. Len(<<>>) = 0
    OBVIOUS
  <2>3. QED BY <2>1, <2>2
<1>6. QED BY <1>4, <1>5

LEMMA OrderIs == Order \in Nat \ {0} /\ Order <= Base * Base /\ Base * Base \in Nat
BY KeyAssumption


\* The address of the swap's payment.
SwapAddress ==
  <<(posted.userPub + posted.lpPub) % Order, IF swap = "burn" THEN posted.userView ELSE posted.lpView>>

KeyTypes ==
  /\ swap \in {"mint", "burn", "solMint"}
  /\ posted \in [userPub : Int, userView : Int, userCommit : Int, lpPub : Int, lpView : Int,
                 lpCommit : Int]

UserKeyed ==
  mine # NoKeys =>
    /\ mine.spend \in 1..(Order - 1) /\ posted.userPub = mine.spend /\ posted.userCommit = mine.spend
    /\ swap = "burn" => mine.view \in 1..(Order - 1) /\ posted.userView = mine.view

LpKeyed ==
  theirs # NoBytes =>
    /\ mine # NoKeys /\ theirs \in Bytes
    /\ swap = "mint" => /\ posted.lpPub = LE(theirs) % Order /\ posted.lpView = LE(theirs) % Order
                        /\ posted.lpCommit = BE(theirs) % Order
    /\ swap = "burn" => posted.lpPub = BE(theirs) % Order /\ posted.lpCommit = BE(theirs) % Order
    /\ swap = "solMint" => /\ LE(theirs) \in 1..(Order - 1) /\ posted.lpPub = LE(theirs)
                           /\ posted.lpView = LE(theirs) /\ posted.lpCommit = LE(theirs)

SwapPaid ==
  output # NoOutput => theirs # NoBytes /\ \E r \in Blinding : output = payment(r, SwapAddress)

SwapSeen == sight \in {"no", "found"} /\ (sight = "found" => output # NoOutput)

KeyInv == KeyTypes /\ UserKeyed /\ LpKeyed /\ SwapPaid /\ SwapSeen /\ KeysOpenDeposit

LEMMA UserKeysPost ==
  ASSUME KeyInv, mine = NoKeys, UNCHANGED <<swap, theirs, output, sight, opened>>,
         mine' # NoKeys => /\ mine'.spend \in 1..(Order - 1) /\ posted'.userPub = mine'.spend
                           /\ posted'.userCommit = mine'.spend
                           /\ swap = "burn" => mine'.view \in 1..(Order - 1)
                                               /\ posted'.userView = mine'.view,
         posted' \in [userPub : Int, userView : Int, userCommit : Int, lpPub : Int, lpView : Int,
                      lpCommit : Int]
  PROVE  KeyInv'
<1>1. theirs = NoBytes
  BY DEF KeyInv, LpKeyed
<1>2. output = NoOutput
  BY <1>1 DEF KeyInv, SwapPaid
<1>3. KeyTypes' /\ UserKeyed'
  BY DEF KeyInv, KeyTypes, UserKeyed
<1>4. LpKeyed' /\ SwapPaid'
  <2>1. theirs' = NoBytes /\ output' = NoOutput
    BY <1>1, <1>2
  <2>2. NoOutput' = NoOutput /\ NoBytes' = NoBytes
    BY DEF NoOutput, NoBytes
  <2>3. QED BY <2>1, <2>2 DEF LpKeyed, SwapPaid
<1>5. SwapSeen' /\ KeysOpenDeposit'
  <2>1. SwapSeen'
    BY <1>2 DEF KeyInv, SwapSeen, NoOutput
  <2>2. KeysOpenDeposit'
    BY DEF KeyInv, KeysOpenDeposit
  <2>3. QED BY <2>1, <2>2
<1>6. QED BY <1>3, <1>4, <1>5 DEF KeyInv

LEMMA ViewKeyRange ==
  ASSUME NEW s \in 0..(Order - 1)
  PROVE  viewKeyOf(s) \in 0..(Order - 1)
<1>1. s \in Nat /\ s < Base * Base
  BY OrderIs
<1>2. toLeHex(s) \in Bytes
  BY <1>1, DigitsRead
<1>3. Hash(toLeHex(s)) \in Bytes
  BY <1>2, KeyAssumption
<1>4. PICK h \in Bytes : h = Hash(toLeHex(s))
  BY <1>3
<1>5. PICK n \in Int : n = LE(h)
  BY BytesRead
<1>6. n % Order \in 0..(Order - 1)
  BY OrderIs, ModRange
<1>7. QED BY <1>4, <1>5, <1>6 DEF viewKeyOf

LEMMA KeyedMintKeys ==
  ASSUME KeyInv, keyedMint
  PROVE  KeyInv'
<1>1. PICK hd \in HdKey :
        /\ generateKeysFromSeed(hd).spend # 0
        /\ mine' = generateKeysFromSeed(hd)
        /\ posted' = [posted EXCEPT !.userPub = generateKeysFromSeed(hd).spend,
                        !.userCommit = generateCommitment(generateKeysFromSeed(hd).spend)]
  BY DEF keyedMint
<1>2. hd \in Int
  BY KeyAssumption
<1>3. PICK s \in 0..(Order - 1) : s = hd % Order
  BY <1>2, OrderIs, ModRange
<1>4. PICK k : k = generateKeysFromSeed(hd) OBVIOUS
<1>5. k.spend = s
  BY <1>3, <1>4 DEF generateKeysFromSeed
<1>6. generateCommitment(s) = s
  BY OrderIs, ModSmall DEF generateCommitment
<1>7. posted' = [posted EXCEPT !.userPub = s, !.userCommit = s]
  BY <1>1, <1>4, <1>5, <1>6
<1>8. s \in Int /\ s \in 1..(Order - 1)
  BY <1>1, <1>4, <1>5, OrderIs
<1>9. posted' \in [userPub : Int, userView : Int, userCommit : Int, lpPub : Int, lpView : Int,
                   lpCommit : Int]
      /\ posted'.userPub = s /\ posted'.userCommit = s
  BY <1>7, <1>8 DEF KeyInv, KeyTypes
<1>10. mine' = k /\ swap # "burn" /\ mine = NoKeys /\ UNCHANGED <<swap, theirs, output, sight, opened>>
  BY <1>1, <1>4 DEF keyedMint
<1>11. QED BY <1>5, <1>8, <1>9, <1>10, UserKeysPost

LEMMA KeyedBurnKeys ==
  ASSUME KeyInv, keyedBurn
  PROVE  KeyInv'
<1>1. PICK hash \in Bytes :
        /\ derivePerBurnKeySet(hash).spend # 0 /\ derivePerBurnKeySet(hash).view # 0
        /\ mine' = derivePerBurnKeySet(hash)
        /\ posted' = [posted EXCEPT !.userPub = derivePerBurnKeySet(hash).spend,
                        !.userView = derivePerBurnKeySet(hash).view,
                        !.userCommit = generateCommitment(derivePerBurnKeySet(hash).spend)]
  BY DEF keyedBurn
<1>2. BE(hash) \in Int
  BY BytesRead
<1>3. PICK s \in 0..(Order - 1) : s = BE(hash) % Order
  BY <1>2, OrderIs, ModRange
<1>4. PICK v \in 0..(Order - 1) : v = viewKeyOf(s)
  BY ViewKeyRange
<1>5. PICK k : k = derivePerBurnKeySet(hash) OBVIOUS
<1>6. k.spend = s /\ k.view = v
  BY <1>3, <1>4, <1>5 DEF derivePerBurnKeySet
<1>7. generateCommitment(s) = s
  BY OrderIs, ModSmall DEF generateCommitment
<1>8. posted' = [posted EXCEPT !.userPub = s, !.userView = v, !.userCommit = s]
  BY <1>1, <1>5, <1>6, <1>7
<1>9. s \in Int /\ s \in 1..(Order - 1) /\ v \in Int /\ v \in 1..(Order - 1)
  BY <1>1, <1>5, <1>6, OrderIs
<1>10. posted' \in [userPub : Int, userView : Int, userCommit : Int, lpPub : Int, lpView : Int,
                    lpCommit : Int]
       /\ posted'.userPub = s /\ posted'.userCommit = s /\ posted'.userView = v
  BY <1>8, <1>9 DEF KeyInv, KeyTypes
<1>11. mine' = k /\ mine = NoKeys /\ UNCHANGED <<swap, theirs, output, sight, opened>>
  BY <1>1, <1>5 DEF keyedBurn
<1>12. QED BY <1>6, <1>9, <1>10, <1>11, UserKeysPost

LEMMA KeyedSolKeys ==
  ASSUME KeyInv, keyedSolMint
  PROVE  KeyInv'
<1>1. PICK b \in makeSecret :
        /\ mine' = [spend |-> LE(b), view |-> -1]
        /\ posted' = [posted EXCEPT !.userPub = computePublicKey(b), !.userCommit = computePublicKey(b)]
  BY DEF keyedSolMint
<1>2. PICK s \in 1..(Order - 1) : s = LE(b)
  BY DEF makeSecret
<1>3. s \in 0..(Order - 1)
  BY OrderIs
<1>4. computePublicKey(b) = s
  BY <1>2, <1>3, OrderIs, ModSmall DEF computePublicKey
<1>5. posted' = [posted EXCEPT !.userPub = s, !.userCommit = s]
  BY <1>1, <1>4
<1>6. s \in Int
  OBVIOUS
<1>7. posted' \in [userPub : Int, userView : Int, userCommit : Int, lpPub : Int, lpView : Int,
                   lpCommit : Int]
      /\ posted'.userPub = s /\ posted'.userCommit = s
  BY <1>5, <1>6 DEF KeyInv, KeyTypes
<1>8. mine'.spend = s /\ swap # "burn" /\ mine = NoKeys /\ UNCHANGED <<swap, theirs, output, sight, opened>>
  BY <1>1, <1>2 DEF keyedSolMint
<1>9. QED BY <1>7, <1>8, UserKeysPost


LEMMA LpKeysPost ==
  ASSUME KeyInv, mine # NoKeys, theirs = NoBytes, UNCHANGED <<swap, mine, output, sight, opened>>,
         posted'.userPub = posted.userPub, posted'.userView = posted.userView,
         posted'.userCommit = posted.userCommit,
         posted' \in [userPub : Int, userView : Int, userCommit : Int, lpPub : Int, lpView : Int,
                      lpCommit : Int],
         LpKeyed'
  PROVE  KeyInv'
<1>1. output = NoOutput
  BY DEF KeyInv, SwapPaid
<1>2. KeyTypes'
  BY DEF KeyInv, KeyTypes
<1>3. UserKeyed'
  BY DEF KeyInv, UserKeyed, NoKeys
<1>4. SwapPaid'
  BY <1>1 DEF SwapPaid, NoOutput
<1>5. SwapSeen'
  BY <1>1 DEF KeyInv, SwapSeen, NoOutput
<1>6. KeysOpenDeposit'
  BY DEF KeyInv, KeysOpenDeposit
<1>7. QED BY <1>2, <1>3, <1>4, <1>5, <1>6 DEF KeyInv

LEMMA LpKeySteps ==
  ASSUME KeyInv, lpKeyForMint \/ lpKeyForBurn \/ lpKeyForSolMint
  PROVE  KeyInv'
<1>1. mine # NoKeys /\ theirs = NoBytes /\ UNCHANGED <<swap, mine, output, sight, opened>>
  BY DEF lpKeyForMint, lpKeyForBurn, lpKeyForSolMint
<1>2. ASSUME NEW b \in Bytes
      PROVE  LE(b) % Order \in Int /\ BE(b) % Order \in Int
  <2>1. PICK l \in Int : l = LE(b)
    BY BytesRead
  <2>2. PICK e \in Int : e = BE(b)
    BY BytesRead
  <2>3. l % Order \in Int /\ e % Order \in Int
    BY OrderIs, ModRange
  <2>4. QED BY <2>1, <2>2, <2>3
<1>3. CASE lpKeyForMint
  <2>1. PICK b \in Bytes : /\ theirs' = b
                           /\ posted' = [posted EXCEPT !.lpPub = generateEd25519Keys(b).lpPub,
                                !.lpView = generateEd25519Keys(b).lpView,
                                !.lpCommit = generateEd25519Keys(b).lpCommit]
    BY <1>3 DEF lpKeyForMint
  <2>2. PICK s \in Int : s = LE(b) % Order
    BY <1>2
  <2>3. PICK c \in Int : c = BE(b) % Order
    BY <1>2
  <2>4. posted' = [posted EXCEPT !.lpPub = s, !.lpView = s, !.lpCommit = c]
    BY <2>1, <2>2, <2>3 DEF generateEd25519Keys, computeSecretHash
  <2>5. /\ posted' \in [userPub : Int, userView : Int, userCommit : Int, lpPub : Int, lpView : Int,
                        lpCommit : Int]
        /\ posted'.userPub = posted.userPub /\ posted'.userView = posted.userView
        /\ posted'.userCommit = posted.userCommit
        /\ posted'.lpPub = s /\ posted'.lpView = s /\ posted'.lpCommit = c
    BY <2>4 DEF KeyInv, KeyTypes
  <2>6. LpKeyed'
    <3>1. swap' = "mint" /\ mine' # NoKeys
      BY <1>1, <1>3 DEF lpKeyForMint
    <3>2. theirs' = b /\ theirs' \in Bytes /\ LE(theirs') % Order = s /\ BE(theirs') % Order = c
      BY <2>1, <2>2, <2>3
    <3>3. QED BY <2>5, <3>1, <3>2 DEF LpKeyed, NoKeys, LE, BE, reverseHexBytes, Bytes
  <2>7. QED BY <1>1, <2>5, <2>6, LpKeysPost
<1>4. CASE lpKeyForBurn
  <2>1. PICK b \in Bytes : /\ theirs' = b
                           /\ posted' = [posted EXCEPT !.lpPub = proposedKeys(b).lpPub,
                                !.lpCommit = proposedKeys(b).lpCommit]
    BY <1>4 DEF lpKeyForBurn
  <2>2. PICK c \in Int : c = BE(b) % Order
    BY <1>2
  <2>3. posted' = [posted EXCEPT !.lpPub = c, !.lpCommit = c]
    BY <2>1, <2>2 DEF proposedKeys, computeSecretHash, scalarToPubKeyBE
  <2>4. /\ posted' \in [userPub : Int, userView : Int, userCommit : Int, lpPub : Int, lpView : Int,
                        lpCommit : Int]
        /\ posted'.userPub = posted.userPub /\ posted'.userView = posted.userView
        /\ posted'.userCommit = posted.userCommit
        /\ posted'.lpPub = c /\ posted'.lpCommit = c
    BY <2>3 DEF KeyInv, KeyTypes
  <2>5. LpKeyed'
    <3>1. swap' = "burn" /\ mine' # NoKeys
      BY <1>1, <1>4 DEF lpKeyForBurn
    <3>2. theirs' = b /\ theirs' \in Bytes /\ BE(theirs') % Order = c
      BY <2>1, <2>2
    <3>3. QED BY <2>4, <3>1, <3>2 DEF LpKeyed, NoKeys, BE, Bytes
  <2>6. QED BY <1>1, <2>4, <2>5, LpKeysPost
<1>5. CASE lpKeyForSolMint
  <2>1. PICK b \in makeSecret : /\ theirs' = b
                                /\ posted' = [posted EXCEPT !.lpPub = computePublicKey(b),
                                     !.lpView = computePublicKey(b), !.lpCommit = computePublicKey(b)]
    BY <1>5 DEF lpKeyForSolMint
  <2>2. PICK s \in 1..(Order - 1) : s = LE(b)
    BY DEF makeSecret
  <2>3. s \in 0..(Order - 1) /\ b \in Bytes
    BY OrderIs DEF makeSecret
  <2>4. computePublicKey(b) = s
    BY <2>2, <2>3, OrderIs, ModSmall DEF computePublicKey
  <2>5. posted' = [posted EXCEPT !.lpPub = s, !.lpView = s, !.lpCommit = s]
    BY <2>1, <2>4
  <2>6. s \in Int
    OBVIOUS
  <2>7. /\ posted' \in [userPub : Int, userView : Int, userCommit : Int, lpPub : Int, lpView : Int,
                        lpCommit : Int]
        /\ posted'.userPub = posted.userPub /\ posted'.userView = posted.userView
        /\ posted'.userCommit = posted.userCommit
        /\ posted'.lpPub = s /\ posted'.lpView = s /\ posted'.lpCommit = s
    BY <2>5, <2>6 DEF KeyInv, KeyTypes
  <2>8. LpKeyed'
    <3>1. swap' = "solMint" /\ mine' # NoKeys
      BY <1>1, <1>5 DEF lpKeyForSolMint
    <3>2. theirs' = b /\ theirs' \in Bytes /\ LE(theirs') = s
      BY <2>1, <2>2, <2>3
    <3>3. QED BY <2>7, <3>1, <3>2 DEF LpKeyed, NoKeys, LE, BE, reverseHexBytes, Bytes
  <2>9. QED BY <1>1, <2>7, <2>8, LpKeysPost
<1>6. QED BY <1>3, <1>4, <1>5

LEMMA PaySteps ==
  ASSUME KeyInv, depositPaid \/ sharedPaid
  PROVE  KeyInv'
<1>1. theirs # NoBytes /\ output = NoOutput /\ UNCHANGED <<swap, mine, theirs, posted, sight, opened>>
  BY DEF depositPaid, sharedPaid
<1>2. PICK r \in Blinding : output' = payment(r, SwapAddress)
  BY DEF depositPaid, sharedPaid, SwapAddress, pageDepositAddress, pageAdd, computeBurnAddress,
         deriveMoneroAddress, addEd25519Points
<1>3. SwapAddress' = SwapAddress
  BY <1>1 DEF SwapAddress
<1>4. SwapPaid'
  BY <1>1, <1>2, <1>3 DEF SwapPaid, NoBytes, payment, oneTime, LE, BE, reverseHexBytes, toLeHex, AsBE
<1>5. SwapSeen'
  BY <1>1 DEF KeyInv, SwapSeen
<1>6. KeyTypes' /\ UserKeyed' /\ LpKeyed' /\ KeysOpenDeposit'
  BY <1>1 DEF KeyInv, KeyTypes, UserKeyed, LpKeyed, KeysOpenDeposit, NoKeys, NoBytes, LE, BE,
              reverseHexBytes, Bytes
<1>7. QED BY <1>4, <1>5, <1>6 DEF KeyInv

\* The scans of a payment to an address find it, whichever way they look.
LEMMA ScansFind ==
  ASSUME NEW r \in Blinding, NEW s, NEW v \in 0..(Order - 1), NEW hex, LE(hex) \in Nat,
         LE(hex) % Order = v, NEW out, out = payment(r, <<s, v>>)
  PROVE  /\ _pollDepositRpcOnce(<<s, v>>, hex, out) /\ scanDepositViaDaemon(<<s, v>>, hex, out)
         /\ scanBlocksForPayment(<<s, v>>, hex, out)
         /\ LE(hex) = v => viewWalletSees(<<s, v>>, hex) /\ out.to = <<s, v>>
<1>1. out.R = r /\ out.P = (oneTime(8 * r * v) + s) % Order /\ out.to = <<s, v>>
  BY DEF payment
<1>2. scanDepositViaDaemon(<<s, v>>, hex, out)
  BY <1>1 DEF scanDepositViaDaemon, _matchTxOutputs
<1>3. r \in Int /\ v \in Int
  BY KeyAssumption
<1>4. 8 * v * r = 8 * r * v
  BY <1>3
<1>5. scanBlocksForPayment(<<s, v>>, hex, out)
  BY <1>1, <1>4 DEF scanBlocksForPayment, matchTxOutputs
<1>6. v \in Nat /\ v < Order
  BY OrderIs
<1>7. LE(_canonicalScalarLeHex(hex)) = v
  BY <1>6, DigitsRead DEF _canonicalScalarLeHex
<1>8. _pollDepositRpcOnce(<<s, v>>, hex, out)
  BY <1>1, <1>6, <1>7 DEF _pollDepositRpcOnce, viewWalletSees
<1>9. LE(hex) = v => viewWalletSees(<<s, v>>, hex) /\ out.to = <<s, v>>
  BY <1>1, <1>6 DEF viewWalletSees
<1>10. QED BY <1>2, <1>5, <1>8, <1>9

LEMMA SeenSteps ==
  ASSUME KeyInv, UNCHANGED <<swap, mine, theirs, posted, output, opened>>, sight' = "found",
         output # NoOutput
  PROVE  KeyInv'
<1>1. KeyTypes' /\ UserKeyed' /\ LpKeyed'
  BY DEF KeyInv, KeyTypes, UserKeyed, LpKeyed, NoKeys, NoBytes, LE, BE, reverseHexBytes, Bytes
<1>2. SwapPaid'
  BY DEF KeyInv, SwapPaid, SwapAddress, NoBytes, NoOutput, payment, oneTime, LE, BE, reverseHexBytes, toLeHex, AsBE
<1>3. SwapSeen' /\ KeysOpenDeposit'
  BY DEF KeyInv, SwapSeen, KeysOpenDeposit, NoOutput
<1>4. QED BY <1>1, <1>2, <1>3 DEF KeyInv

LEMMA DepositWatchedKeys ==
  ASSUME KeyInv, depositWatched
  PROVE  KeyInv'
<1>1. /\ swap = "mint" /\ output # NoOutput /\ theirs # NoBytes /\ theirs \in Bytes
      /\ posted.lpPub = LE(theirs) % Order /\ posted.lpView = LE(theirs) % Order
  BY DEF depositWatched, KeyInv, SwapPaid, LpKeyed
<1>2. PICK r \in Blinding : output = payment(r, SwapAddress)
  BY <1>1 DEF KeyInv, SwapPaid
<1>3. PICK s : s = (posted.userPub + posted.lpPub) % Order OBVIOUS
<1>4. PICK l \in Int : l = LE(theirs) /\ l \in Nat
  BY <1>1, BytesRead
<1>5. PICK v \in 0..(Order - 1) : v = l % Order
  BY OrderIs, ModRange
<1>6. output = payment(r, <<s, v>>)
  BY <1>1, <1>2, <1>3, <1>4, <1>5 DEF SwapAddress
<1>7. scanViewKey = theirs
  BY <1>1 DEF scanViewKey, scalarHexToPubKeyHex
<1>8. computeDepositAddress(posted.userPub, posted.lpPub, posted.lpView) = <<s, v>>
  BY <1>1, <1>3, <1>4, <1>5 DEF computeDepositAddress, deriveMoneroAddress, addEd25519Points
<1>9. PICK out : out = output OBVIOUS
<1>10. PICK hex : hex = theirs OBVIOUS
<1>11. _pollDepositRpcOnce(<<s, v>>, hex, out) /\ scanDepositViaDaemon(<<s, v>>, hex, out)
  BY <1>4, <1>5, <1>6, <1>9, <1>10, ScansFind
<1>12. sight' = "found"
  BY <1>1, <1>7, <1>8, <1>9, <1>10, <1>11 DEF depositWatched
<1>13. QED BY <1>1, <1>12, SeenSteps DEF depositWatched

LEMMA SolWatchedKeys ==
  ASSUME KeyInv, solDepositWatched
  PROVE  KeyInv'
<1>1. /\ swap = "solMint" /\ output # NoOutput /\ theirs # NoBytes /\ theirs \in Bytes
      /\ LE(theirs) \in 1..(Order - 1) /\ posted.lpPub = LE(theirs) /\ posted.lpView = LE(theirs)
  BY DEF solDepositWatched, KeyInv, SwapPaid, LpKeyed
<1>2. PICK r \in Blinding : output = payment(r, SwapAddress)
  BY <1>1 DEF KeyInv, SwapPaid
<1>3. PICK s : s = (posted.userPub + posted.lpPub) % Order OBVIOUS
<1>4. PICK v \in 0..(Order - 1) : v = LE(theirs)
  BY <1>1, OrderIs
<1>5. v % Order = v /\ v \in Nat
  BY OrderIs, ModSmall
<1>6. output = payment(r, <<s, v>>)
  BY <1>1, <1>2, <1>3, <1>4 DEF SwapAddress
<1>7. computePublicKey(theirs) = v
  BY <1>4, <1>5 DEF computePublicKey
<1>8. solDepositAddress(posted.userPub, computePublicKey(theirs), computePublicKey(theirs)) = <<s, v>>
  BY <1>1, <1>3, <1>4, <1>7 DEF solDepositAddress
<1>9. PICK out : out = output OBVIOUS
<1>10. PICK hex : hex = theirs OBVIOUS
<1>11. /\ viewWalletSees(<<s, v>>, hex) /\ out.to = <<s, v>>
       /\ scanDepositViaDaemon(<<s, v>>, hex, out)
  BY <1>4, <1>5, <1>6, <1>9, <1>10, ScansFind
<1>12. sight' = "found"
  BY <1>8, <1>9, <1>10, <1>11 DEF solDepositWatched
<1>13. QED BY <1>1, <1>12, SeenSteps DEF solDepositWatched

LEMMA BurnWatchedKeys ==
  ASSUME KeyInv, burnWatched
  PROVE  KeyInv'
<1>1. /\ swap = "burn" /\ output # NoOutput /\ mine # NoKeys
      /\ mine.view \in 1..(Order - 1) /\ posted.userView = mine.view
  BY DEF burnWatched, KeyInv, SwapPaid, LpKeyed, UserKeyed
<1>2. PICK r \in Blinding : output = payment(r, SwapAddress)
  BY <1>1 DEF KeyInv, SwapPaid
<1>3. PICK s : s = (posted.userPub + posted.lpPub) % Order OBVIOUS
<1>4. PICK v \in 0..(Order - 1) : v = mine.view
  BY <1>1, OrderIs
<1>5. v % Order = v /\ v \in Nat
  BY OrderIs, ModSmall
<1>6. output = payment(r, <<s, v>>)
  BY <1>1, <1>2, <1>3, <1>4 DEF SwapAddress
<1>7. pageBurnAddress(posted.userPub, posted.userView, posted.lpPub) = <<s, v>>
  BY <1>1, <1>3, <1>4 DEF pageBurnAddress, pageAdd
<1>8. PICK hex : hex = reverseHexBytes(AsBE(v)) OBVIOUS
<1>9. LE(hex) = v
  BY <1>5, <1>8, DigitsRead
<1>10. PICK out : out = output OBVIOUS
<1>11. scanBlocksForPayment(<<s, v>>, hex, out)
  BY <1>5, <1>6, <1>9, <1>10, ScansFind
<1>12. sight' = "found"
  BY <1>4, <1>7, <1>8, <1>10, <1>11 DEF burnWatched
<1>13. QED BY <1>1, <1>12, SeenSteps DEF burnWatched

\* A wallet with the keys of the address that was paid.
LEMMA WalletOpens ==
  ASSUME NEW s \in 0..(Order - 1), NEW v \in 0..(Order - 1), NEW spendHex, NEW viewHex,
         LE(spendHex) = s, LE(viewHex) \in Nat, LE(viewHex) % Order = v, output.to = <<s, v>>
  PROVE  /\ walletFromKeys(<<s, v>>, spendHex, viewHex) \in {"open", "blind"}
         /\ LE(viewHex) < Order => walletFromKeys(<<s, v>>, spendHex, viewHex) = "open"
<1>1. s % Order = s /\ s < Order /\ s \in Nat
  BY OrderIs, ModSmall
<1>2. PICK n \in Nat : n = LE(viewHex) OBVIOUS
<1>3. ~(s >= Order)
  BY <1>1, OrderIs
<1>4. n < Order => ~(n >= Order)
  BY OrderIs
<1>5. QED BY <1>1, <1>2, <1>3, <1>4 DEF walletFromKeys

LEMMA OpenSteps ==
  ASSUME KeyInv, UNCHANGED <<swap, mine, theirs, posted, output, sight>>, KeysOpenDeposit'
  PROVE  KeyInv'
<1>1. KeyTypes' /\ UserKeyed' /\ LpKeyed'
  BY DEF KeyInv, KeyTypes, UserKeyed, LpKeyed, NoKeys, NoBytes, LE, BE, reverseHexBytes, Bytes
<1>2. SwapPaid'
  BY DEF KeyInv, SwapPaid, SwapAddress, NoBytes, NoOutput, payment, oneTime, LE, BE, reverseHexBytes, toLeHex, AsBE
<1>3. SwapSeen'
  BY DEF KeyInv, SwapSeen, NoOutput
<1>4. QED BY <1>1, <1>2, <1>3 DEF KeyInv

\* The keys of a mint that was paid, as numbers.
MintKeysAre(u, l, s, v) ==
  /\ u \in 1..(Order - 1) /\ u = mine.spend /\ u = posted.userPub /\ u = posted.userCommit
  /\ l \in Nat /\ l = LE(theirs) /\ v \in 0..(Order - 1) /\ v = l % Order
  /\ v = posted.lpPub /\ v = posted.lpView
  /\ s \in 0..(Order - 1) /\ s = (u + v) % Order /\ output.to = <<s, v>>

LEMMA MintKeysFound ==
  ASSUME KeyInv, swap \in {"mint", "solMint"}, output # NoOutput
  PROVE  \E u, l, s, v : MintKeysAre(u, l, s, v)
<1>1. theirs # NoBytes /\ mine # NoKeys /\ theirs \in Bytes
  BY DEF KeyInv, SwapPaid, LpKeyed
<1>2. PICK u \in 1..(Order - 1) : u = mine.spend /\ u = posted.userPub /\ u = posted.userCommit
  BY <1>1 DEF KeyInv, UserKeyed
<1>3. PICK l \in Int : l \in Nat /\ l = LE(theirs)
  BY <1>1, BytesRead
<1>4. PICK v \in 0..(Order - 1) : v = l % Order
  BY OrderIs, ModRange
<1>5. v = posted.lpPub /\ v = posted.lpView
  <2>1. CASE swap = "mint"
    BY <1>1, <1>3, <1>4, <2>1 DEF KeyInv, LpKeyed
  <2>2. CASE swap = "solMint"
    <3>1. l \in 1..(Order - 1) /\ posted.lpPub = l /\ posted.lpView = l
      BY <1>1, <1>3, <2>2 DEF KeyInv, LpKeyed
    <3>2. l \in 0..(Order - 1)
      BY <3>1, OrderIs
    <3>3. l % Order = l
      BY <3>2, OrderIs, ModSmall
    <3>4. QED BY <1>4, <3>1, <3>3
  <2>3. QED BY <2>1, <2>2
<1>6. PICK n \in Int : n = u + v
  OBVIOUS
<1>7. PICK s \in 0..(Order - 1) : s = n % Order
  BY OrderIs, ModRange
<1>8. output.to = SwapAddress
  BY DEF KeyInv, SwapPaid, payment
<1>9. SwapAddress = <<s, v>>
  BY <1>2, <1>5, <1>6, <1>7 DEF SwapAddress
<1>10. QED BY <1>2, <1>3, <1>4, <1>5, <1>6, <1>7, <1>8, <1>9 DEF MintKeysAre

LEMMA UserDigits ==
  ASSUME NEW u \in 1..(Order - 1)
  PROVE  /\ BE(AsBE(u)) = u /\ u % Order = u /\ LE(reverseHexBytes(AsBE(u))) = u
         /\ BE(leToBeHex(reverseHexBytes(AsBE(u)))) = u
<1>1. u \in 0..(Order - 1) /\ u \in Nat
  BY OrderIs
<1>2. BE(AsBE(u)) = u /\ u % Order = u /\ LE(reverseHexBytes(AsBE(u))) = u
  BY <1>1, OrderIs, ModSmall, DigitsRead
<1>3. leToBeHex(reverseHexBytes(AsBE(u))) = AsBE(u)
  BY DEF leToBeHex, reverseHexBytes, AsBE
<1>4. QED BY <1>2, <1>3

LEMMA LpSweepKeys ==
  ASSUME KeyInv, sweepMintWithViewKeyFallback
  PROVE  KeyInv'
<1>1. swap = "mint" /\ output # NoOutput /\ UNCHANGED <<swap, mine, theirs, posted, output, sight>>
  BY DEF sweepMintWithViewKeyFallback, KeyInv, SwapSeen
<1>2. PICK u, l, s, v : MintKeysAre(u, l, s, v)
  BY <1>1, MintKeysFound
<1>3. PICK userHex : userHex = AsBE(u) OBVIOUS
<1>4. BE(userHex) = u /\ u % Order = u
  BY <1>2, <1>3, UserDigits DEF MintKeysAre
<1>5. _sweepMintDeposit(userHex, theirs, theirs) = "open"
  <2>1. s \in Nat /\ v \in Nat /\ s \in 0..(Order - 1) /\ v \in 0..(Order - 1) /\ output.to = <<s, v>>
    BY <1>2, OrderIs DEF MintKeysAre
  <2>2. LE(toLeHex(s)) = s
    BY <2>1, DigitsRead
  <2>3. PICK hex : hex = _canonicalScalarLeHex(theirs) OBVIOUS
  <2>4. hex = toLeHex(v)
    BY <1>2, <2>3 DEF MintKeysAre, _canonicalScalarLeHex
  <2>5. LE(hex) = v
    BY <2>1, <2>4, DigitsRead
  <2>6. v % Order = v /\ v < Order
    BY <2>1, OrderIs, ModSmall
  <2>7. PICK shex : shex = toLeHex(s) OBVIOUS
  <2>8. walletFromKeys(<<s, v>>, shex, hex) = "open"
    BY <2>1, <2>2, <2>5, <2>6, <2>7, WalletOpens
  <2>9. ((BE(userHex) % Order) + (LE(theirs) % Order)) % Order = s
    BY <1>2, <1>4 DEF MintKeysAre
  <2>10. LE(theirs) % Order = v
    BY <1>2 DEF MintKeysAre
  <2>11. QED BY <2>3, <2>7, <2>8, <2>9, <2>10 DEF _sweepMintDeposit, deriveMoneroAddress
<1>6. revealed(userHex, posted.userCommit)
  BY <1>1, <1>2, <1>4 DEF MintKeysAre, revealed
<1>7. opened' = [by |-> "lpSweep", how |-> "open"]
  <2>1. PICK readOk \in BOOLEAN :
          LET hx == AsBE(mine.spend)
              tried == {_sweepMintDeposit(hx, theirs, w) : w \in viewKeyCandidates(readOk)}
          IN outcome("lpSweep", hx, posted.userCommit,
                     IF "open" \in tried THEN "open" ELSE CHOOSE how \in tried : TRUE)
    BY DEF sweepMintWithViewKeyFallback
  <2>2. theirs \in viewKeyCandidates(readOk)
    BY DEF viewKeyCandidates
  <2>3. userHex = AsBE(mine.spend)
    BY <1>2, <1>3 DEF MintKeysAre
  <2>4. "open" \in {_sweepMintDeposit(userHex, theirs, w) : w \in viewKeyCandidates(readOk)}
    BY <1>5, <2>2
  <2>5. outcome("lpSweep", userHex, posted.userCommit, "open")
    BY <2>1, <2>3, <2>4
  <2>6. QED BY <1>6, <2>5 DEF outcome
<1>8. KeysOpenDeposit'
  BY <1>7 DEF KeysOpenDeposit
<1>9. QED BY <1>1, <1>8, OpenSteps


LEMMA UserRecoveryKeys ==
  ASSUME KeyInv, userRecoversMint
  PROVE  KeyInv'
<1>1. swap = "mint" /\ output # NoOutput /\ UNCHANGED <<swap, mine, theirs, posted, output, sight>>
  BY DEF userRecoversMint
<1>2. PICK u, l, s, v : MintKeysAre(u, l, s, v)
  BY <1>1, MintKeysFound
<1>3. PICK userHex : userHex = AsBE(u) OBVIOUS
<1>4. BE(userHex) = u
  BY <1>2, <1>3, UserDigits DEF MintKeysAre
<1>5. theirs # NoBytes /\ posted.lpCommit = BE(theirs) % Order
  BY <1>1 DEF KeyInv, SwapPaid, LpKeyed
<1>6. (u + l) % Order = s
  <2>1. u \in Int /\ l \in Int
    BY <1>2 DEF MintKeysAre
  <2>2. (u + (l % Order)) % Order = (u + l) % Order
    BY <2>1, OrderIs, ModAdd
  <2>3. QED BY <1>2, <2>2 DEF MintKeysAre
<1>7. deriveMintDepositAddress(userHex, theirs) = <<s, v>>
  BY <1>2, <1>4, <1>6 DEF MintKeysAre, deriveMintDepositAddress, deriveMoneroAddress
<1>8. PICK shex : shex = toLeHex(s) OBVIOUS
<1>9. combineSpendKeys(userHex, theirs, TRUE) = shex
  BY <1>2, <1>4, <1>6, <1>8 DEF MintKeysAre, combineSpendKeys
<1>10. /\ s \in 0..(Order - 1) /\ v \in 0..(Order - 1) /\ output.to = <<s, v>>
       /\ s \in Nat /\ LE(theirs) \in Nat /\ LE(theirs) % Order = v
  BY <1>2, OrderIs DEF MintKeysAre
<1>11. LE(shex) = s
  BY <1>8, <1>10, DigitsRead
<1>12. PICK vhex : vhex = theirs OBVIOUS
<1>13. walletFromKeys(<<s, v>>, shex, vhex) \in {"open", "blind"}
  BY <1>10, <1>11, <1>12, WalletOpens
<1>14. PICK keys : keys = getMintKeysForImport(userHex, theirs) OBVIOUS
<1>15. keys.spendKey = shex /\ keys.viewKey = theirs
  BY <1>9, <1>14 DEF getMintKeysForImport
<1>16. userHex = AsBE(mine.spend)
  BY <1>2, <1>3 DEF MintKeysAre
<1>17. outcome("userRecovery", theirs, posted.lpCommit,
               walletFromKeys(deriveMintDepositAddress(userHex, theirs), keys.spendKey, keys.viewKey))
  BY <1>14, <1>16 DEF userRecoversMint
<1>18. revealed(theirs, posted.lpCommit)
  BY <1>1, <1>5 DEF revealed
<1>19. PICK how \in {"open", "blind"} : opened' = [by |-> "userRecovery", how |-> how]
  BY <1>7, <1>12, <1>13, <1>15, <1>17, <1>18 DEF outcome
<1>20. KeysOpenDeposit'
  BY <1>19 DEF KeysOpenDeposit
<1>21. QED BY <1>1, <1>20, OpenSteps

LEMMA UserClaimKeys ==
  ASSUME KeyInv, buildBurnClaimKeys
  PROVE  KeyInv'
<1>1. swap = "burn" /\ output # NoOutput /\ UNCHANGED <<swap, mine, theirs, posted, output, sight>>
  BY DEF buildBurnClaimKeys, KeyInv, SwapSeen
<1>2. theirs # NoBytes /\ mine # NoKeys /\ theirs \in Bytes
      /\ posted.lpPub = BE(theirs) % Order /\ posted.lpCommit = BE(theirs) % Order
  BY <1>1 DEF KeyInv, SwapPaid, LpKeyed
<1>3. PICK u \in 1..(Order - 1) : u = mine.spend /\ u = posted.userPub
  BY <1>2 DEF KeyInv, UserKeyed
<1>4. PICK v \in 0..(Order - 1) : v = mine.view /\ v = posted.userView
  BY <1>1, <1>2, OrderIs DEF KeyInv, UserKeyed
<1>5. PICK e \in Int : e = BE(theirs)
  BY <1>2, BytesRead
<1>6. PICK n \in Int : n = u + e
  OBVIOUS
<1>7. PICK s \in 0..(Order - 1) : s = n % Order
  BY OrderIs, ModRange
<1>8. (posted.userPub + posted.lpPub) % Order = s
  <2>1. u \in Int
    OBVIOUS
  <2>2. (u + (e % Order)) % Order = (u + e) % Order
    BY <2>1, OrderIs, ModAdd
  <2>3. QED BY <1>2, <1>3, <1>5, <1>6, <1>7, <2>2
<1>9. output.to = <<s, v>>
  BY <1>1, <1>4, <1>8 DEF KeyInv, SwapPaid, payment, SwapAddress
<1>10. pageBurnAddress(posted.userPub, posted.userView, posted.lpPub) = <<s, v>>
  BY <1>4, <1>8 DEF pageBurnAddress, pageAdd
<1>11. PICK userHex : userHex = AsBE(u) OBVIOUS
<1>12. BE(userHex) = u
  BY <1>11, UserDigits
<1>13. PICK shex : shex = toLeHex(s) OBVIOUS
<1>14. PICK vhex : vhex = toLeHex(v) OBVIOUS
<1>15. /\ s \in Nat /\ v \in Nat /\ v % Order = v /\ v < Order
  BY OrderIs, ModSmall
<1>16. LE(shex) = s /\ LE(vhex) = v
  BY <1>13, <1>14, <1>15, DigitsRead
<1>17. walletFromKeys(<<s, v>>, shex, vhex) = "open"
  BY <1>9, <1>15, <1>16, WalletOpens
<1>18. combineSpendKeys(userHex, theirs, FALSE) = shex
  BY <1>5, <1>6, <1>7, <1>12, <1>13 DEF combineSpendKeys
<1>19. PICK keys : keys = getCombinedKeysForImport(userHex, theirs, v) OBVIOUS
<1>20. keys.spendKey = shex /\ keys.viewKey = vhex
  BY <1>14, <1>18, <1>19 DEF getCombinedKeysForImport
<1>21. outcome("userClaim", theirs, posted.lpCommit,
               walletFromKeys(pageBurnAddress(posted.userPub, posted.userView, posted.lpPub),
                              keys.spendKey, keys.viewKey))
  BY <1>3, <1>4, <1>11, <1>19 DEF buildBurnClaimKeys
<1>22. revealed(theirs, posted.lpCommit)
  BY <1>1, <1>2 DEF revealed
<1>23. opened' = [by |-> "userClaim", how |-> "open"]
  BY <1>10, <1>17, <1>20, <1>21, <1>22 DEF outcome
<1>24. KeysOpenDeposit'
  BY <1>23 DEF KeysOpenDeposit
<1>25. QED BY <1>1, <1>24, OpenSteps

LEMMA SolSweepKeys ==
  ASSUME KeyInv, sweepSolMint
  PROVE  KeyInv'
<1>1. swap = "solMint" /\ output # NoOutput /\ UNCHANGED <<swap, mine, theirs, posted, output, sight>>
  BY DEF sweepSolMint, KeyInv, SwapSeen
<1>2. PICK u, l, s, v : MintKeysAre(u, l, s, v)
  BY <1>1, MintKeysFound
<1>3. LE(theirs) \in 1..(Order - 1)
  BY <1>1 DEF KeyInv, SwapPaid, LpKeyed
<1>4. PICK secret : secret = reverseHexBytes(AsBE(u)) OBVIOUS
<1>5. BE(leToBeHex(secret)) = u /\ u % Order = u /\ LE(secret) = u
  BY <1>2, <1>4, UserDigits DEF MintKeysAre
<1>6. /\ s \in 0..(Order - 1) /\ v \in 0..(Order - 1) /\ output.to = <<s, v>>
      /\ s \in Nat /\ LE(theirs) \in Nat /\ LE(theirs) % Order = v /\ LE(theirs) < Order
  BY <1>2, <1>3, OrderIs DEF MintKeysAre
<1>7. PICK shex : shex = toLeHex(s) OBVIOUS
<1>8. LE(shex) = s
  BY <1>6, <1>7, DigitsRead
<1>9. PICK vhex : vhex = theirs OBVIOUS
<1>10. walletFromKeys(<<s, v>>, shex, vhex) = "open"
  BY <1>6, <1>8, <1>9, WalletOpens
<1>11. ((BE(leToBeHex(secret)) % Order) + (LE(theirs) % Order)) % Order = s
  BY <1>2, <1>5 DEF MintKeysAre
<1>12. secret = reverseHexBytes(AsBE(mine.spend))
  BY <1>2, <1>4 DEF MintKeysAre
<1>13. outcome("solSweep", secret, posted.userCommit,
               walletFromKeys(deriveMoneroAddress(s, LE(theirs) % Order), toLeHex(s), theirs))
  BY <1>11, <1>12 DEF sweepSolMint
<1>14. revealed(secret, posted.userCommit)
  BY <1>1, <1>2, <1>5 DEF MintKeysAre, revealed
<1>15. opened' = [by |-> "solSweep", how |-> "open"]
  BY <1>6, <1>7, <1>9, <1>10, <1>13, <1>14 DEF outcome, deriveMoneroAddress
<1>16. KeysOpenDeposit'
  BY <1>15 DEF KeysOpenDeposit
<1>17. QED BY <1>1, <1>16, OpenSteps

LEMMA KeyNextInv ==
  ASSUME KeyInv, KeyNext
  PROVE  KeyInv'
<1>1. CASE _sweepBurnShared
  <2>1. opened'.by = "lpShared" /\ UNCHANGED <<swap, mine, theirs, posted, output, sight>>
    BY <1>1 DEF _sweepBurnShared, outcome
  <2>2. KeysOpenDeposit'
    BY <2>1 DEF KeysOpenDeposit
  <2>3. QED BY <2>1, <2>2, OpenSteps
<1>2. QED BY <1>1, KeyedMintKeys, KeyedBurnKeys, KeyedSolKeys, LpKeySteps, PaySteps, DepositWatchedKeys,
             SolWatchedKeys, BurnWatchedKeys, LpSweepKeys, UserRecoveryKeys, UserClaimKeys, SolSweepKeys
          DEF KeyNext

LEMMA KeyInitInv ==
  ASSUME KeyInit
  PROVE  KeyInv
<1>1. PICK n \in Int : n = -1
  OBVIOUS
<1>2. NoPost = [userPub |-> n, userView |-> n, userCommit |-> n, lpPub |-> n, lpView |-> n,
                lpCommit |-> n]
  BY <1>1 DEF NoPost
<1>3. KeyTypes
  BY <1>2 DEF KeyInit, KeyTypes
<1>4. QED BY <1>3 DEF KeyInit, KeyInv, UserKeyed, LpKeyed, SwapPaid, SwapSeen, KeysOpenDeposit

LEMMA KeySpecInv == EndpointsSpec => []KeyInv
<1>1. EndpointsInit => KeyInv
  BY KeyInitInv DEF EndpointsInit
<1>2. KeyInv /\ [EndpointsNext]_<<part, solWalletVars, scanVars, solMintVars, solBurnVars,
        webVars, keyVars, pageScanVars, coLPVars, webCoLPVars>> => KeyInv'
  <2>1. ASSUME KeyInv, UNCHANGED keyVars PROVE KeyInv'
    <3>1. KeysOpenDeposit'
      BY <2>1 DEF keyVars, KeyInv, KeysOpenDeposit
    <3>2. QED BY <2>1, <3>1, OpenSteps DEF keyVars
  <2>2. QED
    BY <2>1, KeyNextInv DEF EndpointsNext, walletPart, solWalletPart, scanPart, solMintPart,
       solBurnPart, webPart, keyPart, pageScanPart, coLPPart, webCoLPPart
<1>3. QED BY <1>1, <1>2, PTL DEF EndpointsSpec

\* For every base, group order and hash, whoever must see the payment of a swap finds it:
\* the LP's poll and scan of a mint, the page's of a burn, the Solana node's.
THEOREM PaymentsAreSeen == EndpointsSpec => []PaymentSeen
<1>1. KeyInv => PaymentSeen
  BY DEF KeyInv, SwapSeen, PaymentSeen
<1>2. QED BY <1>1, KeySpecInv, PTL

\* For every base, group order and hash, the keys put together of what a chain revealed
\* are those of the address that was paid.
THEOREM RevealedKeysOpen == EndpointsSpec => []KeysOpenDeposit
<1>1. KeyInv => KeysOpenDeposit
  BY DEF KeyInv
<1>2. QED BY <1>1, KeySpecInv, PTL
=============================================================================
