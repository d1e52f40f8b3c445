------------------------------ MODULE WebClient -----------------------------
(***************************************************************************)
(* A page of the web client: mints and burns over one storage, one agent   *)
(* and one list of swaps (frontend/js/main.js).                            *)
(***************************************************************************)
EXTENDS WebMints, WebBurns, FiniteSets
LOCAL INSTANCE SequencesExt

VARIABLES feed,       \* the requests whose end the watcher of the activity feed has yet to report
          pageOpen    \* whether the page is there, with its wallet connected

webVars == <<storageVars, webMintVars, webBurnVars, feed, pageOpen>>

Signing == {m \in WebMint : MintAt(m, "signing")} \cup {b \in WebBurn : BurnFlowAt(b, "signing")}

\* The page is closed.  Transactions that were sent may be mined.
Reload ==
  /\ PageFault /\ feed' = {} /\ pageOpen' = FALSE
  /\ lostSeeds' = lostSeeds \cup Signing
  /\ agents' = [f \in WebRequest |-> NoAgent] /\ agentInstance' = Nobody
  /\ mintFlow' = [m \in WebMint |->
                    IF mintFlow[m].pc \in {"sending", "left"} THEN [mintFlow[m] EXCEPT !.pc = "left"]
                    ELSE IdleMint]
  /\ burnFlow' = [b \in WebBurn |->
                    IF burnFlow[b].pc \in {"sending", "left"} THEN [burnFlow[b] EXCEPT !.pc = "left"]
                    ELSE IdleBurn]
  /\ UNCHANGED <<records, seeds, history, webMint, paidTo, keySets, webBurn>>

\* The swaps checkForActiveSwapOnChain finds going on: mints that have not timed
\* out, burns that have not ended or whose keys have not been handed out.
ActiveMints == {m \in WebMint :
  ~webMint[m].late /\ webMint[m].status \in {"PENDING", "KEY_PROVIDED", "READY", "SECRET_REVEALED"}}
ActiveBurns == {b \in WebBurn :
  \/ webBurn[b].status \in {"REQUESTED", "PROPOSED", "COMMITTED"}
  \/ webBurn[b].status = "COMPLETED" /\ b \notin history}

FromHub(r) ==
  IF r \in WebMint
  THEN [id |-> r, kind |-> "mint",
        state |-> CASE webMint[r].status = "READY" -> "lp-ready"
                    [] webMint[r].status = "KEY_PROVIDED" -> "lp-verifying"
                    [] webMint[r].status = "PENDING" -> "awaiting-lp-key"
                    [] OTHER -> "deposit",
        key |-> IF Filed(r) # {} /\ Record(r).key # Nobody THEN Record(r).key ELSE webMint[r].key]
  ELSE [id |-> r, kind |-> "burn",
        state |-> CASE webBurn[r].status = "COMPLETED" -> "sweeping"
                    [] webBurn[r].status = "COMMITTED" -> "lp-finalize"
                    [] webBurn[r].status = "PROPOSED" -> "lp-propose"
                    [] OTHER -> "evm-request"]

\* checkForActiveSwapOnChain, when the wallet of a page that is opened again connects,
\* and again every minute or for another account: the list gets the hub's view of what
\* goes on, an entry keeps the key it has, and the rest is pruned.  The list's buttons
\* come after it.
Connect ==
  LET found == SetToSeq(ActiveMints) \o SetToSeq(ActiveBurns)
      listed == FoldSeq(LAMBDA r, swaps : AddOrUpdate(swaps, FromHub(r)), records, Reverse(found)) IN
  /\ (~pageOpen /\ UNCHANGED pageFaults) \/ (pageOpen /\ PageFault)
  /\ pageOpen' = TRUE
  /\ records' = SelectSeq(listed, LAMBDA s : s.id \in ActiveMints \cup ActiveBurns)
  /\ UNCHANGED <<seeds, agents, agentInstance, history, lostSeeds, webMintVars, webBurnVars>>

-----------------------------------------------------------------------------
(* What drops entries of the list. *)

\* handleNewActivityLogs: the end of a request, seen while the page is open, files
\* its entry.  No event of a cancelled burn is among those it knows.
FeedSees(r) ==
  /\ r \in feed
  /\ records' = RemoveActiveSwap(r)
  /\ history' = IF Filed(r) # {} THEN history \cup ({r} \cap WebBurn) ELSE history
  /\ UNCHANGED <<seeds, agents, agentInstance, lostSeeds, pageFaults, webMintVars, webBurnVars>>

\* handleResolveSwap cancels these on the hub before it drops their entries.  No entry
\* with the button is one of them: they have a key, or are burns, and can be resumed.
ResolvedOnHub(s) ==
  \/ s.kind = "mint" /\ s.state \in {"evm-init", "awaiting-lp-key", "deposit", "lp-verifying", "lp-ready"}
  \/ s.kind = "burn" /\ s.state \in {"evm-request", "lp-propose"}

HasResolveButton(s) == s.key = Nobody /\ (s.kind # "burn" \/ s.state = "init")

\* The button of the others: of an entry without a request it drops every entry.
ResolveSwap ==
  /\ \E i \in DOMAIN records :
       /\ HasResolveButton(records[i]) /\ ~ResolvedOnHub(records[i])
       /\ records' = IF records[i].id = Nobody THEN ClearActiveSwap ELSE RemoveActiveSwap(records[i].id)
  /\ UNCHANGED <<seeds, agents, agentInstance, history, lostSeeds, pageFaults,
                 webMintVars, webBurnVars>>

\* The button a resume that found no seed leaves behind.
ClearSwap(r) ==
  /\ Filed(r) # {}
  /\ IF r \in WebMint
     THEN Record(r).key # Nobody /\ ~Decrypts(Record(r).key) /\ Record(r).state # "lp-ready"
     ELSE /\ Resumable(r) /\ keySets[r] = NoKeySet
          /\ \A seed \in WebRequest : Decrypts(seed) => ~SeedMatches(r, seed)
  /\ records' = RemoveActiveSwap(r)
  /\ UNCHANGED <<seeds, agents, agentInstance, history, lostSeeds, pageFaults,
                 webMintVars, webBurnVars>>

\* MintCancelled, MintFinalized, BurnFinalized or BurnSlashed of a request.
Reported(r) ==
  IF r \in WebMint THEN webMint[r].status \in {"CANCELLED", "COMPLETED"}
  ELSE webBurn[r].status \in {"COMPLETED", "SLASHED"}

WebInit == feed = {} /\ pageOpen = TRUE /\ StorageInit /\ WebMintInit /\ WebBurnInit

TimedOut == {m \in WebMint : webMint[m].late} \cup {b \in WebBurn : webBurn[b].late}

\* What the page, the hub and the LP do but for the feed.
WebStep ==
  \/ pageOpen /\ WebMintNext /\ UNCHANGED webBurnVars
  \/ pageOpen /\ WebBurnNext /\ UNCHANGED webMintVars
  \/ WebMintChain /\ UNCHANGED webBurnVars
  \/ WebBurnChain /\ UNCHANGED webMintVars
  \/ pageOpen /\ (ResolveSwap \/ \E r \in WebRequest : ClearSwap(r))

WebNext ==
  /\ \/ Reload
     \/ Connect /\ UNCHANGED feed
     \/ \E r \in WebRequest : FeedSees(r) /\ feed' = feed \ {r} /\ UNCHANGED pageOpen
     \/ /\ WebStep /\ UNCHANGED pageOpen
        /\ feed' = feed \cup {r \in WebRequest : pageOpen /\ Reported(r)' /\ ~Reported(r)}
  /\ pageFaults' + Cardinality(TimedOut') <= MaxMishaps

WebSpec == WebInit /\ [][WebNext]_webVars

-----------------------------------------------------------------------------
\* A mint is sent with a key whose seed the page has stored, or asked to store
\* before the user refused or the page was closed; a key of another swap may
\* still wait for its signature (initializeAgent, mintFlow.js).
MintKeyStored ==
  \A m \in WebMint :
    webMint[m].key \in seeds \cup lostSeeds \cup (Signing \ {m}) \cup {Nobody}
=============================================================================
