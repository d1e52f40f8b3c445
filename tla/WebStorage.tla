----------------------------- MODULE WebStorage -----------------------------
(***************************************************************************)
(* What the pages of the web client share (frontend/js): the active swaps  *)
(* in localStorage (storage.js), the encrypted seeds (seedStorage.js) and, *)
(* until the page is reloaded, the phantom agent, one object that holds    *)
(* the keys of the swap at hand (phantomAgent.js).  A request, the page's  *)
(* flow that makes it and the seed the flow draws have one name.           *)
(***************************************************************************)
EXTENDS Naturals, Sequences, TLC

CONSTANTS WebMint, WebBurn, Nobody,
          MaxMishaps         \* bounds reloads, refused signatures, waits that run out, checks of
                             \* the hub by an open page, and the requests whose timeout or
                             \* deadline passes, together

WebRequest == WebMint \cup WebBurn

ASSUME WebAssumption ==
  /\ WebMint \cap WebBurn = {} /\ Nobody \notin WebRequest
  /\ MaxMishaps \in Nat

VARIABLES records,        \* the active swaps, the most recent one last
          seeds,          \* the seeds in the encrypted store
          agents,         \* the agent objects of this page, named by who made them
          agentInstance,  \* the singleton
          history,        \* the burns in the history
          lostSeeds,      \* history: seeds the user did not sign for, or a reload cut off
          pageFaults

storageVars == <<records, seeds, agents, agentInstance, history, lostSeeds, pageFaults>>

NewRecord == [id |-> Nobody, kind |-> "none", state |-> "none",
              key |-> Nobody, claim |-> Nobody, addr |-> Nobody]
NoAgent == [key |-> Nobody, secret |-> FALSE]

Filed(r) == {i \in DOMAIN records : records[i].id = r}
Record(r) == records[CHOOSE i \in Filed(r) : \A j \in Filed(r) : i <= j]

\* addOrUpdateActiveSwap with a request: over its entry, over an entry without a
\* request of the same type, or at the end.
AddOrUpdate(swaps, updates) ==
  LET same == {i \in DOMAIN swaps : swaps[i].id = updates.id}
      temp == {i \in DOMAIN swaps : swaps[i].id = Nobody /\ swaps[i].kind = updates.kind}
      at == IF same # {} THEN same ELSE temp
      First == CHOOSE i \in at : \A j \in at : i <= j IN
  IF at = {} THEN Append(swaps, updates @@ NewRecord)
             ELSE [swaps EXCEPT ![First] = updates @@ @]

\* updateSwapState without a request: the most recent entry, whosever it is.
LatestOf(swaps, updates) ==
  IF swaps = <<>> THEN <<updates @@ NewRecord>>
                  ELSE [swaps EXCEPT ![Len(swaps)] = updates @@ @]
UpdateLatest(updates) == LatestOf(records, updates)

\* updateSwapState with a request.  A new entry has no type.
UpdateOf(r, updates) ==
  IF Filed(r) = {} THEN AddOrUpdate(records, updates @@ [id |-> r, kind |-> "none"])
  ELSE AddOrUpdate(records, updates @@ [id |-> r])

RemoveActiveSwap(r) == SelectSeq(records, LAMBDA s : s.id # r)
ClearActiveSwap == <<>>

\* resetPhantomAgent keeps the key set of the object it lets go.
ResetThenNewAgent(f) ==
  /\ agentInstance' = f
  /\ agents' = [a \in WebRequest |->
                  CASE a = f -> [key |-> f, secret |-> TRUE]
                    [] a = agentInstance /\ a # f -> [agents[a] EXCEPT !.secret = FALSE]
                    [] OTHER -> agents[a]]

\* getPhantomAgent: the object there is, or a new one.
Agent(f) == IF agentInstance = Nobody THEN f ELSE agentInstance

PageFault == pageFaults < MaxMishaps /\ pageFaults' = pageFaults + 1

\* storeSeed.  The user may refuse the signature; the caller goes on.
StoreSeed(seed) ==
  \/ /\ seeds' = seeds \cup {seed} /\ UNCHANGED <<lostSeeds, pageFaults>>
  \/ /\ PageFault /\ lostSeeds' = lostSeeds \cup {seed} /\ UNCHANGED seeds

\* loadSeed decrypts with a signature of the user what is stored under a key;
\* findAllStoredSeedKeys finds the keys.  A refused signature changes nothing.
Decrypts(key) == key \in seeds

\* loadExistingSeed into the agent.
LoadSeed(agent, seed) == agents' = [agents EXCEPT ![agent] = [key |-> seed, secret |-> TRUE]]

StorageInit ==
  /\ records = <<>> /\ seeds = {} /\ history = {} /\ lostSeeds = {}
  /\ agents = [f \in WebRequest |-> NoAgent] /\ agentInstance = Nobody
  /\ pageFaults = 0
=============================================================================
