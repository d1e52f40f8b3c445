------------------------------- MODULE LpServer -------------------------------
(***************************************************************************)
(* The LP server's parts.  They share the sender's nonces, which           *)
(* NonceManager has, and nothing else of their state: a behaviour is one   *)
(* of one part, and the parts' state spaces add instead of multiplying.    *)
(***************************************************************************)
EXTENDS LpTools, LpBurns, NonceManager, KickWatcher

CONSTANT Parts   \* the parts to run

ASSUME PartsAssumption == Parts \subseteq {"mints", "burns", "nonces", "kicks"}

VARIABLES part,   \* the part that runs
          lost    \* history: the mints whose file once lacked the secret of their key

restVars == <<part, auto, lost>>
lpVars == <<mintVars, toolVars, burnVars, nonceVars, kickVars, restVars>>

Nothing == [wallet |-> FALSE, binds |-> {}, addressed |-> {}]   \* given where no mint runs

LpServerInit ==
  /\ part \in Parts /\ lost = {}
  /\ LpMintsInit /\ ToolsInit /\ (part = "mints" \/ given = Nothing)
  /\ LpBurnsInit /\ (part = "burns" \/ auto) /\ NonceInit /\ KickInit /\ funded
  /\ autocancel = seeded /\ (part = "kicks" \/ autocancel)   \* both switches on, or both off

LpServerNext ==
  \/ /\ part = "mints" /\ ((LpMintsNext /\ UNCHANGED toolVars) \/ ToolsNext)
     /\ lost' = lost \cup {m \in Mint : posted'[m] # 0 /\ disk'[m].secret # posted'[m]}
     /\ UNCHANGED <<part, auto, burnVars, nonceVars, kickVars>>
  \/ part = "burns" /\ LpBurnsNext /\ UNCHANGED <<restVars, mintVars, toolVars, nonceVars, kickVars>>
  \/ part = "nonces" /\ NonceNext /\ UNCHANGED <<restVars, mintVars, toolVars, burnVars, kickVars>>
  \/ part = "kicks" /\ KickNext /\ UNCHANGED <<restVars, mintVars, toolVars, burnVars, nonceVars>>

LpServerSpec ==
  /\ LpServerInit /\ [][LpServerNext]_lpVars
  /\ LpMintsFairness /\ LpBurnsFairness /\ KickFairness

-----------------------------------------------------------------------------
\* As long as no call fails, the file can be written and no operator interferes, the
\* hub learns that a mint's deposit is there only if the user paid to the key on the
\* chain, over crashes, restarts, lost events, refused transactions and retries.  Except
\* for the mints that are set ready unverified: those whose secret the file lost, those
\* whose address cannot be computed, and all of them where no wallet is configured
\* (server.js, processMint after the keys are posted).  And the file says swept only of
\* a deposit that is in the LP's wallet, or of a request that was cancelled (the sweeps
\* and their saves).
DepositsMatched ==
  /\ count.faults + count.unsaved + count.calls = 0 =>
       \A m \in Mint : mint[m].status = "READY" /\ Verifiable(m) =>
                         paid[m] = posted[m] \/ m \in lost
  /\ \A m \in Mint : disk[m].swept => swept[m] \/ mint[m].status = "CANCELLED"
=============================================================================
