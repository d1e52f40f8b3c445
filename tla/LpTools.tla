------------------------------- MODULE LpTools -------------------------------
(***************************************************************************)
(* What the operator of the LP server runs beside it (lp-server-js):       *)
(* recover-sweeps.js, a process of its own over the server's secrets file  *)
(* with a wallet-rpc of its own, and three scripts that send one           *)
(* transaction for a mint, mined or refused at once.                       *)
(***************************************************************************)
EXTENDS LpMints

VARIABLES recovering,   \* the entries recover-sweeps has yet to look at
          copy          \* the file as it read it, with its marks

toolVars == <<recovering, copy>>

ToolCall == Trouble("calls")

\* The file is read once, when the script starts.
RecoverStarts ==
  /\ recovering = {} /\ ToolCall
  /\ recovering' = {m \in Mint : disk[m].secret # 0} /\ copy' = disk
  /\ UNCHANGED <<chainVars, unseen, serverVars, disk>>

\* An entry without work is passed over: marked before, its user's secret not
\* public, or its secret not that of the key on the chain.  That mark is written
\* with the next entry that is not passed over.
RecoverSkips(m) ==
  /\ m \in recovering /\ recovering' = recovering \ {m}
  /\ \/ (copy[m].swept \/ copy[m].unrecoverable \/ ~mint[m].userSecret) /\ UNCHANGED copy
     \/ /\ ~copy[m].swept /\ ~copy[m].unrecoverable
        /\ mint[m].userSecret /\ copy[m].secret # posted[m]
        /\ copy' = [copy EXCEPT ![m].unrecoverable = TRUE]
  /\ UNCHANGED mintVars

\* The deposit is swept, or is not there or unconfirmed, or a call fails: the request's reading,
\* the key's (the sweep is tried then), the wallet's.  Then the whole copy goes
\* back over the file, whatever the server has saved meanwhile.
RecoverSweeps(m) ==
  LET Fits == mint[m].userSecret /\ copy[m].secret = posted[m]
      Found == Fits /\ paid[m] = posted[m] /\ m \in ripe /\ ~swept[m] IN
  /\ m \in recovering /\ recovering' = recovering \ {m}
  /\ ~copy[m].swept /\ ~copy[m].unrecoverable
  /\ \/ /\ Found /\ UNCHANGED count
        /\ copy' = [copy EXCEPT ![m].swept = TRUE] /\ swept' = [swept EXCEPT ![m] = TRUE]
     \/ /\ IF Fits /\ ~Found THEN UNCHANGED count ELSE Fault
        /\ UNCHANGED <<copy, swept>>
  /\ disk' = copy'
  /\ UNCHANGED <<mint, posted, paid, ripe, given, txs, unseen, serverVars>>

-----------------------------------------------------------------------------
(* The scripts.  None of them looks at the deposit or at the file. *)

\* manual-setMintReady.js.
ManualReady(m) == MarkReady(m)

\* finalize-mint-manual.js, run with the user's secret.
ManualFinalize(m) == RevealMint(m) \/ CompleteMint(m) \/ VoidMint(m)

\* cancel-mint.js, run for whoever asks.
ManualCancel(m) == CancelExpired(m)

Script(m) ==
  /\ ManualReady(m) \/ ManualFinalize(m) \/ ManualCancel(m)
  /\ ToolCall /\ Seen(m)
  /\ UNCHANGED <<posted, paid, ripe, swept, given, txs, serverVars, disk, toolVars>>

ToolsInit == recovering = {} /\ copy = [m \in Mint |-> NoFile]

ToolsNext ==
  RecoverStarts \/ \E m \in Mint : RecoverSkips(m) \/ RecoverSweeps(m) \/ Script(m)
=============================================================================
