---------------------------- MODULE SolanaWallet ----------------------------
(***************************************************************************)
(* The wallet of the Solana node (solana/lp-server/moneroWallet.js), a     *)
(* copy of the LP server's.  Here nobody waits for the main wallet: the    *)
(* module opens it when it is imported, without the lock, while the node   *)
(* already scans for mints and burns.  MONERO_SPEND_KEY is configured.     *)
(***************************************************************************)
EXTENDS MoneroWallet

VARIABLES opening,   \* where the opening at import is
          early      \* history: the jobs asked for before it was over

solWalletVars == <<walletVars, opening, early>>

\* walletRpc: nothing answers, or three attempts failed.
CallFails == (~up /\ UNCHANGED walletFaults) \/ WalletFault

-----------------------------------------------------------------------------
(* The opening at import. *)

OpeningGoes(pc) == opening' = pc /\ UNCHANGED <<early, lock, job, money, result, spent>>

\* The wallet-rpc answers, or is started, or cannot be.
Reach ==
  /\ opening = "reach" /\ UNCHANGED <<open, walletOpened>>
  /\ \/ up' = TRUE /\ OpeningGoes("look") /\ UNCHANGED walletFaults
     \/ ~up /\ WalletFault /\ OpeningGoes("done") /\ UNCHANGED up

\* get_address tells whose wallet is open.
Look ==
  /\ opening = "look" /\ UNCHANGED <<open, up>>
  /\ \/ /\ up /\ open = Main /\ walletOpened' = TRUE
        /\ OpeningGoes("done") /\ UNCHANGED walletFaults
     \/ /\ up /\ open \notin {Main, None} /\ OpeningGoes("close")
        /\ UNCHANGED <<walletOpened, walletFaults>>
     \/ /\ (open = None /\ UNCHANGED walletFaults) \/ CallFails
        /\ OpeningGoes("open") /\ UNCHANGED walletOpened

\* close_wallet, on whichever wallet is open by now.
Close ==
  /\ opening = "close" /\ OpeningGoes("open") /\ UNCHANGED <<up, walletOpened>>
  /\ \/ up /\ open' = None /\ UNCHANGED walletFaults
     \/ CallFails /\ UNCHANGED open

\* open_wallet, again without the cache, or generate_from_keys: over what is open.
OpenMain ==
  /\ opening = "open" /\ OpeningGoes("done") /\ UNCHANGED up
  /\ \/ up /\ open' = Main /\ walletOpened' = TRUE /\ UNCHANGED walletFaults
     \/ CallFails /\ open' \in {None, open} /\ walletOpened' = FALSE

-----------------------------------------------------------------------------
(* The jobs: payouts of burns and sweeps of mints.  sweepBurnShared is never *)
(* asked for.                                                                *)

SolWalletJob == Payouts \cup MintSweeps

SolAsk(j) ==
  /\ Ask(j) /\ early' = (IF opening = "done" THEN early ELSE early \cup {j})
  /\ UNCHANGED opening

SolSend(j) == (CheckBalance(j) \/ Transfer(j)) /\ UNCHANGED <<opening, early>>

SolOpenSweepWallet(j) == OpenSweepWallet(j) /\ UNCHANGED <<opening, early>>

SolSweep(j) ==
  (LookForDeposit(j) \/ SweepAll(j) \/ Restore(j)) /\ UNCHANGED <<opening, early>>

\* ensureWalletOpen joins an opening that runs, and takes its outcome.
SolEnsureOpen(j) ==
  /\ \/ (opening = "done" \/ walletOpened) /\ EnsureOpen(j)
     \/ /\ opening # "done" /\ ~walletOpened /\ Working(j, "ensure") /\ Goes(j, "joined")
        /\ UNCHANGED <<open, up, walletOpened, lock, money, result, spent, walletFaults>>
     \/ /\ opening = "done" /\ Working(j, "joined") /\ Finish(j)
        /\ UNCHANGED <<open, up, walletOpened, money, result, spent, walletFaults>>
  /\ UNCHANGED <<opening, early>>

\* The node starts: a wallet-rpc that outlived the last one may have a sweep's
\* wallet open.
SolWalletInit ==
  /\ NoJobs /\ walletOpened = FALSE /\ opening = "reach" /\ early = {}
  /\ up \in BOOLEAN /\ open \in {None} \cup (IF up THEN {Main} \cup MintSweeps ELSE {})

SolWalletNext ==
  \/ Reach \/ Look \/ Close \/ OpenMain
  \/ \E j \in SolWalletJob :
       SolAsk(j) \/ SolSend(j) \/ SolOpenSweepWallet(j) \/ SolSweep(j) \/ SolEnsureOpen(j)
  \/ (WalletRpcExits \/ \E i \in MintSweeps : Unlocks(i)) /\ UNCHANGED <<opening, early>>

-----------------------------------------------------------------------------
\* Money moves from the wallet it should: a sweep that reports success emptied
\* its own address, whatever fails, and a payout comes out of the main wallet if
\* nothing fails (withWalletLock and the finally blocks, moneroWallet.js); on
\* Solana, of jobs the opening at import does not overtake.
RightWallet ==
  \A j \in WalletJob \ early :
    /\ j \in Sweeps /\ result[j] = "swept" => spent[j] = j
    /\ j \in Payouts /\ walletFaults = 0 => spent[j] \in {Main, None}
=============================================================================
