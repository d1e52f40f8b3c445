---------------------------- MODULE MoneroWallet ----------------------------
(***************************************************************************)
(* The main wallet-rpc of an LP (lp-server-js/moneroWallet.js; the Solana  *)
(* node's copy is in SolanaWallet): it has one wallet open.  Payouts and sweeps wait   *)
(* for one lock; a sweep opens the wallet of the swap's address, empties   *)
(* it and restores the main wallet.  Reading an address takes no lock.     *)
(***************************************************************************)
EXTENDS Naturals, Sequences

CONSTANTS Payouts, MintSweeps, BurnSweeps,   \* the jobs; a sweep names its wallet
          Main, None,
          MaxWalletFaults                    \* bounds failed calls and exits

Sweeps == MintSweeps \cup BurnSweeps
WalletJob == Payouts \cup Sweeps

ASSUME WalletAssumption ==
  /\ {Main, None} \cap WalletJob = {} /\ Main # None
  /\ Payouts \cap Sweeps = {} /\ MintSweeps \cap BurnSweeps = {} /\ MaxWalletFaults \in Nat

VARIABLES open, up,      \* the wallet open at the wallet-rpc, and whether it answers
          walletOpened,  \* the module's flag
          lock,          \* the promise chain: the jobs in their order
          job,           \* per job: where it is, its own walletOpened
          money,         \* per swap address: "locked", "unlocked" or "empty"
          result,        \* per job: what it reports
          spent,         \* history: the wallet a job took from
          walletFaults

walletVars == <<open, up, walletOpened, lock, job, money, result, spent, walletFaults>>

WalletFault == walletFaults < MaxWalletFaults /\ walletFaults' = walletFaults + 1
Working(j, pc) == lock # <<>> /\ Head(lock) = j /\ job[j].pc = pc
Goes(j, pc) == job' = [job EXCEPT ![j].pc = pc]
Reports(j, r) == result' = [result EXCEPT ![j] = r]
Finish(j) == Goes(j, "done") /\ lock' = Tail(lock)

\* Mutant: a burn's sweep does not wait for the lock.
QueueMintsOnly(j) == lock' = IF j \in BurnSweeps THEN <<j>> \o lock ELSE Append(lock, j)

\* withWalletLock.
Queue(j) == lock' = Append(lock, j)

\* A job is asked for.  The mint pipeline knows the LP's address since startup,
\* the burn handler reads one before, from whichever wallet is open.
Ask(j) ==
  /\ job[j].pc = "idle" /\ Queue(j)
  /\ j \in BurnSweeps => open # None /\ up
  /\ job' = [job EXCEPT ![j] = [pc |-> IF j \in Payouts THEN "balance" ELSE "open", opened |-> FALSE]]
  /\ UNCHANGED <<open, up, walletOpened, money, result, spent, walletFaults>>

CanPay(w) == up /\ w \in {Main} \cup {i \in Sweeps : money[i] = "unlocked"}

\* sendXmr looks at the balance of the open wallet first.  A check that fails for
\* another reason than the balance does not stop the transfer.
CheckBalance(j) ==
  /\ Working(j, "balance")
  /\ \/ up /\ open # None /\ ~CanPay(open) /\ Finish(j) /\ Reports(j, "failed") /\ UNCHANGED walletFaults
     \/ (~up \/ open = None \/ CanPay(open)) /\ Goes(j, "transfer") /\ UNCHANGED <<lock, result, walletFaults>>
     \/ WalletFault /\ Goes(j, "transfer") /\ UNCHANGED <<lock, result>>
  /\ UNCHANGED <<open, up, walletOpened, money, spent>>

Transfer(j) ==
  /\ Working(j, "transfer") /\ Finish(j)
  /\ \/ /\ CanPay(open) /\ spent' = [spent EXCEPT ![j] = open] /\ Reports(j, "paid")
        /\ UNCHANGED walletFaults
     \/ ~CanPay(open) /\ Reports(j, "failed") /\ UNCHANGED <<spent, walletFaults>>
     \/ /\ WalletFault /\ Reports(j, "failed")
        /\ spent' \in {spent} \cup {[spent EXCEPT ![j] = w] : w \in {w \in {open} : CanPay(w)}}
  /\ UNCHANGED <<open, up, walletOpened, money>>

\* generate_from_keys.  The burn's sweep notes it in a variable of its own.
OpenSweepWallet(j) ==
  /\ Working(j, "open")
  /\ \/ /\ up /\ open' = j /\ UNCHANGED walletFaults
        /\ job' = [job EXCEPT ![j].pc = "look", ![j].opened = TRUE]
        /\ walletOpened' = (walletOpened \/ j \in MintSweeps)
     \/ /\ (~up /\ UNCHANGED walletFaults) \/ WalletFault
        /\ Goes(j, "restore") /\ UNCHANGED <<open, walletOpened>>
  /\ UNCHANGED <<up, lock, money, result, spent>>

\* The balance of the open wallet: nothing there or locked, and the job gives up.
LookForDeposit(j) ==
  /\ Working(j, "look")
  /\ \/ Goes(j, IF CanPay(open) THEN "sweep" ELSE "restore") /\ UNCHANGED walletFaults
     \/ WalletFault /\ Goes(j, "restore")
  /\ UNCHANGED <<open, up, walletOpened, lock, money, result, spent>>

\* sweep_all empties the open wallet.  A call that fails may have done so.
SweepAll(j) ==
  LET Emptied == /\ up /\ open # None
                 /\ money' = [i \in Sweeps |-> IF i = open THEN "empty" ELSE money[i]]
                 /\ spent' = [spent EXCEPT ![j] = open] IN
  /\ Working(j, "sweep") /\ Goes(j, "restore")
  /\ \/ Emptied /\ Reports(j, "swept") /\ UNCHANGED walletFaults
     \/ WalletFault /\ Emptied /\ UNCHANGED result
     \/ ~(up /\ open # None) /\ UNCHANGED <<money, spent, result, walletFaults>>
     \/ WalletFault /\ UNCHANGED <<money, spent, result>>
  /\ UNCHANGED <<open, up, walletOpened, lock>>

\* The finally block.  A close that fails ends it; the mint's sweep always closes
\* and clears the flag, the burn's closes only what it opened and leaves the flag.
Restore(j) ==
  LET Close == up /\ open # None /\ open' = None
      Failed == Finish(j) /\ UNCHANGED <<open, walletOpened>> IN
  /\ Working(j, "restore")
  /\ \/ /\ j \in BurnSweeps /\ ~job[j].opened
        /\ Goes(j, "ensure") /\ UNCHANGED <<open, walletOpened, lock, walletFaults>>
     \/ /\ (j \in MintSweeps \/ job[j].opened) /\ Close
        /\ walletOpened' = (walletOpened /\ j \in BurnSweeps)
        /\ Goes(j, "ensure") /\ UNCHANGED <<lock, walletFaults>>
     \/ /\ (j \in MintSweeps \/ job[j].opened) /\ ~(up /\ open # None)
        /\ Failed /\ UNCHANGED walletFaults
     \/ (j \in MintSweeps \/ job[j].opened) /\ WalletFault /\ Failed
  /\ UNCHANGED <<up, money, result, spent>>

\* ensureWalletOpen: with the flag set, nothing.  Otherwise the wallet-rpc is
\* started if it does not answer, another wallet is closed, and the main wallet
\* opened, without its cache or from its keys if need be.
EnsureOpen(j) ==
  /\ Working(j, "ensure") /\ Finish(j)
  /\ \/ walletOpened /\ UNCHANGED <<open, up, walletOpened, walletFaults>>
     \/ ~walletOpened /\ up' = TRUE /\ open' = Main /\ walletOpened' = TRUE /\ UNCHANGED walletFaults
     \/ ~walletOpened /\ WalletFault /\ up' = TRUE /\ open' \in {None, open}
        /\ UNCHANGED walletOpened
     \/ ~walletOpened /\ ~up /\ WalletFault /\ UNCHANGED <<open, up, walletOpened>>
  /\ UNCHANGED <<money, result, spent>>

\* The wallet-rpc the server spawned exits, or one it did not spawn is restarted.
WalletRpcExits ==
  /\ WalletFault /\ up /\ open' = None
  /\ \/ up' = FALSE /\ walletOpened' = FALSE
     \/ UNCHANGED <<up, walletOpened>>
  /\ UNCHANGED <<lock, job, money, result, spent>>

\* Ten blocks after the payment the money can be moved.
Unlocks(i) ==
  /\ money[i] = "locked" /\ money' = [money EXCEPT ![i] = "unlocked"]
  /\ UNCHANGED <<open, up, walletOpened, lock, job, result, spent, walletFaults>>

\* No job was asked for; deposits have unlocked or not.
NoJobs ==
  /\ lock = <<>> /\ job = [j \in WalletJob |-> [pc |-> "idle", opened |-> FALSE]]
  /\ money \in [Sweeps -> {"locked", "unlocked"}]
  /\ result = [j \in WalletJob |-> "none"] /\ spent = [j \in WalletJob |-> None]
  /\ walletFaults = 0

\* The server opens the main wallet before it starts its chains.
WalletInit == open = Main /\ up = TRUE /\ walletOpened = TRUE /\ NoJobs

WalletNext ==
  \/ \E j \in WalletJob :
       \/ Ask(j) \/ CheckBalance(j) \/ Transfer(j) \/ OpenSweepWallet(j) \/ LookForDeposit(j)
       \/ SweepAll(j) \/ Restore(j) \/ EnsureOpen(j)
  \/ WalletRpcExits \/ \E i \in Sweeps : Unlocks(i)
=============================================================================
