------------------------------ MODULE PageScan ------------------------------
(***************************************************************************)
(* How the page of a burn's user finds the LP's payment and confirms it    *)
(* (frontend/js/burnFlow.js, confirmMoneroLock): a check every ten seconds *)
(* scans new blocks until it has a transaction, then asks for it until it  *)
(* is deep enough.  A check is cut where the code awaits, and the next one *)
(* does not wait for it.  The button confirms without a check.             *)
(***************************************************************************)
EXTENDS Naturals

CONSTANTS Check,            \* the checks that may run at once
          Margin, Depth,    \* blocks before the proposal, or before now: 20 and 50
          MinConf,          \* confirmations, 2
          MaxCount, MaxPageScanFaults   \* bound the blocks and the failed calls

ASSUME PageScanAssumption ==
  /\ Check # {} /\ {"button", "nobody"} \cap Check = {}
  /\ {Margin, Depth, MinConf, MaxCount, MaxPageScanFaults} \subseteq Nat /\ Margin <= Depth

\* Two transactions pay the shared address: the LP's, and one that is too small.
Payment == {"whole", "small"}
Runner == Check \cup {"button"}

VARIABLES count,        \* Monero's block count
          told,         \* does the small one tell its amount?  A sender may leave it out, or
                        \* write another than it commits to, or lock the output
          paidAt,       \* per transaction: the count when it was mined, 0 for not yet
          proposed,     \* the burn on the hub
          page,         \* the flow: its state, the heights, the transaction, its timers
          runner,       \* per check and for the button: where it is, its range
          unread,       \* history: the blocks a scan went over without reading them
          noted,        \* history: the count when the page set its first block
          committedBy,  \* history: who confirmed
          pageScanFaults

pageScanVars == <<count, told, paidAt, proposed, page, runner, unread, noted, committedBy,
                  pageScanFaults>>

Less(a, b) == IF a >= b THEN a - b ELSE 0
ScanCallFails == pageScanFaults < MaxPageScanFaults /\ pageScanFaults' = pageScanFaults + 1
PageAt(state) == page.state = state
\* getHeight and daemonRpc, with one retry after another daemon was looked for.
getHeight == count
RunnerAt(r, pc) == runner[r].pc = pc
RunnerTo(r, pc) == runner' = [runner EXCEPT ![r].pc = pc]
Idle == [pc |-> "idle", from |-> 0, to |-> 0]
MoneroChain == UNCHANGED <<count, told, paidAt>>
PageHistory == UNCHANGED <<unread, noted>>

---------------------------------------------------------------------------
(* Monero, the hub, the LP. *)

\* A block is mined, with some of the transactions.
MineBlock ==
  /\ count < MaxCount /\ count' = count + 1
  /\ \E paying \in SUBSET {p \in Payment : paidAt[p] = 0} :
       paidAt' = [p \in Payment |-> IF p \in paying THEN count ELSE paidAt[p]]
  /\ UNCHANGED <<told, proposed, page, runner, unread, noted, committedBy, pageScanFaults>>

\* The deadline passes; the LP abandons the burn.
LpAbandons ==
  /\ proposed = "proposed" /\ proposed' = "abandoned" /\ MoneroChain /\ PageHistory
  /\ UNCHANGED <<page, runner, committedBy, pageScanFaults>>

---------------------------------------------------------------------------
(* The page. *)

\* waitForLPProposal sees the proposal, or what came after it, and notes Monero's
\* height, if it is told.
SeeProposal ==
  /\ PageAt("propose")
  /\ \/ page' = [page EXCEPT !.state = "confirm", !.height = getHeight] /\ UNCHANGED pageScanFaults
     \/ ScanCallFails /\ page' = [page EXCEPT !.state = "confirm"]
  /\ noted' = count
  /\ UNCHANGED <<count, told, paidAt, proposed, runner, unread, committedBy>>

\* Mutant: the scan starts at the height noted with the proposal.
RestoreAtPropose == page.height

RestoreHeight == Less(page.height, Margin)

\* confirmMoneroLock: where the scan starts; the timers; the button.
BeginWatch ==
  /\ PageAt("confirm")
  /\ LET Begins(h) == page' = [page EXCEPT !.state = "watch", !.cursor = h,
                                 !.scanTimer = TRUE, !.watchTimer = TRUE, !.button = TRUE]
     IN \/ page.height # 0 /\ Begins(RestoreHeight) /\ UNCHANGED <<pageScanFaults, noted>>
        \/ page.height = 0 /\ Begins(Less(getHeight, Depth)) /\ noted' = count /\ UNCHANGED pageScanFaults
        \/ page.height = 0 /\ ScanCallFails /\ Begins(0) /\ UNCHANGED noted
  /\ MoneroChain /\ UNCHANGED <<proposed, runner, unread, committedBy>>

\* pollDaemonScan, by the timer, over at once when the burn is confirmed: without a
\* transaction it asks for the height (getHeight, with the one retry of daemonRpc) and
\* scans from the cursor, if there is a new block.
Poll(c) ==
  /\ RunnerAt(c, "idle") /\ page.scanTimer /\ ~page.confirmed
  /\ page.tx = "none" /\ getHeight > page.cursor
  /\ runner' = [runner EXCEPT ![c] = [pc |-> "scan", from |-> page.cursor, to |-> getHeight]]
  /\ MoneroChain /\ PageHistory /\ UNCHANGED <<proposed, page, committedBy, pageScanFaults>>

CursorAfter(c) == runner[c].to

\* scanBlocksForPayment: a block, or a batch of transactions, that three attempts did
\* not get, or that came back as an error, reads as empty (one at a time here), and the
\* cursor moves over it.  The first match is taken.
Scan(c) ==
  LET range == runner[c].from .. (runner[c].to - 1) IN
  /\ RunnerAt(c, "scan") /\ runner' = [runner EXCEPT ![c] = Idle]
  /\ \E failed \in {{}} \cup {{h} : h \in range} :
       LET matches == {p \in Payment : paidAt[p] # 0 /\ paidAt[p] \in range \ failed}
           First == {p \in matches : \A q \in matches : paidAt[p] <= paidAt[q]} IN
       /\ (failed = {} /\ UNCHANGED pageScanFaults) \/ (failed # {} /\ ScanCallFails)
       /\ unread' = unread \cup failed
       /\ \/ matches = {} /\ page' = [page EXCEPT !.cursor = CursorAfter(c)]
          \/ \E p \in First : page' = [page EXCEPT !.cursor = CursorAfter(c), !.tx = p, !.stored = p]
  /\ MoneroChain /\ UNCHANGED <<proposed, noted, committedBy>>

\* Mutant: any amount will do.
AnyAmount(p) == TRUE
\* res.amount == null || res.amount >= expectedAtomic: an absent amount will do, and the
\* one read (ecdhInfo) is the sender's word; the commitment and unlock_time are not read.
amountSufficient(p) == p = "whole" \/ ~told

Confirmations(p) == Less(count, paidAt[p])

\* ... with a transaction it asks for it (verifyTxPaysAddress): deep enough, and in full?
\* Then the timer is stopped and onConfirm is due; otherwise the next turn asks again.
Verify(c) ==
  /\ RunnerAt(c, "idle") /\ page.scanTimer /\ ~page.confirmed /\ page.tx # "none"
  /\ Confirmations(page.tx) >= MinConf /\ amountSufficient(page.tx)
  /\ page' = [page EXCEPT !.scanTimer = FALSE] /\ RunnerTo(c, "due")
  /\ MoneroChain /\ PageHistory /\ UNCHANGED <<proposed, committedBy, pageScanFaults>>

\* onConfirm, a second and a half after a check, or by the button.
Begin(r) ==
  /\ RunnerAt(r, "due") \/ (r = "button" /\ RunnerAt(r, "idle") /\ page.button)
  /\ RunnerTo(r, IF page.confirmed THEN "idle" ELSE "status")
  /\ MoneroChain /\ PageHistory /\ UNCHANGED <<proposed, page, committedBy, pageScanFaults>>

Cleanup == page' = [page EXCEPT !.confirmed = TRUE, !.scanTimer = FALSE,
                                !.watchTimer = FALSE, !.button = FALSE]

\* The status is read before confirmed is set: two of them may both come through.
CheckStatus(r) ==
  /\ RunnerAt(r, "status")
  /\ \/ proposed = "proposed" /\ Cleanup /\ RunnerTo(r, "send") /\ UNCHANGED pageScanFaults
     \/ proposed # "proposed" /\ RunnerTo(r, "idle") /\ UNCHANGED <<page, pageScanFaults>>
     \/ ScanCallFails /\ Cleanup /\ RunnerTo(r, "send")
  /\ MoneroChain /\ PageHistory /\ UNCHANGED <<proposed, committedBy>>

\* writeHub('confirmMoneroLock').  After a failure the button is there again; the
\* timers are not.
Send(r) ==
  /\ RunnerAt(r, "send") /\ RunnerTo(r, "idle")
  /\ \/ /\ proposed = "proposed" /\ proposed' = "committed" /\ committedBy' = r
        /\ page' = [page EXCEPT !.state = "finalize"] /\ UNCHANGED pageScanFaults
     \/ /\ proposed # "proposed" /\ page' = [page EXCEPT !.confirmed = FALSE, !.button = TRUE]
        /\ UNCHANGED <<proposed, committedBy, pageScanFaults>>
     \/ /\ ScanCallFails /\ page' = [page EXCEPT !.confirmed = FALSE, !.button = TRUE]
        /\ UNCHANGED <<proposed, committedBy>>
  /\ MoneroChain /\ PageHistory

\* The watch for an abandoned burn offers to restore the wsXMR.
OfferRestore ==
  /\ page.watchTimer /\ ~page.confirmed /\ proposed = "abandoned" /\ Cleanup
  /\ MoneroChain /\ PageHistory /\ UNCHANGED <<proposed, runner, committedBy, pageScanFaults>>

\* The page is closed, and opened again: the entry has the heights and the transaction, or it is a
\* new one, made from the hub.  Not while its transaction is pending.
Reopen ==
  /\ PageAt("watch") /\ ScanCallFails /\ \A r \in Runner : ~RunnerAt(r, "send")
  /\ \E kept \in BOOLEAN :
       page' = [page EXCEPT !.state = IF kept THEN "confirm" ELSE "propose",
                            !.height = IF kept THEN @ ELSE 0,
                            !.tx = IF kept THEN page.stored ELSE "none",
                            !.stored = IF kept THEN @ ELSE "none",
                            !.confirmed = FALSE, !.scanTimer = FALSE,
                            !.watchTimer = FALSE, !.button = FALSE]
  /\ runner' = [r \in Runner |-> Idle]
  /\ MoneroChain /\ PageHistory /\ UNCHANGED <<proposed, committedBy>>

PageScanInit ==
  /\ count = 1 /\ told \in BOOLEAN /\ paidAt = [p \in Payment |-> 0] /\ proposed = "proposed"
  /\ page = [state |-> "propose", height |-> 0, cursor |-> 0, tx |-> "none",
             stored |-> "none", confirmed |-> FALSE, scanTimer |-> FALSE,
             watchTimer |-> FALSE, button |-> FALSE]
  /\ runner = [r \in Runner |-> Idle]
  /\ unread = {} /\ noted = 0 /\ committedBy = "nobody" /\ pageScanFaults = 0

PageScanNext ==
  \/ MineBlock \/ LpAbandons \/ SeeProposal \/ BeginWatch \/ OfferRestore \/ Reopen
  \/ /\ PageAt("watch")   \* what still runs once the burn is confirmed is left out
     /\ \/ \E c \in Check : Poll(c) \/ Scan(c) \/ Verify(c)
        \/ \E r \in Runner : Begin(r) \/ CheckStatus(r) \/ Send(r)

PageScanSpec == PageScanInit /\ [][PageScanNext]_pageScanVars

---------------------------------------------------------------------------
(* Properties. *)

\* What confirms without the user has seen a payment, deep enough, that is whole or whose
\* sender withheld or misstated its amount: one that tells its amount and is too small
\* never will do, whatever checks run at once, fail or go on after a reload.
AutoConfirmIsPaid ==
  committedBy \in Check =>
    \E p \in Payment :
      (told => p = "whole") /\ paidAt[p] # 0 /\ count >= paidAt[p] + MinConf

\* A payment the scan has passed without finding any was in a block it could not read
\* ("a silently-dropped block/batch would miss the payment tx entirely"), or had been
\* mined longer before the page looked than the margin covers.
PaymentNotPassed ==
  \A p \in Payment :
    PageAt("watch") /\ page.tx = "none" /\ paidAt[p] # 0 /\ paidAt[p] < page.cursor =>
      paidAt[p] \in unread \/ paidAt[p] + Margin < noted
=============================================================================
