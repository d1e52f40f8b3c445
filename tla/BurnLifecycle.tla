---------------------------- MODULE BurnLifecycle ----------------------------
(***************************************************************************)
(* What the hub promises everybody who waits for a burn request: the       *)
(* statuses, the deadlines that end them and the secret each exit makes    *)
(* public.  The LP server, the page and the liquidator are specified       *)
(* against this module, and the hub (WsXmrHub) is shown to implement it.   *)
(***************************************************************************)
EXTENDS Naturals

CONSTANT Burn

VARIABLE burn   \* status, clock: how far past its deadline, public secrets, abandoned

BurnOpen == {"REQUESTED", "PROPOSED", "COMMITTED"}
BurnEnded == {"COMPLETED", "SLASHED", "CANCELLED"}

\* clock: "open" before the deadline, "late" after it, "over" when the grace
\* the LP has to finalize a commitment has passed too.
NoBurn == [status |-> "INVALID", clock |-> "open",
           userSecret |-> FALSE, lpSecret |-> FALSE, abandoned |-> FALSE]

BurnMoves(b, from, n) == burn[b].status = from /\ burn' = [burn EXCEPT ![b] = n]
At(b, status) == [burn[b] EXCEPT !.status = status, !.clock = "open"]
Open(b) == burn[b].clock = "open"
Over(b) == burn[b].clock = "over"

BurnInit == burn = [b \in Burn |-> NoBurn]

RequestBurn(b) == BurnMoves(b, "INVALID", At(b, "REQUESTED"))
ProposeHash(b) == Open(b) /\ BurnMoves(b, "REQUESTED", At(b, "PROPOSED"))
ConfirmLock(b) == Open(b) /\ BurnMoves(b, "PROPOSED", At(b, "COMMITTED"))

\* revealBurnSecret alone, and finalizeBurn or settleBurn.
RevealBurn(b) ==
  /\ ~Over(b) /\ ~burn[b].lpSecret
  /\ BurnMoves(b, "COMMITTED", [burn[b] EXCEPT !.lpSecret = TRUE])
FinalizeBurn(b) ==
  /\ burn[b].lpSecret \/ ~Over(b)
  /\ BurnMoves(b, "COMMITTED", [At(b, "COMPLETED") EXCEPT !.lpSecret = TRUE])

\* The LP is late: par for a commitment or a request never answered.
ClaimSlashed(b) ==
  /\ Over(b) /\ ~burn[b].lpSecret
  /\ BurnMoves(b, "COMMITTED", [At(b, "SLASHED") EXCEPT !.userSecret = TRUE])
ForceSettle(b) == ~Open(b) /\ BurnMoves(b, "REQUESTED", At(b, "SLASHED"))

\* The wsXMR comes back: nothing was proposed, or for the user's key half.
AbortBurn(b) == ~Open(b) /\ BurnMoves(b, "REQUESTED", At(b, "CANCELLED"))
ResolveDeclined(b) ==
  \/ ~Open(b) /\ BurnMoves(b, "PROPOSED", [At(b, "CANCELLED") EXCEPT !.userSecret = TRUE])
  \/ /\ burn[b].abandoned
     /\ BurnMoves(b, "CANCELLED", [burn[b] EXCEPT !.userSecret = TRUE, !.abandoned = FALSE])
AbandonProposed(b) ==
  ~Open(b) /\ BurnMoves(b, "PROPOSED", [At(b, "CANCELLED") EXCEPT !.abandoned = TRUE])

\* An auction opens on the vault: every burn in flight ends at once.
SettleByAuction(S) ==
  /\ \A b \in S : burn[b].status \in BurnOpen
  /\ burn' = [b \in Burn |->
       IF b \notin S THEN burn[b]
       ELSE At(b, IF burn[b].status # "COMMITTED" THEN "CANCELLED"
                  ELSE IF burn[b].lpSecret THEN "COMPLETED" ELSE "SLASHED")]

\* Time passes over some deadlines, and over some grace periods.
PassDeadlines(S) ==
  /\ \A b \in S : burn[b].status \in BurnOpen /\ (Open(b) \/ burn[b].status = "COMMITTED")
  /\ \A b \in S : burn[b].clock # "over"
  /\ burn' = [b \in Burn |->
       IF b \in S THEN [burn[b] EXCEPT !.clock = IF @ = "open" THEN "late" ELSE "over"]
       ELSE burn[b]]

BurnSteps(b) ==
  \/ RequestBurn(b) \/ ProposeHash(b) \/ ConfirmLock(b) \/ RevealBurn(b) \/ FinalizeBurn(b)
  \/ ClaimSlashed(b) \/ ForceSettle(b) \/ AbortBurn(b) \/ ResolveDeclined(b) \/ AbandonProposed(b)

BurnLifecycleNext ==
  \/ \E b \in Burn : BurnSteps(b)
  \/ \E S \in SUBSET Burn : SettleByAuction(S) \/ PassDeadlines(S)

BurnLifecycleSpec == BurnInit /\ [][BurnLifecycleNext]_burn
=============================================================================
