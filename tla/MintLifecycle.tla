---------------------------- MODULE MintLifecycle ----------------------------
(***************************************************************************)
(* What the hub promises everybody who waits for a mint request: the       *)
(* statuses it goes through, which of them a timeout ends, and which       *)
(* secret is public after which exit.  Vaults and money are left out; the  *)
(* servers and the page are specified against this module, and the hub     *)
(* (WsXmrHub) is shown to implement it.                                    *)
(***************************************************************************)
EXTENDS Naturals

CONSTANT Mint

VARIABLE mint   \* status, expired: the timeout of the status has passed, public secrets

MintWaiting == {"PENDING", "KEY_PROVIDED", "READY", "KEY_CANCELLED", "EXPIRED_READY"}
MintEnded == {"COMPLETED", "CANCELLED"}

NoMint == [status |-> "INVALID", expired |-> FALSE, userSecret |-> FALSE, lpSecret |-> FALSE]

\* m reaches a status, and its timeout, if the status has one, starts anew.
MintMoves(m, status) == [mint[m] EXCEPT !.status = status, !.expired = FALSE]

Moves(m, from, to) ==
  /\ mint[m].status = from
  /\ mint' = [mint EXCEPT ![m] = MintMoves(m, to)]
InTime(m) == ~mint[m].expired

MintInit == mint = [m \in Mint |-> NoMint]

RequestMint(m) == Moves(m, "INVALID", "PENDING")
ProvideKey(m) == Moves(m, "PENDING", "KEY_PROVIDED") /\ InTime(m)
MarkReady(m) == Moves(m, "KEY_PROVIDED", "READY") /\ InTime(m)

\* The user's secret may come late, as long as nobody has expired the request.
RevealMint(m) ==
  /\ mint[m].status = "READY"
  /\ mint' = [mint EXCEPT ![m] = [MintMoves(m, "SECRET_REVEALED") EXCEPT !.userSecret = TRUE]]

CompleteMint(m) == Moves(m, "SECRET_REVEALED", "COMPLETED")
\* The vault was auctioned in between: no wsXMR, the user is paid by the bond.
VoidMint(m) == Moves(m, "SECRET_REVEALED", "CANCELLED")

\* cancelMint, after the timeout.
CancelExpired(m) ==
  /\ mint[m].expired
  /\ \/ Moves(m, "PENDING", "CANCELLED")
     \/ Moves(m, "KEY_PROVIDED", "KEY_CANCELLED")
     \/ Moves(m, "READY", "EXPIRED_READY")

\* The LP takes the griefing deposit for its secret: abandonKeyProvidedMint
\* before or after the cancellation, claimGriefingDeposit after a READY expired.
PublishLpSecret(m) ==
  /\ \/ mint[m].status = "KEY_PROVIDED" /\ mint[m].expired
     \/ mint[m].status \in {"KEY_CANCELLED", "EXPIRED_READY"} /\ InTime(m)
  /\ mint' = [mint EXCEPT ![m] = [MintMoves(m, "CANCELLED") EXCEPT !.lpSecret = TRUE]]

\* The LP stayed silent for the claim window: the user takes deposit and bond.
ReclaimMint(m) ==
  /\ mint[m].status \in {"KEY_CANCELLED", "EXPIRED_READY"} /\ mint[m].expired
  /\ mint' = [mint EXCEPT ![m] = MintMoves(m, "CANCELLED")]

\* Time passes: the timeouts of some of the waiting requests pass.
ExpireMints(S) ==
  /\ \A m \in S : mint[m].status \in MintWaiting /\ InTime(m)
  /\ mint' = [m \in Mint |-> IF m \in S THEN [mint[m] EXCEPT !.expired = TRUE] ELSE mint[m]]

MintSteps(m) ==
  \/ RequestMint(m) \/ ProvideKey(m) \/ MarkReady(m) \/ RevealMint(m)
  \/ CompleteMint(m) \/ VoidMint(m) \/ CancelExpired(m) \/ PublishLpSecret(m) \/ ReclaimMint(m)

MintLifecycleNext == (\E m \in Mint : MintSteps(m)) \/ (\E S \in SUBSET Mint : ExpireMints(S))

MintLifecycleSpec == MintInit /\ [][MintLifecycleNext]_mint
=============================================================================
