------------------------------- MODULE WsXmrHub -----------------------------
(***************************************************************************)
(* The hub: every facet on one storage, the transfers of the wsXMR token,  *)
(* and the blocks of the chain.                                            *)
(***************************************************************************)
EXTENDS VaultFacet, MintFacet, LiquidationAuctionFacet

\* wsXMR is an ERC-20 token: its holders move it as they like.
Transfer(from, to, amount) ==
  /\ from # to
  /\ wsxmr[from] >= amount
  /\ wsxmr' = [wsxmr EXCEPT ![from] = @ - amount, ![to] = @ + amount]
  /\ UNCHANGED <<timeVars, vaults, configVars, mintVars, burnVars, kickVars, globalTotalDebt,
                 requestNonce, pendingReturns, hubVars, backstopped>>

TokenNext ==
  \E from \in Senders, to \in Account, amount \in TransferAmounts : Transfer(from, to, amount)

Next == VaultNext \/ MintNext \/ BurnNext \/ AuctionNext \/ TokenNext \/ Tick

Spec == Init /\ [][Next]_vars
=============================================================================
