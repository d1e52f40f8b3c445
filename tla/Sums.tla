-------------------------------- MODULE Sums --------------------------------
(***************************************************************************)
(* Sums of natural numbers indexed by request ids 1..n.  The accounting    *)
(* of the hub is a set of ledgers that must equal sums over the requests   *)
(* and vaults; Sum is written as a recursive function, so that the lemmas  *)
(* of SumsProofs can be proved about it.                                   *)
(***************************************************************************)
EXTENDS Naturals

\* The prefix sums of f: Prefix(f, n)[i] = f[1] + ... + f[i].
Prefix(f, n) ==
  LET s[i \in 0..n] == IF i = 0 THEN 0 ELSE s[i-1] + f[i]
  IN  s

\* f[1] + ... + f[n].
Sum(f, n) == Prefix(f, n)[n]

\* The sum of f[i] over the members i of S, a subset of 1..n.
SumOn(S, f, n) == Sum([i \in 1..n |-> IF i \in S THEN f[i] ELSE 0], n)
=============================================================================
