\* A node that may lack a Monero wallet, with no failure at all.
SPECIFICATION SolBurnSpec
CONSTANTS
  SolBurn = {sb1}
  sb1 = sb1
  BurnKey = {1, 2}
  MaxBurnNodeFaults = 0
INVARIANTS
  CompletedIsPaid
CHECK_DEADLOCK FALSE
