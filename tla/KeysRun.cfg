\* The LP's way back to its XMR after a declined proposal, over all keys of a group of
\* thirteen elements whose keys are two digits of base four.
SPECIFICATION KeySpec
CONSTANTS
  Base = 4
  Order = 13
  HdKey <- MCHdKey
  Hash <- MCHash
  Blinding = {1, 2}
INVARIANTS
  SharedIsSwept
CHECK_DEADLOCK FALSE
