\* One vault, one user and two positions: a withdrawal after an auction.
SPECIFICATION CoLPSpec
CONSTANTS
  v1 = v1
  u1 = u1
  q1 = q1
  q2 = q2
  NoOne = NoOne
  CoVault = {v1}
  CoUser = {u1}
  Positions = {q1,q2}
  Threshold = 1
  KeeperShare = 2
  MaxLeg = 2
  MaxShares = 3
  MaxDebt = 1
  MaxReturns = 1
PROPERTY
  WithdrawalLeavesCovered
CHECK_DEADLOCK FALSE
