\* The LP server: one mint with one run at a time and one trouble, one burn with
\* three jobs and one trouble, three senders, two vaults.
SPECIFICATION LpServerSpec
CONSTANTS
  Parts = {"mints", "burns", "nonces", "kicks"}
  Mint = {m1}
  Key = {1, 2, 3}
  Run = {r1}
  RetryMax = 1
  PeriodicMax = 1
  MaxTroubles = 1
  Burn = {b1}
  Secret = {1, 2, 3}
  Job = {j1, j2, j3}
  SendRetryMax = 2
  FinalizeRetryMax = 1
  MaxBurnTroubles = 1
  Sender = {s1, s2, s3}
  Resetting = {s3}
  MaxNonce = 3
  MaxNonceTroubles = 2
  Vault = {v1, v2}
  OwnVault = v1
  MaxKicks = 2
  MaxKickTroubles = 1
INVARIANTS
  
  PaidOnce
  PaidSecretKept
  NoncesInSequence
PROPERTIES
  
  CompletedIsSwept
  CommittedIsRevealed
  OwnKickCancelled
CHECK_DEADLOCK FALSE
