\* The mint pipeline alone: a secret is lost after one failed call.
SPECIFICATION LpServerSpec
CONSTANTS
  Parts = {"mints"}
  Mint = {m1}
  Key = {1, 2, 3, 4}
  Run = {r1, r2}
  RetryMax = 2
  PeriodicMax = 1
  MaxTroubles = 1
  Burn = {b1}
  Secret = {1, 2, 3}
  Job = {j1, j2, j3}
  SendRetryMax = 2
  FinalizeRetryMax = 1
  MaxBurnTroubles = 1
  Sender = {s1, s2, s3}
  Resetting = {s3}
  MaxNonce = 3
  MaxNonceTroubles = 2
  Vault = {v1, v2}
  OwnVault = v1
  MaxKicks = 2
  MaxKickTroubles = 1
INVARIANTS
  SecretKept
CHECK_DEADLOCK FALSE
