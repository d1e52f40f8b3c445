\* Two sweeps and a payout over one wallet-rpc with two failures, also with the Solana
\* node's opening at import, two deposit watches, one Solana mint and burn, a mint and a
\* burn of one page with one mishap, two overlapping checks of the page's
\* watch with one failure, two positions of one vault and user, two overlapping scans
\* of three of their events with one failure.
SPECIFICATION EndpointsSpec
CONSTANTS
  p1 = p1
  s1 = s1
  s2 = s2
  Main = Main
  None = None
  Payouts = {p1}
  MintSweeps = {s1}
  BurnSweeps = {s2}
  MaxWalletFaults = 2
  w1 = w1
  w2 = w2
  NoWallet = NoWallet
  Watched = {w1, w2}
  Overlap = 1
  Lookbacks = {0, 1}
  MaxLag = 1
  MaxTip = 2
  MaxScanFaults = 1
  SolMint = {sm1}
  sm1 = sm1
  SolKey = {1, 2}
  MaxMintNodeFaults = 1
  SolBurn = {sb1}
  sb1 = sb1
  BurnKey = {1, 2}
  MaxBurnNodeFaults = 2
  m1 = m1
  b1 = b1
  Nobody = Nobody
  WebMint = {m1}
  WebBurn = {b1}
  MaxMishaps = 1
  Base = 4
  Order = 13
  HdKey <- MCHdKey
  Hash <- MCHash
  Blinding = {1, 2}
  Check = {c1, c2}
  c1 = c1
  c2 = c2
  Margin = 1
  Depth = 2
  MinConf = 2
  MaxCount = 3
  MaxPageScanFaults = 1
  v1 = v1
  u1 = u1
  q1 = q1
  q2 = q2
  NoOne = NoOne
  CoVault = {v1}
  CoUser = {u1}
  Positions = {q1, q2}
  Threshold = 1
  KeeperShare = 2
  MaxLeg = 2
  MaxReturns = 1
  MaxShares = 3
  MaxDebt = 1
  a1 = a1
  a2 = a2
  NoAccount = NoAccount
  FirstAccount = a1
  WebAccount = {a1, a2}
  z1 = z1
  z2 = z2
  LogScan = {z1, z2}
  Reorg = 1
  MaxEvents = 3
  MaxScanMishaps = 1
INVARIANTS
  PositionsAccounted
  NothingDeployedInAuction
  CachedListExact
  PaymentSeen
  KeysOpenDeposit
  RightWallet
  DepositNotMissed
  ChainKeyIsSaved
  SolPaidOnce
  BurnKeysOwn
  MintKeyStored
  AutoConfirmIsPaid
  PaymentNotPassed
CHECK_DEADLOCK FALSE
