\* The address a page shows against the key the mint has on the hub: a burn that is
\* started or resumed while a mint waits for its LP works with the same agent.
SPECIFICATION WebSpec
CONSTANTS
  m1 = m1
  b1 = b1
  Nobody = Nobody
  WebMint = {m1}
  WebBurn = {b1}
  MaxMishaps = 0
INVARIANTS
  DepositAddressIsOwn
CHECK_DEADLOCK FALSE
