SPECIFICATION FairSpec
CONSTANTS
  d1 = d1  d2 = d2  d3 = d3  h1 = h1  h2 = h2  w1 = w1  w2 = w2  w3 = w3
  NULL = NULL
  Deposits = {d1, d2, d3}
  Handlers = {h1, h2}
  Wallet = {w1, w2, w3}
  WalletValue <- Ample
  Named = {}
  NumKickoffs = 2
  MaxSets = 0
  MaxFailures = 1
PROPERTIES PersistentCallerServed CallsEnd
