SPECIFICATION RFairSpec
CONSTANTS
  d1 = d1  d2 = d2  d3 = d3  h1 = h1  c1 = c1  c2 = c2  w1 = w1  w2 = w2
  NULL = NULL
  Deposits = {d1, d2}
  Handlers = {h1}
  Wallet = {w1, w2}
  WalletValue <- Funding
  Named = {}
  NumKickoffs = 1
  MaxSets = 0
  MaxFailures = 1
  Callers = {c1}
  CitreaChecks = TRUE
  MaxIterations = 3
  MaxFaults = 1
INVARIANTS WalkNeverLost TakenWasFilled
PROPERTY FilledIsReimbursed
