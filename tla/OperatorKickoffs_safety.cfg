SPECIFICATION Spec
CONSTANTS
  d1 = d1  d2 = d2  d3 = d3  h1 = h1  h2 = h2  w1 = w1  w2 = w2  w3 = w3
  NULL = NULL
  Deposits = {d1, d2, d3}
  Handlers = {h1, h2}
  Wallet = {w1, w2, w3}
  WalletValue <- Tight
  Named <- SomeNamed
  NumKickoffs = 2
  MaxSets = 2
  MaxFailures = 2
SYMMETRY Symm
INVARIANTS TypeOK KickoffsDistinct RepliesDurable KickoffsGenerated AncestryRecorded
  ConflictOnlyOnRepeatedFunding ChangeNotNegative StartupPaysOnce
PROPERTY ImplementsRegistry
