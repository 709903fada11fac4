SPECIFICATION Spec
CONSTANTS
  o1 = o1  o2 = o2  b1 = b1  b2 = b2  b3 = b3  h1 = h1  h2 = h2  h3 = h3  u1 = u1  u2 = u2
  NULL = NULL
  Withdrawals = {u1, u2}
  Operators = {o1, o2}
  Handlers = {h1, h2, h3}
  Coins = {b1, b2, b3}
  Owner <- Wallets
  Amounts <- Edges
  BridgeAmount = 300000
  WithdrawalFee = 40000
  DustValue = 550
  U64 = 1048576
  CitreaChecks = FALSE
CHECK_DEADLOCK FALSE
SYMMETRY Symm
INVARIANT ProfitCheckDoesNotPanic
