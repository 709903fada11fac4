SPECIFICATION FairSpec
CONSTANTS
  NumVerifiers = 2
  N = 2
  NumKickoffs = 2
  UserTakesAfter = 3
  OperatorTakesAfter = 2
  BridgeAmount = 100000000
  FundingAmount = 1000000
  ConfirmationThreshold = 2
  MaxReorg = 1
  MaxReorgs = 2
INVARIANTS TypeOK CompletedTxsValid RelayPolicyMet AcceptedDepositsStay
PROPERTY DepositSettles
