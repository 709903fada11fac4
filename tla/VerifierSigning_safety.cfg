SPECIFICATION Spec
CONSTANTS
  v1 = v1  v2 = v2  d1 = d1  d2 = d2  k1 = k1  k2 = k2  k3 = k3
  NULL = NULL
  Verifiers = {v1, v2}
  Deposits = {d1}
  N = 2
  Kickoffs = {k1, k2, k3}
  KickoffsSigned <- TwoSigned
  MinKickoffs = 1
  AggNonce = "agg"
  OtherAgg = {}
  MaxJobs = 2
  MaxNonceDraws = 1
  MaxCrashes = 1
SYMMETRY Symm
INVARIANTS NonceSignsOneMessage TakeSignedAfterSot MovedImpliesReimbursable
  MovedImpliesAgreement SignStepNotRefused
