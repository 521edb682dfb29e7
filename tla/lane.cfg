SPECIFICATION Spec
CONSTANTS
  t1 = t1
  t2 = t2
  t3 = t3
  m1 = m1
  m2 = m2
  None = None
  Txs = {t1, t2}
  Managers = {m1, m2}
  Payload <- OnePayload
  Reverts = {}
  Legacy <- NoLegacy
  Prices = {1}
  maxFeeReplacements = 1
  maxTransactionsPerLane = 2
  ReceiptReadsFail = TRUE
  LockLoss = FALSE
  StableRejection = TRUE
  Evicts = FALSE
  MaxForeign = 1
  MaxNonce = 2
SYMMETRY Symmetry
INVARIANTS TypeOK NonceHasOneOwner NoCascade BroadcastIsDurable
PROPERTY ReleasesOnlyTip
