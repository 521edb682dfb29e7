SPECIFICATION Spec
CONSTANTS
  t1 = t1
  t2 = t2
  t3 = t3
  m1 = m1
  m2 = m2
  None = None
  Txs = {t1, t2}
  Managers = {m1}
  Payload <- OnePayload
  Reverts = {}
  Legacy <- LegacyMixed
  Prices = {1}
  maxFeeReplacements = 2
  maxTransactionsPerLane = 2
  ReceiptReadsFail = FALSE
  LockLoss = FALSE
  StableRejection = TRUE
  Evicts = FALSE
  MaxForeign = 0
  MaxNonce = 2
INVARIANT AttemptInv
PROPERTY ImplementsContract
