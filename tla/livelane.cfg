SPECIFICATION LiveSpec
CONSTANTS
  t1 = t1
  t2 = t2
  t3 = t3
  m1 = m1
  m2 = m2
  None = None
  Txs = {t1, t2}
  Managers = {m1}
  Payload <- OnePayload
  Reverts = {"p"}
  Legacy <- LegacyUnsigned
  Prices = {1}
  maxFeeReplacements = 1
  maxTransactionsPerLane = 2
  ReceiptReadsFail = FALSE
  LockLoss = FALSE
  StableRejection = TRUE
  Evicts = FALSE
  MaxForeign = 0
  MaxNonce = 2
  MaxFaults = 1
PROPERTY EveryTransactionCompletes
