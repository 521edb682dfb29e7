SPECIFICATION LiveSpec
CONSTANTS
  t1 = t1
  t2 = t2
  t3 = t3
  m1 = m1
  m2 = m2
  None = None
  Txs = {t1}
  Managers = {m1}
  Payload <- OnePayload
  Reverts = {"p"}
  Legacy <- NoLegacy
  Prices = {1}
  maxFeeReplacements = 2
  maxTransactionsPerLane = 1
  ReceiptReadsFail = FALSE
  LockLoss = FALSE
  StableRejection = TRUE
  Evicts = FALSE
  MaxForeign = 1
  MaxNonce = 2
  MaxFaults = 2
PROPERTY EveryTransactionCompletes
