SPECIFICATION FairSpec
CONSTANTS
  t1 = t1
  t2 = t2
  t3 = t3
  p1 = p1
  p2 = p2
  Txs = {t1, t2, t3}
  Intents = {t1, t2}
  Publishers = {p1, p2}
  notificationWorkBatch = 1
  maxNotificationWorkers = 1
  MaxAttempts = 1
INVARIANTS AcknowledgedWasDelivered
PROPERTIES AcknowledgementIsFinal EventuallyAcknowledged
