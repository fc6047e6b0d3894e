SPECIFICATION ApiFairSpec
CONSTANTS
  None = None
  w1 = w1
  w2 = w2
  event_loop = event_loop
  Session <- Threads
  Worker <- Pool
  EventLoop <- event_loop
  Txn = {t1, t2}
  Order = {o1}
  Payment = {p1, p2}
  Amount = {2}
  Price <- SamePrice
  MaxFaults = 1
  MaxRestarts = 0
  MaxRequests = 2
  Delivered = {"payment.captured", "payment.failed"}
  Settleable = {None}
  Artifact = TRUE
INVARIANTS
  ApiTypeOK
  ScoredByTheModel
PROPERTIES
  RecordedStays
  NobodyIsStuck
  CapturedSettles
  ImplementsPaymentLedger
  ImplementsSettlement

