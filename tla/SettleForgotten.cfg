SPECIFICATION LiveSpec
CONSTANTS
  None = None
  script_thread = script_thread
  Session <- Threads
  Script <- script_thread
  Txn = {t1, t2}
  Order = {o1, o2}
  Payment = {p1, p2}
  Amount = {1, 2}
  Price <- SamePrice
  MaxFaults = 0
  MaxRestarts = 0
  Attempts = 2
PROPERTIES
  RunAgainReconciles
CHECK_DEADLOCK FALSE
