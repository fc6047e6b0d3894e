SPECIFICATION Spec
CONSTANTS
  None = None
  Session = {s1, s2}
  Txn = {t1, t2}
  Order = {o1, o2}
  Payment = {p1, p2}
  Amount = {1, 2}
  Price <- SamePrice
  MaxFaults = 1
  MaxRestarts = 1
INVARIANTS
  SettlementAudited
  SettledIsCaptured
  NoDoubleCharge
  OnlyAuthorizedOrdered
PROPERTIES
  SettledStays
CHECK_DEADLOCK FALSE
