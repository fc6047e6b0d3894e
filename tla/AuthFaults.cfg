SPECIFICATION FairSpec
CONSTANTS
  None = None
  s1 = s1
  s2 = s2
  c1 = c1
  c2 = c2
  c3 = c3
  issuer = issuer
  forger = forger
  Session = {s1, s2}
  Connection = {c1, c2, c3}
  ConnOf <- OwnConn
  AdminConn = c3
  Serialized = FALSE
  TrustedIssuers = {issuer}
  Request <- OneRequest
  Advice <- NoAdvice
  Clock <- Clock1
  Resubmit = TRUE
  MaxFaults = 1
  MaxCrashes = 1
INVARIANTS
  IInv
PROPERTIES
  EveryCallReturns
  LedgerOnlyGrows
CHECK_DEADLOCK FALSE
