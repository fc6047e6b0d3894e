SPECIFICATION Spec
CONSTANTS
  None = None
  s1 = s1
  s2 = s2
  c1 = c1
  c2 = c2
  c3 = c3
  issuer = issuer
  forger = forger
  Session = {s1, s2}
  Connection = {c1, c2, c3}
  ConnOf <- OwnConn
  AdminConn = c3
  Serialized = FALSE
  TrustedIssuers = {issuer}
  Request <- RaceRequests
  Advice <- AllAdvice
  Clock <- Clock1
  Resubmit = FALSE
  MaxFaults = 0
  MaxCrashes = 0
INVARIANTS
  AllowedOnce
  EvidenceAgrees
  EnforcedNotLooser
  NoncesSpentByAllows
PROPERTIES
  ImplementsSpendLedger
CHECK_DEADLOCK FALSE
