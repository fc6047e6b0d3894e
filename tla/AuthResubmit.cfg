SPECIFICATION Spec
CONSTANTS
  None = None
  s1 = s1
  s2 = s2
  c1 = c1
  c2 = c2
  c3 = c3
  issuer = issuer
  forger = forger
  Session = {s1, s2}
  Connection = {c1, c2, c3}
  ConnOf <- SharedConn
  AdminConn = c1
  Serialized = TRUE
  TrustedIssuers = {issuer}
  Request <- ReplayRequests
  Advice <- NoAdvice
  Clock <- Clock1
  Resubmit = TRUE
  MaxFaults = 0
  MaxCrashes = 0
PROPERTIES
  EvidenceAlways
CHECK_DEADLOCK FALSE
