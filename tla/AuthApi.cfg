SPECIFICATION Spec
CONSTANTS
  None = None
  s1 = s1
  s2 = s2
  c1 = c1
  c2 = c2
  c3 = c3
  issuer = issuer
  forger = forger
  Session = {s1, s2}
  Connection = {c1, c2, c3}
  ConnOf <- SharedConn
  AdminConn = c1
  Serialized = TRUE
  TrustedIssuers = {issuer}
  Request <- MixedRequests
  Advice <- AllAdvice
  Clock <- Clock2
  Resubmit = FALSE
  MaxFaults = 0
  MaxCrashes = 0
INVARIANTS
  AllowedWithinMandate
  AuthorizationsAudited
PROPERTIES
  FrozenAgentsGetNothing
  EvidenceAlways
CHECK_DEADLOCK FALSE
