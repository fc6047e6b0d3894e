SPECIFICATION Spec
CONSTANTS
  None = None
  Session = {s1, s2}
  EventType = {authorization, settlement}
  MaxLog = 4
INVARIANTS
  IntactChainVerifies
  EditIsFound
CHECK_DEADLOCK FALSE
