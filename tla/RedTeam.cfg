SPECIFICATION Spec
CONSTANTS
  None = None
  Category = {footwear, wearables, apparel}
  Footwear = footwear
  Wearables = wearables
  IssuerKey = issuer
  AgentKey = agent
  Cap = 3
  OodCaps <- MCOodCaps
  LegitCaps <- MCLegitCaps
  FuzzMax = 3
INVARIANTS
  EveryAttackNamesItsCode
  NoFalseBlock
  FeaturesMirrorGate
  HeldForMarkersOnly
  AttackIsExplained
