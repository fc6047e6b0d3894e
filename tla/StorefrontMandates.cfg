SPECIFICATION Spec
CONSTANTS
  None = None
  DEMO_CATALOG <- MCCatalog
  NewPrice <- MCNewPrice
  UnknownSku = "SKU-NONE"
  BuyerCap <- MCBuyerCap
  Intent <- MCIntent
  BaseSku = {"SKU-SHOE-01"}
  CartClaims <- MCCarts
  DemoVariant = {}
  AttackClass = {}
  Ttl = 1
  DemoCap = 50
  Discount = 5
  Clock = {1}
  MaxCalls = 2
  MaxStarts = 1
  MaxFaults = 0
INVARIANTS
  MandateRowKept
CHECK_DEADLOCK FALSE
