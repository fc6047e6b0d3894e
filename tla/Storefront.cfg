SPECIFICATION Spec
CONSTANTS
  None = None
  DEMO_CATALOG <- MCCatalog
  NewPrice <- MCNewPrice
  UnknownSku = "SKU-NONE"
  BuyerCap <- MCBuyerCap
  Intent <- MCIntent
  BaseSku = {"SKU-SHOE-01", "SKU-NONE"}
  CartClaims <- MCCarts
  DemoVariant = {"legit", "price_tamper", "over_budget", "expired", "signature_tamper", "untrusted_issuer"}
  AttackClass = {"budget", "policy", "price", "replay", "double_charge", "category", "injection", "state", "expiry"}
  Ttl = 1
  DemoCap = 50
  Discount = 5
  Clock = {1, 3}
  MaxCalls = 2
  MaxStarts = 2
  MaxFaults = 1
INVARIANTS
  TypeOK
  OfferWithinWalls
  PurchaseRefusedForCause
  AllowedCartWasSigned
  DemonstrationNamesItsCode
  FreezeEndsWithAttack
PROPERTIES
  CartSpentOnce
CHECK_DEADLOCK FALSE
